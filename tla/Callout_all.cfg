CONSTANTS
  Fn = {f1, f2}
  Ticks = {0, 1, 2, 3}
  NCallout = 4
  MaxLate = 2
SPECIFICATION Spec
PROPERTIES ImplementsTimers
