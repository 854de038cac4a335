CONSTANTS
  b1 = b1
  b2 = b2
  b3 = b3
  Proc = {p1, p2}
  Buf = {x, y}
  Block = {b1, b2, b3}
  None = None
  NeedBuffer = NeedBuffer
  Val = {v, w}
  SizeOf <- Sizes
  Pages = 2
  ReadErrors = TRUE
  Sleepy = FALSE
SPECIFICATION Spec
SYMMETRY Symmetry
INVARIANTS OneBufferPerBlock FreeListsExact SleepersWillWake
PROPERTIES ImplementsBlockStore
