------------------------------ MODULE BlockStore ------------------------------
(***************************************************************************)
(* What the buffer cache promises to the file systems above it             *)
(* (sys/kern/vfs_bio.c): the blocks of a file as one store. bread() gives  *)
(* what was last written to the block, whichever of bwrite(), bawrite()    *)
(* and bdwrite() wrote it and wherever the block has been since.           *)
(***************************************************************************)
CONSTANTS Proc, Block, Val,
          None        \* a process has nothing in hand

VARIABLES content,    \* the value of every block
          seen        \* what a process was given and has not released

Init == /\ content \in [Block -> Val]
        /\ seen = [p \in Proc |-> None]

Read(p, b) == /\ seen' = [seen EXCEPT ![p] = content[b]]
              /\ UNCHANGED content

Release(p) == /\ seen' = [seen EXCEPT ![p] = None]
              /\ UNCHANGED content

(* A write gives the buffer back as well.                                  *)
Write(p, b, v) == /\ content' = [content EXCEPT ![b] = v]
                  /\ seen' = [seen EXCEPT ![p] = None]

Next == \E p \in Proc :
          \/ Release(p)
          \/ \E b \in Block : Read(p, b) \/ \E v \in Val : Write(p, b, v)

Spec == Init /\ [][Next]_<<content, seen>>
=============================================================================
