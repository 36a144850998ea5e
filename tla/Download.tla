------------------------------ MODULE Download ------------------------------
(***************************************************************************)
(* What a download promises its caller, whatever the protocol: the blocks  *)
(* of the file appear in memory one after the other, none is ever taken    *)
(* back or changed, and the answer, given once, is either a failure or the *)
(* size of the file with all of it in memory.                              *)
(***************************************************************************)
EXTENDS Integers

CONSTANTS NumBlocks, FileSize

VARIABLES image,   \* the blocks in memory
          status   \* Running, then the answer

Running == [done |-> FALSE, size |-> 0]
Failure == [done |-> TRUE, size |-> -1]
Success == [done |-> TRUE, size |-> FileSize]

\* Memory when the first n blocks are there.
First(n) == [k \in 1..n |-> k]

Init == image = First(0) /\ status = Running

Store ==
  /\ status = Running
  /\ \E n \in 1..NumBlocks : image = First(n - 1) /\ image' = First(n)
  /\ UNCHANGED status

Finish ==
  /\ status = Running
  /\ image = First(NumBlocks)
  /\ status' = Success
  /\ UNCHANGED image

Fail ==
  /\ status = Running
  /\ status' = Failure
  /\ UNCHANGED image

Next == Store \/ Finish \/ Fail

Spec == Init /\ [][Next]_<<image, status>>
=============================================================================
