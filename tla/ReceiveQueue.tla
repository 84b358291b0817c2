---------------------------- MODULE ReceiveQueue ----------------------------
(***************************************************************************)
(* What reading the receive buffer of a serial port promises: a queue of   *)
(* at most FifoLen bytes whose reader always gets something.  view[k] is   *)
(* the byte that the k-th read from now returns if nothing is pushed       *)
(* before: past the last byte that byte is repeated, until the buffer has  *)
(* been read round once, then it is zero.                                  *)
(***************************************************************************)
EXTENDS Integers

CONSTANTS FifoLen, Values, Zero

VARIABLES
  view,  \* the bytes the next FifoLen reads return
  len,   \* how many of them have been pushed and not been read
  read   \* the byte returned by the last read

Depths == 0 .. FifoLen - 1

Init ==
  /\ view = [k \in Depths |-> Zero]
  /\ len = 0
  /\ read = Zero

\* The byte becomes the last of the queue, in place of the last one when it is full.
Push(value) ==
  /\ view' = [k \in Depths |->
               IF k >= len \/ (len = FifoLen /\ k = FifoLen - 1) THEN value ELSE view[k]]
  /\ len' = IF len = FifoLen THEN len ELSE len + 1
  /\ UNCHANGED read

Pop ==
  /\ read' = view[0]
  /\ view' = [k \in Depths |-> IF k = FifoLen - 1 THEN Zero ELSE view[k + 1]]
  /\ len' = IF len = 0 THEN 0 ELSE len - 1

Clear ==
  /\ view' = [k \in Depths |-> Zero]
  /\ len' = 0
  /\ UNCHANGED read

Next == (\E value \in Values : Push(value)) \/ Pop \/ Clear

Spec == Init /\ [][Next]_<<view, len, read>>
=============================================================================
