--------------------------- MODULE MCSchedulerHeap ---------------------------
(* Six event types are the smallest number at which remove_one can bring an  *)
(* event from one subtree to a place below a later parent in the other.      *)
(* The event types other than the one of the sentinel are interchangeable:   *)
(* the heap compares times only and tests types for equality.                *)
EXTENDS SchedulerHeap, TLC

MCTimes == 0 .. 1
MCSymmetry == Permutations(EventTypes \ {DefaultType})
=============================================================================
