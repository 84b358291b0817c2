------------------------------- MODULE RxFifo -------------------------------
(***************************************************************************)
(* The receive buffer of a serial port (ps1-core/src/sio/rxfifo.rs): a     *)
(* ring with two indices and a length.  A byte is written to every slot    *)
(* that is not in use, a read zeroes its slot, and reading an empty ring   *)
(* moves both indices.                                                     *)
(***************************************************************************)
EXTENDS Integers

CONSTANTS
  FifoLen,  \* FIFO_LEN
  Values,   \* the bytes
  Zero      \* the byte 0

ASSUME FifoAssumption == FifoLen \in Nat \ {0} /\ Zero \in Values

VARIABLES
  values, write_idx, read_idx, len,  \* RxFifo
  read                               \* the byte the last pop returned

vars == <<values, write_idx, read_idx, len, read>>

Slots == 0 .. FifoLen - 1

Init ==
  /\ values = [i \in Slots |-> Zero]
  /\ write_idx = 0
  /\ read_idx = 0
  /\ len = 0
  /\ read = Zero

\* The slots push fills: all but those in use, or the last one of a full ring.
Filled ==
  IF len = FifoLen THEN {(write_idx - 1) % FifoLen}
  ELSE {(write_idx + n) % FifoLen : n \in 0 .. FifoLen - len - 1}

\* push
Push(value) ==
  /\ values' = [i \in Slots |-> IF i \in Filled THEN value ELSE values[i]]
  /\ IF len = FifoLen THEN UNCHANGED <<write_idx, len>>
     ELSE /\ write_idx' = (write_idx + 1) % FifoLen
          /\ len' = len + 1
  /\ UNCHANGED <<read_idx, read>>

\* pop
PopKeepsWriteIdx ==
  /\ read' = values[read_idx]
  /\ values' = [values EXCEPT ![read_idx] = Zero]
  /\ read_idx' = (read_idx + 1) % FifoLen
  /\ len' = IF len # 0 THEN len - 1 ELSE 0
  /\ UNCHANGED write_idx

Pop ==
  /\ read' = values[read_idx]
  /\ values' = [values EXCEPT ![read_idx] = Zero]
  /\ read_idx' = (read_idx + 1) % FifoLen
  /\ IF len # 0 THEN len' = len - 1 /\ UNCHANGED write_idx
     ELSE write_idx' = (read_idx + 1) % FifoLen /\ UNCHANGED len

\* clear
Clear ==
  /\ values' = [i \in Slots |-> Zero]
  /\ write_idx' = 0
  /\ read_idx' = 0
  /\ len' = 0
  /\ UNCHANGED read

Next == (\E value \in Values : Push(value)) \/ Pop \/ Clear

Spec == Init /\ [][Next]_vars
-----------------------------------------------------------------------------
TypeOK ==
  /\ values \in [Slots -> Values]
  /\ write_idx \in Slots /\ read_idx \in Slots
  /\ len \in 0 .. FifoLen
  /\ read \in Values

\* The indices and the length agree, after overflows and reads of an empty buffer too.
IndicesAgree == write_idx = (read_idx + len) % FifoLen

\* The byte that the k-th read from now returns.
View == [k \in Slots |-> values[(read_idx + k) % FifoLen]]

\* The ring implements the queue: bytes are read in the order they were pushed, an overflow
\* replaces the last one, and reads of an empty buffer repeat it.
Queue == INSTANCE ReceiveQueue WITH view <- View
RingImplementsQueue == Queue!Spec
=============================================================================
