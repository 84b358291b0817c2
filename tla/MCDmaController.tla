--------------------------- MODULE MCDmaController ---------------------------
(* An instance of DmaController: three channels whose visits differ, two       *)
(* priority orders, and waits just long enough that a poll, a block and a      *)
(* delay end at different times.                                               *)
EXTENDS DmaController

Write(force, enable, channels, ack) ==
  [force |-> force, enable |-> enable, channels |-> channels, ack |-> ack]

\* All enabled in index order; all but the first in reverse order.
Ascending == [ch \in Channels |-> 1]
Descending == [ch \in Channels |-> 7 - ch]
AllOn == [ch \in Channels |-> TRUE]
MCControlWrites ==
  {[priority |-> Ascending, enabled |-> AllOn],
   [priority |-> Descending, enabled |-> [AllOn EXCEPT ![Min(Channels)] = FALSE]]}

MCInterruptWrites ==
  {Write(FALSE, TRUE, Channels, {}), Write(FALSE, TRUE, Channels, Channels),
   Write(TRUE, FALSE, {}, {})}

MCBurstWait == [ch \in Channels |-> 2]
MCBlockWait == [ch \in Channels |-> 1]
MCBlockDelay == [ch \in Channels |-> IF ch \in {MDEC_OUT, GPU} THEN 2 ELSE IF ch = SPU THEN 1 ELSE 0]
=============================================================================
