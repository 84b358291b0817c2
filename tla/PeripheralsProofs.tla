------------------------- MODULE PeripheralsProofs --------------------------
(***************************************************************************)
(* Results about the serial ports and what is connected to them.           *)
(*                                                                         *)
(* The receive buffer implements the queue of bytes, for every length of   *)
(* the ring.  Positions in the ring are sums of two indices, so taking one *)
(* modulo FifoLen subtracts FifoLen at most once.  The invariant is that   *)
(* the two indices are len apart: push fills exactly the positions that    *)
(* are read after the bytes in use.                                        *)
(*                                                                         *)
(* A port is on time, for every transfer and acknowledge time, however     *)
(* late it catches up.  That is inductive with the types.  An operation on *)
(* the port is a function from one result (port, events, interrupt) to     *)
(* another, so each has a lemma that it keeps a result good: its two       *)
(* events agree with a port that is not late, and an interrupt of the port *)
(* has been raised or is pending behind a low acknowledge line.  Catching  *)
(* up makes a result good, what follows it keeps it good.                  *)
(*                                                                         *)
(* A conversation with a controller is whole, for every set of inputs.     *)
(* The invariant says how many bytes are still to come in each step        *)
(* (ToCome): with those that were sent, they are the ones announced.  The  *)
(* mode that decides whether sticks follow can change while buttons are    *)
(* sent, by the byte that enters config mode, so a controller that may     *)
(* enter it is in normal mode until then.                                  *)
(*                                                                         *)
(* A confirmed write is in the memory card, for every length of a sector.  *)
(* The invariant says the same of the bytes of a write in progress, and    *)
(* that the card is dirty, or the file has them, once all have come.       *)
(*                                                                         *)
(* A reader of a disc gives what is at the time it is asked for, for all   *)
(* discs.  The invariant is that what it believes is so, or that it is     *)
(* torn: its file stands at its position, it holds the hunk it names.      *)
(***************************************************************************)
EXTENDS MCPeripherals, TLAPS

LEMMA ModOfSum ==
  ASSUME NEW n \in 0 .. 2 * FifoLen - 1
  PROVE  n % FifoLen = IF n < FifoLen THEN n ELSE n - FifoLen
  BY FifoAssumption, SMTT(30)

LEMMA ModOfPrevious ==
  ASSUME NEW n \in Slots
  PROVE  (n - 1) % FifoLen = IF n = 0 THEN FifoLen - 1 ELSE n - 1
<1>1. CASE n = 0
  BY <1>1, FifoAssumption, SMTT(30)
<1>2. CASE n # 0
  <2>1. n - 1 \in 0 .. 2 * FifoLen - 1 /\ n - 1 < FifoLen
    BY <1>2, FifoAssumption DEF Slots
  <2> QED BY <1>2, <2>1, ModOfSum
<1> QED BY <1>1, <1>2

\* The slot k after slot i.
Around(i, k) == IF i + k < FifoLen THEN i + k ELSE i + k - FifoLen

LEMMA AroundIsMod ==
  ASSUME NEW i \in Slots, NEW k \in 0 .. FifoLen
  PROVE  (i + k) % FifoLen = Around(i, k) /\ Around(i, k) \in Slots
<1>1. PICK n \in 0 .. 2 * FifoLen - 1 : n = i + k
  BY FifoAssumption DEF Slots
<1>2. n % FifoLen = IF n < FifoLen THEN n ELSE n - FifoLen
  BY ModOfSum
<1>3. (i + k) % FifoLen = Around(i, k)
  BY <1>1, <1>2, FifoAssumption DEF Around, Slots
<1>4. Around(i, k) \in Slots
  BY FifoAssumption DEF Slots, Around
<1> QED BY <1>3, <1>4

\* Push fills the positions from the first unused one on, or the last one of a full ring.
LEMMA FilledByDepth ==
  ASSUME TypeOK, IndicesAgree, NEW k \in Slots
  PROVE  Around(read_idx, k) \in Filled <=> k >= len \/ (len = FifoLen /\ k = FifoLen - 1)
<1>1. /\ FifoLen \in Nat \ {0} /\ read_idx \in Slots /\ write_idx \in Slots
      /\ len \in 0 .. FifoLen /\ k \in 0 .. FifoLen
  BY FifoAssumption DEF TypeOK, Slots
<1>2. write_idx = Around(read_idx, len)
  BY <1>1, AroundIsMod DEF IndicesAgree
<1>3. CASE len = FifoLen
  <2>1. Filled = {IF read_idx = 0 THEN FifoLen - 1 ELSE read_idx - 1}
    <3>1. write_idx = read_idx
      BY <1>1, <1>2, <1>3 DEF Around, Slots
    <3> QED BY <1>1, <1>3, <3>1, ModOfPrevious DEF Filled
  <2> QED BY <1>1, <1>3, <2>1 DEF Around, Slots
<1>4. CASE len # FifoLen
  <2>1. \A n \in 0 .. FifoLen - len - 1 : (write_idx + n) % FifoLen = Around(write_idx, n)
    BY <1>1, AroundIsMod
  <2>2. Around(read_idx, k) \in Filled
          <=> \E n \in 0 .. FifoLen - len - 1 : Around(read_idx, k) = Around(write_idx, n)
    BY <1>4, <2>1 DEF Filled
  <2>3. ASSUME k >= len
        PROVE  \E n \in 0 .. FifoLen - len - 1 : Around(read_idx, k) = Around(write_idx, n)
    <3>1. k - len \in 0 .. FifoLen - len - 1 /\ Around(read_idx, k) = Around(write_idx, k - len)
      BY <1>1, <1>2, <2>3 DEF Around, Slots
    <3> QED BY <3>1
  <2>4. ASSUME k < len, NEW n \in 0 .. FifoLen - len - 1
        PROVE  Around(read_idx, k) # Around(write_idx, n)
    BY <1>1, <1>2, <2>4 DEF Around, Slots
  <2> QED BY <1>1, <1>4, <2>2, <2>3, <2>4
<1> QED BY <1>3, <1>4
-----------------------------------------------------------------------------
Inv == TypeOK /\ IndicesAgree

LEMMA Initially == Init => Inv
<1> SUFFICES ASSUME Init PROVE Inv
  OBVIOUS
<1>1. 0 \in Slots /\ 0 % FifoLen = 0
  BY FifoAssumption, ModOfSum DEF Slots
<1> QED BY <1>1, FifoAssumption DEF Init, Inv, TypeOK, IndicesAgree

\* Every operation keeps the indices len apart.
LEMMA Invariance == Inv /\ [Next]_vars => Inv'
<1> SUFFICES ASSUME Inv, [Next]_vars PROVE Inv'
  OBVIOUS
<1>1. /\ FifoLen \in Nat \ {0} /\ read_idx \in Slots /\ write_idx \in Slots
      /\ len \in 0 .. FifoLen /\ values \in [Slots -> Values] /\ read \in Values
      /\ Zero \in Values /\ 0 \in Slots /\ 1 \in 0 .. FifoLen
  BY FifoAssumption DEF Inv, TypeOK, Slots
<1>2. write_idx = Around(read_idx, len)
  BY <1>1, AroundIsMod DEF Inv, IndicesAgree
<1>3. Around(write_idx, 1) \in Slots /\ Around(read_idx, 1) \in Slots
  BY <1>1, AroundIsMod
<1>4. ASSUME NEW value \in Values, Push(value) PROVE Inv'
  <2>1. TypeOK'
    <3>1. values' \in [Slots -> Values]
      BY <1>1, <1>4 DEF Push
    <3>2. write_idx' \in Slots /\ len' \in 0 .. FifoLen
      <4>1. (write_idx + 1) % FifoLen = Around(write_idx, 1)
        BY <1>1, AroundIsMod
      <4> QED BY <1>1, <1>3, <1>4, <4>1 DEF Push
    <3> QED BY <1>1, <1>4, <3>1, <3>2 DEF TypeOK, Push
  <2>2. write_idx' = Around(read_idx', len')
    <3>1. CASE len = FifoLen
      BY <1>1, <1>2, <1>4, <3>1 DEF Push, Around
    <3>2. CASE len # FifoLen
      <4>1. write_idx' = Around(write_idx, 1) /\ len' = len + 1 /\ read_idx' = read_idx
        BY <1>1, <1>4, <3>2, AroundIsMod DEF Push
      <4> QED BY <1>1, <1>2, <3>2, <4>1 DEF Around, Slots
    <3> QED BY <3>1, <3>2
  <2> QED BY <2>1, <2>2, AroundIsMod DEF Inv, TypeOK, IndicesAgree
<1>5. ASSUME Pop PROVE Inv'
  <2>1. /\ read_idx' = Around(read_idx, 1)
        /\ write_idx' = IF len # 0 THEN write_idx ELSE Around(read_idx, 1)
        /\ len' = IF len # 0 THEN len - 1 ELSE len
    BY <1>1, <1>5, AroundIsMod DEF Pop
  <2>2. TypeOK'
    <3>1. values' \in [Slots -> Values] /\ read' \in Values
      BY <1>1, <1>5 DEF Pop
    <3> QED BY <1>1, <1>3, <2>1, <3>1 DEF TypeOK
  <2>3. write_idx' = Around(read_idx', len')
    BY <1>1, <1>2, <2>1 DEF Around, Slots
  <2> QED BY <2>2, <2>3, AroundIsMod DEF Inv, TypeOK, IndicesAgree
<1>6. ASSUME Clear PROVE Inv'
  <2>1. values' \in [Slots -> Values] /\ write_idx' = 0 /\ read_idx' = 0
        /\ len' = 0 /\ read' = read
    BY <1>1, <1>6 DEF Clear
  <2>2. 0 % FifoLen = 0
    BY <1>1, ModOfSum DEF Slots
  <2> QED BY <1>1, <2>1, <2>2 DEF Inv, TypeOK, IndicesAgree
<1>7. ASSUME UNCHANGED vars PROVE Inv'
  BY <1>7 DEF vars, Inv, TypeOK, IndicesAgree, Slots
<1> QED BY <1>4, <1>5, <1>6, <1>7 DEF Next

\* The indices and the length of the ring always agree.
THEOREM IndicesAlwaysAgree == Spec => []IndicesAgree
<1>1. Inv => IndicesAgree
  BY DEF Inv
<1> QED BY <1>1, Initially, Invariance, PTL DEF Spec
-----------------------------------------------------------------------------
\* What the next reads return, without the modulus.
LEMMA ViewIsAround ==
  ASSUME TypeOK
  PROVE  View = [k \in Slots |-> values[Around(read_idx, k)]]
<1>1. \A k \in Slots : (read_idx + k) % FifoLen = Around(read_idx, k)
  <2>1. read_idx \in Slots /\ \A k \in Slots : k \in 0 .. FifoLen
    BY FifoAssumption DEF TypeOK, Slots
  <2> QED BY <2>1, AroundIsMod
<1> QED BY <1>1 DEF View

\* Every operation on the ring is that operation on the queue.
LEMMA StepImplements == Inv /\ Inv' /\ [Next]_vars => [Queue!Next]_<<View, len, read>>
<1> SUFFICES ASSUME Inv, Inv', [Next]_vars PROVE [Queue!Next]_<<View, len, read>>
  OBVIOUS
<1>1. /\ FifoLen \in Nat \ {0} /\ read_idx \in Slots /\ len \in 0 .. FifoLen
      /\ values \in [Slots -> Values] /\ 0 \in Slots /\ 1 \in 0 .. FifoLen
  BY FifoAssumption DEF Inv, TypeOK, Slots
<1>2. View = [k \in Slots |-> values[Around(read_idx, k)]]
  BY ViewIsAround DEF Inv
<1>3. View' = [k \in Slots |-> values'[Around(read_idx', k)]]
  <2>1. \A k \in Slots : (read_idx' + k) % FifoLen = Around(read_idx', k)
    BY AroundIsMod, FifoAssumption DEF Inv, TypeOK, Slots
  <2> QED BY <2>1 DEF View
<1>4. \A k \in Slots : Around(read_idx, k) \in Slots
  BY <1>1 DEF Around, Slots
<1>5. ASSUME NEW value \in Values, Push(value) PROVE Queue!Push(value)
  <2>1. \A k \in Slots : Around(read_idx, k) \in Filled
                           <=> k >= len \/ (len = FifoLen /\ k = FifoLen - 1)
    BY FilledByDepth DEF Inv
  <2>2. read_idx' = read_idx /\ read' = read
        /\ values' = [i \in Slots |-> IF i \in Filled THEN value ELSE values[i]]
        /\ len' = IF len = FifoLen THEN len ELSE len + 1
    BY <1>5 DEF Push
  <2>3. \A k \in Slots : values'[Around(read_idx', k)]
          = IF k >= len \/ (len = FifoLen /\ k = FifoLen - 1) THEN value
            ELSE values[Around(read_idx, k)]
    BY <1>4, <2>1, <2>2
  <2>4. View' = [k \in Slots |->
                  IF k >= len \/ (len = FifoLen /\ k = FifoLen - 1) THEN value ELSE View[k]]
    BY <1>2, <1>3, <2>3
  <2> QED BY <2>2, <2>4 DEF Queue!Push, Queue!Depths, Slots
<1>6. ASSUME Pop PROVE Queue!Pop
  <2>1. /\ read' = values[read_idx] /\ read_idx' = Around(read_idx, 1)
        /\ values' = [values EXCEPT ![read_idx] = Zero]
        /\ len' = IF len = 0 THEN 0 ELSE len - 1
    BY <1>1, <1>6, AroundIsMod DEF Pop
  <2>2. View[0] = values[read_idx]
    BY <1>1, <1>2 DEF Around, Slots
  <2>3. \A k \in Slots : values'[Around(read_idx', k)]
          = IF k = FifoLen - 1 THEN Zero ELSE View[k + 1]
    <3> TAKE k \in Slots
    <3>1. CASE k = FifoLen - 1
      <4>1. Around(read_idx', k) = read_idx
        BY <1>1, <2>1, <3>1 DEF Around, Slots
      <4> QED BY <1>1, <2>1, <3>1, <4>1
    <3>2. CASE k # FifoLen - 1
      <4>1. k + 1 \in Slots
        BY <1>1, <3>2 DEF Slots
      <4>2. Around(read_idx', k) = Around(read_idx, k + 1) /\ Around(read_idx, k + 1) # read_idx
        BY <1>1, <2>1, <3>2 DEF Around, Slots
      <4>3. values'[Around(read_idx', k)] = values[Around(read_idx, k + 1)]
        BY <1>1, <1>4, <2>1, <4>1, <4>2
      <4> QED BY <1>2, <3>2, <4>1, <4>3
    <3> QED BY <3>1, <3>2
  <2>4. View' = [k \in Slots |-> IF k = FifoLen - 1 THEN Zero ELSE View[k + 1]]
    BY <1>3, <2>3
  <2> QED BY <2>1, <2>2, <2>4 DEF Queue!Pop, Queue!Depths, Slots
<1>7. ASSUME Clear PROVE Queue!Clear
  <2>1. \A k \in Slots : Around(0, k) \in Slots
    BY <1>1 DEF Around, Slots
  <2>2. View' = [k \in Slots |-> Zero]
    BY <1>3, <1>7, <2>1 DEF Clear
  <2> QED BY <1>7, <2>2 DEF Clear, Queue!Clear, Queue!Depths, Slots
<1>8. ASSUME UNCHANGED vars PROVE UNCHANGED <<View, len, read>>
  BY <1>8 DEF vars, View, Slots
<1> QED BY <1>5, <1>6, <1>7, <1>8 DEF Next, Queue!Next

\* For every length of the ring, every sequence of pushes, reads and clears gives the reader
\* what the queue promises.
THEOREM RingIsQueue == Spec => RingImplementsQueue
<1>1. Init => Queue!Init
  <2> SUFFICES ASSUME Init PROVE Queue!Init
    OBVIOUS
  <2>1. TypeOK
    BY Initially DEF Inv
  <2>2. View = [k \in Slots |-> Zero]
    <3>1. \A k \in Slots : Around(read_idx, k) \in Slots
      BY FifoAssumption DEF Init, Around, Slots
    <3> QED BY <2>1, <3>1, ViewIsAround DEF Init
  <2> QED BY <2>2 DEF Init, Queue!Init, Queue!Depths, Slots
<1> QED
  BY <1>1, Initially, Invariance, StepImplements, PTL
     DEF Spec, RingImplementsQueue, Queue!Spec
-----------------------------------------------------------------------------
(* The port: its states, and what an operation on it leads to.                 *)

TxStates ==
  {Port!Empty, Port!Queued}
    \union [state: {"Transferring"}, remaining: 1 .. TransferCycles, next: BOOLEAN]
PortStates ==
  [tx: TxStates, tx_enabled: BOOLEAN, dtr_on: BOOLEAN, dsr_interrupt_enabled: BOOLEAN,
   selected_port: Port!Ports, active: Port!ActiveDevices, ack: BOOLEAN, irq: BOOLEAN,
   pending_irq7: BOOLEAN, ack_low: 0 .. AckCycles, rx: 0 .. RxLen]
TxEvents == 0 .. TransferCycles \union {NoEvent}
IrqEvents == 0 .. AckCycles \union {NoEvent}
Results == [port: PortStates, tx_event: TxEvents, irq_event: IrqEvents, raised: BOOLEAN]

PortInvariant ==
  /\ port \in PortStates /\ behind \in 0 .. MaxBehind
  /\ tx_event \in TxEvents /\ irq_event \in IrqEvents
  /\ istat \in BOOLEAN /\ delivered \in BOOLEAN
  /\ Port!EventsAreOnTime
  /\ Port!InterruptIsDelivered

LEMMA PortConstants ==
  /\ TransferCycles \in Nat \ {0} /\ AckCycles \in Nat \ {0} /\ RxLen \in Nat \ {0}
  /\ MaxAdvance \in Nat /\ MaxBehind \in Nat /\ NoEvent \notin Nat
BY PortIsValid DEF Port!PortAssumption

\* The Sio0Tx event comes when the byte being sent is complete, for a port that is a number of
\* cycles late.
TxOnTime(r, late) ==
  r.port.tx.state = "Transferring" => r.tx_event = Port!Left(r.port.tx.remaining, late)

\* The Sio0Irq event comes when the line goes high, and the interrupt has been or will be
\* delivered.
AckOnTime(r) ==
  /\ r.port.ack_low # 0 => r.irq_event = r.port.ack_low
  /\ r.port.pending_irq7 = TRUE => r.port.ack_low # 0
  /\ r.port.irq = TRUE => \/ port.irq = TRUE /\ (delivered = TRUE \/ r.raised = TRUE)
                          \/ r.port.pending_irq7 = TRUE

\* Two results that differ in nothing the acknowledgement is about.
SameAck(q, r) ==
  /\ q.port.ack_low = r.port.ack_low /\ q.port.pending_irq7 = r.port.pending_irq7
  /\ q.port.irq = r.port.irq /\ q.irq_event = r.irq_event /\ q.raised = r.raised

LEMMA SameAckOnTime ==
  ASSUME NEW q, NEW r, SameAck(q, r), AckOnTime(r)
  PROVE  AckOnTime(q)
BY DEF SameAck, AckOnTime

\* One field of a port or of a result at a time.
LEMMA PortFields ==
  ASSUME NEW p \in PortStates
  PROVE  /\ \A v \in TxStates : [p EXCEPT !.tx = v] \in PortStates
         /\ \A v \in BOOLEAN : [p EXCEPT !.tx_enabled = v] \in PortStates
         /\ \A v \in BOOLEAN : [p EXCEPT !.dtr_on = v] \in PortStates
         /\ \A v \in BOOLEAN : [p EXCEPT !.dsr_interrupt_enabled = v] \in PortStates
         /\ \A v \in Port!Ports : [p EXCEPT !.selected_port = v] \in PortStates
         /\ \A v \in Port!ActiveDevices : [p EXCEPT !.active = v] \in PortStates
         /\ \A v \in BOOLEAN : [p EXCEPT !.ack = v] \in PortStates
         /\ \A v \in BOOLEAN : [p EXCEPT !.irq = v] \in PortStates
         /\ \A v \in BOOLEAN : [p EXCEPT !.pending_irq7 = v] \in PortStates
         /\ \A v \in 0 .. AckCycles : [p EXCEPT !.ack_low = v] \in PortStates
         /\ \A v \in 0 .. RxLen : [p EXCEPT !.rx = v] \in PortStates
BY DEF PortStates

LEMMA ResultFields ==
  ASSUME NEW r \in Results
  PROVE  /\ \A p \in PortStates : [r EXCEPT !.port = p] \in Results
         /\ \A v \in TxEvents : [r EXCEPT !.tx_event = v] \in Results
         /\ \A v \in IrqEvents : [r EXCEPT !.irq_event = v] \in Results
         /\ \A v \in BOOLEAN : [r EXCEPT !.raised = v] \in Results
         /\ r.port \in PortStates /\ r.tx_event \in TxEvents /\ r.irq_event \in IrqEvents
         /\ r.raised \in BOOLEAN
BY DEF Results
-----------------------------------------------------------------------------
(* The operations.                                                             *)

\* The acknowledge line goes high in time, and raises the interrupt that is pending.
LEMMA AckRaised ==
  ASSUME NEW r \in Results, NEW elapsed \in Nat,
         r.port.ack_low # 0 => r.irq_event = Port!Left(r.port.ack_low, elapsed),
         r.port.pending_irq7 = TRUE => r.port.ack_low # 0,
         r.port.irq = TRUE => \/ port.irq = TRUE /\ delivered = TRUE
                              \/ port.irq = TRUE /\ r.port.pending_irq7 = TRUE
  PROVE  LET q == Port!RaiseAck(r, elapsed)
         IN  /\ q \in Results /\ AckOnTime(q)
             /\ q.port.tx = r.port.tx /\ q.tx_event = r.tx_event
<1> DEFINE p == r.port
           low == Port!Left(p.ack_low, elapsed)
           q == Port!RaiseAck(r, elapsed)
<1>1. /\ p \in PortStates /\ p.ack_low \in 0 .. AckCycles /\ p.pending_irq7 \in BOOLEAN
      /\ r.port = p
  BY DEF Results, PortStates
<1>2. low \in 0 .. AckCycles
  BY <1>1, PortConstants DEF Port!Left
<1> HIDE DEF p, low
<1>3. CASE p.ack_low = 0
  <2>1. q = r
    BY <1>3 DEF Port!RaiseAck, p
  <2>2. QED
    BY <1>3, <2>1 DEF AckOnTime, p
<1>4. CASE p.ack_low # 0 /\ low # 0
  <2>1. q = [r EXCEPT !.port = [p EXCEPT !.ack_low = low]]
    BY <1>4 DEF Port!RaiseAck, p, low
  <2>2. [p EXCEPT !.ack_low = low] \in PortStates
    BY <1>1, <1>2, PortFields
  <2>3. /\ q \in Results
        /\ q.port = [p EXCEPT !.ack_low = low]
        /\ q.tx_event = r.tx_event /\ q.irq_event = r.irq_event /\ q.raised = r.raised
    BY <2>1, <2>2 DEF Results
  <2>4. /\ q.port.ack_low = low /\ q.port.tx = p.tx /\ q.port.irq = p.irq
        /\ q.port.pending_irq7 = p.pending_irq7
    BY <1>1, <2>3 DEF PortStates
  <2>5. QED
    BY <1>1, <1>4, <2>3, <2>4 DEF AckOnTime, low
<1>5. CASE p.ack_low # 0 /\ low = 0
  <2> DEFINE p1 == [p EXCEPT !.ack_low = 0]
             p2 == [p1 EXCEPT !.ack = FALSE]
             p3 == [p2 EXCEPT !.pending_irq7 = FALSE]
  <2>1. q = [[r EXCEPT !.port = p3] EXCEPT !.raised = p.pending_irq7]
    BY <1>5 DEF Port!RaiseAck, p, low
  <2>2. p1 \in PortStates
    BY <1>1, PortConstants, PortFields
  <2>3. p2 \in PortStates
    <3> HIDE DEF p1
    <3> QED BY <2>2, PortFields
  <2>4. p3 \in PortStates
    <3> HIDE DEF p2
    <3> QED BY <2>3, PortFields
  <2>5. p3.ack_low = 0 /\ p3.tx = p.tx /\ p3.irq = p.irq /\ p3.pending_irq7 = FALSE
    BY <1>1 DEF PortStates
  <2> HIDE DEF p3
  <2>6. /\ q \in Results
        /\ q.port = p3
        /\ q.tx_event = r.tx_event /\ q.irq_event = r.irq_event /\ q.raised = p.pending_irq7
    BY <1>1, <2>1, <2>4 DEF Results
  <2>7. QED
    BY <1>1, <2>5, <2>6 DEF AckOnTime
<1>6. QED
  BY <1>3, <1>4, <1>5

\* A change of the port alone, in fields that neither event is about, changes nothing they need.
Good(r) == r \in Results /\ AckOnTime(r) /\ TxOnTime(r, 0)

LEMMA TxStatesAre ==
  /\ Port!Empty \in TxStates /\ Port!Queued \in TxStates
  /\ Port!Empty.state # "Transferring" /\ Port!Queued.state # "Transferring"
  /\ \A t \in TxStates : t.state = "Transferring" =>
       /\ t.remaining \in 1 .. TransferCycles /\ t.next \in BOOLEAN
       /\ t = Port!Transferring(t.remaining, t.next)
  /\ \A n \in 1 .. TransferCycles, next \in BOOLEAN :
       /\ Port!Transferring(n, next) \in TxStates
       /\ Port!Transferring(n, next).state = "Transferring"
       /\ Port!Transferring(n, next).remaining = n
       /\ Port!Transferring(n, next).next = next
BY DEF TxStates, Port!Empty, Port!Queued, Port!Transferring

\* What the device answers makes the acknowledge line low and schedules its end.
LEMMA TxWriteProcessed ==
  ASSUME NEW r \in Results, AckOnTime(r), NEW next \in Port!ActiveDevices
  PROVE  LET q == Port!ProcessTxWrite(r, next)
         IN  /\ q \in Results /\ AckOnTime(q)
             /\ q.port.tx = r.port.tx
<1> DEFINE b == r.port
           received == Port!Receive(b)
           p1 == [b EXCEPT !.rx = received]
           p2 == [p1 EXCEPT !.active = next]
           p3 == [p2 EXCEPT !.ack = TRUE]
           p == [p3 EXCEPT !.ack_low = AckCycles]
           interrupts == p.dsr_interrupt_enabled /\ Port!Connected(p)
           risen == p.irq \/ interrupts
           pending == p.pending_irq7 \/ (interrupts /\ ~p.irq)
           p5 == [p EXCEPT !.irq = risen]
           p6 == [p5 EXCEPT !.pending_irq7 = pending]
           q == Port!ProcessTxWrite(r, next)
<1>1. b \in PortStates /\ b.rx \in 0 .. RxLen
  BY DEF Results, PortStates
<1>2. received \in 0 .. RxLen
  <2>1. CASE b.active = "Disconnected"
    BY <1>1, <2>1 DEF Port!Receive
  <2>2. CASE b.active # "Disconnected"
    <3>1. b.rx + 1 \in Int /\ RxLen \in Int /\ b.rx + 1 >= 0 /\ RxLen >= 0
      BY <1>1, PortConstants
    <3>2. received = Port!Min({RxLen, b.rx + 1})
      BY <2>2 DEF Port!Receive
    <3>3. \E x \in {RxLen, b.rx + 1} : \A y \in {RxLen, b.rx + 1} : x <= y
      <4>1. CASE RxLen <= b.rx + 1
        BY <3>1, <4>1
      <4>2. CASE ~(RxLen <= b.rx + 1)
        BY <3>1, <4>2
      <4> QED BY <4>1, <4>2
    <3>4. received \in {RxLen, b.rx + 1} /\ received <= RxLen
      BY <3>2, <3>3 DEF Port!Min
    <3> QED BY <3>1, <3>4
  <2> QED BY <2>1, <2>2
<1> HIDE DEF received
<1>3. p1 \in PortStates
  BY <1>1, <1>2, PortFields
<1>4. p2 \in PortStates
  <2> HIDE DEF p1
  <2> QED BY <1>3, PortFields
<1>5. p3 \in PortStates
  <2> HIDE DEF p2
  <2> QED BY <1>4, PortFields
<1>6. p \in PortStates
  <2>1. AckCycles \in 0 .. AckCycles
    BY PortConstants
  <2> HIDE DEF p3
  <2> QED BY <1>5, <2>1, PortFields
<1>7. /\ p.irq = b.irq /\ p.pending_irq7 = b.pending_irq7 /\ p.ack_low = AckCycles
      /\ p.tx = b.tx
  BY <1>1 DEF PortStates
<1>8. Port!ProcessTxWrite(r, next)
        = [[r EXCEPT !.port = p6] EXCEPT !.irq_event = AckCycles]
  BY DEF Port!ProcessTxWrite, received
<1> HIDE DEF p
<1>9. risen \in BOOLEAN /\ pending \in BOOLEAN
  BY <1>6 DEF PortStates
<1>10. /\ risen = TRUE <=> p.irq = TRUE \/ interrupts
       /\ pending = TRUE <=> p.pending_irq7 = TRUE \/ (interrupts /\ p.irq = FALSE)
  BY <1>6 DEF PortStates
<1> HIDE DEF risen, pending
<1>11. p5 \in PortStates
  BY <1>6, <1>9, PortFields
<1>12. p6 \in PortStates
  <2> HIDE DEF p5
  <2> QED BY <1>9, <1>11, PortFields
<1>13. /\ p6.irq = risen /\ p6.pending_irq7 = pending /\ p6.ack_low = p.ack_low
       /\ p6.tx = p.tx
  BY <1>6 DEF PortStates
<1> HIDE DEF p6
<1>14. AckCycles \in IrqEvents /\ AckCycles # 0
  BY PortConstants DEF IrqEvents
<1>15. /\ q \in Results /\ q.port = p6 /\ q.irq_event = AckCycles /\ q.raised = r.raised
  BY <1>8, <1>12, <1>14 DEF Results
<1> HIDE DEF q, interrupts
<1>16. AckOnTime(q)
  <2>1. q.port.ack_low # 0 => q.irq_event = q.port.ack_low
    BY <1>7, <1>13, <1>15
  <2>2. q.port.pending_irq7 = TRUE => q.port.ack_low # 0
    BY <1>7, <1>13, <1>14, <1>15
  <2>3. ASSUME q.port.irq = TRUE
        PROVE  \/ port.irq = TRUE /\ (delivered = TRUE \/ q.raised = TRUE)
               \/ q.port.pending_irq7 = TRUE
    <3>1. p.irq = TRUE \/ interrupts
      BY <1>10, <1>13, <1>15, <2>3
    <3>2. CASE p.irq = TRUE
      <4>1. \/ port.irq = TRUE /\ (delivered = TRUE \/ r.raised = TRUE)
            \/ b.pending_irq7 = TRUE
        BY <1>7, <3>2 DEF AckOnTime
      <4> QED BY <1>7, <1>10, <1>13, <1>15, <4>1
    <3>3. CASE p.irq # TRUE
      <4>1. p.irq = FALSE
        BY <1>6, <3>3 DEF PortStates
      <4> QED BY <1>10, <1>13, <1>15, <3>1, <3>3, <4>1
    <3> QED BY <3>2, <3>3
  <2> QED BY <2>1, <2>2, <2>3 DEF AckOnTime
<1>17. QED
  BY <1>7, <1>13, <1>15, <1>16 DEF q

\* A result in which only the port's tx and the event of the transmitter are new, the event
\* for the moment the byte is complete.
TxReplaced(q, r, t, e) ==
  /\ q = [[r EXCEPT !.port = [r.port EXCEPT !.tx = t]] EXCEPT !.tx_event = e]
  /\ t.state = "Transferring" => e = t.remaining

LEMMA TxChanged ==
  ASSUME NEW r \in Results, AckOnTime(r), NEW t \in TxStates, NEW e \in TxEvents,
         NEW q, TxReplaced(q, r, t, e)
  PROVE  Good(q) /\ q.port.tx = t
<1> DEFINE b == r.port
           p == [b EXCEPT !.tx = t]
<1>1. b \in PortStates
  BY DEF Results
<1>2. p \in PortStates
  BY <1>1, PortFields
<1>3. /\ p.tx = t /\ p.ack_low = b.ack_low /\ p.pending_irq7 = b.pending_irq7
      /\ p.irq = b.irq
  BY <1>1 DEF PortStates
<1>4. q = [[r EXCEPT !.port = p] EXCEPT !.tx_event = e]
  BY DEF TxReplaced
<1> HIDE DEF p
<1>5. /\ q \in Results /\ q.port = p /\ q.tx_event = e
      /\ q.irq_event = r.irq_event /\ q.raised = r.raised
  BY <1>2, <1>4 DEF Results
<1>6. AckOnTime(q)
  BY <1>3, <1>5, SameAckOnTime DEF SameAck
<1>7. TxOnTime(q, 0)
  <2>1. ASSUME t.state = "Transferring" PROVE e = Port!Left(t.remaining, 0)
    <3>1. t.remaining \in 1 .. TransferCycles
      BY <2>1, TxStatesAre
    <3> QED BY <2>1, <3>1, PortConstants DEF Port!Left, TxReplaced
  <2> QED BY <1>3, <1>5, <2>1 DEF TxOnTime
<1>8. QED
  BY <1>3, <1>5, <1>6, <1>7 DEF Good

\* A byte that begins to be sent is complete when its event comes.
LEMMA TransferStarted ==
  ASSUME NEW r \in Results, AckOnTime(r), NEW next \in BOOLEAN
  PROVE  Good(Port!StartTransfer(r, next))
<1> DEFINE t == Port!Transferring(TransferCycles, next)
           e == TransferCycles
           q == Port!StartTransfer(r, next)
<1>1. e \in TxEvents /\ TransferCycles \in 1 .. TransferCycles
  BY PortConstants DEF TxEvents
<1>2. t \in TxStates /\ t.remaining = e
  BY <1>1, TxStatesAre
<1>3. q = [[r EXCEPT !.port = [r.port EXCEPT !.tx = t]] EXCEPT !.tx_event = e]
  BY DEF Port!StartTransfer
<1> HIDE DEF t, e, q
<1>4. TxReplaced(q, r, t, e)
  BY <1>2, <1>3 DEF TxReplaced
<1>5. Good(q)
  BY <1>1, <1>2, <1>4, TxChanged
<1>6. QED
  BY <1>5 DEF q

\* A transmitter that stops or waits needs no event.
LEMMA TransferStopped ==
  ASSUME NEW r \in Results, AckOnTime(r), NEW t \in {Port!Empty, Port!Queued}
  PROVE  Good([r EXCEPT !.port.tx = t])
<1> DEFINE q == [r EXCEPT !.port.tx = t]
<1>1. r.tx_event \in TxEvents
  BY ResultFields
<1>2. t \in TxStates /\ t.state # "Transferring"
  BY TxStatesAre
<1>3. q = [[r EXCEPT !.port = [r.port EXCEPT !.tx = t]] EXCEPT !.tx_event = r.tx_event]
  BY DEF Results
<1> HIDE DEF q
<1>4. TxReplaced(q, r, t, r.tx_event)
  BY <1>2, <1>3 DEF TxReplaced
<1>5. Good(q)
  BY <1>1, <1>2, <1>4, TxChanged
<1>6. QED
  BY <1>5 DEF q

LEMMA NextSent ==
  ASSUME NEW r \in Results, AckOnTime(r), r.port.tx.state = "Transferring"
  PROVE  Good(Port!SendNext(r))
<1>1. /\ FALSE \in BOOLEAN
      /\ Good([r EXCEPT !.port.tx = Port!Empty]) /\ Good([r EXCEPT !.port.tx = Port!Queued])
  BY TransferStopped
<1>2. Good(Port!StartTransfer(r, FALSE))
  BY <1>1, TransferStarted
<1>3. QED
  BY <1>1, <1>2 DEF Port!SendNext

\* The transmitter of a port that is late catches up with its event.
LEMMA TxAdvanced ==
  ASSUME NEW r \in Results, AckOnTime(r), NEW elapsed \in Nat, TxOnTime(r, elapsed),
         NEW q \in Port!AdvanceTx(r, elapsed)
  PROVE  Good(q)
<1> DEFINE t == r.port.tx
<1>1. t \in TxStates /\ r.port.active \in Port!ActiveDevices /\ r.tx_event \in TxEvents
  BY DEF Results, PortStates
<1>2. CASE t.state = "Empty"
  <2>1. q = r
    BY <1>2 DEF Port!AdvanceTx
  <2> QED BY <1>2, <2>1 DEF Good, TxOnTime
<1>3. CASE t.state = "Queued"
  <2>1. q = IF r.port.tx_enabled THEN Port!StartTransfer(r, FALSE) ELSE r
    BY <1>3 DEF Port!AdvanceTx
  <2>2. Good(Port!StartTransfer(r, FALSE))
    <3>1. FALSE \in BOOLEAN
      OBVIOUS
    <3> QED BY <3>1, TransferStarted
  <2>3. Good(r)
    BY <1>3 DEF Good, TxOnTime
  <2> QED BY <2>1, <2>2, <2>3
<1>4. CASE t.state = "Transferring" /\ t.remaining > elapsed
  <2> DEFINE left == t.remaining - elapsed
             new == Port!Transferring(left, t.next)
  <2>1. t.remaining \in 1 .. TransferCycles /\ t.next \in BOOLEAN
        /\ t = Port!Transferring(t.remaining, t.next)
    BY <1>1, <1>4, TxStatesAre
  <2>2. left \in 1 .. TransferCycles
    BY <1>4, <2>1, PortConstants
  <2>3. r.tx_event = left
    BY <1>4 DEF TxOnTime, Port!Left
  <2>4. [t EXCEPT !.remaining = left] = new
    BY <2>1 DEF Port!Transferring
  <2>5. q = [r EXCEPT !.port.tx.remaining = @ - elapsed]
    BY <1>4 DEF Port!AdvanceTx
  <2>6. q = [r EXCEPT !.port = [r.port EXCEPT !.tx = [t EXCEPT !.remaining = left]]]
    BY <2>5
  <2> HIDE DEF left
  <2>7. q = [[r EXCEPT !.port = [r.port EXCEPT !.tx = new]] EXCEPT !.tx_event = left]
    BY <2>3, <2>4, <2>6 DEF Results
  <2>8. new \in TxStates /\ new.remaining = left
    BY <2>1, <2>2, TxStatesAre
  <2> HIDE DEF new
  <2>9. left \in TxEvents /\ TxReplaced(q, r, new, left)
    BY <1>1, <2>3, <2>7, <2>8 DEF TxReplaced
  <2> QED BY <2>8, <2>9, TxChanged
<1>5. CASE t.state = "Transferring" /\ ~(t.remaining > elapsed)
  <2>1. PICK next \in Port!AfterByte(r.port.active) :
             q = Port!SendNext(Port!ProcessTxWrite(r, next))
    BY <1>5 DEF Port!AdvanceTx
  <2>2. next \in Port!ActiveDevices
    BY <1>1, <2>1 DEF Port!AfterByte, Port!ActiveDevices
  <2> DEFINE w == Port!ProcessTxWrite(r, next)
  <2>3. w \in Results /\ AckOnTime(w) /\ w.port.tx = t
    BY <2>2, TxWriteProcessed
  <2> HIDE DEF w
  <2>4. w.port.tx.state = "Transferring"
    BY <1>5, <2>3
  <2>5. Good(Port!SendNext(w))
    BY <2>3, <2>4, NextSent
  <2> QED BY <2>1, <2>5 DEF w
<1>6. t.state \in {"Empty", "Queued", "Transferring"}
  BY <1>1 DEF TxStates, Port!Empty, Port!Queued
<1>7. QED
  BY <1>2, <1>3, <1>4, <1>5, <1>6

\* A port that has caught up is not late.
LEMMA CaughtUp ==
  ASSUME PortInvariant, NEW r \in Port!CatchUp
  PROVE  Good(r)
<1> DEFINE s == Port!Still(port)
<1>1. s \in Results /\ s.port = port /\ s.tx_event = tx_event /\ s.irq_event = irq_event
      /\ s.raised = FALSE
  BY DEF PortInvariant, Results, Port!Still
<1>2. /\ port.tx \in TxStates /\ port.irq \in BOOLEAN /\ port.pending_irq7 \in BOOLEAN
      /\ port.ack_low \in 0 .. AckCycles /\ behind \in Nat /\ delivered \in BOOLEAN
  BY PortConstants DEF PortInvariant, PortStates
<1>3. /\ port.tx.state = "Transferring" => tx_event = Port!Left(port.tx.remaining, behind)
      /\ port.ack_low # 0 => irq_event = Port!Left(port.ack_low, behind)
      /\ port.pending_irq7 = TRUE => port.ack_low # 0
      /\ port.irq = TRUE => delivered = TRUE \/ port.pending_irq7 = TRUE
  BY <1>2 DEF PortInvariant, Port!EventsAreOnTime, Port!TransferIsScheduled,
              Port!AckIsScheduled, Port!InterruptIsDelivered
<1> HIDE DEF s
<1>4. CASE behind = 0
  <2>1. r = s
    BY <1>4 DEF Port!CatchUp, s
  <2>2. port.ack_low # 0 => Port!Left(port.ack_low, behind) = port.ack_low
    BY <1>2, <1>4 DEF Port!Left
  <2>3. AckOnTime(s)
    BY <1>1, <1>2, <1>3, <2>2 DEF AckOnTime
  <2>4. TxOnTime(s, 0)
    BY <1>1, <1>3, <1>4 DEF TxOnTime
  <2> QED BY <1>1, <2>1, <2>3, <2>4 DEF Good
<1>5. CASE behind # 0
  <2> DEFINE a == Port!RaiseAck(s, behind)
  <2>1. r \in Port!AdvanceTx(a, behind)
    BY <1>5 DEF Port!CatchUp, s
  <2>2. /\ s.port.ack_low # 0 => s.irq_event = Port!Left(s.port.ack_low, behind)
        /\ s.port.pending_irq7 = TRUE => s.port.ack_low # 0
        /\ s.port.irq = TRUE => \/ port.irq = TRUE /\ delivered = TRUE
                                \/ port.irq = TRUE /\ s.port.pending_irq7 = TRUE
    BY <1>1, <1>3
  <2>3. /\ a \in Results /\ AckOnTime(a)
        /\ a.port.tx = s.port.tx /\ a.tx_event = s.tx_event
    BY <1>1, <1>2, <2>2, AckRaised
  <2> HIDE DEF a
  <2>4. TxOnTime(a, behind)
    BY <1>1, <1>3, <2>3 DEF TxOnTime
  <2> QED BY <1>2, <2>1, <2>3, <2>4, TxAdvanced
<1>6. QED
  BY <1>4, <1>5

\* Fields of the port that the events are not about, and an interrupt that is acknowledged.
LEMMA PortChanged ==
  ASSUME NEW r, Good(r), NEW p \in PortStates,
         p.tx = r.port.tx, p.ack_low = r.port.ack_low, p.pending_irq7 = r.port.pending_irq7,
         p.irq = TRUE => r.port.irq = TRUE
  PROVE  Good([r EXCEPT !.port = p])
<1> DEFINE q == [r EXCEPT !.port = p]
<1>1. /\ q \in Results /\ q.port = p /\ q.tx_event = r.tx_event
      /\ q.irq_event = r.irq_event /\ q.raised = r.raised
  BY DEF Good, Results
<1> HIDE DEF q
<1>2. AckOnTime(q)
  BY <1>1 DEF Good, AckOnTime
<1>3. TxOnTime(q, 0)
  BY <1>1 DEF Good, TxOnTime
<1>4. QED
  BY <1>1, <1>2, <1>3 DEF Good, q

\* A byte that finds another one being sent is noted, and the event stays where it is.
LEMMA TxWritten ==
  ASSUME NEW r, Good(r)
  PROVE  Good(Port!WriteTx(r))
<1>1. r \in Results /\ AckOnTime(r) /\ r.port.tx \in TxStates
  BY DEF Good, Results, PortStates
<1>2. CASE r.port.tx.state = "Transferring"
  <2> DEFINE t == r.port.tx
             n == t.remaining
             new == Port!Transferring(n, TRUE)
             q == Port!WriteTx(r)
  <2>1. n \in 1 .. TransferCycles /\ t = Port!Transferring(n, t.next)
    BY <1>1, <1>2, TxStatesAre
  <2>2. [t EXCEPT !.next = TRUE] = new
    <3>1. \A m, v : [Port!Transferring(n, m) EXCEPT !.next = v] = Port!Transferring(n, v)
      BY DEF Port!Transferring
    <3> HIDE DEF t, n
    <3> QED BY <2>1, <3>1
  <2>3. q = [[r EXCEPT !.port = [r.port EXCEPT !.tx = [t EXCEPT !.next = TRUE]]]
               EXCEPT !.tx_event = n]
    BY <1>2 DEF Port!WriteTx
  <2>4. new \in TxStates /\ new.remaining = n
    BY <2>1, TxStatesAre
  <2>5. n \in TxEvents
    BY <2>1, PortConstants DEF TxEvents
  <2> HIDE DEF new, q, n, t
  <2>6. TxReplaced(q, r, new, n)
    BY <2>2, <2>3, <2>4 DEF TxReplaced
  <2>7. Good(q)
    BY <1>1, <2>4, <2>5, <2>6, TxChanged
  <2> QED BY <2>7 DEF q
<1>3. CASE r.port.tx.state # "Transferring"
  <2>1. FALSE \in BOOLEAN /\ Port!Queued \in {Port!Empty, Port!Queued}
    OBVIOUS
  <2>2. Good(Port!StartTransfer(r, FALSE))
    BY <1>1, <2>1, TransferStarted
  <2>3. Good([r EXCEPT !.port.tx = Port!Queued])
    BY <1>1, <2>1, TransferStopped
  <2> QED BY <1>3, <2>2, <2>3 DEF Port!WriteTx
<1>4. QED
  BY <1>2, <1>3

\* The control register, whatever is written: a deselection drops the byte being sent, whose
\* event stays scheduled, and a transmitter that is enabled begins with the byte that waits.
LEMMA ControlSet ==
  ASSUME NEW r, Good(r), NEW w \in Port!ControlWrites
  PROVE  Good([r EXCEPT !.port = Port!WithControl(@, w)])
<1> DEFINE p == r.port
           p1 == [p EXCEPT !.tx_enabled = w.tx_enabled]
           p2 == [p1 EXCEPT !.dtr_on = w.dtr_on]
           p3 == [p2 EXCEPT !.dsr_interrupt_enabled = w.dsr_interrupt_enabled]
           p4 == [p3 EXCEPT !.selected_port = w.selected_port]
           risen == p.irq /\ ~w.acknowledge
           p5 == [p4 EXCEPT !.irq = risen]
<1>1. p \in PortStates /\ p.irq \in BOOLEAN
  BY DEF Good, Results, PortStates
<1>2. /\ w.tx_enabled \in BOOLEAN /\ w.dtr_on \in BOOLEAN /\ w.acknowledge \in BOOLEAN
      /\ w.dsr_interrupt_enabled \in BOOLEAN /\ w.selected_port \in Port!Ports
  BY DEF Port!ControlWrites
<1>3. Port!WithControl(p, w) = p5
  BY <1>1 DEF Port!WithControl, PortStates
<1>4. p5.tx = p.tx /\ p5.ack_low = p.ack_low /\ p5.pending_irq7 = p.pending_irq7
      /\ p5.irq = risen
  BY <1>1 DEF PortStates
<1> HIDE DEF p
<1>5. p1 \in PortStates
  BY <1>1, <1>2, PortFields
<1>6. p2 \in PortStates
  <2> HIDE DEF p1
  <2> QED BY <1>2, <1>5, PortFields
<1>7. p3 \in PortStates
  <2> HIDE DEF p2
  <2> QED BY <1>2, <1>6, PortFields
<1>8. p4 \in PortStates
  <2> HIDE DEF p3
  <2> QED BY <1>2, <1>7, PortFields
<1>9. risen \in BOOLEAN /\ (risen = TRUE => p.irq = TRUE)
  BY <1>1
<1> HIDE DEF risen
<1>10. p5 \in PortStates
  <2> HIDE DEF p4
  <2> QED BY <1>8, <1>9, PortFields
<1> HIDE DEF p5
<1>11. Good([r EXCEPT !.port = p5])
  BY <1>4, <1>9, <1>10, PortChanged DEF p
<1>12. QED
  BY <1>3, <1>11 DEF p

LEMMA TxDropped ==
  ASSUME NEW r, Good(r)
  PROVE  Good(Port!DropTx(r))
<1> DEFINE s == [r EXCEPT !.port.tx = Port!Empty]
           p == [s.port EXCEPT !.active = "None"]
<1>1. Good(s)
  BY TransferStopped DEF Good
<1>2. Port!DropTx(r) = [s EXCEPT !.port = p]
  BY DEF Port!DropTx, Good, Results, PortStates
<1> HIDE DEF s
<1>3. s.port \in PortStates
  BY <1>1 DEF Good, Results
<1>4. p \in PortStates
  BY <1>3, PortFields DEF Port!ActiveDevices
<1>5. p.tx = s.port.tx /\ p.ack_low = s.port.ack_low /\ p.irq = s.port.irq
      /\ p.pending_irq7 = s.port.pending_irq7
  BY <1>3 DEF PortStates
<1> HIDE DEF p
<1>6. Good([s EXCEPT !.port = p])
  BY <1>1, <1>4, <1>5, PortChanged
<1>7. QED
  BY <1>2, <1>6

LEMMA ControlWritten ==
  ASSUME NEW r, Good(r), NEW w \in Port!ControlWrites
  PROVE  Good(Port!WriteControl(r, w))
<1> DEFINE set == [r EXCEPT !.port = Port!WithControl(@, w)]
           new == IF Port!Deselects(r.port, w) THEN Port!DropTx(set) ELSE set
<1>1. Port!WriteControl(r, w)
        = IF new.port.tx_enabled /\ new.port.tx = Port!Queued
          THEN Port!StartTransfer(new, FALSE) ELSE new
  BY DEF Port!WriteControl
<1>2. Good(set)
  BY ControlSet
<1> HIDE DEF set
<1>3. Good(new)
  BY <1>2, TxDropped
<1> HIDE DEF new
<1>4. Good(Port!StartTransfer(new, FALSE))
  BY <1>3, TransferStarted DEF Good
<1>5. QED
  BY <1>1, <1>3, <1>4

LEMMA PortReset ==
  ASSUME NEW r, Good(r)
  PROVE  Good(Port!Reset(r))
<1> DEFINE s == Port!WriteControl(r, Port!NoControl)
           p == [s.port EXCEPT !.rx = 0]
<1>1. Port!NoControl \in Port!ControlWrites
  BY DEF Port!NoControl, Port!ControlWrites, Port!Ports
<1>2. Good(s)
  BY <1>1, ControlWritten
<1>3. Port!Reset(r) = [s EXCEPT !.port = p]
  BY DEF Port!Reset
<1> HIDE DEF s
<1>4. s.port \in PortStates
  BY <1>2 DEF Good, Results
<1>5. p \in PortStates
  <2>1. 0 \in 0 .. RxLen
    BY PortConstants
  <2> QED BY <1>4, <2>1, PortFields
<1>6. p.tx = s.port.tx /\ p.ack_low = s.port.ack_low /\ p.irq = s.port.irq
      /\ p.pending_irq7 = s.port.pending_irq7
  BY <1>4 DEF PortStates
<1> HIDE DEF p
<1>7. Good([s EXCEPT !.port = p])
  BY <1>2, <1>5, <1>6, PortChanged
<1>8. QED
  BY <1>3, <1>7

\* An event that has been processed and that nobody has scheduled again is not one the port
\* needs.
LEMMA TxEventPopped ==
  ASSUME NEW r, Good(r)
  PROVE  Good([r EXCEPT !.tx_event = IF @ = 0 THEN NoEvent ELSE @])
<1> DEFINE e == IF r.tx_event = 0 THEN NoEvent ELSE r.tx_event
           q == [r EXCEPT !.tx_event = e]
<1>1. r \in Results /\ r.tx_event \in TxEvents /\ r.port.tx \in TxStates
  BY DEF Good, Results, PortStates
<1>2. e \in TxEvents
  BY <1>1 DEF TxEvents
<1>3. r.port.tx.state = "Transferring" => e = r.tx_event
  <2> SUFFICES ASSUME r.port.tx.state = "Transferring" PROVE r.tx_event # 0
    OBVIOUS
  <2>1. r.tx_event = Port!Left(r.port.tx.remaining, 0)
    BY DEF Good, TxOnTime
  <2>2. r.port.tx.remaining \in 1 .. TransferCycles
    BY <1>1, TxStatesAre
  <2> QED BY <2>1, <2>2, PortConstants DEF Port!Left
<1> HIDE DEF e
<1>4. /\ q \in Results /\ q.port = r.port /\ q.tx_event = e /\ q.irq_event = r.irq_event
      /\ q.raised = r.raised
  BY <1>1, <1>2 DEF Results
<1> HIDE DEF q
<1>5. AckOnTime(q) /\ TxOnTime(q, 0)
  BY <1>3, <1>4 DEF Good, AckOnTime, TxOnTime
<1>6. Good(q)
  BY <1>4, <1>5 DEF Good
<1>7. QED
  BY <1>6 DEF q, e

LEMMA IrqEventPopped ==
  ASSUME NEW r, Good(r)
  PROVE  Good([r EXCEPT !.irq_event = IF @ = 0 THEN NoEvent ELSE @])
<1> DEFINE e == IF r.irq_event = 0 THEN NoEvent ELSE r.irq_event
           q == [r EXCEPT !.irq_event = e]
<1>1. r \in Results /\ r.irq_event \in IrqEvents
  BY DEF Good, Results
<1>2. e \in IrqEvents
  BY <1>1 DEF IrqEvents
<1>3. r.port.ack_low # 0 => e = r.irq_event
  BY DEF Good, AckOnTime
<1> HIDE DEF e
<1>4. /\ q \in Results /\ q.port = r.port /\ q.tx_event = r.tx_event /\ q.irq_event = e
      /\ q.raised = r.raised
  BY <1>1, <1>2 DEF Results
<1> HIDE DEF q
<1>5. AckOnTime(q) /\ TxOnTime(q, 0)
  BY <1>3, <1>4 DEF Good, AckOnTime, TxOnTime
<1>6. Good(q)
  BY <1>4, <1>5 DEF Good
<1>7. QED
  BY <1>6 DEF q, e

-----------------------------------------------------------------------------
(* The steps of the port.                                                      *)

\* What follows a catch-up leaves the port on time.
LEMMA BecomesOnTime ==
  ASSUME PortInvariant, NEW r, Good(r), Port!Becomes(r)
  PROVE  PortInvariant'
<1>1. /\ r.port \in PortStates /\ r.tx_event \in TxEvents /\ r.irq_event \in IrqEvents
      /\ r.raised \in BOOLEAN
  BY DEF Good, Results
<1>2. /\ port' = r.port /\ tx_event' = r.tx_event /\ irq_event' = r.irq_event
      /\ istat' = (istat \/ r.raised) /\ behind' = 0
      /\ delivered' = (port.irq /\ r.port.irq /\ (delivered \/ r.raised))
  BY DEF Port!Becomes
<1>3. /\ port.irq \in BOOLEAN /\ delivered \in BOOLEAN /\ r.port.irq \in BOOLEAN
      /\ r.port.tx \in TxStates /\ r.port.ack_low \in 0 .. AckCycles
      /\ r.port.pending_irq7 \in BOOLEAN
  BY <1>1 DEF PortInvariant, PortStates
<1>4. istat' \in BOOLEAN /\ delivered' \in BOOLEAN /\ behind' \in 0 .. MaxBehind
  BY <1>2, PortConstants
<1>5. Port!TransferIsScheduled'
  BY <1>2 DEF Good, TxOnTime, Port!TransferIsScheduled, Port!Left
<1>6. Port!AckIsScheduled'
  <2>1. r.port.ack_low # 0 => r.irq_event = Port!Left(r.port.ack_low, 0)
    BY <1>3, PortConstants DEF Good, AckOnTime, Port!Left
  <2>2. r.port.pending_irq7 = TRUE => r.port.ack_low # 0
    BY DEF Good, AckOnTime
  <2>3. port'.ack_low # 0 => irq_event' = Port!Left(port'.ack_low, behind')
    BY <1>2, <2>1
  <2>4. port'.pending_irq7 => port'.ack_low # 0
    BY <1>2, <1>3, <2>2
  <2> QED BY <2>3, <2>4 DEF Port!AckIsScheduled, Port!Left
<1>7. Port!InterruptIsDelivered'
  <2>1. r.port.irq = TRUE => \/ port.irq = TRUE /\ (delivered = TRUE \/ r.raised = TRUE)
                             \/ r.port.pending_irq7 = TRUE
    BY DEF Good, AckOnTime
  <2>2. port'.irq => delivered' \/ port'.pending_irq7
    BY <1>1, <1>2, <1>3, <2>1
  <2> QED BY <2>2 DEF Port!InterruptIsDelivered
<1>8. QED
  BY <1>1, <1>2, <1>4, <1>5, <1>6, <1>7 DEF PortInvariant, Port!EventsAreOnTime

\* Time that passes brings the events nearer by as much as the port falls behind.
LEMMA TimePasses ==
  ASSUME PortInvariant, NEW n \in 1 .. MaxAdvance, Port!ExecuteInstruction(n)
  PROVE  PortInvariant'
<1>1. /\ tx_event # 0 /\ irq_event # 0 /\ behind + n <= MaxBehind /\ behind' = behind + n
      /\ tx_event' = Port!Sooner(tx_event, n) /\ irq_event' = Port!Sooner(irq_event, n)
      /\ port' = port /\ istat' = istat /\ delivered' = delivered
  BY DEF Port!ExecuteInstruction, Port!CpuRuns
<1>2. n \in Nat /\ behind \in Nat /\ behind' \in 0 .. MaxBehind
  BY <1>1, PortConstants DEF PortInvariant
<1>3. \A m \in Nat : \A k \in 0 .. m : Port!Left(k, n) \in 0 .. m
  BY <1>2 DEF Port!Left
<1>4. tx_event' \in TxEvents
  BY <1>1, <1>3, PortConstants DEF PortInvariant, TxEvents, Port!Sooner
<1>5. irq_event' \in IrqEvents
  BY <1>1, <1>3, PortConstants DEF PortInvariant, IrqEvents, Port!Sooner
<1>6. ASSUME NEW k \in Nat, NEW event, event = Port!Left(k, behind), event # 0
      PROVE  Port!Sooner(event, n) = Port!Left(k, behind + n)
  <2>1. k > behind /\ event = k - behind /\ event \in Nat
    BY <1>2, <1>6 DEF Port!Left
  <2>2. event # NoEvent
    BY <2>1, PortConstants
  <2> QED BY <1>2, <2>1, <2>2 DEF Port!Sooner, Port!Left
<1>7. Port!TransferIsScheduled'
  <2>1. ASSUME port.tx.state = "Transferring"
        PROVE  tx_event' = Port!Left(port.tx.remaining, behind + n)
    <3>1. port.tx.remaining \in Nat
      BY <2>1, TxStatesAre, PortConstants DEF PortInvariant, PortStates
    <3>2. tx_event = Port!Left(port.tx.remaining, behind)
      BY <2>1 DEF PortInvariant, Port!EventsAreOnTime, Port!TransferIsScheduled
    <3> QED BY <1>1, <1>6, <3>1, <3>2
  <2> QED BY <1>1, <2>1 DEF Port!TransferIsScheduled, Port!Left
<1>8. Port!AckIsScheduled'
  <2>1. port.pending_irq7 => port.ack_low # 0
    BY DEF PortInvariant, Port!EventsAreOnTime, Port!AckIsScheduled
  <2>2. ASSUME port.ack_low # 0
        PROVE  irq_event' = Port!Left(port.ack_low, behind + n)
    <3>1. port.ack_low \in Nat
      BY PortConstants DEF PortInvariant, PortStates
    <3>2. irq_event = Port!Left(port.ack_low, behind)
      BY <2>2 DEF PortInvariant, Port!EventsAreOnTime, Port!AckIsScheduled
    <3> QED BY <1>1, <1>6, <3>1, <3>2
  <2> QED BY <1>1, <2>1, <2>2 DEF Port!AckIsScheduled, Port!Left
<1>9. QED
  BY <1>1, <1>2, <1>4, <1>5, <1>7, <1>8
     DEF PortInvariant, Port!EventsAreOnTime, Port!InterruptIsDelivered

LEMMA PortInitially == Port!Init => PortInvariant
<1> SUFFICES ASSUME Port!Init PROVE PortInvariant
  OBVIOUS
<1>1. /\ port.tx = Port!Empty /\ port.ack_low = 0 /\ port.pending_irq7 = FALSE
      /\ port.irq = FALSE /\ behind = 0 /\ tx_event = NoEvent /\ irq_event = NoEvent
      /\ istat = FALSE /\ delivered = FALSE
  BY DEF Port!Init
<1>2. port \in PortStates
  <2>1. Port!Empty \in TxStates /\ 0 \in 0 .. AckCycles /\ 0 \in 0 .. RxLen
    BY TxStatesAre, PortConstants
  <2> QED BY <2>1 DEF Port!Init, PortStates, Port!Ports, Port!ActiveDevices
<1>3. port.tx.state # "Transferring"
  BY <1>1, TxStatesAre
<1>4. behind \in 0 .. MaxBehind /\ tx_event \in TxEvents /\ irq_event \in IrqEvents
  BY <1>1, PortConstants DEF TxEvents, IrqEvents
<1>5. Port!EventsAreOnTime
  BY <1>1, <1>3 DEF Port!EventsAreOnTime, Port!TransferIsScheduled, Port!AckIsScheduled
<1>6. Port!InterruptIsDelivered
  BY <1>1 DEF Port!InterruptIsDelivered
<1>7. QED
  BY <1>1, <1>2, <1>4, <1>5, <1>6 DEF PortInvariant

LEMMA PortStep ==
  ASSUME PortInvariant, Port!Next
  PROVE  PortInvariant'
<1>1. CASE \E n \in 1 .. MaxAdvance : Port!ExecuteInstruction(n)
  BY <1>1, TimePasses
<1>2. CASE Port!ProcessTxEvent
  BY <1>2, CaughtUp, TxEventPopped, BecomesOnTime DEF Port!ProcessTxEvent
<1>3. CASE Port!ProcessIrqEvent
  BY <1>3, CaughtUp, IrqEventPopped, BecomesOnTime DEF Port!ProcessIrqEvent
<1>4. CASE Port!ReadStatus
  BY <1>4, CaughtUp, BecomesOnTime DEF Port!ReadStatus
<1>5. CASE Port!HostWritesTx
  BY <1>5, CaughtUp, TxWritten, BecomesOnTime DEF Port!HostWritesTx
<1>6. CASE \E w \in Port!ControlWrites : Port!HostWritesControl(w)
  BY <1>6, CaughtUp, ControlWritten, BecomesOnTime DEF Port!HostWritesControl
<1>7. CASE Port!HostResets
  BY <1>7, CaughtUp, PortReset, BecomesOnTime DEF Port!HostResets
<1>8. CASE Port!HostReadsRx
  <2> DEFINE p == [port EXCEPT !.rx = port.rx - 1]
  <2>1. /\ port.rx # 0 /\ port' = p
        /\ UNCHANGED <<behind, tx_event, irq_event, istat, delivered>>
    BY <1>8 DEF Port!HostReadsRx
  <2>2. port \in PortStates /\ port.rx \in 0 .. RxLen
    BY DEF PortInvariant, PortStates
  <2>3. port.rx - 1 \in 0 .. RxLen
    BY <2>1, <2>2, PortConstants
  <2>4. p \in PortStates
    BY <2>2, <2>3, PortFields
  <2>5. p.tx = port.tx /\ p.ack_low = port.ack_low /\ p.irq = port.irq
        /\ p.pending_irq7 = port.pending_irq7
    BY <2>2 DEF PortStates
  <2> HIDE DEF p
  <2> QED BY <2>1, <2>4, <2>5
          DEF PortInvariant, Port!EventsAreOnTime, Port!TransferIsScheduled,
              Port!AckIsScheduled, Port!InterruptIsDelivered, Port!Left
<1>9. CASE Port!AcknowledgeIStat
  BY <1>9 DEF Port!AcknowledgeIStat, PortInvariant, Port!EventsAreOnTime,
              Port!TransferIsScheduled, Port!AckIsScheduled, Port!InterruptIsDelivered, Port!Left
<1>10. QED
  BY <1>1, <1>2, <1>3, <1>4, <1>5, <1>6, <1>7, <1>8, <1>9 DEF Port!Next

\* Whatever software writes and however late the port catches up, its two events come in the
\* cycle in which a byte is sent and in which the acknowledge line goes high, and every
\* interrupt it has is delivered at the latest then.
THEOREM PortIsAlwaysOnTime == MCSpec => []PortIsOnTime
<1> USE DEF port_vars
<1>1. MCInit => PortInvariant
  BY PortInitially DEF MCInit
<1>2. PortInvariant /\ [MCNext]_mc_vars => PortInvariant'
  <2> SUFFICES ASSUME PortInvariant, [MCNext]_mc_vars PROVE PortInvariant'
    OBVIOUS
  <2>1. CASE Port!Next
    BY <2>1, PortStep
  <2>2. CASE UNCHANGED port_vars
    BY <2>2 DEF PortInvariant, Port!EventsAreOnTime, Port!TransferIsScheduled,
                Port!AckIsScheduled, Port!InterruptIsDelivered, Port!Left
  <2>3. Port!Next \/ UNCHANGED port_vars
    BY DEF MCNext, mc_vars
  <2> QED BY <2>1, <2>2, <2>3
<1>3. PortInvariant => PortIsOnTime
  BY DEF PortInvariant, PortIsOnTime
<1>4. QED
  BY <1>1, <1>2, <1>3, PTL DEF MCSpec

-----------------------------------------------------------------------------
(* The controllers: their states, and what a conversation has come to.         *)

ShockStates ==
  [mode: {"Normal", "Config"}, analog_mode: {"Digital", "Analog"}, locked: BOOLEAN,
   config_mode_entered: BOOLEAN, analog_mode_changed: BOOLEAN]

\* The steps that follow the identification, until buttons or something else is sent.
Identified == {"IdHigh", "IdHighEntering", "ConfigIdMode", "ConfigIdLed", "ConfigIdOther"}
ShockSteps ==
  Identified \union {"IdLow", "Low", "LowEntering", "High", "HighAnalog", "ModeChange", "Led",
                     "LedLock"}
Digitals == [kind: {"Digital"}, step: {"IdLow", "IdHigh", "InputsLow", "InputsHigh"},
             inputs: Inputs]
Shocks == [kind: {"DualShock"}, step: ShockSteps, inputs: Inputs]
CountingShocks == [kind: {"DualShock"}, step: {"Sticks", "Zeroes"}, inputs: Inputs, left: 1 .. 6]
ControllerStates == Digitals \union Shocks \union CountingShocks

Talks ==
  [announced: Nat, sent: Nat, seen: SUBSET Inputs, at_connect: SUBSET Inputs,
   disturbed: BOOLEAN, sum: {0}, data: {<< >>}]

\* The bytes a controller has still to send after its identification.
ToCome(d, s) ==
  IF d.kind = "Digital" THEN IF d.step = "InputsHigh" THEN 1 ELSE 2
  ELSE IF d.step \in {"IdHigh", "IdHighEntering", "Low", "LowEntering"}
  THEN IF Controllers!SendsAnalog(s) THEN 6 ELSE 2
  ELSE IF d.step = "High" THEN 1
  ELSE IF d.step \in {"HighAnalog", "LedLock"} THEN 5
  ELSE IF d.step \in {"Sticks", "Zeroes"} THEN d.left
  ELSE 6

\* What has been sent and what is to come are what was announced, and all of it shows the
\* inputs the controller holds.
Fits(d, s, t) ==
  /\ d.kind \in {"Unselected", "NoDevice"} => t.sent = 0 /\ t.announced = 0 /\ t.seen = {}
  /\ d.kind = "Disconnected" =>
       /\ t.seen \subseteq t.at_connect
       /\ t.disturbed = FALSE /\ t.sent > 0 => t.sent = 2 * t.announced
  /\ d.kind \in {"Digital", "DualShock"} =>
       /\ t.at_connect = {d.inputs} /\ t.seen \subseteq {d.inputs}
       /\ d.step = "IdLow" => t.sent = 0 /\ t.announced = 0
       /\ t.disturbed = FALSE /\ d.step # "IdLow" => t.sent + ToCome(d, s) = 2 * t.announced
       /\ d.step \in {"IdHighEntering", "LowEntering"} => s.mode = "Normal"

DeviceStates ==
  {Controllers!Unselected, Controllers!NoDevice, Controllers!Disconnected} \union ControllerStates
PadStates == [Controllers!Ports -> Controllers!Pads({"None", "Digital", "DualShock"})]

ConversationInvariant ==
  /\ selected \in Controllers!Ports /\ active \in DeviceStates /\ pads \in PadStates
  /\ shock \in ShockStates /\ talk \in Talks
  /\ Fits(active, shock, talk)
  /\ Controllers!ModeChangeIsSignalled

LEMMA DeviceKinds ==
  /\ \A d \in Digitals : d.kind = "Digital" /\ d.inputs \in Inputs
                         /\ d.step \in {"IdLow", "IdHigh", "InputsLow", "InputsHigh"}
  /\ \A d \in Shocks : d.kind = "DualShock" /\ d.inputs \in Inputs /\ d.step \in ShockSteps
  /\ \A d \in CountingShocks : /\ d.kind = "DualShock" /\ d.inputs \in Inputs
                               /\ d.step \in {"Sticks", "Zeroes"} /\ d.left \in 1 .. 6
  /\ Controllers!Unselected.kind = "Unselected" /\ Controllers!NoDevice.kind = "NoDevice"
  /\ Controllers!Disconnected.kind = "Disconnected"
BY DEF Digitals, Shocks, CountingShocks, Controllers!Unselected, Controllers!NoDevice,
       Controllers!Disconnected

\* A controller goes on to another step, or begins to count.
LEMMA DeviceGoes ==
  /\ \A d \in Digitals, step \in {"IdLow", "IdHigh", "InputsLow", "InputsHigh"} :
       LET q == Controllers!Goes(d, step)
       IN q \in Digitals /\ q.kind = "Digital" /\ q.step = step /\ q.inputs = d.inputs
  /\ \A d \in Shocks, step \in ShockSteps :
       LET q == Controllers!Goes(d, step)
       IN q \in Shocks /\ q.kind = "DualShock" /\ q.step = step /\ q.inputs = d.inputs
BY DEF Controllers!Goes, Digitals, Shocks

LEMMA DeviceCounts ==
  ASSUME NEW d \in Shocks, NEW step \in {"Sticks", "Zeroes"}, NEW n \in 1 .. 6
  PROVE  LET q == Controllers!Counts(d, step, n)
         IN  /\ q \in CountingShocks /\ q.kind = "DualShock" /\ q.step = step /\ q.left = n
             /\ q.inputs = d.inputs
<1> DEFINE q == Controllers!Counts(d, step, n)
           e == [kind |-> d.kind, step |-> step, inputs |-> d.inputs, left |-> n]
<1>1. DOMAIN d \union {"left"} = {"kind", "step", "inputs", "left"}
  BY DEF Shocks
<1>2. q = [k \in {"kind", "step", "inputs", "left"} |->
             CASE k = "step" -> step [] k = "left" -> n [] OTHER -> d[k]]
  BY <1>1 DEF Controllers!Counts
<1>3. q = e
  BY <1>2
<1>4. e \in CountingShocks
  BY DEF Shocks, CountingShocks
<1>5. QED
  BY <1>3, <1>4 DEF Shocks

LEMMA ShockFields ==
  ASSUME NEW s \in ShockStates
  PROVE  /\ \A v \in {"Normal", "Config"} : [s EXCEPT !.mode = v] \in ShockStates
         /\ \A v \in {"Digital", "Analog"} : [s EXCEPT !.analog_mode = v] \in ShockStates
         /\ \A v \in BOOLEAN : [s EXCEPT !.locked = v] \in ShockStates
         /\ \A v \in BOOLEAN : [s EXCEPT !.config_mode_entered = v] \in ShockStates
         /\ \A v \in BOOLEAN : [s EXCEPT !.analog_mode_changed = v] \in ShockStates
         /\ s.mode \in {"Normal", "Config"} /\ s.analog_mode \in {"Digital", "Analog"}
         /\ s.locked \in BOOLEAN /\ s.config_mode_entered \in BOOLEAN
         /\ s.analog_mode_changed \in BOOLEAN
BY DEF ShockStates

\* One byte that was announced is sent, or the last of them.
Sends(d, s, q, s2) ==
  \/ q = Controllers!Disconnected /\ ToCome(d, s) = 1
  \/ /\ q \in ControllerStates /\ q.inputs = d.inputs
     /\ q.step \notin {"IdLow", "IdHighEntering", "LowEntering"}
     /\ ToCome(q, s2) = ToCome(d, s) - 1

LEMMA ByteFits ==
  ASSUME NEW d \in ControllerStates, NEW s, NEW q, NEW s2, NEW t \in Talks, NEW seen,
         Fits(d, s, t), d.step # "IdLow", Sends(d, s, q, s2),
         seen = t.seen \/ seen = t.seen \union {d.inputs}
  PROVE  LET u == [t EXCEPT !.sent = @ + 1, !.seen = seen]
         IN u \in Talks /\ Fits(q, s2, u)
<1> DEFINE n == t.sent + 1
           u1 == [t EXCEPT !.sent = n]
           u == [u1 EXCEPT !.seen = seen]
<1>1. /\ d.kind \in {"Digital", "DualShock"} /\ d.inputs \in Inputs
      /\ ToCome(d, s) \in 1 .. 6
  <2>1. CASE d \in Digitals
    BY <2>1, DeviceKinds DEF ToCome
  <2>2. CASE d \in Shocks
    <3>1. d.kind = "DualShock" /\ d.inputs \in Inputs /\ d.step \notin {"Sticks", "Zeroes"}
      BY <2>2, DeviceKinds DEF ShockSteps, Identified
    <3> QED BY <3>1 DEF ToCome
  <2>3. CASE d \in CountingShocks
    <3>1. /\ d.kind = "DualShock" /\ d.inputs \in Inputs /\ d.step \in {"Sticks", "Zeroes"}
          /\ d.left \in 1 .. 6
      BY <2>3, DeviceKinds
    <3> QED BY <3>1 DEF ToCome
  <2> QED BY <2>1, <2>2, <2>3 DEF ControllerStates
<1>2. /\ t.sent \in Nat /\ t.announced \in Nat /\ t.seen \subseteq Inputs
      /\ t.disturbed \in BOOLEAN
  BY DEF Talks
<1>3. /\ t.at_connect = {d.inputs} /\ t.seen \subseteq {d.inputs}
      /\ t.disturbed = FALSE => t.sent + ToCome(d, s) = 2 * t.announced
  BY <1>1 DEF Fits
<1>4. seen \subseteq Inputs /\ seen \subseteq {d.inputs}
  BY <1>1, <1>2, <1>3
<1>5. u \in Talks
  <2>1. n \in Nat
    BY <1>2
  <2> HIDE DEF n
  <2>2. u1 \in Talks
    BY <2>1 DEF Talks
  <2> HIDE DEF u1
  <2> QED BY <1>4, <2>2 DEF Talks
<1>6. /\ u.sent = n /\ u.announced = t.announced /\ u.seen = seen
      /\ u.at_connect = t.at_connect /\ u.disturbed = t.disturbed
  BY DEF Talks
<1>7. [t EXCEPT !.sent = @ + 1, !.seen = seen] = u
  BY DEF Talks
<1> HIDE DEF u, n
<1>8. n = t.sent + 1 /\ n \in Nat
  BY <1>2 DEF n
<1>9. CASE q = Controllers!Disconnected /\ ToCome(d, s) = 1
  <2>1. q.kind = "Disconnected"
    BY <1>9, DeviceKinds
  <2>2. u.disturbed = FALSE => u.sent = 2 * u.announced
    BY <1>2, <1>3, <1>6, <1>8, <1>9
  <2>3. u.seen \subseteq u.at_connect
    BY <1>3, <1>4, <1>6
  <2>4. Fits(q, s2, u)
    BY <2>1, <2>2, <2>3 DEF Fits
  <2>5. QED
    BY <1>5, <1>7, <2>4
<1>10. CASE /\ q \in ControllerStates /\ q.inputs = d.inputs
            /\ q.step \notin {"IdLow", "IdHighEntering", "LowEntering"}
            /\ ToCome(q, s2) = ToCome(d, s) - 1
  <2>1. q.kind \in {"Digital", "DualShock"}
    BY <1>10, DeviceKinds DEF ControllerStates
  <2>2. u.disturbed = FALSE => u.sent + ToCome(q, s2) = 2 * u.announced
    BY <1>1, <1>2, <1>3, <1>6, <1>8, <1>10
  <2>3. u.at_connect = {q.inputs} /\ u.seen \subseteq {q.inputs}
    BY <1>3, <1>4, <1>6, <1>10
  <2>4. Fits(q, s2, u)
    BY <1>10, <2>1, <2>2, <2>3 DEF Fits
  <2>5. QED
    BY <1>5, <1>7, <2>4
<1>11. QED
  BY <1>9, <1>10 DEF Sends

\* What a device answers when it changes nothing but itself.
LEMMA AnswerFields ==
  ASSUME NEW b, NEW q
  PROVE  LET r == Controllers!Answer(b, q)
         IN r.reply = b /\ r.device = q /\ r.shock = shock /\ r.card = card
BY DEF Controllers!Answer

LEMMA ReplyParts ==
  /\ \A n : Controllers!Byte(n).part = "byte" /\ Controllers!Byte(n).value = n
  /\ Controllers!Other.part = "other"
  /\ \A name, d : Controllers!Shows(name, d).part = name
                  /\ Controllers!Shows(name, d).inputs = d.inputs
BY DEF Controllers!Byte, Controllers!Other, Controllers!Shows

\* Of a reply after the identification, what software learns of the inputs.
Snapshot(r, d) == r.reply.part = "other" \/ r.reply.inputs = d.inputs

\* The digital controller.
LEMMA DigitalAnswers ==
  ASSUME NEW d \in Digitals, NEW tx
  PROVE  LET r == Controllers!Digital(d, tx)
         IN  /\ r.shock = shock
             /\ d.step = "IdLow" =>
                  /\ r.reply = Controllers!Byte(65)
                  /\ \/ r.device = Controllers!Disconnected
                     \/ r.device \in Digitals /\ r.device.step = "IdHigh"
                        /\ r.device.inputs = d.inputs
             /\ d.step = "IdHigh" =>
                  r.device \in Digitals /\ r.device.step = "InputsLow"
                  /\ r.device.inputs = d.inputs
             /\ d.step \in {"InputsLow", "InputsHigh"} =>
                  Snapshot(r, d) /\ Sends(d, shock, r.device, shock)
<1> DEFINE r == Controllers!Digital(d, tx)
<1>1. d.kind = "Digital" /\ d.step \in {"IdLow", "IdHigh", "InputsLow", "InputsHigh"}
  BY DeviceKinds
<1>2. CASE d.step = "IdLow"
  <2> DEFINE q == IF tx = Controllers!Hex(4, 2) THEN Controllers!Goes(d, "IdHigh")
                  ELSE Controllers!Disconnected
  <2>1. r = Controllers!Answer(Controllers!Byte(Controllers!Hex(4, 1)), q)
    BY <1>2 DEF Controllers!Digital
  <2>2. Controllers!Hex(4, 1) = 65
    BY DEF Controllers!Hex
  <2>3. r.reply = Controllers!Byte(65) /\ r.device = q /\ r.shock = shock
    BY <2>1, <2>2, AnswerFields
  <2> QED BY <1>2, <2>3, DeviceGoes
<1>3. CASE d.step = "IdHigh"
  <2>1. r = Controllers!Answer(Controllers!Byte(Controllers!Hex(5, 10)),
                               Controllers!Goes(d, "InputsLow"))
    BY <1>3 DEF Controllers!Digital
  <2>2. r.device = Controllers!Goes(d, "InputsLow") /\ r.shock = shock
    BY <2>1, AnswerFields
  <2> QED BY <1>3, <2>2, DeviceGoes
<1>4. CASE d.step = "InputsLow"
  <2>1. r = Controllers!Answer(Controllers!Shows("low", d), Controllers!Goes(d, "InputsHigh"))
    BY <1>4 DEF Controllers!Digital
  <2>2. /\ r.device = Controllers!Goes(d, "InputsHigh") /\ r.shock = shock
        /\ r.reply = Controllers!Shows("low", d)
    BY <2>1, AnswerFields
  <2>3. Snapshot(r, d)
    BY <2>2, ReplyParts DEF Snapshot
  <2>4. r.device \in Digitals /\ r.device.step = "InputsHigh" /\ r.device.kind = "Digital"
        /\ r.device.inputs = d.inputs
    BY <2>2, DeviceGoes
  <2>5. ToCome(d, shock) = 2 /\ ToCome(r.device, shock) = 1
    BY <1>1, <1>4, <2>4 DEF ToCome
  <2>6. Sends(d, shock, r.device, shock)
    BY <2>4, <2>5 DEF Sends, ControllerStates
  <2> QED BY <1>4, <2>2, <2>3, <2>6
<1>5. CASE d.step = "InputsHigh"
  <2>1. r = Controllers!Answer(Controllers!Shows("high", d), Controllers!Disconnected)
    BY <1>5 DEF Controllers!Digital
  <2>2. /\ r.device = Controllers!Disconnected /\ r.shock = shock
        /\ r.reply = Controllers!Shows("high", d)
    BY <2>1, AnswerFields
  <2>3. Snapshot(r, d)
    BY <2>2, ReplyParts DEF Snapshot
  <2>4. ToCome(d, shock) = 1
    BY <1>1, <1>5 DEF ToCome
  <2>5. Sends(d, shock, r.device, shock)
    BY <2>2, <2>4 DEF Sends
  <2> QED BY <1>5, <2>2, <2>3, <2>5
<1>6. QED
  BY <1>1, <1>2, <1>3, <1>4, <1>5

\* The DualShock: its identification announces what its mode asks for.
LEMMA ShockIdentifies ==
  ASSUME NEW d \in Shocks, d.step = "IdLow", NEW tx, shock \in ShockStates
  PROVE  LET r == Controllers!DualShock(d, tx)
         IN  /\ r.shock = shock
             /\ Controllers!Halfwords(r.reply.value)
                  = IF Controllers!SendsAnalog(shock) THEN 3 ELSE 1
             /\ \/ r.device = Controllers!Disconnected
                \/ /\ r.device \in Shocks /\ r.device.step \in Identified
                   /\ r.device.inputs = d.inputs
                   /\ ToCome(r.device, shock) = IF Controllers!SendsAnalog(shock) THEN 6 ELSE 2
                   /\ r.device.step = "IdHighEntering" => shock.mode = "Normal"
<1> DEFINE r == Controllers!DualShock(d, tx)
           id == Controllers!IdLow
           q == Controllers!ShockCommand(d, tx)
<1>1. shock.mode \in {"Normal", "Config"} /\ shock.analog_mode \in {"Digital", "Analog"}
  BY DEF ShockStates
<1>2. r = Controllers!Answer(Controllers!Byte(id), q)
  BY DEF Controllers!DualShock
<1>3. r.reply.value = id /\ r.device = q /\ r.shock = shock
  BY <1>2, AnswerFields, ReplyParts
<1>4. Controllers!Halfwords(id) = IF Controllers!SendsAnalog(shock) THEN 3 ELSE 1
  <2>1. /\ Controllers!Hex(4, 1) = 65 /\ Controllers!Hex(7, 3) = 115
        /\ Controllers!Hex(15, 3) = 243
    BY DEF Controllers!Hex
  <2>2. id = IF shock.mode = "Config" THEN 243
             ELSE IF shock.analog_mode = "Analog" THEN 115 ELSE 65
    BY <1>1, <2>1 DEF Controllers!IdLow
  <2> HIDE DEF id
  <2>3. Controllers!Halfwords(id) = IF id = 65 THEN 1 ELSE IF id \in {115, 243} THEN 3 ELSE 0
    BY <2>1 DEF Controllers!Halfwords
  <2> QED BY <1>1, <2>2, <2>3 DEF Controllers!SendsAnalog
<1>5. \/ q = Controllers!Disconnected
      \/ /\ q \in Shocks /\ q.step \in Identified /\ q.inputs = d.inputs
         /\ ToCome(q, shock) = IF Controllers!SendsAnalog(shock) THEN 6 ELSE 2
         /\ q.step = "IdHighEntering" => shock.mode = "Normal"
  <2>1. /\ Controllers!Hex(4, 2) = 66 /\ Controllers!Hex(4, 3) = 67
        /\ Controllers!ConfigCommands = {67, 68, 69, 70, 71, 76, 77}
    BY DEF Controllers!Hex, Controllers!ConfigCommands
  <2>2. CASE tx = 66 \/ (tx = 67 /\ shock.mode = "Normal")
    <3> DEFINE step == IF tx = 67 THEN "IdHighEntering" ELSE "IdHigh"
    <3>1. tx \notin {67, 68, 69, 70, 71, 76, 77} \/ shock.mode # "Config"
      BY <2>2
    <3>2. q = Controllers!Goes(d, step)
      BY <2>1, <2>2, <3>1 DEF Controllers!ShockCommand
    <3>3. step \in ShockSteps /\ step \in {"IdHigh", "IdHighEntering"}
          /\ (step = "IdHighEntering" => shock.mode = "Normal")
      BY <2>2 DEF ShockSteps, Identified
    <3> HIDE DEF step
    <3>4. /\ q \in Shocks /\ q.kind = "DualShock" /\ q.step = step /\ q.inputs = d.inputs
      BY <3>2, <3>3, DeviceGoes
    <3>5. ToCome(q, shock) = IF Controllers!SendsAnalog(shock) THEN 6 ELSE 2
      BY <3>3, <3>4 DEF ToCome
    <3> QED BY <3>3, <3>4, <3>5 DEF Identified
  <2>3. CASE ~(tx = 66 \/ (tx = 67 /\ shock.mode = "Normal"))
             /\ tx \in {67, 68, 69, 70, 71, 76, 77} /\ shock.mode = "Config"
    <3> DEFINE step == CASE tx = 67 -> "ConfigIdMode" [] tx = 68 -> "ConfigIdLed"
                         [] OTHER -> "ConfigIdOther"
    <3>1. Controllers!Hex(4, 4) = 68
      BY DEF Controllers!Hex
    <3>2. q = Controllers!Goes(d, step)
      BY <2>1, <2>3, <3>1 DEF Controllers!ShockCommand
    <3>3. step \in ShockSteps /\ step \in {"ConfigIdMode", "ConfigIdLed", "ConfigIdOther"}
      BY DEF ShockSteps, Identified
    <3> HIDE DEF step
    <3>4. /\ q \in Shocks /\ q.kind = "DualShock" /\ q.step = step /\ q.inputs = d.inputs
      BY <3>2, <3>3, DeviceGoes
    <3>5. ToCome(q, shock) = 6 /\ Controllers!SendsAnalog(shock)
      BY <2>3, <3>3, <3>4 DEF ToCome, Controllers!SendsAnalog
    <3> QED BY <3>3, <3>4, <3>5 DEF Identified
  <2>4. CASE ~(tx = 66 \/ (tx = 67 /\ shock.mode = "Normal"))
             /\ ~(tx \in {67, 68, 69, 70, 71, 76, 77} /\ shock.mode = "Config")
    BY <2>1, <2>4 DEF Controllers!ShockCommand
  <2> QED BY <2>2, <2>3, <2>4
<1>6. QED
  BY <1>3, <1>4, <1>5

\* The second byte of the identification changes nothing of that.
LEMMA ShockIdentified ==
  ASSUME NEW d \in Shocks, d.step \in Identified, NEW tx
  PROVE  LET r == Controllers!DualShock(d, tx)
         IN  /\ r.shock = shock
             /\ r.device \in ControllerStates /\ r.device.inputs = d.inputs
             /\ r.device.step \notin {"IdLow", "IdHighEntering"}
             /\ r.device.step = "LowEntering" => d.step = "IdHighEntering"
             /\ ToCome(r.device, shock) = ToCome(d, shock)
<1> DEFINE r == Controllers!DualShock(d, tx)
<1>1. d.kind = "DualShock"
  BY DeviceKinds
<1>2. ASSUME NEW b, NEW step \in ShockSteps, r = Controllers!Answer(b, Controllers!Goes(d, step))
      PROVE  /\ r.shock = shock /\ r.device \in Shocks /\ r.device.kind = "DualShock"
             /\ r.device.step = step /\ r.device.inputs = d.inputs
  BY <1>2, AnswerFields, DeviceGoes
<1>3. CASE d.step \in {"IdHigh", "IdHighEntering"}
  <2> DEFINE step == IF d.step = "IdHigh" THEN "Low" ELSE "LowEntering"
             b == IF shock.analog_mode_changed /\ shock.config_mode_entered THEN 0
                  ELSE Controllers!Hex(5, 10)
  <2>1. r = Controllers!Answer(Controllers!Byte(b), Controllers!Goes(d, step))
    BY <1>3 DEF Controllers!DualShock
  <2>2. step \in ShockSteps /\ step \in {"Low", "LowEntering"}
        /\ (step = "LowEntering" => d.step = "IdHighEntering")
    BY <1>3 DEF ShockSteps, Identified
  <2> HIDE DEF step, b
  <2>3. /\ r.shock = shock /\ r.device \in Shocks /\ r.device.kind = "DualShock"
        /\ r.device.step = step /\ r.device.inputs = d.inputs
    BY <1>2, <2>1, <2>2
  <2> HIDE DEF r
  <2>4. ToCome(r.device, shock) = ToCome(d, shock)
    BY <1>1, <1>3, <2>2, <2>3 DEF ToCome
  <2> QED BY <2>2, <2>3, <2>4 DEF ControllerStates, r
<1>4. CASE d.step \in {"ConfigIdMode", "ConfigIdLed"}
  <2> DEFINE step == IF d.step = "ConfigIdMode" THEN "ModeChange" ELSE "Led"
             b == Controllers!Hex(5, 10)
  <2>1. r = Controllers!Answer(Controllers!Byte(b), Controllers!Goes(d, step))
    BY <1>4 DEF Controllers!DualShock
  <2>2. step \in ShockSteps /\ step \in {"ModeChange", "Led"}
    BY DEF ShockSteps, Identified
  <2> HIDE DEF step, b
  <2>3. /\ r.shock = shock /\ r.device \in Shocks /\ r.device.kind = "DualShock"
        /\ r.device.step = step /\ r.device.inputs = d.inputs
    BY <1>2, <2>1, <2>2
  <2> HIDE DEF r
  <2>4. ToCome(r.device, shock) = ToCome(d, shock)
    BY <1>1, <1>4, <2>2, <2>3 DEF ToCome
  <2> QED BY <2>2, <2>3, <2>4 DEF ControllerStates, r
<1>5. CASE d.step = "ConfigIdOther"
  <2> DEFINE b == Controllers!Hex(5, 10)
             q == Controllers!Counts(d, "Zeroes", 6)
  <2>1. r = Controllers!Answer(Controllers!Byte(b), q)
    BY <1>5 DEF Controllers!DualShock
  <2> HIDE DEF b
  <2>2. /\ q \in CountingShocks /\ q.kind = "DualShock" /\ q.step = "Zeroes" /\ q.left = 6
        /\ q.inputs = d.inputs
    BY DeviceCounts
  <2> HIDE DEF q
  <2>3. r.shock = shock /\ r.device = q
    BY <2>1, AnswerFields
  <2>4. ToCome(q, shock) = ToCome(d, shock)
    BY <1>1, <1>5, <2>2 DEF ToCome
  <2> HIDE DEF r
  <2> QED BY <2>2, <2>3, <2>4 DEF ControllerStates, r
<1>6. QED
  BY <1>3, <1>4, <1>5 DEF Identified

\* A game is not told of what it asked for itself.
Signalled(s, known) ==
  s.config_mode_entered = TRUE /\ s.analog_mode # known => s.analog_mode_changed = TRUE

\* Every other byte is one of those announced.
LEMMA ShockSends ==
  ASSUME NEW d \in Shocks \union CountingShocks, d.step # "IdLow", d.step \notin Identified,
         NEW tx, shock \in ShockStates
  PROVE  LET r == Controllers!DualShock(d, tx)
         IN r.shock \in ShockStates /\ Snapshot(r, d) /\ Sends(d, shock, r.device, r.shock)
<1> DEFINE r == Controllers!DualShock(d, tx)
<1>1. /\ d.kind = "DualShock" /\ d.inputs \in Inputs
      /\ d.step \in {"Low", "LowEntering", "High", "HighAnalog", "ModeChange", "Led", "LedLock",
                     "Sticks", "Zeroes"}
      /\ d.step \notin {"Sticks", "Zeroes"} => d \in Shocks
      /\ d.step \in {"Sticks", "Zeroes"} => d \in CountingShocks
  <2>1. CASE d \in Shocks
    BY <2>1, DeviceKinds DEF ShockSteps, Identified
  <2>2. CASE d \in CountingShocks
    BY <2>2, DeviceKinds
  <2> QED BY <2>1, <2>2
<1>2. CASE d.step \in {"Low", "LowEntering"}
  <2> DEFINE step == IF Controllers!SendsAnalog(shock) THEN "HighAnalog" ELSE "High"
             enters == d.step = "LowEntering" /\ tx = Controllers!Hex(0, 1)
             s2 == IF enters THEN Controllers!EnterConfig ELSE shock
             s3 == [shock EXCEPT !.mode = "Config"]
             s4 == [s3 EXCEPT !.analog_mode_changed = FALSE]
             s5 == [s4 EXCEPT !.config_mode_entered = TRUE]
             b == Controllers!Shows("low", d)
             q == Controllers!Goes(d, step)
  <2>1. r = [Controllers!Answer(b, q) EXCEPT !.shock = s2]
    BY <1>2 DEF Controllers!DualShock, Controllers!ShockButtons
  <2>2. step \in ShockSteps /\ step \in {"High", "HighAnalog"}
    BY DEF ShockSteps
  <2>3. /\ q \in Shocks /\ q.kind = "DualShock" /\ q.step = step /\ q.inputs = d.inputs
    BY <1>1, <1>2, <2>2, DeviceGoes
  <2>4. Controllers!EnterConfig = s5
    BY DEF Controllers!EnterConfig, ShockStates
  <2>5. s3 \in ShockStates
    BY ShockFields
  <2>6. s4 \in ShockStates
    <3> HIDE DEF s3
    <3> QED BY <2>5, ShockFields
  <2>7. s5 \in ShockStates
    <3> HIDE DEF s4
    <3> QED BY <2>6, ShockFields
  <2> HIDE DEF s5, enters
  <2>8. s2 \in ShockStates
    BY <2>4, <2>7
  <2>9. Controllers!Answer(b, q) = [reply |-> b, device |-> q, shock |-> shock, card |-> card]
    BY DEF Controllers!Answer
  <2> HIDE DEF q, b, s2
  <2>10. r.shock = s2 /\ r.device = q /\ r.reply = b
    BY <2>1, <2>9
  <2>11. b.inputs = d.inputs
    BY ReplyParts DEF b
  <2> HIDE DEF r
  <2>12. ToCome(q, s2) = ToCome(d, shock) - 1
    <3>1. ToCome(d, shock) = IF Controllers!SendsAnalog(shock) THEN 6 ELSE 2
      BY <1>1, <1>2 DEF ToCome
    <3>2. ToCome(q, s2) = IF Controllers!SendsAnalog(shock) THEN 5 ELSE 1
      BY <2>3 DEF ToCome
    <3> QED BY <3>1, <3>2
  <2>13. Sends(d, shock, q, s2)
    BY <2>2, <2>3, <2>12 DEF Sends, ControllerStates
  <2> QED BY <2>8, <2>10, <2>11, <2>13 DEF Snapshot, r
<1>3. CASE d.step = "High"
  <2>1. r = Controllers!Answer(Controllers!Shows("high", d), Controllers!Disconnected)
    BY <1>3 DEF Controllers!DualShock
  <2>2. /\ r.device = Controllers!Disconnected /\ r.shock = shock
        /\ r.reply = Controllers!Shows("high", d)
    BY <2>1, AnswerFields
  <2>3. ToCome(d, shock) = 1
    BY <1>1, <1>3 DEF ToCome
  <2> QED BY <2>2, <2>3, ReplyParts DEF Snapshot, Sends
<1>4. CASE d.step = "HighAnalog"
  <2> DEFINE q == Controllers!Counts(d, "Sticks", 4)
  <2>1. r = Controllers!Answer(Controllers!Shows("high", d), q)
    BY <1>4 DEF Controllers!DualShock
  <2>2. /\ q \in CountingShocks /\ q.kind = "DualShock" /\ q.step = "Sticks" /\ q.left = 4
        /\ q.inputs = d.inputs
    BY <1>1, <1>4, DeviceCounts
  <2> HIDE DEF q
  <2>3. r.shock = shock /\ r.device = q /\ r.reply = Controllers!Shows("high", d)
    BY <2>1, AnswerFields
  <2>4. ToCome(q, shock) = ToCome(d, shock) - 1
    BY <1>1, <1>4, <2>2 DEF ToCome
  <2>5. Sends(d, shock, q, shock)
    BY <2>2, <2>4 DEF Sends, ControllerStates
  <2> QED BY <2>3, <2>5, ReplyParts DEF Snapshot
<1>5. CASE d.step = "ModeChange"
  <2> DEFINE q == Controllers!Counts(d, "Zeroes", 5)
             mode == IF tx = 0 THEN "Normal" ELSE shock.mode
             s2 == [shock EXCEPT !.mode = mode]
  <2>1. r = [Controllers!Answer(Controllers!Other, q)
             EXCEPT !.shock.mode = IF tx = 0 THEN "Normal" ELSE @]
    BY <1>5 DEF Controllers!DualShock
  <2>2. /\ q \in CountingShocks /\ q.kind = "DualShock" /\ q.step = "Zeroes" /\ q.left = 5
        /\ q.inputs = d.inputs
    BY <1>1, <1>5, DeviceCounts
  <2> HIDE DEF q
  <2>3. r.shock = s2 /\ r.device = q /\ r.reply = Controllers!Other
    BY <2>1 DEF Controllers!Answer
  <2>4. s2 \in ShockStates
    <3>1. mode \in {"Normal", "Config"}
      BY ShockFields
    <3> QED BY <3>1, ShockFields
  <2> HIDE DEF s2, r
  <2>5. ToCome(q, s2) = ToCome(d, shock) - 1
    BY <1>1, <1>5, <2>2 DEF ToCome
  <2>6. Sends(d, shock, q, s2)
    BY <2>2, <2>5 DEF Sends, ControllerStates
  <2> QED BY <2>3, <2>4, <2>6, ReplyParts DEF Snapshot, r
<1>6. CASE d.step = "Led"
  <2> DEFINE q == Controllers!Goes(d, "LedLock")
             mode == CASE tx = 0 -> "Digital" [] tx = 1 -> "Analog" [] OTHER -> shock.analog_mode
             s2 == [shock EXCEPT !.analog_mode = mode]
  <2>1. r = [Controllers!Answer(Controllers!Other, q)
             EXCEPT !.shock.analog_mode = CASE tx = 0 -> "Digital" [] tx = 1 -> "Analog"
                                            [] OTHER -> @]
    BY <1>6 DEF Controllers!DualShock
  <2>2. /\ q \in Shocks /\ q.kind = "DualShock" /\ q.step = "LedLock" /\ q.inputs = d.inputs
    BY <1>1, <1>6, DeviceGoes DEF ShockSteps
  <2> HIDE DEF q
  <2>3. r.shock = s2 /\ r.device = q /\ r.reply = Controllers!Other
    BY <2>1 DEF Controllers!Answer
  <2>4. s2 \in ShockStates
    <3>1. mode \in {"Digital", "Analog"}
      BY ShockFields
    <3> HIDE DEF mode
    <3> QED BY <3>1, ShockFields
  <2> HIDE DEF s2, r
  <2>5. ToCome(q, s2) = ToCome(d, shock) - 1
    BY <1>1, <1>6, <2>2 DEF ToCome
  <2>6. Sends(d, shock, q, s2)
    BY <2>2, <2>5 DEF Sends, ControllerStates
  <2> QED BY <2>3, <2>4, <2>6, ReplyParts DEF Snapshot, r
<1>7. CASE d.step = "LedLock"
  <2> DEFINE q == Controllers!Counts(d, "Zeroes", 4)
             locked == tx % 4 = 3
             s2 == [shock EXCEPT !.locked = locked]
  <2>1. r = [Controllers!Answer(Controllers!Other, q) EXCEPT !.shock.locked = locked]
    BY <1>7 DEF Controllers!DualShock
  <2>2. /\ q \in CountingShocks /\ q.kind = "DualShock" /\ q.step = "Zeroes" /\ q.left = 4
        /\ q.inputs = d.inputs
    BY <1>1, <1>7, DeviceCounts
  <2>3. locked \in BOOLEAN
    OBVIOUS
  <2> HIDE DEF q, locked
  <2>4. r.shock = s2 /\ r.device = q /\ r.reply = Controllers!Other
    BY <2>1 DEF Controllers!Answer
  <2>5. s2 \in ShockStates
    BY <2>3, ShockFields
  <2> HIDE DEF s2, r
  <2>6. ToCome(q, s2) = ToCome(d, shock) - 1
    BY <1>1, <1>7, <2>2 DEF ToCome
  <2>7. Sends(d, shock, q, s2)
    BY <2>2, <2>6 DEF Sends, ControllerStates
  <2> QED BY <2>4, <2>5, <2>7, ReplyParts DEF Snapshot, r
<1>8. CASE d.step \in {"Sticks", "Zeroes"}
  <2> DEFINE b == IF d.step = "Sticks" THEN Controllers!Shows("stick", d) ELSE Controllers!Other
             n == d.left - 1
             q == IF d.left > 1 THEN [d EXCEPT !.left = @ - 1] ELSE Controllers!Disconnected
  <2>1. r = Controllers!Answer(b, q)
    BY <1>8 DEF Controllers!DualShock, Controllers!Rest
  <2>2. r.shock = shock /\ r.device = q /\ r.reply = b
    BY <2>1, AnswerFields
  <2>3. d \in CountingShocks /\ d.left \in 1 .. 6 /\ ToCome(d, shock) = d.left
    BY <1>1, <1>8, DeviceKinds DEF ToCome
  <2>4. Snapshot(r, d)
    BY <2>2, ReplyParts DEF Snapshot
  <2> HIDE DEF r, b
  <2>5. CASE d.left > 1
    <3> DEFINE e == [d EXCEPT !.left = n]
    <3>1. q = e /\ n \in 1 .. 6
      BY <2>3, <2>5
    <3> HIDE DEF n
    <3>2. e \in CountingShocks /\ e.kind = "DualShock" /\ e.step = d.step /\ e.left = n
          /\ e.inputs = d.inputs
      BY <2>3, <3>1 DEF CountingShocks
    <3> HIDE DEF e
    <3>3. ToCome(e, shock) = n
      BY <1>8, <3>2 DEF ToCome
    <3>4. Sends(d, shock, e, shock)
      BY <1>8, <2>3, <3>2, <3>3 DEF Sends, ControllerStates, n
    <3> QED BY <2>2, <2>4, <3>1, <3>4 DEF r
  <2>6. CASE ~(d.left > 1)
    <3>1. q = Controllers!Disconnected /\ ToCome(d, shock) = 1
      BY <2>3, <2>6
    <3> QED BY <2>2, <2>4, <3>1 DEF r, Sends
  <2> QED BY <2>5, <2>6
<1>9. QED
  BY <1>1, <1>2, <1>3, <1>4, <1>5, <1>6, <1>7, <1>8

\* The analog mode changes only with software, or signalled.
LEMMA ShockSignals ==
  ASSUME NEW d \in Shocks \union CountingShocks, d = active, NEW tx, shock \in ShockStates,
         Signalled(shock, configured), d.step = "LowEntering" => shock.mode = "Normal"
  PROVE  LET r == Controllers!DualShock(d, tx)
             known == IF Controllers!SetsMode(r) THEN r.shock.analog_mode ELSE configured
         IN Signalled(r.shock, known)
<1> DEFINE r == Controllers!DualShock(d, tx)
           s == r.shock
           known == IF Controllers!SetsMode(r) THEN s.analog_mode ELSE configured
           Kept == /\ s.analog_mode = shock.analog_mode
                   /\ s.config_mode_entered = shock.config_mode_entered
                   /\ s.analog_mode_changed = shock.analog_mode_changed
<1>1. /\ d.kind = "DualShock"
      /\ d.step \in ShockSteps \union {"Sticks", "Zeroes"}
  BY DeviceKinds
<1>2. ASSUME Controllers!SetsMode(r) PROVE Signalled(s, known)
  BY <1>2 DEF Signalled
<1>3. ASSUME Kept PROVE Signalled(s, known)
  BY <1>2, <1>3 DEF Signalled
<1>4. ASSUME s = shock PROVE Kept
  BY <1>4
<1>5. CASE d.step \in {"Low", "LowEntering"}
  <2> DEFINE enters == d.step = "LowEntering" /\ tx = Controllers!Hex(0, 1)
             s2 == IF enters THEN Controllers!EnterConfig ELSE shock
             b == Controllers!Shows("low", d)
             q == Controllers!Goes(d, IF Controllers!SendsAnalog(shock) THEN "HighAnalog"
                                      ELSE "High")
  <2>1. r = [Controllers!Answer(b, q) EXCEPT !.shock = s2]
    BY <1>5 DEF Controllers!DualShock, Controllers!ShockButtons
  <2>2. s = s2
    <3> HIDE DEF b, q, s2
    <3> QED BY <2>1 DEF Controllers!Answer
  <2>3. CASE enters
    <3>1. s.mode = "Config"
      BY <2>2, <2>3 DEF Controllers!EnterConfig, ShockStates
    <3>2. Controllers!SetsMode(r)
      <4> HIDE DEF s2, b, q
      <4> QED BY <1>1, <2>3, <3>1 DEF Controllers!SetsMode
    <3> QED BY <1>2, <3>2
  <2>4. CASE ~enters
    BY <1>3, <1>4, <2>2, <2>4
  <2> QED BY <2>3, <2>4
<1>6. CASE d.step = "Led"
  BY <1>1, <1>2, <1>6 DEF Controllers!SetsMode
<1>7. CASE d.step = "ModeChange"
  <2> DEFINE q == Controllers!Counts(d, "Zeroes", 5)
  <2>1. r = [Controllers!Answer(Controllers!Other, q)
             EXCEPT !.shock.mode = IF tx = 0 THEN "Normal" ELSE @]
    BY <1>7 DEF Controllers!DualShock
  <2> HIDE DEF q
  <2>2. s = [shock EXCEPT !.mode = IF tx = 0 THEN "Normal" ELSE shock.mode]
    BY <2>1 DEF Controllers!Answer
  <2>3. Kept
    <3> HIDE DEF s
    <3> QED BY <2>2 DEF ShockStates
  <2> QED BY <1>3, <2>3
<1>8. CASE d.step = "LedLock"
  <2> DEFINE q == Controllers!Counts(d, "Zeroes", 4)
             locked == tx % 4 = 3
  <2>1. r = [Controllers!Answer(Controllers!Other, q) EXCEPT !.shock.locked = locked]
    BY <1>8 DEF Controllers!DualShock
  <2> HIDE DEF q, locked
  <2>2. s = [shock EXCEPT !.locked = locked]
    BY <2>1 DEF Controllers!Answer
  <2>3. Kept
    <3> HIDE DEF s
    <3> QED BY <2>2 DEF ShockStates
  <2> QED BY <1>3, <2>3
<1>9. CASE d.step \in Identified
  BY <1>3, <1>4, <1>9, ShockIdentified, DeviceKinds DEF Identified
<1>10. CASE d.step = "IdLow"
  BY <1>3, <1>4, <1>10, ShockIdentifies, DeviceKinds
<1>11. CASE d.step \in {"High", "HighAnalog", "Sticks", "Zeroes"}
  <2>1. \E b, q : r = Controllers!Answer(b, q)
    <3>1. CASE d.step = "High"
      BY <3>1 DEF Controllers!DualShock
    <3>2. CASE d.step = "HighAnalog"
      BY <3>2 DEF Controllers!DualShock
    <3>3. CASE d.step \in {"Sticks", "Zeroes"}
      BY <3>3 DEF Controllers!DualShock, Controllers!Rest
    <3> QED BY <1>11, <3>1, <3>2, <3>3
  <2>2. s = shock
    <3> HIDE DEF r
    <3> QED BY <2>1, AnswerFields
  <2> QED BY <1>3, <1>4, <2>2
<1>12. QED
  <2>1. d.step \in Identified \union {"IdLow", "Low", "LowEntering", "High", "HighAnalog",
                                      "ModeChange", "Led", "LedLock", "Sticks", "Zeroes"}
    BY <1>1 DEF ShockSteps
  <2>2. Signalled(s, known)
    BY <1>5, <1>6, <1>7, <1>8, <1>9, <1>10, <1>11, <2>1
  <2> QED BY <2>2

\* How the history follows a byte exchanged with a controller.
LEMMA TalkFollows ==
  ASSUME active.kind \in {"Digital", "DualShock"}, NEW tx, NEW r
  PROVE  /\ active.step = "IdLow" =>
              Controllers!TalkOf(tx, r)
                = [talk EXCEPT !.announced = Controllers!Halfwords(r.reply.value)]
         /\ active.step \in Identified => Controllers!TalkOf(tx, r) = talk
         /\ active.step # "IdLow" /\ active.step \notin Identified =>
              Controllers!TalkOf(tx, r)
                = [talk EXCEPT !.sent = @ + 1,
                               !.seen = IF r.reply.part # "other" THEN @ \union {r.reply.inputs}
                                        ELSE @]
BY DEF Controllers!TalkOf, Controllers!IsId, Controllers!IsIdHigh, Identified

LEMMA DeviceIs ==
  ASSUME NEW d \in DeviceStates
  PROVE  /\ d.kind = "Unselected" => d = Controllers!Unselected
         /\ d.kind = "NoDevice" => d = Controllers!NoDevice
         /\ d.kind = "Disconnected" => d = Controllers!Disconnected
         /\ d.kind = "Digital" => d \in Digitals
         /\ d.kind = "DualShock" => d \in Shocks \union CountingShocks
         /\ d.kind \in {"Unselected", "NoDevice", "Disconnected", "Digital", "DualShock"}
BY DeviceKinds DEF DeviceStates, ControllerStates

\* What one byte leads to: the device, its mode and the conversation fit together, and a change
\* of mode stays signalled.
Exchanged(r, t) ==
  /\ r.device \in DeviceStates /\ r.shock \in ShockStates /\ t \in Talks
  /\ Fits(r.device, r.shock, t)
  /\ Signalled(r.shock, IF Controllers!SetsMode(r) THEN r.shock.analog_mode ELSE configured)

\* No controller: software selects one, or sends to nobody.
LEMMA NobodyAnswers ==
  ASSUME ConversationInvariant, NEW tx \in ControllerBytes(active),
         active.kind \in {"Unselected", "NoDevice", "Disconnected"}
  PROVE  LET r == Controllers!Exchange(tx)
         IN Exchanged(r, Controllers!TalkOf(tx, r))
<1> DEFINE r == Controllers!Exchange(tx)
           t == Controllers!TalkOf(tx, r)
<1>1. /\ active \in DeviceStates /\ shock \in ShockStates /\ talk \in Talks
      /\ Fits(active, shock, talk) /\ Signalled(shock, configured)
  BY DEF ConversationInvariant, Controllers!ModeChangeIsSignalled, Signalled, ShockStates
<1>2. ~Controllers!SetsMode(r)
  BY DEF Controllers!SetsMode
<1>3. CASE active.kind = "Unselected"
  <2> DEFINE pad == pads[selected]
             d == Controllers!Controller(pad.type, pad.inputs)
  <2>1. /\ pad \in Controllers!Pads({"None", "Digital", "DualShock"})
        /\ pad.type \in {"None", "Digital", "DualShock"} /\ pad.inputs \in Inputs
    BY DEF ConversationInvariant, PadStates, Controllers!Pads
  <2>2. tx = 1 /\ Controllers!Hex(0, 1) = 1 /\ Controllers!Hex(8, 1) = 129
    BY <1>3 DEF ControllerBytes, Hex, Controllers!Hex
  <2>3. r = Controllers!Answer(Controllers!Byte(0), Controllers!Connect(tx, selected))
    BY <1>3 DEF Controllers!Exchange
  <2>4. Controllers!Connect(tx, selected) = IF pad.type # "None" THEN d ELSE Controllers!NoDevice
    BY <2>2 DEF Controllers!Connect
  <2>5. r.shock = shock /\ r.device = IF pad.type # "None" THEN d ELSE Controllers!NoDevice
    BY <2>3, <2>4, AnswerFields
  <2>6. pad.type # "None" =>
           d \in Digitals \union Shocks /\ d.step = "IdLow" /\ d.inputs = pad.inputs
    BY <2>1 DEF Controllers!Controller, Digitals, Shocks, ShockSteps
  <2>7. talk.sent = 0 /\ talk.announced = 0 /\ talk.seen = {}
    BY <1>1, <1>3 DEF Fits
  <2> HIDE DEF pad, d, r
  <2>8. CASE pad.type # "None"
    <3>1. d.kind \in {"Digital", "DualShock"}
      BY <2>6, <2>8, DeviceKinds
    <3>2. t = [talk EXCEPT !.at_connect = {d.inputs}]
      BY <1>3, <2>5, <2>8, <3>1 DEF Controllers!TalkOf
    <3> HIDE DEF t
    <3>3. t \in Talks
      BY <1>1, <2>1, <2>6, <2>8, <3>2 DEF Talks
    <3>4. t.at_connect = {d.inputs} /\ t.sent = 0 /\ t.announced = 0 /\ t.seen = {}
      BY <1>1, <2>7, <3>2 DEF Talks
    <3>5. Fits(d, shock, t)
      BY <2>6, <2>8, <3>1, <3>4 DEF Fits
    <3>6. d \in DeviceStates
      BY <2>6, <2>8 DEF DeviceStates, ControllerStates
    <3> QED BY <1>1, <1>2, <2>5, <2>8, <3>3, <3>5, <3>6 DEF Exchanged, r, t
  <2>9. CASE pad.type = "None"
    <3>1. t = talk
      BY <1>3, <2>5, <2>9, DeviceKinds DEF Controllers!TalkOf
    <3>2. Fits(Controllers!NoDevice, shock, talk)
      BY <2>7, DeviceKinds DEF Fits
    <3> QED BY <1>1, <1>2, <2>5, <2>9, <3>1, <3>2 DEF Exchanged, DeviceStates, r
  <2> QED BY <2>8, <2>9
<1>4. CASE active.kind \in {"NoDevice", "Disconnected"}
  <2>1. r.device = active /\ r.shock = shock
    <3>1. CASE active.kind = "NoDevice"
      <4>1. r = Controllers!Answer(Controllers!Byte(0), Controllers!NoDevice)
        BY <3>1 DEF Controllers!Exchange
      <4> QED BY <1>1, <3>1, <4>1, AnswerFields, DeviceIs
    <3>2. CASE active.kind = "Disconnected"
      <4>1. r = Controllers!Answer(reply, Controllers!Disconnected)
        BY <3>2 DEF Controllers!Exchange
      <4> QED BY <1>1, <3>2, <4>1, AnswerFields, DeviceIs
    <3> QED BY <1>4, <3>1, <3>2
  <2> HIDE DEF r
  <2>2. t = talk
    BY <1>4 DEF Controllers!TalkOf
  <2> QED BY <1>1, <1>2, <2>1, <2>2 DEF Exchanged, r
<1>5. QED
  BY <1>3, <1>4

\* A controller's first byte announces what is to come.
LEMMA AnnouncementFits ==
  ASSUME NEW d \in ControllerStates, NEW q, NEW s, NEW t \in Talks, NEW n \in Nat,
         Fits(d, s, t), d.step = "IdLow",
         \/ q = Controllers!Disconnected
         \/ /\ q \in ControllerStates /\ q.inputs = d.inputs
            /\ q.step \notin {"IdLow", "LowEntering"}
            /\ ToCome(q, s) = 2 * n
            /\ q.step = "IdHighEntering" => s.mode = "Normal"
  PROVE  LET u == [t EXCEPT !.announced = n]
         IN u \in Talks /\ Fits(q, s, u)
<1> DEFINE u == [t EXCEPT !.announced = n]
<1>1. d.kind \in {"Digital", "DualShock"}
  BY DeviceKinds DEF ControllerStates
<1>2. t.sent = 0 /\ t.at_connect = {d.inputs} /\ t.seen \subseteq {d.inputs}
  BY <1>1 DEF Fits
<1>3. u \in Talks
  BY DEF Talks
<1>4. /\ u.announced = n /\ u.sent = t.sent /\ u.at_connect = t.at_connect
      /\ u.seen = t.seen
  BY DEF Talks
<1> HIDE DEF u
<1>5. CASE q = Controllers!Disconnected
  <2>1. q.kind = "Disconnected"
    BY <1>5, DeviceKinds
  <2> QED BY <1>2, <1>3, <1>4, <2>1 DEF Fits, u
<1>6. CASE q # Controllers!Disconnected
  <2>1. q.kind \in {"Digital", "DualShock"}
    BY <1>6, DeviceKinds DEF ControllerStates
  <2>2. u.sent + ToCome(q, s) = 2 * u.announced
    BY <1>2, <1>4, <1>6
  <2>3. Fits(q, s, u)
    BY <1>2, <1>4, <1>6, <2>1, <2>2 DEF Fits
  <2> QED BY <1>3, <2>3 DEF u
<1>7. QED
  BY <1>5, <1>6

LEMMA DigitalExchanged ==
  ASSUME ConversationInvariant, NEW tx, active.kind = "Digital"
  PROVE  LET r == Controllers!Exchange(tx)
         IN Exchanged(r, Controllers!TalkOf(tx, r))
<1> DEFINE d == active
           r == Controllers!Exchange(tx)
           t == Controllers!TalkOf(tx, r)
<1>1. /\ d \in Digitals /\ d \in ControllerStates /\ shock \in ShockStates /\ talk \in Talks
      /\ Fits(d, shock, talk) /\ Signalled(shock, configured)
      /\ d.step \in {"IdLow", "IdHigh", "InputsLow", "InputsHigh"}
  BY DeviceIs, DeviceKinds DEF ConversationInvariant, Controllers!ModeChangeIsSignalled,
     Signalled,
     ShockStates, ControllerStates
<1>2. r = Controllers!Digital(d, tx)
  BY DEF Controllers!Exchange
<1>3. /\ r.shock = shock
      /\ d.step = "IdLow" =>
           /\ r.reply = Controllers!Byte(65)
           /\ \/ r.device = Controllers!Disconnected
              \/ r.device \in Digitals /\ r.device.step = "IdHigh" /\ r.device.inputs = d.inputs
      /\ d.step = "IdHigh" =>
           r.device \in Digitals /\ r.device.step = "InputsLow" /\ r.device.inputs = d.inputs
      /\ d.step \in {"InputsLow", "InputsHigh"} =>
           Snapshot(r, d) /\ Sends(d, shock, r.device, shock)
  BY <1>1, <1>2, DigitalAnswers
<1>4. ~Controllers!SetsMode(r)
  BY DEF Controllers!SetsMode
<1> HIDE DEF r
<1>5. SUFFICES r.device \in DeviceStates /\ t \in Talks /\ Fits(r.device, shock, t)
  BY <1>1, <1>3, <1>4 DEF Exchanged, r
<1>6. CASE d.step = "IdLow"
  <2>1. t = [talk EXCEPT !.announced = 1]
    <3>1. t = [talk EXCEPT !.announced = Controllers!Halfwords(r.reply.value)]
      BY <1>6, TalkFollows
    <3>2. r.reply.value = 65
      BY <1>3, <1>6, ReplyParts
    <3>3. Controllers!Halfwords(65) = 1
      BY DEF Controllers!Halfwords, Controllers!Hex
    <3> QED BY <3>1, <3>2, <3>3
  <2>2. \/ r.device = Controllers!Disconnected
        \/ /\ r.device \in ControllerStates /\ r.device.inputs = d.inputs
           /\ r.device.step \notin {"IdLow", "LowEntering", "IdHighEntering"}
           /\ ToCome(r.device, shock) = 2 * 1
    BY <1>3, <1>6, DeviceKinds DEF ControllerStates, ToCome
  <2> HIDE DEF t, d
  <2>3. t \in Talks /\ Fits(r.device, shock, t)
    BY <1>1, <1>6, <2>1, <2>2, AnnouncementFits
  <2> QED BY <2>2, <2>3 DEF DeviceStates
<1>7. CASE d.step = "IdHigh"
  <2>1. t = talk
    BY <1>7, TalkFollows DEF Identified
  <2>2. /\ r.device \in Digitals /\ r.device.step = "InputsLow" /\ r.device.inputs = d.inputs
        /\ r.device.kind = "Digital"
    BY <1>3, <1>7, DeviceKinds
  <2>3. d.kind = "Digital"
    OBVIOUS
  <2>4. ToCome(d, shock) = 2 /\ ToCome(r.device, shock) = 2
    BY <1>7, <2>2, <2>3 DEF ToCome
  <2>5. Fits(r.device, shock, talk)
    BY <1>1, <1>7, <2>2, <2>3, <2>4 DEF Fits
  <2> QED BY <1>1, <2>1, <2>2, <2>5 DEF DeviceStates, ControllerStates
<1>8. CASE d.step \in {"InputsLow", "InputsHigh"}
  <2> DEFINE seen == IF r.reply.part # "other" THEN talk.seen \union {r.reply.inputs}
                     ELSE talk.seen
  <2>1. t = [talk EXCEPT !.sent = @ + 1, !.seen = seen]
    <3>1. t = [talk EXCEPT !.sent = @ + 1,
                           !.seen = IF r.reply.part # "other" THEN @ \union {r.reply.inputs}
                                    ELSE @]
      <4>1. active.step # "IdLow" /\ active.step \notin Identified
        BY <1>8 DEF Identified
      <4>2. active.kind \in {"Digital", "DualShock"}
        OBVIOUS
      <4> HIDE DEF r, t, d
      <4> QED BY <4>1, <4>2, TalkFollows DEF t
    <3> QED BY <3>1
  <2>2. seen = talk.seen \/ seen = talk.seen \union {d.inputs}
    BY <1>3, <1>8 DEF Snapshot
  <2> HIDE DEF t, d, seen
  <2>3. d.step # "IdLow" /\ Sends(d, shock, r.device, shock)
    BY <1>3, <1>8
  <2>4. t \in Talks /\ Fits(r.device, shock, t)
    BY <1>1, <2>1, <2>2, <2>3, ByteFits
  <2>5. r.device \in DeviceStates
    BY <2>3 DEF Sends, DeviceStates
  <2> QED BY <2>4, <2>5
<1>9. QED
  BY <1>1, <1>6, <1>7, <1>8

LEMMA ShockExchanged ==
  ASSUME ConversationInvariant, NEW tx, active.kind = "DualShock"
  PROVE  LET r == Controllers!Exchange(tx)
         IN Exchanged(r, Controllers!TalkOf(tx, r))
<1> DEFINE d == active
           r == Controllers!Exchange(tx)
           t == Controllers!TalkOf(tx, r)
           known == IF Controllers!SetsMode(r) THEN r.shock.analog_mode ELSE configured
<1>1. /\ d \in Shocks \union CountingShocks /\ d \in ControllerStates
      /\ shock \in ShockStates /\ talk \in Talks
      /\ Fits(d, shock, talk) /\ Signalled(shock, configured)
      /\ d.kind = "DualShock"
  BY DeviceIs DEF ConversationInvariant, Controllers!ModeChangeIsSignalled, Signalled,
     ShockStates, ControllerStates
<1>2. r = Controllers!DualShock(d, tx)
  BY DEF Controllers!Exchange
<1>3. d.step \in {"IdHighEntering", "LowEntering"} => shock.mode = "Normal"
  BY <1>1 DEF Fits
<1>4. Signalled(r.shock, known)
  <2>1. d.step = "LowEntering" => shock.mode = "Normal"
    BY <1>3
  <2> QED BY <1>1, <1>2, <2>1, ShockSignals
<1>5. d.step \in Identified \union {"IdLow"} => d \in Shocks
  BY <1>1, DeviceKinds DEF Identified
<1>6. d.step = "IdLow" =>
        /\ r.shock = shock
        /\ Controllers!Halfwords(r.reply.value) = IF Controllers!SendsAnalog(shock) THEN 3 ELSE 1
        /\ \/ r.device = Controllers!Disconnected
           \/ /\ r.device \in Shocks /\ r.device.step \in Identified
              /\ r.device.inputs = d.inputs
              /\ ToCome(r.device, shock) = IF Controllers!SendsAnalog(shock) THEN 6 ELSE 2
              /\ r.device.step = "IdHighEntering" => shock.mode = "Normal"
  BY <1>1, <1>2, <1>5, ShockIdentifies
<1>7. d.step \in Identified =>
        /\ r.shock = shock
        /\ r.device \in ControllerStates /\ r.device.inputs = d.inputs
        /\ r.device.step \notin {"IdLow", "IdHighEntering"}
        /\ r.device.step = "LowEntering" => d.step = "IdHighEntering"
        /\ ToCome(r.device, shock) = ToCome(d, shock)
  BY <1>2, <1>5, ShockIdentified
<1>8. d.step # "IdLow" /\ d.step \notin Identified =>
        r.shock \in ShockStates /\ Snapshot(r, d) /\ Sends(d, shock, r.device, r.shock)
  BY <1>1, <1>2, ShockSends
<1> HIDE DEF r, known
<1>9. SUFFICES r.shock \in ShockStates /\ r.device \in DeviceStates /\ t \in Talks
               /\ Fits(r.device, r.shock, t)
  BY <1>4 DEF Exchanged, r, known
<1>10. CASE d.step = "IdLow"
  <2> DEFINE n == IF Controllers!SendsAnalog(shock) THEN 3 ELSE 1
  <2>1. t = [talk EXCEPT !.announced = n]
    <3>1. t = [talk EXCEPT !.announced = Controllers!Halfwords(r.reply.value)]
      BY <1>1, <1>10, TalkFollows
    <3> QED BY <1>6, <1>10, <3>1
  <2>2. n \in Nat /\ 2 * n = IF Controllers!SendsAnalog(shock) THEN 6 ELSE 2
    OBVIOUS
  <2>3. \/ r.device = Controllers!Disconnected
        \/ /\ r.device \in ControllerStates /\ r.device.inputs = d.inputs
           /\ r.device.step \notin {"IdLow", "LowEntering"}
           /\ ToCome(r.device, shock) = 2 * n
           /\ r.device.step = "IdHighEntering" => shock.mode = "Normal"
    BY <1>6, <1>10, <2>2 DEF ControllerStates, Identified
  <2> HIDE DEF t, d, n
  <2>4. t \in Talks /\ Fits(r.device, shock, t)
    BY <1>1, <1>10, <2>1, <2>2, <2>3, AnnouncementFits
  <2> QED BY <1>1, <1>6, <1>10, <2>3, <2>4 DEF DeviceStates
<1>11. CASE d.step \in Identified
  <2>1. t = talk
    BY <1>1, <1>11, TalkFollows
  <2>2. r.device.kind \in {"Digital", "DualShock"} /\ d.step # "IdLow"
    BY <1>7, <1>11, DeviceKinds DEF ControllerStates, Identified
  <2>3. r.device.step \in {"IdHighEntering", "LowEntering"} => shock.mode = "Normal"
    BY <1>3, <1>7, <1>11
  <2>4. Fits(r.device, shock, talk)
    BY <1>1, <1>7, <1>11, <2>2, <2>3 DEF Fits
  <2> QED BY <1>1, <1>7, <1>11, <2>1, <2>4 DEF DeviceStates
<1>12. CASE d.step # "IdLow" /\ d.step \notin Identified
  <2> DEFINE seen == IF r.reply.part # "other" THEN talk.seen \union {r.reply.inputs}
                     ELSE talk.seen
  <2>1. t = [talk EXCEPT !.sent = @ + 1, !.seen = seen]
    <3>1. t = [talk EXCEPT !.sent = @ + 1,
                           !.seen = IF r.reply.part # "other" THEN @ \union {r.reply.inputs}
                                    ELSE @]
      BY <1>1, <1>12, TalkFollows
    <3> QED BY <3>1
  <2>2. seen = talk.seen \/ seen = talk.seen \union {d.inputs}
    BY <1>8, <1>12 DEF Snapshot
  <2> HIDE DEF t, d, seen
  <2>3. r.shock \in ShockStates /\ Sends(d, shock, r.device, r.shock)
    BY <1>8, <1>12
  <2>4. t \in Talks /\ Fits(r.device, r.shock, t)
    BY <1>1, <1>12, <2>1, <2>2, <2>3, ByteFits
  <2>5. r.device \in DeviceStates
    BY <2>3 DEF Sends, DeviceStates
  <2> QED BY <2>3, <2>4, <2>5
<1>13. QED
  BY <1>10, <1>11, <1>12

\* Another analog mode that software did not ask for is signalled, and a conversation in which
\* the user caused it is set aside.
LEMMA ModeToggled ==
  ASSUME NEW s \in ShockStates
  PROVE  LET q == Controllers!Toggled(s)
         IN  /\ q \in ShockStates /\ q.mode = s.mode
             /\ q.config_mode_entered = s.config_mode_entered
             /\ q = s \/ q.analog_mode_changed = TRUE
<1> DEFINE mode == IF s.analog_mode = "Digital" THEN "Analog" ELSE "Digital"
           s1 == [s EXCEPT !.analog_mode = mode]
           s2 == [s1 EXCEPT !.analog_mode_changed = TRUE]
<1>1. mode \in {"Digital", "Analog"}
  OBVIOUS
<1> HIDE DEF mode
<1>2. s1 \in ShockStates
  BY <1>1, ShockFields
<1>3. s2 \in ShockStates
  <2> HIDE DEF s1
  <2> QED BY <1>2, ShockFields
<1>4. s2.mode = s.mode /\ s2.config_mode_entered = s.config_mode_entered
      /\ s2.analog_mode_changed = TRUE
  BY DEF ShockStates
<1>5. Controllers!Toggled(s) = IF s.locked THEN s ELSE s2
  BY DEF Controllers!Toggled, ShockStates, mode
<1>6. QED
  BY <1>3, <1>4, <1>5

LEMMA ConversationStep ==
  ASSUME ConversationInvariant, Controllers!Next
  PROVE  ConversationInvariant'
<1>1. /\ selected \in Controllers!Ports /\ active \in DeviceStates /\ pads \in PadStates
      /\ shock \in ShockStates /\ talk \in Talks /\ Fits(active, shock, talk)
      /\ Signalled(shock, configured)
  BY DEF ConversationInvariant, Controllers!ModeChangeIsSignalled, Signalled, ShockStates
<1>2. ASSUME selected' \in Controllers!Ports, active' \in DeviceStates, pads' \in PadStates,
             shock' \in ShockStates, talk' \in Talks, Fits(active', shock', talk'),
             Signalled(shock', configured')
      PROVE  ConversationInvariant'
  <2>1. Controllers!ModeChangeIsSignalled'
    BY <1>2 DEF Controllers!ModeChangeIsSignalled, Signalled, ShockStates
  <2> QED BY <1>2, <2>1 DEF ConversationInvariant, Fits, ToCome, Controllers!SendsAnalog,
             DeviceStates, ControllerStates, Digitals, Shocks, CountingShocks, PadStates,
             ShockStates, Talks, Controllers!Ports, Controllers!Pads
<1>3. ASSUME NEW tx \in ControllerBytes(active), Controllers!HostSends(tx)
      PROVE  ConversationInvariant'
  <2> DEFINE r == Controllers!Exchange(tx)
             t == Controllers!TalkOf(tx, r)
  <2>1. Exchanged(r, t)
    <3>1. CASE active.kind \in {"Unselected", "NoDevice", "Disconnected"}
      BY <1>3, <3>1, NobodyAnswers
    <3>2. CASE active.kind = "Digital"
      BY <3>2, DigitalExchanged
    <3>3. CASE active.kind = "DualShock"
      BY <3>3, ShockExchanged
    <3> QED BY <1>1, <3>1, <3>2, <3>3, DeviceIs
  <2>2. /\ active' = r.device /\ shock' = r.shock /\ talk' = t
        /\ configured' = IF Controllers!SetsMode(r) THEN r.shock.analog_mode ELSE configured
        /\ selected' = selected /\ pads' = pads
    BY <1>3 DEF Controllers!HostSends
  <2> HIDE DEF r, t
  <2> QED BY <1>1, <1>2, <2>1, <2>2 DEF Exchanged
<1>4. ASSUME NEW p \in Controllers!Ports, Controllers!HostSelects(p)
      PROVE  ConversationInvariant'
  <2>1. /\ selected' = p /\ active' = Controllers!Unselected /\ talk' = Controllers!Silence
        /\ shock' = shock /\ pads' = pads /\ configured' = configured
    BY <1>4 DEF Controllers!HostSelects
  <2>2. talk' \in Talks /\ Fits(active', shock', talk')
    BY <2>1, DeviceKinds DEF Talks, Controllers!Silence, Fits
  <2> QED BY <1>1, <1>2, <2>1, <2>2 DEF DeviceStates
<1>5. ASSUME NEW pad \in Controllers!Pads(PluggedTypes("One")), Controllers!SetInputs1(pad)
      PROVE  ConversationInvariant'
  <2> DEFINE fresh == IF last.type # pad.type THEN Controllers!DefaultShock ELSE shock
             s == IF Controllers!PressedAnalog(pad) THEN Controllers!Toggled(fresh) ELSE fresh
             disturbs == s.mode # shock.mode \/ s.analog_mode # shock.analog_mode
             t == IF disturbs THEN [talk EXCEPT !.disturbed = TRUE] ELSE talk
  <2>1. /\ pads' = [pads EXCEPT !["One"] = pad] /\ shock' = s /\ talk' = t
        /\ selected' = selected /\ active' = active /\ configured' = configured
    BY <1>5 DEF Controllers!SetInputs1
  <2>2. pads' \in PadStates
    <3>1. pad \in Controllers!Pads({"None", "Digital", "DualShock"})
      BY DEF Controllers!Pads, PluggedTypes
    <3> QED BY <1>1, <2>1, <3>1 DEF PadStates, Controllers!Ports
  <2>3. /\ fresh \in ShockStates /\ Signalled(fresh, configured)
        /\ fresh.mode = "Normal" \/ fresh.mode = shock.mode
    BY <1>1 DEF Controllers!DefaultShock, ShockStates, Signalled
  <2> HIDE DEF fresh
  <2>4. /\ s \in ShockStates /\ Signalled(s, configured)
        /\ s.mode = "Normal" \/ s.mode = shock.mode
    <3>1. CASE Controllers!PressedAnalog(pad)
      <4> DEFINE q == Controllers!Toggled(fresh)
      <4>1. /\ q \in ShockStates /\ q.mode = fresh.mode
            /\ q.config_mode_entered = fresh.config_mode_entered
            /\ q = fresh \/ q.analog_mode_changed = TRUE
        BY <2>3, ModeToggled
      <4> HIDE DEF q
      <4>2. Signalled(q, configured)
        BY <2>3, <4>1 DEF Signalled
      <4> QED BY <2>3, <3>1, <4>1, <4>2 DEF q
    <3>2. CASE ~Controllers!PressedAnalog(pad)
      BY <2>3, <3>2
    <3> QED BY <3>1, <3>2
  <2> HIDE DEF s
  <2>5. /\ t \in Talks /\ t.announced = talk.announced /\ t.sent = talk.sent
        /\ t.seen = talk.seen /\ t.at_connect = talk.at_connect
        /\ disturbs => t.disturbed = TRUE
        /\ ~disturbs => t = talk
    BY <1>1 DEF Talks
  <2>6. t.disturbed = FALSE => talk.disturbed = FALSE /\ ToCome(active, s) = ToCome(active, shock)
    <3>1. ~disturbs => Controllers!SendsAnalog(s) = Controllers!SendsAnalog(shock)
      BY DEF Controllers!SendsAnalog
    <3>2. ~disturbs => ToCome(active, s) = ToCome(active, shock)
      BY <3>1 DEF ToCome
    <3> HIDE DEF t, disturbs
    <3> QED BY <2>5, <3>2
  <2>7. active.step \in {"IdHighEntering", "LowEntering"}
        /\ active.kind \in {"Digital", "DualShock"}
          => s.mode = "Normal"
    BY <1>1, <2>4 DEF Fits
  <2> HIDE DEF t, disturbs
  <2>8. Fits(active, s, t)
    <3>1. active.kind \in {"Unselected", "NoDevice"} => t.sent = 0 /\ t.announced = 0
            /\ t.seen = {}
      BY <1>1, <2>5 DEF Fits
    <3>2. active.kind = "Disconnected" =>
            /\ t.seen \subseteq t.at_connect
            /\ t.disturbed = FALSE /\ t.sent > 0 => t.sent = 2 * t.announced
      BY <1>1, <2>5, <2>6 DEF Fits
    <3>3. active.kind \in {"Digital", "DualShock"} =>
            /\ t.at_connect = {active.inputs} /\ t.seen \subseteq {active.inputs}
            /\ active.step = "IdLow" => t.sent = 0 /\ t.announced = 0
            /\ t.disturbed = FALSE /\ active.step # "IdLow" =>
                 t.sent + ToCome(active, s) = 2 * t.announced
      BY <1>1, <2>5, <2>6 DEF Fits
    <3> QED BY <2>7, <3>1, <3>2, <3>3 DEF Fits
  <2> QED BY <1>1, <1>2, <2>1, <2>2, <2>4, <2>5, <2>8
<1>6. ASSUME NEW pad \in Controllers!Pads(PluggedTypes("Two")), Controllers!SetInputs2(pad)
      PROVE  ConversationInvariant'
  <2>1. /\ pads' = [pads EXCEPT !["Two"] = pad]
        /\ UNCHANGED <<selected, active, shock, talk, configured>>
    BY <1>6 DEF Controllers!SetInputs2
  <2>2. pad \in Controllers!Pads({"None", "Digital", "DualShock"})
    BY DEF Controllers!Pads, PluggedTypes
  <2>3. pads' \in PadStates
    BY <1>1, <2>1, <2>2 DEF PadStates, Controllers!Ports
  <2> QED BY <1>1, <1>2, <2>1, <2>3
<1>7. ASSUME Controllers!SaveCard PROVE ConversationInvariant'
  <2>1. UNCHANGED <<selected, active, pads, shock, talk, configured>>
    BY <1>7 DEF Controllers!SaveCard
  <2> QED BY <1>1, <1>2, <2>1
<1>8. QED
  BY <1>3, <1>4, <1>5, <1>6, <1>7 DEF Controllers!Next

LEMMA ConversationInitially == Controllers!Init => ConversationInvariant
<1> SUFFICES ASSUME Controllers!Init PROVE ConversationInvariant
  OBVIOUS
<1>1. /\ selected = "One" /\ active = Controllers!Unselected /\ talk = Controllers!Silence
      /\ shock = Controllers!DefaultShock /\ configured = "Digital"
      /\ pads = [p \in Controllers!Ports |->
                  [type |-> IF p = "One" THEN "Digital" ELSE "None",
                   inputs |-> InitialInputs, analog_button |-> FALSE]]
  BY DEF Controllers!Init
<1>2. pads \in PadStates
  BY <1>1, InputsAreValid DEF PadStates, Controllers!Pads
<1>3. shock \in ShockStates /\ Controllers!ModeChangeIsSignalled
  BY <1>1 DEF Controllers!DefaultShock, ShockStates, Controllers!ModeChangeIsSignalled
<1>4. talk \in Talks /\ Fits(active, shock, talk)
  BY <1>1, DeviceKinds DEF Talks, Controllers!Silence, Fits
<1>5. QED
  BY <1>1, <1>2, <1>3, <1>4 DEF ConversationInvariant, DeviceStates, Controllers!Ports

LEMMA ConversationsFit ==
  ASSUME ConversationInvariant
  PROVE  ConversationsAreWhole
<1>1. /\ active \in DeviceStates /\ talk \in Talks /\ Fits(active, shock, talk)
      /\ Controllers!ModeChangeIsSignalled
  BY DEF ConversationInvariant
<1>2. talk.sent \in Nat /\ talk.announced \in Nat /\ talk.disturbed \in BOOLEAN
  BY <1>1 DEF Talks
<1>3. CASE active.kind \in {"Unselected", "NoDevice"}
  BY <1>1, <1>2, <1>3 DEF Fits, ConversationsAreWhole, Controllers!LengthAsAnnounced,
     Controllers!InputsAreOneSnapshot
<1>4. CASE active.kind = "Disconnected"
  <2>1. talk.disturbed = FALSE => talk.sent = 0 \/ talk.sent = 2 * talk.announced
    BY <1>1, <1>2, <1>4 DEF Fits
  <2>2. ~talk.disturbed => /\ talk.sent <= 2 * talk.announced
                           /\ talk.sent > 0 => talk.sent = 2 * talk.announced
    BY <1>2, <2>1
  <2> QED BY <1>1, <1>4, <2>2 DEF Fits, ConversationsAreWhole, Controllers!LengthAsAnnounced,
          Controllers!InputsAreOneSnapshot
<1>5. CASE active.kind \in {"Digital", "DualShock"}
  <2>1. active \in ControllerStates
    BY <1>1, <1>5, DeviceKinds DEF DeviceStates
  <2>2. ToCome(active, shock) \in Nat
    <3>1. \A d \in CountingShocks : d.left \in Nat
      BY DeviceKinds
    <3>2. active.step \in {"Sticks", "Zeroes"} /\ active.kind = "DualShock"
            => active \in CountingShocks
      BY <2>1, DeviceKinds DEF ControllerStates, ShockSteps, Identified
    <3> QED BY <1>5, <3>1, <3>2 DEF ToCome
  <2>3. ~talk.disturbed => talk.sent <= 2 * talk.announced
    BY <1>1, <1>2, <1>5, <2>2 DEF Fits
  <2> QED BY <1>1, <1>5, <2>3 DEF Fits, ConversationsAreWhole, Controllers!LengthAsAnnounced,
          Controllers!InputsAreOneSnapshot
<1>6. QED
  BY <1>1, <1>3, <1>4, <1>5, DeviceIs

-----------------------------------------------------------------------------
(* The memory card: its states, and what of a write it has.                    *)

\* Until the address is known, and from then on, when the bytes of a sector are counted.
AskedSteps ==
  {"AwaitingCommand", "SendingId1Read", "SendingId1Write", "SendingId2Read", "SendingId2Write",
   "AddressHighRead", "AddressHighWrite", "AddressLowRead", "AddressLowWrite"}
ReadSteps ==
  {"ReadAcking1", "ReadAcking2", "ConfirmingHigh", "ConfirmingLow", "SendingData",
   "SendingChecksum", "SendingEnd"}
WrittenSteps ==
  {"ReceivingChecksum", "Acking1Ok", "Acking1Invalid", "Acking2Ok", "Acking2Invalid", "EndOk",
   "EndInvalid"}
MovingSteps == ReadSteps \union WrittenSteps \union {"ReceivingData"}

\* The steps before the first byte of a write.
WriteAsked ==
  {"AwaitingCommand", "SendingId1Write", "SendingId2Write", "AddressHighWrite", "AddressLowWrite"}

AskedCards == [kind: {"MemoryCard"}, step: AskedSteps, sector: Int, checksum: Int]
MovingCards ==
  [kind: {"MemoryCard"}, step: MovingSteps, sector: Int, checksum: Int, left: 1 .. CardSectorLen]
Connections ==
  {Card!Unselected, Card!NoDevice, Card!Disconnected} \union AskedCards \union MovingCards

Images == [CardSectors -> [0 .. CardSectorLen - 1 -> Int]]
Cards == [written_since_load: BOOLEAN, dirty: BOOLEAN, data: Images]
CardTalks ==
  [announced: {0}, sent: {0}, seen: {{}}, at_connect: {{}}, disturbed: {FALSE}, sum: Int,
   data: Seq(Int)]

\* The first bytes of a sector of an image are these.
Stored(sector, data, content) == \A i \in 1 .. Len(data) : content[sector][i - 1] = data[i]

\* Of a write in progress, the bytes that came are in the card; when all have come, they are in
\* the file or the card is dirty.
Holds(d, t, c, f) ==
  /\ d.kind = "Unselected" => t.data = << >>
  /\ d \in AskedCards =>
       /\ d.step \in WriteAsked => t.data = << >>
       /\ d.step = "AddressLowWrite" => d.sector \in {0, 256}
  /\ d \in MovingCards /\ d.step = "ReceivingData" =>
       /\ d.sector \in CardSectors /\ Len(t.data) = CardSectorLen - d.left
       /\ Stored(d.sector, t.data, c.data)
  /\ d \in MovingCards /\ d.step \in WrittenSteps =>
       /\ d.sector \in CardSectors /\ Len(t.data) = CardSectorLen
       /\ Stored(d.sector, t.data, c.data)
       /\ c.dirty = TRUE \/ Stored(d.sector, t.data, f)

Kept(w, c, f) ==
  /\ Len(w.data) = CardSectorLen
  /\ Stored(w.sector, w.data, c.data)
  /\ c.dirty = TRUE \/ Stored(w.sector, w.data, f)

CardInvariant ==
  /\ active \in Connections /\ talk \in CardTalks /\ shock = Card!DefaultShock
  /\ card \in Cards /\ file \in Images
  /\ confirmed \subseteq [sector: CardSectors, data: Seq(Int)]
  /\ Holds(active, talk, card, file)
  /\ \A w \in confirmed : Kept(w, card, file)

LEMMA ConnectionKinds ==
  /\ \A d \in AskedCards : d.kind = "MemoryCard" /\ d.step \in AskedSteps /\ d \notin MovingCards
  /\ \A d \in MovingCards : /\ d.kind = "MemoryCard" /\ d.step \in MovingSteps
                            /\ d \notin AskedCards /\ d.left \in 1 .. CardSectorLen
                            /\ d.sector \in Int /\ d.checksum \in Int
  /\ Card!Unselected.kind = "Unselected" /\ Card!NoDevice.kind = "NoDevice"
  /\ Card!Disconnected.kind = "Disconnected"
<1>1. \A d \in AskedCards : d.kind = "MemoryCard" /\ d.step \in AskedSteps
  BY DEF AskedCards
<1>2. \A d \in MovingCards : /\ d.kind = "MemoryCard" /\ d.step \in MovingSteps
                             /\ d.left \in 1 .. CardSectorLen
                             /\ d.sector \in Int /\ d.checksum \in Int
  BY DEF MovingCards
<1>3. AskedSteps \cap MovingSteps = {}
  BY DEF AskedSteps, MovingSteps, ReadSteps, WrittenSteps
<1>4. /\ Card!Unselected.kind = "Unselected" /\ Card!NoDevice.kind = "NoDevice"
      /\ Card!Disconnected.kind = "Disconnected"
  BY DEF Card!Unselected, Card!NoDevice, Card!Disconnected
<1>5. QED
  BY <1>1, <1>2, <1>3, <1>4

LEMMA XorIsNumber == \A m, n : Card!Xor(m, n) \in Int
<1> SUFFICES ASSUME NEW m, NEW n PROVE Card!Xor(m, n) \in Int
  OBVIOUS
<1>1. \A bit \in Int : Card!Differ(m, n, bit) \in Int
  BY DEF Card!Differ
<1>2. QED
  BY <1>1 DEF Card!Xor

\* A card goes on to another step, or begins to count.
LEMMA CardGoes ==
  /\ \A d \in AskedCards, step \in AskedSteps :
       LET q == Card!Goes(d, step)
       IN q \in AskedCards /\ q.step = step /\ q.sector = d.sector
  /\ \A d \in MovingCards, step \in MovingSteps :
       LET q == Card!Goes(d, step)
       IN q \in MovingCards /\ q.step = step /\ q.sector = d.sector /\ q.left = d.left
BY DEF Card!Goes, AskedCards, MovingCards

LEMMA CardCounts ==
  ASSUME NEW d \in AskedCards, NEW step \in MovingSteps, NEW n \in 1 .. CardSectorLen
  PROVE  LET q == Card!Counts(d, step, n)
         IN q \in MovingCards /\ q.step = step /\ q.left = n /\ q.sector = d.sector
<1> DEFINE q == Card!Counts(d, step, n)
           e == [kind |-> d.kind, step |-> step, sector |-> d.sector, checksum |-> d.checksum,
                 left |-> n]
<1>1. DOMAIN d \union {"left"} = {"kind", "step", "sector", "checksum", "left"}
  BY DEF AskedCards
<1>2. q = [k \in {"kind", "step", "sector", "checksum", "left"} |->
             CASE k = "step" -> step [] k = "left" -> n [] OTHER -> d[k]]
  BY <1>1 DEF Card!Counts
<1>3. q = e
  BY <1>2
<1>4. e \in MovingCards
  BY DEF AskedCards, MovingCards
<1>5. QED
  BY <1>3, <1>4

LEMMA CardAnswerFields ==
  ASSUME NEW b, NEW q
  PROVE  LET r == Card!Answer(b, q)
         IN r.reply = b /\ r.device = q /\ r.shock = shock /\ r.card = card
BY DEF Card!Answer

\* What the history of a write has after a byte.
LEMMA CardTalkFollows ==
  ASSUME talk \in CardTalks, active.kind = "MemoryCard", NEW tx \in Int, NEW r
  PROVE  LET t == Card!TalkOf(tx, r)
         IN  /\ t \in CardTalks
             /\ t.data = IF active.step = "ReceivingData" THEN Append(talk.data, tx)
                         ELSE talk.data
<1> DEFINE t == Card!TalkOf(tx, r)
           sum1 == Card!Xor(talk.sum, r.reply.value)
           sum2 == Card!Xor(talk.sum, tx)
           more == Append(talk.data, tx)
<1>1. sum1 \in Int /\ sum2 \in Int /\ more \in Seq(Int)
  BY XorIsNumber DEF CardTalks
<1>2. CASE active.step \in {"ConfirmingHigh", "ConfirmingLow", "SendingData", "SendingChecksum"}
  <2>1. t = [talk EXCEPT !.sum = sum1]
    BY <1>2 DEF Card!TalkOf
  <2> HIDE DEF sum1, t
  <2> QED BY <1>1, <1>2, <2>1 DEF CardTalks, t
<1>3. CASE active.step \in {"AddressHighWrite", "AddressLowWrite", "ReceivingChecksum"}
  <2>1. t = [talk EXCEPT !.sum = sum2]
    BY <1>3 DEF Card!TalkOf
  <2> HIDE DEF sum2, t
  <2> QED BY <1>1, <1>3, <2>1 DEF CardTalks, t
<1>4. CASE active.step = "ReceivingData"
  <2> DEFINE t1 == [talk EXCEPT !.sum = sum2]
             t2 == [t1 EXCEPT !.data = more]
  <2>1. t = t2
    BY <1>4 DEF Card!TalkOf
  <2> HIDE DEF sum2, more, t
  <2>2. t1 \in CardTalks
    BY <1>1 DEF CardTalks
  <2>3. t2 \in CardTalks /\ t2.data = more
    <3> HIDE DEF t1
    <3> QED BY <1>1, <2>2 DEF CardTalks
  <2> QED BY <1>4, <2>1, <2>3 DEF t, more
<1>5. CASE active.step \notin {"ConfirmingHigh", "ConfirmingLow", "SendingData",
                               "SendingChecksum",
                               "AddressHighWrite", "AddressLowWrite", "ReceivingChecksum",
                               "ReceivingData"}
  <2>1. t = talk
    BY <1>5 DEF Card!TalkOf
  <2> QED BY <1>5, <2>1
<1>6. QED
  BY <1>2, <1>3, <1>4, <1>5

\* A byte that is not stored leads a card on, and to a write only from its beginning.
Moves(d, q) ==
  \/ q = Card!Disconnected
  \/ /\ d \in AskedCards /\ q \in AskedCards
     /\ q.step \in WriteAsked => d.step \in WriteAsked
     /\ q.step = "AddressLowWrite" => q.sector \in {0, 256}
  \/ q \in MovingCards /\ q.step \in ReadSteps
  \/ /\ d \in MovingCards /\ d.step \in WrittenSteps
     /\ q \in MovingCards /\ q.step \in WrittenSteps /\ q.sector = d.sector
  \/ /\ d \in AskedCards /\ d.step = "AddressLowWrite"
     /\ q \in MovingCards /\ q.step = "ReceivingData" /\ q.left = CardSectorLen
     /\ q.sector \in CardSectors

LEMMA AskedMoves ==
  ASSUME NEW d \in AskedCards, d = active, NEW tx \in CardBytes(d),
         d.step = "AddressLowWrite" => d.sector \in {0, 256}
  PROVE  LET r == Card!MemoryCard(d, tx)
         IN r.card = card /\ r.shock = shock /\ Moves(d, r.device)
<1> DEFINE r == Card!MemoryCard(d, tx)
<1>1. d.kind = "MemoryCard" /\ d.step \in AskedSteps /\ CardSectorLen \in 1 .. CardSectorLen
  BY ConnectionKinds, CardIsValid
<1>2. ASSUME NEW b, NEW q, r = Card!Answer(b, q), Moves(d, q)
      PROVE  r.card = card /\ r.shock = shock /\ Moves(d, r.device)
  BY <1>2, CardAnswerFields
<1>3. ASSUME NEW step \in AskedSteps, step \in WriteAsked => d.step \in WriteAsked,
             step # "AddressLowWrite"
      PROVE  Moves(d, Card!Goes(d, step))
  <2> DEFINE q == Card!Goes(d, step)
  <2>1. q \in AskedCards /\ q.step = step
    BY CardGoes
  <2> HIDE DEF q
  <2>2. Moves(d, q)
    BY <1>3, <2>1 DEF Moves
  <2> QED BY <2>2 DEF q
<1>4. CASE d.step = "AwaitingCommand"
  <2> DEFINE b == Card!Byte(IF card.written_since_load THEN 0 ELSE 8)
             q == Card!CardCommand(d, tx)
  <2>1. r = Card!Answer(b, q)
    BY <1>4 DEF Card!MemoryCard
  <2>2. \/ q = Card!Disconnected \/ q = Card!Goes(d, "SendingId1Read")
        \/ q = Card!Goes(d, "SendingId1Write")
    BY DEF Card!CardCommand, Card!Goes, Card!Hex
  <2>3. /\ Moves(d, Card!Goes(d, "SendingId1Read")) /\ Moves(d, Card!Goes(d, "SendingId1Write"))
    BY <1>3, <1>4 DEF AskedSteps, WriteAsked
  <2>4. Moves(d, q)
    BY <2>2, <2>3 DEF Moves
  <2> HIDE DEF b, q
  <2> QED BY <1>2, <2>1, <2>4
<1>5. CASE d.step \in {"SendingId1Read", "SendingId1Write", "SendingId2Read", "SendingId2Write"}
  <2> DEFINE step == IF d.step = "SendingId1Read" THEN "SendingId2Read"
                     ELSE IF d.step = "SendingId1Write" THEN "SendingId2Write"
                     ELSE IF d.step = "SendingId2Read" THEN "AddressHighRead"
                     ELSE "AddressHighWrite"
             q == Card!Goes(d, step)
  <2>1. \E b : r = Card!Answer(b, q)
    <3>1. CASE d.step = "SendingId1Read"
      BY <3>1 DEF Card!MemoryCard
    <3>2. CASE d.step = "SendingId1Write"
      BY <3>2 DEF Card!MemoryCard
    <3>3. CASE d.step = "SendingId2Read"
      BY <3>3 DEF Card!MemoryCard
    <3>4. CASE d.step = "SendingId2Write"
      BY <3>4 DEF Card!MemoryCard
    <3> QED BY <1>5, <3>1, <3>2, <3>3, <3>4
  <2>2. step \in AskedSteps /\ (step \in WriteAsked => d.step \in WriteAsked)
        /\ step # "AddressLowWrite"
    BY <1>5 DEF AskedSteps, WriteAsked
  <2> HIDE DEF step
  <2>3. Moves(d, q)
    BY <1>3, <2>2
  <2> HIDE DEF q
  <2> QED BY <1>2, <2>1, <2>3
<1>6. CASE d.step \in {"AddressHighRead", "AddressHighWrite"}
  <2> DEFINE step == IF d.step = "AddressHighRead" THEN "AddressLowRead" ELSE "AddressLowWrite"
             n == tx * 256
             d1 == [d EXCEPT !.sector = n]
             q == [d1 EXCEPT !.step = step]
  <2>1. tx \in {0, 1, 4} /\ (d.step = "AddressHighWrite" => tx \in {0, 1})
    BY <1>1, <1>6 DEF CardBytes
  <2>2. n \in Int /\ (d.step = "AddressHighWrite" => n \in {0, 256})
    BY <2>1
  <2>3. r = Card!Answer(Card!Byte(0), q)
    <3>1. CASE d.step = "AddressHighRead"
      BY <3>1 DEF Card!MemoryCard, AskedCards
    <3>2. CASE d.step = "AddressHighWrite"
      BY <3>2 DEF Card!MemoryCard, AskedCards
    <3> QED BY <1>6, <3>1, <3>2
  <2>4. step \in AskedSteps /\ (step = "AddressLowWrite" => d.step = "AddressHighWrite")
        /\ (step \in WriteAsked => d.step \in WriteAsked)
    BY <1>6 DEF AskedSteps, WriteAsked
  <2> HIDE DEF step, n
  <2>5. d1 \in AskedCards /\ d1.sector = n
    BY <2>2 DEF AskedCards
  <2> HIDE DEF d1
  <2>6. q \in AskedCards /\ q.step = step /\ q.sector = n
    BY <2>4, <2>5 DEF AskedCards
  <2> HIDE DEF q
  <2>7. Moves(d, q)
    BY <2>2, <2>4, <2>6 DEF Moves
  <2> QED BY <1>2, <2>3, <2>7
<1>7. CASE d.step \in {"AddressLowRead", "AddressLowWrite"}
  <2> DEFINE step == IF d.step = "AddressLowRead" THEN "ReadAcking1" ELSE "ReceivingData"
             n == (d.sector + tx) % 1024
             sum == Card!Xor(Card!Xor(d.checksum, Card!High(n)), Card!LowByte(n))
             d1 == [d EXCEPT !.sector = n]
             d2 == [d1 EXCEPT !.checksum = sum]
             q == Card!Counts(d2, step, CardSectorLen)
  <2>1. tx = 0 /\ d.sector \in Int
    BY <1>1, <1>7 DEF CardBytes, AskedCards
  <2>2. n \in Int /\ (d.step = "AddressLowWrite" => n \in {0, 256})
    <3>1. d.sector + tx = d.sector
      BY <2>1
    <3>2. CASE d.step = "AddressLowWrite"
      BY <3>1, <3>2
    <3>3. \A m \in Int : m % 1024 \in Int
      OBVIOUS
    <3> QED BY <2>1, <3>1, <3>2, <3>3
  <2>3. sum \in Int
    BY XorIsNumber
  <2>4. Card!WithSector(d, n, step) = q
    BY DEF Card!WithSector, AskedCards
  <2>5. r = Card!Answer(Card!Other, q)
    <3>1. r = Card!Answer(Card!Other, Card!WithSector(d, n, step))
      <4>1. CASE d.step = "AddressLowRead"
        BY <4>1 DEF Card!MemoryCard
      <4>2. CASE d.step = "AddressLowWrite"
        BY <4>2 DEF Card!MemoryCard
      <4> QED BY <1>7, <4>1, <4>2
    <3> QED BY <2>4, <3>1
  <2>6. step \in MovingSteps /\ (step = "ReceivingData" => d.step = "AddressLowWrite")
        /\ (step # "ReceivingData" => step \in ReadSteps)
    BY <1>7 DEF MovingSteps, ReadSteps
  <2> HIDE DEF step, n, sum
  <2>7. d1 \in AskedCards /\ d1.sector = n
    BY <2>2 DEF AskedCards
  <2> HIDE DEF d1
  <2>8. d2 \in AskedCards /\ d2.sector = n
    BY <2>3, <2>7 DEF AskedCards
  <2> HIDE DEF d2
  <2>9. q \in MovingCards /\ q.step = step /\ q.left = CardSectorLen /\ q.sector = n
    BY <1>1, <2>6, <2>8, CardCounts
  <2> HIDE DEF q
  <2>10. Moves(d, q)
    BY <2>2, <2>6, <2>9, CardIsValid DEF Moves
  <2> QED BY <1>2, <2>5, <2>10
<1>8. QED
  BY <1>1, <1>4, <1>5, <1>6, <1>7 DEF AskedSteps

LEMMA MovingMoves ==
  ASSUME NEW d \in MovingCards, d.step # "ReceivingData", NEW tx
  PROVE  LET r == Card!MemoryCard(d, tx)
         IN r.card = card /\ r.shock = shock /\ Moves(d, r.device)
<1> DEFINE r == Card!MemoryCard(d, tx)
<1>1. d.step \in MovingSteps
  BY ConnectionKinds
<1>2. ASSUME NEW b, NEW q, r = Card!Answer(b, q), Moves(d, q)
      PROVE  r.card = card /\ r.shock = shock /\ Moves(d, r.device)
  BY <1>2, CardAnswerFields
<1>3. ASSUME NEW step \in ReadSteps
      PROVE  Moves(d, Card!Goes(d, step))
  <2> DEFINE q == Card!Goes(d, step)
  <2>1. q \in MovingCards /\ q.step = step
    BY CardGoes DEF MovingSteps
  <2> HIDE DEF q
  <2>2. Moves(d, q)
    BY <1>3, <2>1 DEF Moves
  <2> QED BY <2>2 DEF q
<1>4. ASSUME NEW step \in WrittenSteps, d.step \in WrittenSteps
      PROVE  Moves(d, Card!Goes(d, step))
  <2> DEFINE q == Card!Goes(d, step)
  <2>1. q \in MovingCards /\ q.step = step /\ q.sector = d.sector
    BY CardGoes DEF MovingSteps
  <2> HIDE DEF q
  <2>2. Moves(d, q)
    BY <1>4, <2>1 DEF Moves
  <2> QED BY <2>2 DEF q
<1>5. CASE d.step \in {"ReadAcking1", "ReadAcking2", "ConfirmingHigh", "ConfirmingLow",
                       "SendingChecksum"}
  <2> DEFINE step == IF d.step = "ReadAcking1" THEN "ReadAcking2"
                     ELSE IF d.step = "ReadAcking2" THEN "ConfirmingHigh"
                     ELSE IF d.step = "ConfirmingHigh" THEN "ConfirmingLow"
                     ELSE IF d.step = "ConfirmingLow" THEN "SendingData"
                     ELSE "SendingEnd"
             q == Card!Goes(d, step)
  <2>1. \E b : r = Card!Answer(b, q)
    <3>1. CASE d.step = "ReadAcking1"
      BY <3>1 DEF Card!MemoryCard
    <3>2. CASE d.step = "ReadAcking2"
      BY <3>2 DEF Card!MemoryCard
    <3>3. CASE d.step = "ConfirmingHigh"
      BY <3>3 DEF Card!MemoryCard
    <3>4. CASE d.step = "ConfirmingLow"
      BY <3>4 DEF Card!MemoryCard
    <3>5. CASE d.step = "SendingChecksum"
      BY <3>5 DEF Card!MemoryCard
    <3> QED BY <1>5, <3>1, <3>2, <3>3, <3>4, <3>5
  <2>2. step \in ReadSteps
    BY DEF ReadSteps
  <2> HIDE DEF step
  <2>3. Moves(d, q)
    BY <1>3, <2>2
  <2> HIDE DEF q
  <2> QED BY <1>2, <2>1, <2>3
<1>6. CASE d.step = "SendingData"
  <2> DEFINE byte == card.data[d.sector][Card!Offset(d)]
             sum == Card!Xor(d.checksum, byte)
             next == [d EXCEPT !.checksum = sum]
             n == next.left - 1
             q == IF d.left = 1 THEN Card!Goes(next, "SendingChecksum")
                  ELSE [next EXCEPT !.left = n]
  <2>1. r = Card!Answer(Card!Byte(byte), q)
    BY <1>6 DEF Card!MemoryCard, Card!SendByte
  <2>2. sum \in Int
    BY XorIsNumber
  <2> HIDE DEF byte, sum
  <2>3. next \in MovingCards /\ next.step = d.step /\ next.left = d.left
    BY <2>2 DEF MovingCards
  <2>4. next.left \in 1 .. CardSectorLen
    BY <2>3, ConnectionKinds
  <2> HIDE DEF next
  <2>5. CASE d.left = 1
    <3> DEFINE e == Card!Goes(next, "SendingChecksum")
    <3>1. e \in MovingCards /\ e.step = "SendingChecksum"
      BY <2>3, CardGoes DEF MovingSteps, ReadSteps
    <3> HIDE DEF e
    <3>2. Moves(d, e)
      BY <3>1 DEF Moves, ReadSteps
    <3>3. Moves(d, q)
      BY <2>5, <3>2 DEF e
    <3> HIDE DEF q
    <3> QED BY <1>2, <2>1, <3>3
  <2>6. CASE d.left # 1
    <3> DEFINE e == [next EXCEPT !.left = n]
    <3>1. n \in 1 .. CardSectorLen
      BY <2>3, <2>4, <2>6, CardIsValid
    <3> HIDE DEF n
    <3>2. e \in MovingCards /\ e.step = "SendingData"
      BY <1>6, <2>3, <3>1 DEF MovingCards
    <3> HIDE DEF e
    <3>3. Moves(d, e)
      BY <3>2 DEF Moves, ReadSteps
    <3>4. Moves(d, q)
      BY <2>6, <3>3 DEF e
    <3> HIDE DEF q
    <3> QED BY <1>2, <2>1, <3>4
  <2> QED BY <2>5, <2>6
<1>7. CASE d.step \in {"ReceivingChecksum", "Acking1Ok", "Acking1Invalid", "Acking2Ok",
                       "Acking2Invalid"}
  <2> DEFINE step == IF d.step = "ReceivingChecksum"
                     THEN IF tx = d.checksum THEN "Acking1Ok" ELSE "Acking1Invalid"
                     ELSE IF d.step = "Acking1Ok" THEN "Acking2Ok"
                     ELSE IF d.step = "Acking1Invalid" THEN "Acking2Invalid"
                     ELSE IF d.step = "Acking2Ok" THEN "EndOk"
                     ELSE "EndInvalid"
             q == Card!Goes(d, step)
  <2>1. \E b : r = Card!Answer(b, q)
    <3>1. CASE d.step = "ReceivingChecksum"
      BY <3>1 DEF Card!MemoryCard
    <3>2. CASE d.step = "Acking1Ok"
      BY <3>2 DEF Card!MemoryCard
    <3>3. CASE d.step = "Acking1Invalid"
      BY <3>3 DEF Card!MemoryCard
    <3>4. CASE d.step = "Acking2Ok"
      BY <3>4 DEF Card!MemoryCard
    <3>5. CASE d.step = "Acking2Invalid"
      BY <3>5 DEF Card!MemoryCard
    <3> QED BY <1>7, <3>1, <3>2, <3>3, <3>4, <3>5
  <2>2. step \in WrittenSteps /\ d.step \in WrittenSteps
    BY <1>7 DEF WrittenSteps
  <2> HIDE DEF step
  <2>3. Moves(d, q)
    BY <1>4, <2>2
  <2> HIDE DEF q
  <2> QED BY <1>2, <2>1, <2>3
<1>8. CASE d.step \in {"SendingEnd", "EndOk", "EndInvalid"}
  <2>1. \E b : r = Card!Answer(b, Card!Disconnected)
    <3>1. CASE d.step = "SendingEnd"
      BY <3>1 DEF Card!MemoryCard
    <3>2. CASE d.step = "EndOk"
      BY <3>2 DEF Card!MemoryCard
    <3>3. CASE d.step = "EndInvalid"
      BY <3>3 DEF Card!MemoryCard
    <3> QED BY <1>8, <3>1, <3>2, <3>3
  <2>2. Moves(d, Card!Disconnected)
    BY DEF Moves
  <2> QED BY <1>2, <2>1, <2>2
<1>9. QED
  BY <1>1, <1>5, <1>6, <1>7, <1>8 DEF MovingSteps, ReadSteps, WrittenSteps

\* The bytes of the host are numbers.
LEMMA CardBytesAreNumbers == \A d : CardBytes(d) \subseteq Int
BY DEF CardBytes, Hex

\* What holds of a write in progress does so when the card is led on without a byte stored.
LEMMA MovesHold ==
  ASSUME NEW d \in AskedCards \union MovingCards, NEW q, Moves(d, q),
         NEW t, NEW u, u.data = t.data, NEW c, NEW f, Holds(d, t, c, f)
  PROVE  Holds(q, u, c, f)
<1>1. CASE q = Card!Disconnected
  BY <1>1, ConnectionKinds DEF Holds
<1>2. CASE /\ d \in AskedCards /\ q \in AskedCards
           /\ q.step \in WriteAsked => d.step \in WriteAsked
           /\ q.step = "AddressLowWrite" => q.sector \in {0, 256}
  BY <1>2, ConnectionKinds DEF Holds
<1>3. CASE q \in MovingCards /\ q.step \in ReadSteps
  BY <1>3, ConnectionKinds DEF Holds, ReadSteps, WrittenSteps
<1>4. CASE /\ d \in MovingCards /\ d.step \in WrittenSteps
           /\ q \in MovingCards /\ q.step \in WrittenSteps /\ q.sector = d.sector
  BY <1>4, ConnectionKinds DEF Holds, WrittenSteps
<1>5. CASE /\ d \in AskedCards /\ d.step = "AddressLowWrite"
           /\ q \in MovingCards /\ q.step = "ReceivingData" /\ q.left = CardSectorLen
           /\ q.sector \in CardSectors
  <2>1. t.data = << >> /\ u.data = << >>
    BY <1>5 DEF Holds, WriteAsked
  <2>2. Len(u.data) = CardSectorLen - q.left
    BY <1>5, <2>1, CardIsValid
  <2>3. Stored(q.sector, u.data, c.data)
    BY <2>1 DEF Stored
  <2> QED BY <1>5, <2>2, <2>3, ConnectionKinds DEF Holds, WrittenSteps
<1>6. QED
  BY <1>1, <1>2, <1>3, <1>4, <1>5 DEF Moves

\* A byte that is not stored: the card stays as it is, and at the end of a write software is
\* told that it is there.
LEMMA CardIsLedOn ==
  ASSUME CardInvariant, active \in AskedCards \union MovingCards, active.step # "ReceivingData",
         NEW tx \in CardBytes(active), Card!HostSends(tx)
  PROVE  CardInvariant'
<1> DEFINE r == Card!MemoryCard(active, tx)
           t == Card!TalkOf(tx, r)
<1>1. active.kind = "MemoryCard"
  BY ConnectionKinds
<1>2. Card!Exchange(tx) = r
  BY <1>1 DEF Card!Exchange
<1>3. r.card = card /\ r.shock = shock /\ Moves(active, r.device)
  <2>1. CASE active \in AskedCards
    <3>1. active.step = "AddressLowWrite" => active.sector \in {0, 256}
      BY <2>1 DEF CardInvariant, Holds
    <3> QED BY <2>1, <3>1, AskedMoves
  <2>2. CASE active \in MovingCards
    BY <2>2, MovingMoves
  <2> QED BY <2>1, <2>2
<1>4. tx \in Int
  BY CardBytesAreNumbers
<1> HIDE DEF r
<1>5. t \in CardTalks /\ t.data = talk.data
  BY <1>1, <1>4, CardTalkFollows DEF CardInvariant
<1> HIDE DEF t
<1>6. /\ active' = r.device /\ shock' = shock /\ card' = card /\ file' = file /\ talk' = t
      /\ confirmed' = Card!ConfirmedBy(r)
  BY <1>2, <1>3 DEF Card!HostSends, t
<1>7. Holds(active, talk, card, file)
  BY DEF CardInvariant
<1>8. Holds(r.device, t, card, file)
  BY <1>3, <1>5, <1>7, MovesHold
<1>9. r.device \in Connections
  BY <1>3 DEF Moves, Connections
<1>10. /\ confirmed' \subseteq [sector: CardSectors, data: Seq(Int)]
       /\ \A w \in confirmed' : Kept(w, card, file)
  <2>1. CASE active.step # "EndOk"
    <3>1. confirmed' = confirmed
      BY <1>1, <1>6, <2>1 DEF Card!ConfirmedBy
    <3> QED BY <3>1 DEF CardInvariant
  <2>2. CASE active.step = "EndOk"
    <3> DEFINE w == [sector |-> active.sector, data |-> talk.data]
    <3>1. confirmed' = confirmed \union {w}
      BY <1>1, <1>6, <2>2 DEF Card!ConfirmedBy
    <3>2. active \in MovingCards /\ active.step \in WrittenSteps
      BY <2>2, ConnectionKinds DEF AskedSteps, WrittenSteps
    <3>3. Kept(w, card, file) /\ w.sector \in CardSectors
      BY <1>7, <3>2 DEF Holds, Kept
    <3>4. w \in [sector: CardSectors, data: Seq(Int)]
      BY <3>3 DEF CardInvariant, CardTalks
    <3> QED BY <3>1, <3>3, <3>4 DEF CardInvariant
  <2> QED BY <2>1, <2>2
<1>11. QED
  BY <1>5, <1>6, <1>8, <1>9, <1>10 DEF CardInvariant

\* A byte that is stored: it is where it belongs, everything else is where it was.
LEMMA ByteIsStored ==
  ASSUME card \in Cards, NEW d \in MovingCards, d.step = "ReceivingData",
         d.sector \in CardSectors, NEW tx \in Int
  PROVE  LET r == Card!ReceiveByte(d, tx)
         IN  /\ r.card \in Cards /\ r.shock = shock
             /\ r.card.data[d.sector][CardSectorLen - d.left] = tx
             /\ \A s \in CardSectors, i \in 0 .. CardSectorLen - 1 :
                  s # d.sector \/ i # CardSectorLen - d.left =>
                    r.card.data[s][i] = card.data[s][i]
             /\ d.left = 1 \/ card.dirty = TRUE => r.card.dirty = TRUE
             /\ r.device \in MovingCards /\ r.device.sector = d.sector
             /\ d.left = 1 => r.device.step = "ReceivingChecksum"
             /\ d.left # 1 => r.device.step = "ReceivingData" /\ r.device.left = d.left - 1
<1> DEFINE sum == Card!Xor(d.checksum, tx)
           next == [d EXCEPT !.checksum = sum]
           n == next.left - 1
           e == IF d.left = 1 THEN Card!Goes(next, "ReceivingChecksum")
                ELSE [next EXCEPT !.left = n]
           offset == CardSectorLen - d.left
           a0 == Card!Answer(Card!Other, e)
           a1 == [a0 EXCEPT !.card.data[d.sector][offset] = tx]
           dirty == a0.card.dirty \/ d.left = 1
           written == a0.card.written_since_load \/ d.left = 1
           a2 == [a1 EXCEPT !.card.dirty = dirty]
           a3 == [a2 EXCEPT !.card.written_since_load = written]
           r == Card!ReceiveByte(d, tx)
<1>1. r = a3
  BY DEF Card!ReceiveByte, Card!Offset
<1>2. a0.device = e /\ a0.shock = shock /\ a0.card = card
      /\ DOMAIN a0 = {"reply", "device", "shock", "card"}
  BY DEF Card!Answer
<1>3. offset \in 0 .. CardSectorLen - 1
  BY ConnectionKinds, CardIsValid
<1>4. card.data \in Images /\ card.data[d.sector] \in [0 .. CardSectorLen - 1 -> Int]
      /\ DOMAIN card = {"written_since_load", "dirty", "data"}
  BY DEF Cards, Images
<1>5. /\ e \in MovingCards /\ e.sector = d.sector
      /\ d.left = 1 => e.step = "ReceivingChecksum"
      /\ d.left # 1 => e.step = "ReceivingData" /\ e.left = d.left - 1
  <2>1. sum \in Int
    BY XorIsNumber
  <2> HIDE DEF sum
  <2>2. /\ next \in MovingCards /\ next.step = d.step /\ next.left = d.left
        /\ next.sector = d.sector
    BY <2>1 DEF MovingCards
  <2> HIDE DEF next
  <2>3. CASE d.left = 1
    <3> DEFINE q == Card!Goes(next, "ReceivingChecksum")
    <3>1. q \in MovingCards /\ q.sector = d.sector /\ q.step = "ReceivingChecksum"
      BY <2>2, CardGoes DEF MovingSteps, WrittenSteps
    <3> HIDE DEF q
    <3> QED BY <2>3, <3>1 DEF q
  <2>4. CASE d.left # 1
    <3> DEFINE q == [next EXCEPT !.left = n]
    <3>1. n \in 1 .. CardSectorLen /\ n = d.left - 1
      BY <2>2, <2>4, ConnectionKinds, CardIsValid
    <3> HIDE DEF n
    <3>2. q \in MovingCards /\ q.sector = d.sector /\ q.step = "ReceivingData" /\ q.left = n
      BY <2>2, <3>1 DEF MovingCards
    <3> HIDE DEF q
    <3> QED BY <2>4, <3>1, <3>2 DEF q
  <2> QED BY <2>3, <2>4
<1> HIDE DEF r, a0, e, offset
<1>6. /\ a1.device = e /\ a1.shock = shock /\ a1.card \in Cards
      /\ a1.card.data[d.sector][offset] = tx
      /\ \A s \in CardSectors, i \in 0 .. CardSectorLen - 1 :
           s # d.sector \/ i # offset => a1.card.data[s][i] = card.data[s][i]
      /\ DOMAIN a1 = {"reply", "device", "shock", "card"}
  <2> DEFINE row == [card.data[d.sector] EXCEPT ![offset] = tx]
             content == [card.data EXCEPT ![d.sector] = row]
             stored == [card EXCEPT !.data = content]
  <2>1. a1 = [a0 EXCEPT !.card = stored]
    BY <1>2
  <2>2. row \in [0 .. CardSectorLen - 1 -> Int] /\ row[offset] = tx
        /\ \A i \in 0 .. CardSectorLen - 1 : i # offset => row[i] = card.data[d.sector][i]
    BY <1>3, <1>4
  <2> HIDE DEF row
  <2>3. content \in Images /\ content[d.sector] = row
        /\ \A s \in CardSectors : s # d.sector => content[s] = card.data[s]
    BY <1>4, <2>2 DEF Images
  <2> HIDE DEF content
  <2>4. stored \in Cards /\ stored.data = content
    BY <2>3 DEF Cards
  <2> HIDE DEF stored, a1
  <2>5. a1.card = stored /\ a1.device = e /\ a1.shock = shock
        /\ DOMAIN a1 = {"reply", "device", "shock", "card"}
    BY <1>2, <2>1
  <2> QED BY <2>2, <2>3, <2>4, <2>5
<1> HIDE DEF a1
<1>7. /\ a2.device = e /\ a2.shock = shock /\ a2.card \in Cards
      /\ a2.card.data = a1.card.data
      /\ d.left = 1 \/ card.dirty = TRUE => a2.card.dirty = TRUE
      /\ DOMAIN a2 = {"reply", "device", "shock", "card"}
  <2> DEFINE stored == [a1.card EXCEPT !.dirty = dirty]
  <2>1. a2 = [a1 EXCEPT !.card = stored]
    BY <1>6
  <2>2. dirty \in BOOLEAN /\ (d.left = 1 \/ card.dirty = TRUE => dirty = TRUE)
    BY <1>2
  <2> HIDE DEF dirty
  <2>3. stored \in Cards /\ stored.data = a1.card.data /\ stored.dirty = dirty
    BY <1>6, <2>2 DEF Cards
  <2> HIDE DEF stored, a2
  <2> QED BY <1>6, <2>1, <2>2, <2>3
<1> HIDE DEF a2
<1>8. /\ a3.device = e /\ a3.shock = shock /\ a3.card \in Cards
      /\ a3.card.data = a1.card.data
      /\ d.left = 1 \/ card.dirty = TRUE => a3.card.dirty = TRUE
  <2> DEFINE stored == [a2.card EXCEPT !.written_since_load = written]
  <2>1. a3 = [a2 EXCEPT !.card = stored]
    BY <1>7
  <2>2. written \in BOOLEAN
    OBVIOUS
  <2> HIDE DEF written
  <2>3. stored \in Cards /\ stored.data = a2.card.data /\ stored.dirty = a2.card.dirty
    BY <1>7, <2>2 DEF Cards
  <2> HIDE DEF stored, a3
  <2> QED BY <1>7, <2>1, <2>3
<1> HIDE DEF a3
<1>9. QED
  BY <1>1, <1>5, <1>6, <1>8 DEF r, offset

\* A byte of a write: the sector is no longer confirmed, the bytes that came are in the card.
LEMMA CardStores ==
  ASSUME CardInvariant, active \in MovingCards, active.step = "ReceivingData",
         NEW tx \in CardBytes(active), Card!HostSends(tx)
  PROVE  CardInvariant'
<1> DEFINE r == Card!ReceiveByte(active, tx)
           t == Card!TalkOf(tx, r)
           offset == CardSectorLen - active.left
<1>1. active.kind = "MemoryCard" /\ active.left \in 1 .. CardSectorLen
  BY ConnectionKinds
<1>2. Card!Exchange(tx) = r
  BY <1>1 DEF Card!Exchange, Card!MemoryCard
<1>3. tx \in Int
  BY CardBytesAreNumbers
<1>4. /\ active.sector \in CardSectors /\ Len(talk.data) = offset
      /\ Stored(active.sector, talk.data, card.data)
  BY DEF CardInvariant, Holds
<1>5. /\ r.card \in Cards /\ r.shock = shock
      /\ r.card.data[active.sector][offset] = tx
      /\ \A s \in CardSectors, i \in 0 .. CardSectorLen - 1 :
           s # active.sector \/ i # offset => r.card.data[s][i] = card.data[s][i]
      /\ active.left = 1 \/ card.dirty = TRUE => r.card.dirty = TRUE
      /\ r.device \in MovingCards /\ r.device.sector = active.sector
      /\ active.left = 1 => r.device.step = "ReceivingChecksum"
      /\ active.left # 1 => r.device.step = "ReceivingData" /\ r.device.left = active.left - 1
  BY <1>3, <1>4, ByteIsStored DEF CardInvariant
<1> HIDE DEF r
<1>6. t \in CardTalks /\ t.data = Append(talk.data, tx)
  BY <1>1, <1>3, CardTalkFollows DEF CardInvariant
<1> HIDE DEF t
<1>7. /\ active' = r.device /\ shock' = shock /\ card' = r.card /\ file' = file /\ talk' = t
      /\ confirmed' = {w \in confirmed : w.sector # active.sector}
  BY <1>1, <1>2, <1>5 DEF Card!HostSends, Card!ConfirmedBy, t
<1>8. talk.data \in Seq(Int) /\ offset \in 0 .. CardSectorLen - 1 /\ CardSectorLen \in Nat
  BY <1>1, CardIsValid DEF CardInvariant, CardTalks
<1>9. Len(t.data) = offset + 1 /\ t.data[offset + 1] = tx
      /\ \A i \in 1 .. offset : t.data[i] = talk.data[i]
  BY <1>3, <1>4, <1>6, <1>8
<1> HIDE DEF offset
<1>10. Stored(r.device.sector, t.data, r.card.data)
  <2> SUFFICES ASSUME NEW i \in 1 .. offset + 1
               PROVE  r.card.data[active.sector][i - 1] = t.data[i]
    BY <1>5, <1>9 DEF Stored
  <2>1. CASE i = offset + 1
    BY <1>5, <1>8, <1>9, <2>1
  <2>2. CASE i # offset + 1
    <3>1. i \in 1 .. offset /\ i - 1 \in 0 .. CardSectorLen - 1 /\ i - 1 # offset
      BY <1>8, <2>2
    <3>2. card.data[active.sector][i - 1] = talk.data[i]
      BY <1>4, <3>1 DEF Stored
    <3> QED BY <1>4, <1>5, <1>9, <3>1, <3>2
  <2> QED BY <2>1, <2>2
<1>11. Holds(r.device, t, r.card, file)
  <2>1. r.device \notin AskedCards /\ r.device.kind = "MemoryCard"
    BY <1>5, ConnectionKinds
  <2>2. CASE active.left = 1
    <3>1. Len(t.data) = CardSectorLen
      BY <1>8, <1>9, <2>2 DEF offset
    <3> QED BY <1>4, <1>5, <1>10, <2>1, <2>2, <3>1 DEF Holds
  <2>3. CASE active.left # 1
    <3>1. Len(t.data) = CardSectorLen - r.device.left
      BY <1>1, <1>5, <1>8, <1>9, <2>3 DEF offset
    <3> QED BY <1>4, <1>5, <1>10, <2>1, <2>3, <3>1 DEF Holds, WrittenSteps
  <2> QED BY <2>2, <2>3
<1>12. \A w \in confirmed' : Kept(w, r.card, file)
  <2> SUFFICES ASSUME NEW w \in confirmed, w.sector # active.sector
               PROVE  Kept(w, r.card, file)
    BY <1>7
  <2>1. Kept(w, card, file) /\ w.sector \in CardSectors
    BY DEF CardInvariant
  <2>2. Stored(w.sector, w.data, r.card.data)
    <3> SUFFICES ASSUME NEW i \in 1 .. CardSectorLen
                 PROVE  r.card.data[w.sector][i - 1] = w.data[i]
      BY <2>1 DEF Stored, Kept
    <3>1. i - 1 \in 0 .. CardSectorLen - 1
      BY <1>8
    <3>2. card.data[w.sector][i - 1] = w.data[i]
      BY <2>1 DEF Stored, Kept
    <3> QED BY <1>5, <2>1, <3>1, <3>2
  <2> QED BY <1>5, <2>1, <2>2 DEF Kept
<1>13. QED
  BY <1>5, <1>6, <1>7, <1>11, <1>12 DEF CardInvariant, Connections

\* Nobody answers, or the card does for the first time.
LEMMA CardIsAddressed ==
  ASSUME CardInvariant, active \in {Card!Unselected, Card!NoDevice, Card!Disconnected},
         NEW tx \in CardBytes(active), Card!HostSends(tx)
  PROVE  CardInvariant'
<1> DEFINE r == Card!Exchange(tx)
<1>1. r.card = card /\ r.shock = shock
      /\ \/ r.device \in {Card!NoDevice, Card!Disconnected}
         \/ r.device = Card!InitialCard /\ active.kind = "Unselected"
  <2>1. CASE active = Card!Unselected
    <3>1. r = Card!Answer(Card!Byte(0), Card!Connect(tx, selected))
      BY <2>1, ConnectionKinds DEF Card!Exchange
    <3>2. tx = 129 /\ active.kind = "Unselected"
      BY <2>1, ConnectionKinds DEF CardBytes, Hex
    <3>3. Card!Connect(tx, selected) \in {Card!InitialCard, Card!NoDevice}
      BY <3>2 DEF Card!Connect, Card!Hex
    <3> QED BY <3>1, <3>2, <3>3, CardAnswerFields
  <2>2. CASE active = Card!NoDevice
    <3>1. r = Card!Answer(Card!Byte(0), Card!NoDevice)
      BY <2>2, ConnectionKinds DEF Card!Exchange
    <3> QED BY <3>1, CardAnswerFields
  <2>3. CASE active = Card!Disconnected
    <3>1. r = Card!Answer(reply, Card!Disconnected)
      BY <2>3, ConnectionKinds DEF Card!Exchange
    <3> QED BY <3>1, CardAnswerFields
  <2> QED BY <2>1, <2>2, <2>3
<1>2. active.kind \in {"Unselected", "NoDevice", "Disconnected"}
  BY ConnectionKinds
<1>3. Card!InitialCard \in AskedCards /\ Card!InitialCard.step = "AwaitingCommand"
  BY DEF Card!InitialCard, AskedCards, AskedSteps
<1>4. r.device \in Connections /\ r.device.kind \notin {"Digital", "DualShock"}
  BY <1>1, <1>3, ConnectionKinds DEF Connections
<1> HIDE DEF r
<1>5. Card!TalkOf(tx, r) = talk
  BY <1>2, <1>4 DEF Card!TalkOf
<1>6. Card!ConfirmedBy(r) = confirmed
  BY <1>2 DEF Card!ConfirmedBy
<1>7. /\ active' = r.device /\ shock' = shock /\ card' = card /\ file' = file /\ talk' = talk
      /\ confirmed' = confirmed
  BY <1>1, <1>5, <1>6 DEF Card!HostSends, r
<1>8. Holds(r.device, talk, card, file)
  <2>1. CASE r.device \in {Card!NoDevice, Card!Disconnected}
    BY <2>1, ConnectionKinds DEF Holds
  <2>2. CASE r.device = Card!InitialCard /\ active.kind = "Unselected"
    <3>1. talk.data = << >>
      BY <2>2 DEF CardInvariant, Holds
    <3> QED BY <1>3, <2>2, <3>1, ConnectionKinds DEF Holds
  <2> QED BY <1>1, <2>1, <2>2
<1>9. QED
  BY <1>4, <1>7, <1>8 DEF CardInvariant

LEMMA CardStep ==
  ASSUME CardInvariant, Card!Next
  PROVE  CardInvariant'
<1>1. ASSUME NEW tx \in CardBytes(active), Card!HostSends(tx)
      PROVE  CardInvariant'
  <2>1. CASE active \in {Card!Unselected, Card!NoDevice, Card!Disconnected}
    BY <1>1, <2>1, CardIsAddressed
  <2>2. CASE active \in AskedCards \union MovingCards /\ active.step # "ReceivingData"
    BY <1>1, <2>2, CardIsLedOn
  <2>3. CASE active \in MovingCards /\ active.step = "ReceivingData"
    BY <1>1, <2>3, CardStores
  <2>4. active \in AskedCards => active.step # "ReceivingData"
    BY ConnectionKinds DEF AskedSteps
  <2> QED BY <2>1, <2>2, <2>3, <2>4 DEF CardInvariant, Connections
<1>2. ASSUME NEW p \in Card!Ports, Card!HostSelects(p)
      PROVE  CardInvariant'
  <2>1. /\ active' = Card!Unselected /\ talk' = Card!Silence
        /\ UNCHANGED <<shock, card, file, confirmed>>
    BY <1>2 DEF Card!HostSelects
  <2>2. talk' \in CardTalks /\ talk'.data = << >>
    BY <2>1 DEF CardTalks, Card!Silence
  <2>3. Holds(active', talk', card, file)
    BY <2>1, <2>2, ConnectionKinds DEF Holds, AskedCards, MovingCards
  <2> QED BY <2>1, <2>2, <2>3 DEF CardInvariant, Connections
<1>3. Card!Pads(NoTypes("One")) = {} /\ Card!Pads(NoTypes("Two")) = {}
  BY DEF Card!Pads, NoTypes
<1>4. ASSUME Card!SaveCard PROVE CardInvariant'
  <2> DEFINE clean == [card EXCEPT !.dirty = FALSE]
  <2>1. card' = clean /\ file' = card.data /\ UNCHANGED <<active, shock, talk, confirmed>>
    BY <1>4 DEF Card!SaveCard
  <2>2. clean \in Cards /\ clean.data = card.data /\ card.data \in Images
    BY DEF CardInvariant, Cards
  <2> HIDE DEF clean
  <2>3. Holds(active, talk, clean, card.data)
    <3>1. Holds(active, talk, card, file)
      BY DEF CardInvariant
    <3> QED BY <2>2, <3>1 DEF Holds
  <2>4. \A w \in confirmed : Kept(w, clean, card.data)
    BY <2>2 DEF CardInvariant, Kept
  <2> QED BY <2>1, <2>2, <2>3, <2>4 DEF CardInvariant
<1>5. QED
  BY <1>1, <1>2, <1>3, <1>4 DEF Card!Next

LEMMA CardInitially == Card!Init => CardInvariant
<1> SUFFICES ASSUME Card!Init PROVE CardInvariant
  OBVIOUS
<1>1. /\ active = Card!Unselected /\ talk = Card!Silence /\ shock = Card!DefaultShock
      /\ card = [written_since_load |-> FALSE, dirty |-> TRUE,
                 data |-> [s \in CardSectors |-> [i \in 0 .. CardSectorLen - 1 |-> 0]]]
      /\ file = card.data /\ confirmed = {}
  BY DEF Card!Init
<1>2. card \in Cards /\ file \in Images
  BY <1>1 DEF Cards, Images
<1>3. talk \in CardTalks /\ talk.data = << >>
  BY <1>1 DEF CardTalks, Card!Silence
<1>4. Holds(active, talk, card, file)
  BY <1>1, <1>3, ConnectionKinds DEF Holds, AskedCards, MovingCards
<1>5. QED
  BY <1>1, <1>2, <1>3, <1>4 DEF CardInvariant, Connections

\* With only the card on the port, no controller says anything; what the card confirmed is there.
LEMMA CardKeeps ==
  ASSUME CardInvariant
  PROVE  ConversationsAreWhole /\ Card!ConfirmedWritesAreKept
<1>1. talk.sent = 0 /\ talk.announced = 0 /\ talk.seen = {}
  BY DEF CardInvariant, CardTalks
<1>2. shock.config_mode_entered = FALSE
  BY DEF CardInvariant, Card!DefaultShock
<1>3. ConversationsAreWhole
  BY <1>1, <1>2 DEF ConversationsAreWhole, Controllers!LengthAsAnnounced,
     Controllers!InputsAreOneSnapshot, Controllers!ModeChangeIsSignalled
<1>4. Card!ConfirmedWritesAreKept
  BY CardIsValid DEF CardInvariant, Kept, Stored, Card!ConfirmedWritesAreKept
<1>5. QED
  BY <1>3, <1>4

DevicesInvariant ==
  IF part = "card" THEN CardInvariant ELSE ConversationInvariant

LEMMA DevicesInitially == MCInit => DevicesInvariant
BY CardInitially, ConversationInitially DEF MCInit, DevicesInvariant

LEMMA DevicesStep == DevicesInvariant /\ [MCNext]_mc_vars => DevicesInvariant'
<1> SUFFICES ASSUME DevicesInvariant, [MCNext]_mc_vars PROVE DevicesInvariant'
  OBVIOUS
<1>1. CASE part = "card" /\ UNCHANGED part /\ Card!Next
  BY <1>1, CardStep DEF DevicesInvariant
<1>2. CASE part # "card" /\ UNCHANGED part /\ Controllers!Next
  BY <1>2, ConversationStep DEF DevicesInvariant
<1>3. CASE UNCHANGED part /\ UNCHANGED device_vars
  <2>1. UNCHANGED device_vars
    BY <1>3
  <2>2. CardInvariant => CardInvariant'
    BY <2>1 DEF CardInvariant, device_vars
  <2>3. ConversationInvariant => ConversationInvariant'
    BY <2>1 DEF ConversationInvariant, Controllers!ModeChangeIsSignalled, device_vars
  <2> QED BY <1>3, <2>2, <2>3 DEF DevicesInvariant
<1>4. QED
  BY <1>1, <1>2, <1>3 DEF MCNext, In, mc_vars

(* In every conversation, a controller sends as many bytes as its first one announced, of the *)
(* inputs of one moment, and tells a game of a mode it did not ask for (LengthAsAnnounced,    *)
(* InputsAreOneSnapshot and ModeChangeIsSignalled of Sio0Devices).                            *)
THEOREM ConversationsAlwaysWhole == MCSpec => []ConversationsAreWhole
<1>1. DevicesInvariant => ConversationsAreWhole
  BY ConversationsFit, CardKeeps DEF DevicesInvariant
<1>2. QED
  BY <1>1, DevicesInitially, DevicesStep, PTL DEF MCSpec

(* What the memory card confirmed is in it as the host sent it, and in the file or going to be, *)
(* for every length of a sector.                                                                *)
THEOREM ConfirmedWritesStay == MCSpec => []ConfirmedWritesAreKept
<1>1. DevicesInvariant => ConfirmedWritesAreKept
  BY CardKeeps DEF DevicesInvariant, ConfirmedWritesAreKept
<1>2. QED
  BY <1>1, DevicesInitially, DevicesStep, PTL DEF MCSpec
-----------------------------------------------------------------------------
(* The readers of any disc.                                                  *)

CONSTANTS Frames, Seconds, Minutes, BinFiles, BinLengths, CueLines, CueLength, ChdMetadata,
          ChdHunkLen, DiscTimes(_)

AnyDisc == INSTANCE DiscImage WITH
  FRAMES_PER_SECOND <- Frames, SECONDS_PER_MINUTE <- Seconds, MAX_MINUTES <- Minutes,
  Files <- BinFiles, Lengths <- BinLengths, Lines <- CueLines, MaxLines <- CueLength,
  ChdTracks <- ChdMetadata, HunkLen <- ChdHunkLen, ReadTimes <- DiscTimes

Readers == [position : [BinFiles -> Nat], stands : [BinFiles -> Nat \union {AnyDisc!Torn}],
            hunk : Nat \union {AnyDisc!Unread}, held : Nat \union {AnyDisc!Torn, AnyDisc!Unread}]

\* A reader that is not torn is where it believes to be.
ReaderKnows ==
  /\ reader \in Readers
  /\ \A f \in BinFiles : reader.stands[f] \in {reader.position[f], AnyDisc!Torn}
  /\ reader.held \in {reader.hunk, AnyDisc!Torn}

DiscInvariant ==
  /\ ReaderKnows
  /\ image = None => got = None
  /\ AnyDisc!ReadsWhatIsThere

LEMMA HunkAndRest ==
  ASSUME ChdHunkLen \in Nat \ {0}, NEW n \in Nat
  PROVE  /\ n \div ChdHunkLen \in Nat
         /\ (n \div ChdHunkLen) * ChdHunkLen + (n % ChdHunkLen) = n
BY SMTT(30)

\* What Checked lets through is what was read, or garbage.
LEMMA CheckedGives ==
  ASSUME NEW track, NEW content, NEW given \in AnyDisc!Checked(track, content)
  PROVE  given = content \/ (content = AnyDisc!Garbage /\ given = AnyDisc!Failed)
BY DEF AnyDisc!Checked

\* A read of sector n of a BIN file.
LEMMA BinReadGives ==
  ASSUME ReaderKnows, NEW track, NEW n \in Nat, NEW time, track.file \in BinFiles,
         AnyDisc!ReadBin(track, n, time)
  PROVE  /\ ReaderKnows'
         /\ got'.time = time
         /\ \/ got'.content = AnyDisc!Sector(track.file, n)
            \/ got'.content = AnyDisc!Failed
            \/ got'.content = AnyDisc!Garbage /\ AnyDisc!TornReader'
<1> DEFINE stands == AnyDisc!Stands(track.file, n)
           moved(position, place) ==
             [reader EXCEPT !.position[track.file] = position, !.stands[track.file] = place]
<1>1. stands \in {n, AnyDisc!Torn}
  BY DEF AnyDisc!Stands, ReaderKnows
<1>2. ASSUME NEW position \in Nat, NEW place \in {position, AnyDisc!Torn},
             reader' = moved(position, place)
      PROVE  ReaderKnows' /\ (place = AnyDisc!Torn => AnyDisc!TornReader')
  BY <1>2 DEF ReaderKnows, Readers, AnyDisc!TornReader, AnyDisc!Torn
<1>3. CASE /\ \E content \in AnyDisc!Checked(track, IF stands = AnyDisc!Torn THEN AnyDisc!Garbage
                                                    ELSE AnyDisc!Sector(track.file, stands)) :
                got' = [time |-> time, content |-> content]
           /\ reader' = moved(n + 1, IF stands = AnyDisc!Torn THEN AnyDisc!Torn ELSE stands + 1)
  <2>1. PICK content \in AnyDisc!Checked(track, IF stands = AnyDisc!Torn THEN AnyDisc!Garbage
                                                ELSE AnyDisc!Sector(track.file, stands)) :
          got' = [time |-> time, content |-> content]
    BY <1>3
  <2>2. ReaderKnows' /\ (stands = AnyDisc!Torn => AnyDisc!TornReader')
    <3>1. PICK place \in {n + 1, AnyDisc!Torn} :
            /\ place = IF stands = AnyDisc!Torn THEN AnyDisc!Torn ELSE stands + 1
            /\ reader' = moved(n + 1, place)
      BY <1>1, <1>3
    <3>2. n + 1 \in Nat
      OBVIOUS
    <3> HIDE DEF stands, moved
    <3> QED BY <1>2, <3>1, <3>2
  <2>3. CASE stands = AnyDisc!Torn
    BY <2>1, <2>2, <2>3, CheckedGives
  <2>4. CASE stands # AnyDisc!Torn
    <3>1. AnyDisc!Sector(track.file, n) # AnyDisc!Garbage
      BY DEF AnyDisc!Sector, AnyDisc!Garbage
    <3>2. content \in AnyDisc!Checked(track, AnyDisc!Sector(track.file, n))
      BY <1>1, <2>1, <2>4
    <3>3. content = AnyDisc!Sector(track.file, n)
      BY <3>1, <3>2, CheckedGives
    <3> QED BY <2>1, <2>2, <3>3
  <2> QED BY <2>3, <2>4
<1>4. CASE /\ got' = [time |-> time, content |-> AnyDisc!Failed]
           /\ reader' = moved(reader.position[track.file], AnyDisc!Torn)
  <2>1. reader.position[track.file] \in Nat
    BY DEF ReaderKnows, Readers
  <2> QED BY <1>2, <1>4, <2>1
<1>5. QED
  BY <1>3, <1>4 DEF AnyDisc!ReadBin

\* A read of sector n of a CHD file.
LEMMA ChdReadGives ==
  ASSUME ReaderKnows, ChdHunkLen \in Nat \ {0}, NEW track, NEW n \in Nat, NEW time,
         AnyDisc!ReadChd(track, n, time)
  PROVE  /\ ReaderKnows'
         /\ got'.time = time
         /\ \/ got'.content = AnyDisc!Sector(None, n)
            \/ got'.content = AnyDisc!Failed
            \/ got'.content = AnyDisc!Garbage /\ AnyDisc!TornReader'
<1> DEFINE hunk == n \div ChdHunkLen
           held == IF reader.hunk # hunk THEN hunk ELSE reader.held
<1>1. hunk \in Nat /\ hunk * ChdHunkLen + (n % ChdHunkLen) = n
  BY HunkAndRest
<1> HIDE DEF hunk
<1>2. held \in {hunk, AnyDisc!Torn}
  BY DEF ReaderKnows
<1>3. CASE /\ \E content \in AnyDisc!Checked(track, IF held = AnyDisc!Torn THEN AnyDisc!Garbage
                               ELSE AnyDisc!Sector(None, held * ChdHunkLen + (n % ChdHunkLen))) :
                got' = [time |-> time, content |-> content]
           /\ reader' = [reader EXCEPT !.hunk = hunk, !.held = held]
  <2>1. PICK content \in AnyDisc!Checked(track, IF held = AnyDisc!Torn THEN AnyDisc!Garbage
                               ELSE AnyDisc!Sector(None, held * ChdHunkLen + (n % ChdHunkLen))) :
          got' = [time |-> time, content |-> content]
    BY <1>3
  <2>2. ReaderKnows' /\ reader'.held = held
    BY <1>1, <1>2, <1>3 DEF ReaderKnows, Readers
  <2>3. CASE held = AnyDisc!Torn
    BY <2>1, <2>2, <2>3, CheckedGives DEF AnyDisc!TornReader
  <2>4. CASE held # AnyDisc!Torn
    <3>1. AnyDisc!Sector(None, n) # AnyDisc!Garbage
      BY DEF AnyDisc!Sector, AnyDisc!Garbage
    <3>2. content \in AnyDisc!Checked(track, AnyDisc!Sector(None, n))
      BY <1>1, <1>2, <2>1, <2>4
    <3>3. content = AnyDisc!Sector(None, n)
      BY <3>1, <3>2, CheckedGives
    <3> QED BY <2>1, <2>2, <3>3
  <2> QED BY <2>3, <2>4
<1>4. CASE /\ got' = [time |-> time, content |-> AnyDisc!Failed]
           /\ reader' = [reader EXCEPT !.held = AnyDisc!Torn]
  BY <1>4 DEF ReaderKnows, Readers
<1>5. QED
  BY <1>3, <1>4 DEF AnyDisc!ReadChd, hunk

LEMMA ReadSectorGives ==
  ASSUME DiscInvariant, ChdHunkLen \in Nat \ {0}, AnyDisc!PlacesExist, AnyDisc!ReadSector
  PROVE  DiscInvariant'
<1>1. image # None /\ UNCHANGED image
  BY DEF AnyDisc!ReadSector
<1>2. PICK time \in DiscTimes(image) :
        LET track == image.tracks[AnyDisc!FindTrack(image.tracks, time)]
            relative == AnyDisc!Minus(time, track.start_time)
            n == track.first + AnyDisc!ToSector(AnyDisc!Minus(relative, track.pregap_len))
        IN IF AnyDisc!InGap(track, relative)
           THEN got' = [time |-> time, content |-> AnyDisc!Gap] /\ UNCHANGED reader
           ELSE IF image.format = "Chd" THEN AnyDisc!ReadChd(track, n, time)
           ELSE AnyDisc!ReadBin(track, n, time)
  BY DEF AnyDisc!ReadSector
<1> DEFINE track == image.tracks[AnyDisc!FindTrack(image.tracks, time)]
           relative == AnyDisc!Minus(time, track.start_time)
           n == track.first + AnyDisc!ToSector(AnyDisc!Minus(relative, track.pregap_len))
<1>3. AnyDisc!GivenAt(image, time) = IF AnyDisc!InGap(track, relative) THEN AnyDisc!Gap
                                     ELSE AnyDisc!Sector(track.file, n)
  BY DEF AnyDisc!GivenAt
<1>4. ~AnyDisc!InGap(track, relative) =>
        /\ n \in Nat
        /\ IF image.format = "Chd" THEN track.file = None ELSE track.file \in BinFiles
  BY <1>1 DEF AnyDisc!PlacesExist
<1>5. IF AnyDisc!InGap(track, relative)
      THEN got' = [time |-> time, content |-> AnyDisc!Gap] /\ UNCHANGED reader
      ELSE IF image.format = "Chd" THEN AnyDisc!ReadChd(track, n, time)
      ELSE AnyDisc!ReadBin(track, n, time)
  BY <1>2
<1>6. ReaderKnows
  BY DEF DiscInvariant
<1> HIDE DEF track, relative, n
<1>7. /\ ReaderKnows'
      /\ got'.time = time
      /\ \/ got'.content = AnyDisc!GivenAt(image, time)
         \/ got'.content = AnyDisc!Failed
         \/ got'.content = AnyDisc!Garbage /\ AnyDisc!TornReader'
  <2>1. CASE AnyDisc!InGap(track, relative)
    <3>1. ReaderKnows'
      BY <1>5, <1>6, <2>1 DEF ReaderKnows
    <3> QED BY <1>3, <1>5, <2>1, <3>1
  <2>2. CASE ~AnyDisc!InGap(track, relative) /\ image.format = "Chd"
    BY <1>3, <1>4, <1>5, <1>6, <2>2, ChdReadGives
  <2>3. CASE ~AnyDisc!InGap(track, relative) /\ image.format # "Chd"
    BY <1>3, <1>4, <1>5, <1>6, <2>3, BinReadGives
  <2> QED BY <2>1, <2>2, <2>3
<1>8. AnyDisc!ReadsWhatIsThere'
  BY <1>1, <1>7 DEF AnyDisc!ReadsWhatIsThere
<1>9. QED
  BY <1>1, <1>7, <1>8 DEF DiscInvariant

LEMMA DiscStep ==
  ASSUME DiscInvariant, ChdHunkLen \in Nat \ {0}, AnyDisc!PlacesExist,
         [AnyDisc!Next]_(AnyDisc!vars)
  PROVE  DiscInvariant'
<1>1. CASE image = None /\ UNCHANGED <<reader, got>>
  <2>1. got' = None
    BY <1>1 DEF DiscInvariant
  <2> QED BY <1>1, <2>1 DEF DiscInvariant, ReaderKnows, AnyDisc!ReadsWhatIsThere
<1>2. CASE AnyDisc!ParseLine \/ AnyDisc!OpenCueBin \/ AnyDisc!OpenChd
  BY <1>1, <1>2 DEF AnyDisc!ParseLine, AnyDisc!OpenCueBin, AnyDisc!OpenChd
<1>3. CASE AnyDisc!ReadSector
  BY <1>3, ReadSectorGives
<1>4. CASE AnyDisc!ChangeDisc
  <2>1. reader' = AnyDisc!NewReader /\ got' = None
    BY <1>4 DEF AnyDisc!ChangeDisc
  <2>2. ReaderKnows'
    BY <2>1 DEF ReaderKnows, Readers, AnyDisc!NewReader, AnyDisc!Torn, AnyDisc!Unread
  <2> QED BY <2>1, <2>2 DEF DiscInvariant, AnyDisc!ReadsWhatIsThere
<1>5. CASE UNCHANGED AnyDisc!vars
  <2>1. UNCHANGED <<image, reader, got>>
    BY <1>5 DEF AnyDisc!vars
  <2>2. ReaderKnows' /\ (AnyDisc!TornReader <=> AnyDisc!TornReader')
    BY <2>1 DEF DiscInvariant, ReaderKnows, AnyDisc!TornReader
  <2> QED BY <2>1, <2>2 DEF DiscInvariant, AnyDisc!ReadsWhatIsThere
<1>6. QED
  BY <1>2, <1>3, <1>4, <1>5 DEF AnyDisc!Next

(* For all discs, of a sheet or of a CHD file, all times read from them and all lengths of a  *)
(* hunk, whichever reads fail: a read gives what is at its time, or fails, unless an earlier  *)
(* one failed in the middle of a sector or a hunk and the reader has not moved away since     *)
(* (ReadsWhatIsThere of DiscImage).  That tracks name files of the disc is the layout's part. *)
THEOREM DiscsReadWhatIsThere ==
  ChdHunkLen \in Nat \ {0} /\ AnyDisc!Spec /\ []AnyDisc!PlacesExist => []AnyDisc!ReadsWhatIsThere
<1> SUFFICES ASSUME ChdHunkLen \in Nat \ {0}
             PROVE  AnyDisc!Spec /\ []AnyDisc!PlacesExist => []AnyDisc!ReadsWhatIsThere
  OBVIOUS
<1>1. AnyDisc!Init => DiscInvariant
  <2> SUFFICES ASSUME AnyDisc!Init PROVE DiscInvariant
    OBVIOUS
  <2>1. ReaderKnows
    BY DEF AnyDisc!Init, ReaderKnows, Readers, AnyDisc!NewReader, AnyDisc!Torn, AnyDisc!Unread
  <2> QED BY <2>1 DEF AnyDisc!Init, DiscInvariant, AnyDisc!ReadsWhatIsThere
<1>2. DiscInvariant /\ AnyDisc!PlacesExist /\ [AnyDisc!Next]_(AnyDisc!vars) => DiscInvariant'
  BY DiscStep
<1>3. DiscInvariant => AnyDisc!ReadsWhatIsThere
  BY DEF DiscInvariant
<1>4. QED
  BY <1>1, <1>2, <1>3, PTL DEF AnyDisc!Spec
=============================================================================
