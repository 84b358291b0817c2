----------------------------- MODULE SerialPort -----------------------------
(***************************************************************************)
(* A serial port of ps1-core (struct SerialPort of sio.rs) with the events *)
(* it schedules.  Software writes registers at any time; the port catches  *)
(* up at register accesses, at its two events and at VBlank.  A byte takes *)
(* TransferCycles to be sent; then the device answers, the acknowledge     *)
(* line goes low for AckCycles, and the interrupt is raised when it goes   *)
(* high again.                                                             *)
(*                                                                         *)
(* Abstractions.  Cycle numbers are distances from the current cycle.  A   *)
(* byte has no value: whether a device answers to it and stays connected   *)
(* is open here and what Sio0Devices models.  rx is the number of unread   *)
(* bytes, whose order is RxFifo's business.  Left out: the baud rate       *)
(* timer, which is only shown in the status, and enable bits that are      *)
(* stored and never used.                                                  *)
(***************************************************************************)
EXTENDS Integers, FiniteSetsExt

CONSTANTS
  TransferCycles,  \* CONTROLLER_TRANSFER_CYCLES
  AckCycles,       \* ACK_LOW_CYCLES
  FifoLen,         \* FIFO_LEN
  NoEvent,         \* an event is not scheduled
  MaxAdvance,      \* bound: the longest CPU instruction, or stall
  MaxBehind        \* bound: the most cycles between two catch-ups

PortAssumption ==
  /\ TransferCycles \in Nat \ {0} /\ AckCycles \in Nat \ {0} /\ FifoLen \in Nat \ {0}
  /\ MaxAdvance \in Nat /\ MaxBehind \in Nat /\ NoEvent \notin Nat

VARIABLES
  port,       \* SerialPort
  behind,     \* cycles since last_update_cycles
  tx_event,   \* cycles until the Sio0Tx event, or NoEvent
  irq_event,  \* cycles until the Sio0Irq event, or NoEvent
  istat,      \* the SIO bit of I_STAT
  delivered   \* history: I_STAT was raised since the irq flag of the port was last clear

vars == <<port, behind, tx_event, irq_event, istat, delivered>>

Ports == {"One", "Two"}
Empty == [state |-> "Empty"]
Queued == [state |-> "Queued"]
Transferring(remaining, next) ==
  [state |-> "Transferring", remaining |-> remaining, next |-> next]

\* Option<SerialDevice>
ActiveDevices == {"None", "NoDevice", "Disconnected", "Connected"}
Connected(p) == p.active = "Connected"

\* What the control register sets.
ControlWrites == [tx_enabled: BOOLEAN, dtr_on: BOOLEAN, dsr_interrupt_enabled: BOOLEAN,
                  selected_port: Ports, acknowledge: BOOLEAN]

Init ==
  /\ port = [tx |-> Empty, tx_enabled |-> FALSE, dtr_on |-> FALSE,
             dsr_interrupt_enabled |-> FALSE, selected_port |-> "One", active |-> "None",
             ack |-> FALSE, irq |-> FALSE, pending_irq7 |-> FALSE, ack_low |-> 0, rx |-> 0]
  /\ behind = 0
  /\ tx_event = NoEvent
  /\ irq_event = NoEvent
  /\ istat = FALSE
  /\ delivered = FALSE
-----------------------------------------------------------------------------
Left(cycles, elapsed) == IF cycles > elapsed THEN cycles - elapsed ELSE 0

\* What an operation on the port leads to: the port, the events it schedules (or leaves)
\* and whether it raises the interrupt.
Still(p) == [port |-> p, tx_event |-> tx_event, irq_event |-> irq_event, raised |-> FALSE]

\* The acknowledge line goes high, at the earliest AckCycles after it went low.
RaiseAckForgetful(r, elapsed) ==
  LET low == Left(r.port.ack_low, elapsed)
  IN IF r.port.ack_low = 0 THEN r
     ELSE IF low # 0 THEN [r EXCEPT !.port.ack_low = low]
     ELSE [r EXCEPT !.port.ack_low = 0, !.port.ack = FALSE, !.port.pending_irq7 = FALSE,
                    !.raised = r.port.pending_irq7 /\ r.port.tx = Empty]

RaiseAck(r, elapsed) ==
  LET low == Left(r.port.ack_low, elapsed)
  IN IF r.port.ack_low = 0 THEN r
     ELSE IF low # 0 THEN [r EXCEPT !.port.ack_low = low]
     ELSE [r EXCEPT !.port.ack_low = 0, !.port.ack = FALSE, !.port.pending_irq7 = FALSE,
                    !.raised = r.port.pending_irq7]

\* process_tx_write, by what becomes of the active device.  A byte is received unless the
\* device has disconnected; the first byte of a selection is answered with 0.
AfterByte(active) ==
  CASE active \in {"None", "Connected"} ->
         {"Connected", IF active = "None" THEN "NoDevice" ELSE "Disconnected"}
    [] active \in {"NoDevice", "Disconnected"} -> {active}

ReceiveUnbounded(p) == IF p.active = "Disconnected" THEN p.rx ELSE p.rx + 1
Receive(p) == IF p.active = "Disconnected" THEN p.rx ELSE Min({FifoLen, p.rx + 1})

ProcessTxWrite(r, active) ==
  LET p == [r.port EXCEPT !.rx = Receive(r.port), !.active = active, !.ack = TRUE,
                          !.ack_low = AckCycles]
      interrupts == p.dsr_interrupt_enabled /\ Connected(p)
  IN [r EXCEPT !.port = [p EXCEPT !.irq = @ \/ interrupts,
                                  !.pending_irq7 = @ \/ (interrupts /\ ~p.irq)],
               !.irq_event = AckCycles]

\* A byte begins to be sent now.
StartTransferWithoutEvent(r, next) ==
  [r EXCEPT !.port.tx = Transferring(TransferCycles, next)]

StartTransfer(r, next) ==
  [r EXCEPT !.port.tx = Transferring(TransferCycles, next), !.tx_event = TransferCycles]

\* The transmitter's part of catch_up: at most one byte is sent, and the next one begins.
SendNext(r) ==
  IF ~r.port.tx.next THEN [r EXCEPT !.port.tx = Empty]
  ELSE IF r.port.tx_enabled THEN StartTransfer(r, FALSE)
  ELSE [r EXCEPT !.port.tx = Queued]

AdvanceTx(r, elapsed) ==
  CASE r.port.tx.state = "Empty" -> {r}
    [] r.port.tx.state = "Queued" -> {IF r.port.tx_enabled THEN StartTransfer(r, FALSE) ELSE r}
    [] r.port.tx.state = "Transferring" ->
         IF r.port.tx.remaining > elapsed
         THEN {[r EXCEPT !.port.tx.remaining = @ - elapsed]}
         ELSE {SendNext(ProcessTxWrite(r, active)) : active \in AfterByte(r.port.active)}

\* catch_up
CatchUp == IF behind = 0 THEN {Still(port)} ELSE AdvanceTx(RaiseAck(Still(port), behind), behind)
-----------------------------------------------------------------------------
\* The rest of a register access, after it has caught up.
Becomes(r) ==
  /\ port' = r.port
  /\ tx_event' = r.tx_event
  /\ irq_event' = r.irq_event
  /\ istat' = (istat \/ r.raised)
  /\ delivered' = (port.irq /\ r.port.irq /\ (delivered \/ r.raised))
  /\ behind' = 0

\* write_tx_data: a byte that finds another one waiting takes its place.
WriteTx(r) ==
  IF r.port.tx.state = "Transferring"
  THEN [r EXCEPT !.port.tx.next = TRUE, !.tx_event = r.port.tx.remaining]
  ELSE IF r.port.tx_enabled THEN StartTransfer(r, FALSE)
  ELSE [r EXCEPT !.port.tx = Queued]

\* write_control: selecting no device, or the other port's, drops what is being sent.
Deselects(p, w) == ~w.dtr_on \/ w.selected_port # p.selected_port

DropTx(r) == [r EXCEPT !.port.tx = Empty, !.port.active = "None"]

WithControl(p, w) ==
  [p EXCEPT !.tx_enabled = w.tx_enabled, !.dtr_on = w.dtr_on,
            !.dsr_interrupt_enabled = w.dsr_interrupt_enabled,
            !.selected_port = w.selected_port, !.irq = @ /\ ~w.acknowledge]

WriteControlWithoutStart(r, w) ==
  LET set == [r EXCEPT !.port = WithControl(@, w)]
  IN IF Deselects(r.port, w) THEN DropTx(set) ELSE set

WriteControl(r, w) ==
  LET set == [r EXCEPT !.port = WithControl(@, w)]
      new == IF Deselects(r.port, w) THEN DropTx(set) ELSE set
  IN IF new.port.tx_enabled /\ new.port.tx = Queued THEN StartTransfer(new, FALSE) ELSE new

\* The reset bit of the control register writes 0 to it and clears the receive buffer.
NoControl == [tx_enabled |-> FALSE, dtr_on |-> FALSE, dsr_interrupt_enabled |-> FALSE,
              selected_port |-> "One", acknowledge |-> FALSE]
Reset(r) == [WriteControl(r, NoControl) EXCEPT !.port.rx = 0]

\* The CPU executes instructions and accesses registers while no event is ready.
CpuRuns == tx_event # 0 /\ irq_event # 0
Sooner(event, n) == IF event = NoEvent THEN NoEvent ELSE Left(event, n)

ExecuteInstruction(n) ==
  /\ CpuRuns
  /\ behind + n <= MaxBehind
  /\ behind' = behind + n
  /\ tx_event' = Sooner(tx_event, n)
  /\ irq_event' = Sooner(irq_event, n)
  /\ UNCHANGED <<port, istat, delivered>>

\* The events are popped before catch_up, which may schedule them again.
ProcessTxEvent ==
  /\ tx_event = 0
  /\ \E r \in CatchUp : Becomes([r EXCEPT !.tx_event = IF @ = 0 THEN NoEvent ELSE @])

ProcessIrqEvent ==
  /\ irq_event = 0
  /\ \E r \in CatchUp : Becomes([r EXCEPT !.irq_event = IF @ = 0 THEN NoEvent ELSE @])

\* read_status, and the VBlank event
ReadStatus == behind # 0 /\ \E r \in CatchUp : Becomes(r)

HostWritesTx == CpuRuns /\ \E r \in CatchUp : Becomes(WriteTx(r))
HostWritesControl(w) == CpuRuns /\ \E r \in CatchUp : Becomes(WriteControl(r, w))
HostResets == CpuRuns /\ \E r \in CatchUp : Becomes(Reset(r))

\* read_rx_data
HostReadsRx ==
  /\ CpuRuns
  /\ port.rx # 0
  /\ port' = [port EXCEPT !.rx = @ - 1]
  /\ UNCHANGED <<behind, tx_event, irq_event, istat, delivered>>

\* write_interrupt_status
AcknowledgeIStat ==
  /\ CpuRuns
  /\ istat
  /\ istat' = FALSE
  /\ UNCHANGED <<port, behind, tx_event, irq_event, delivered>>

HostWrites == HostWritesTx \/ HostResets \/ \E w \in ControlWrites : HostWritesControl(w)
Runs == ProcessTxEvent \/ ProcessIrqEvent \/ \E n \in 1 .. MaxAdvance : ExecuteInstruction(n)

Next ==
  \/ \E n \in 1 .. MaxAdvance : ExecuteInstruction(n)
  \/ ProcessTxEvent
  \/ ProcessIrqEvent
  \/ ReadStatus
  \/ HostWritesTx
  \/ \E w \in ControlWrites : HostWritesControl(w)
  \/ HostResets
  \/ HostReadsRx
  \/ AcknowledgeIStat

Spec == Init /\ [][Next]_vars

\* The main loop goes on: time passes and ready events are processed.
FairSpec == Spec /\ WF_vars(Runs)
-----------------------------------------------------------------------------
TypeOK ==
  /\ port.tx \in {Empty, Queued}
       \union [state: {"Transferring"}, remaining: 1 .. TransferCycles, next: BOOLEAN]
  /\ port.active \in ActiveDevices /\ port.selected_port \in Ports
  /\ port.tx_enabled \in BOOLEAN /\ port.dtr_on \in BOOLEAN
  /\ port.dsr_interrupt_enabled \in BOOLEAN
  /\ port.ack \in BOOLEAN /\ port.irq \in BOOLEAN /\ port.pending_irq7 \in BOOLEAN
  /\ port.ack_low \in 0 .. AckCycles /\ port.rx \in 0 .. FifoLen
  /\ behind \in 0 .. MaxBehind
  /\ tx_event \in 0 .. TransferCycles \union {NoEvent}
  /\ irq_event \in 0 .. AckCycles \union {NoEvent}
  /\ istat \in BOOLEAN /\ delivered \in BOOLEAN

\* However transfers are started, followed by others, dropped by a deselection and started
\* again while the event of an earlier one is still scheduled, the Sio0Tx event comes in the
\* cycle in which the byte being sent is complete.
TransferIsScheduled ==
  port.tx.state = "Transferring" => tx_event = Left(port.tx.remaining, behind)

\* The Sio0Irq event comes in the cycle in which the acknowledge line goes high again, and
\* while an interrupt is pending the line is low, so that the event will raise it.
AckIsScheduled ==
  /\ port.ack_low # 0 => irq_event = Left(port.ack_low, behind)
  /\ port.pending_irq7 => port.ack_low # 0

\* Both events come in the cycle in which there is something to do for them.
EventsAreOnTime == TransferIsScheduled /\ AckIsScheduled

\* When the port says it has an interrupt, I_STAT has been raised for it or will be at the
\* end of this acknowledgement, whatever was deselected, reset or sent in the meantime.
InterruptIsDelivered == port.irq => delivered \/ port.pending_irq7

\* When software stops writing, every byte is sent as far as the transmitter is enabled, and
\* the port's interrupt reaches I_STAT.
PortSettles ==
  <>[][~HostWrites]_vars =>
    <>[]((port.tx_enabled => port.tx = Empty) /\ (port.irq => delivered))
=============================================================================
