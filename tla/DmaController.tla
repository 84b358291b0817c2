---------------------------- MODULE DmaController ----------------------------
(***************************************************************************)
(* The DMA controller of ps1-core (dma.rs) with the parts of the main loop *)
(* (api.rs, tick) that decide when it runs: seven channels that share the  *)
(* bus, at most one block or list node per ProcessDma event, the CPU       *)
(* stopped for as long as that transfer takes, and one interrupt line.     *)
(*                                                                         *)
(* Abstractions.  Every absolute cycle number of the source is compared    *)
(* with the current cycle only, so the model keeps the cycles left until   *)
(* it (0 when it is past).  The words transferred are left out: a block is *)
(* one of num_blocks, a linked list is the number of nodes before its end  *)
(* marker, and whether a node is empty is the memory's choice.  Cycle      *)
(* costs are parameters.  The mode of the GPU channel is kept because it    *)
(* decides what a visit does, and with it the direction of a linked list;  *)
(* the other channels ignore theirs.                                       *)
(***************************************************************************)
EXTENDS Integers, FiniteSets, FiniteSetsExt

CONSTANTS
  Channels,          \* the channels that exist, a subset of 0 .. 6
  MaxUnits,          \* bound: the longest transfer the host programs
  MaxAdvance,        \* bound: the longest CPU instruction
  ControlWrites,     \* the values the host writes to DPCR: [priority, enabled]
  InterruptWrites,   \* and to DICR: [force, enable, channels, ack]
  BurstWait,         \* CPU cycles a burst transfer of a channel takes
  BlockWait,         \* CPU cycles a block or node takes
  BlockDelay,        \* further cycles before the channel's next block
  PollDelay,         \* cycles between two looks at the MDEC's output
  NodeDelay,         \* cycles to the next node after an empty one
  NoEvent            \* no ProcessDma event is scheduled

ASSUME DmaAssumption ==
  /\ Channels \subseteq 0 .. 6
  /\ {MaxUnits, MaxAdvance, PollDelay, NodeDelay} \subseteq Nat \ {0}
  /\ BurstWait \in [Channels -> Nat] /\ BlockWait \in [Channels -> Nat]
  /\ BlockDelay \in [Channels -> Nat]
  /\ NoEvent \notin Nat
  /\ ControlWrites \subseteq [priority: [Channels -> 0 .. 7], enabled: [Channels -> BOOLEAN]]
  /\ InterruptWrites \subseteq [force: BOOLEAN, enable: BOOLEAN,
                                channels: SUBSET Channels, ack: SUBSET Channels]

MDEC_IN == 0
MDEC_OUT == 1
GPU == 2
CD_ROM == 3
SPU == 4
PIO == 5
OTC == 6

VARIABLES
  control,      \* DmaControlRegister: [priority, enabled, order]
  irq,          \* DmaInterruptRegister: [force, enable, channels, pending]
  config,       \* per channel: [mode, units, active, next]
  cpu_wait,     \* cpu_wait_cycles
  global_next,  \* cycles until global_next_active_cycles
  event,        \* cycles until the ProcessDma event, or NoEvent
  mdec_out,     \* MacroblockDecoder::data_out_request()
  istat,        \* the DMA bit of I_STAT
  panicked      \* a panic!() was reached

vars == <<control, irq, config, cpu_wait, global_next, event, mdec_out, istat, panicked>>

Modes == {"Burst", "Block", "LinkedList", "LinkedListToRam"}

\* channels_in_priority_order: the channels, each once, as sort_by leaves them:
\* the enabled ones first, then by priority, then by index.
Places == 1 .. Cardinality(Channels)
Orders == {order \in [Places -> Channels] : \A ch \in Channels : \E i \in Places : order[i] = ch}

BeforeByIndex(ctl, a, b) ==
  (ctl.enabled[a] /\ ~ctl.enabled[b]) \/ (ctl.enabled[a] = ctl.enabled[b] /\ a < b)

Before(ctl, a, b) ==
  \/ ctl.enabled[a] /\ ~ctl.enabled[b]
  \/ /\ ctl.enabled[a] = ctl.enabled[b]
     /\ \/ ctl.priority[a] < ctl.priority[b]
        \/ ctl.priority[a] = ctl.priority[b] /\ a < b

IsSorted(ctl, order) ==
  \A i, j \in Places : i < j => Before(ctl, order[i], order[j])

\* DmaControlRegister::new; the order is the one the register's value would give.
Init ==
  /\ \E order \in Orders :
       /\ \A i, j \in Places : i < j => order[i] < order[j]
       /\ control = [priority |-> [ch \in Channels |-> ch + 1],
                     enabled  |-> [ch \in Channels |-> FALSE],
                     order    |-> order]
  /\ irq = [force |-> FALSE, enable |-> FALSE, channels |-> {}, pending |-> {}]
  /\ config = [ch \in Channels |-> [mode |-> "Burst", units |-> 0, active |-> FALSE, next |-> 0]]
  /\ cpu_wait = 0
  /\ global_next = 0
  /\ event = NoEvent
  /\ mdec_out = FALSE
  /\ istat = FALSE
  /\ panicked = FALSE
-----------------------------------------------------------------------------
\* Scheduler::min_or_push_event for ProcessDma
Sooner(time) == IF event = NoEvent \/ time < event THEN time ELSE event

\* maybe_schedule_process_dma: what the event becomes, given the registers it looks at.
Later(a, b) == IF a < b THEN b ELSE a
DueTimes(ctl, cfg, global) ==
  {Later(global, cfg[ch].next) : ch \in {c \in Channels : cfg[c].active /\ ctl.enabled[c]}}

\* Mutants are plausible bugs; each replaces the definition that follows it.
MaybeScheduleIfNone(current, ctl, cfg, global) ==
  LET times == DueTimes(ctl, cfg, global)
  IN IF current # NoEvent \/ times = {} THEN current ELSE Min(times)

MaybeSchedule(current, ctl, cfg, global) ==
  LET times == DueTimes(ctl, cfg, global) \union ({current} \ {NoEvent})
  IN IF times = {} THEN NoEvent ELSE Min(times)

\* DmaInterruptRegister::pending
IrqPending(i) == i.force \/ (i.enable /\ i.channels \intersect i.pending # {})

\* set_interrupt_flag, called when the line rises.
Raise(new) == istat' = (istat \/ (~IrqPending(irq) /\ IrqPending(new)))

\* maybe_flag_dma_interrupt
FlaggedAlone(i, ch) == IF ch \in i.channels THEN [i EXCEPT !.pending = {ch}] ELSE i

Flagged(i, ch) == IF ch \in i.channels THEN [i EXCEPT !.pending = @ \union {ch}] ELSE i
-----------------------------------------------------------------------------
\* What one visit does to the channel, the bus and the device: the number of cycles
\* the CPU waits and the configuration left behind.
Finish(ch) == [config[ch] EXCEPT !.active = FALSE]
Continue(ch, delay) == [config[ch] EXCEPT !.units = @ - 1, !.next = delay]

Visit(wait, cfg) == [wait |-> wait, config |-> cfg]

\* run_cdrom_dma and run_otc_dma
BurstVisits(ch) == {Visit(BurstWait[ch], Finish(ch))}

\* progress_mdec_in_dma, progress_mdec_out_dma, progress_spu_dma, progress_gpu_block_dma:
\* the visit that finds no block left ends the transfer.
BlockVisits(ch) ==
  IF config[ch].units = 0 THEN {Visit(0, Finish(ch))}
  ELSE {Visit(BlockWait[ch], Continue(ch, BlockWait[ch] + BlockDelay[ch]))}

\* progress_gpu_linked_list_dma: likewise for the end marker; an empty node is free.
NodeVisits(ch) ==
  IF config[ch].units = 0 THEN {Visit(0, Finish(ch))}
  ELSE {Visit(0, Continue(ch, NodeDelay)),
        Visit(BlockWait[ch], Continue(ch, BlockWait[ch] + BlockDelay[ch]))}

Visits(ch) ==
  CASE ch \in {CD_ROM, OTC} -> BurstVisits(ch)
    [] ch \in {MDEC_IN, MDEC_OUT, SPU} -> BlockVisits(ch)
    [] ch = GPU /\ config[ch].mode = "Block" -> BlockVisits(ch)
    [] ch = GPU /\ config[ch].mode \in {"LinkedList", "LinkedListToRam"} -> NodeVisits(ch)

\* Channel 5 panics, and so does GPU DMA in burst mode or of a list node to RAM.
Panics(ch) ==
  \/ ch = PIO
  \/ ch = GPU /\ config[ch].mode = "Burst"
  \/ ch = GPU /\ config[ch].mode = "LinkedListToRam" /\ config[ch].units # 0

\* The channels the loop of process looks at: those before the first disabled one.
Scanned == {i \in Places :
              \A j \in 1 .. i : control.enabled[control.order[j]]}

Due(ch) == config[ch].active /\ config[ch].next = 0

\* MDEC out without data is put off and the loop goes on to the next channel.
Polls(ch) == ch = MDEC_OUT /\ ~mdec_out /\ config[ch].units # 0

Visited == {i \in Scanned : Due(control.order[i]) /\ ~Polls(control.order[i])}
Polled == {i \in Scanned : Due(control.order[i]) /\ Polls(control.order[i])
                           /\ \A j \in Visited : i < j}

\* The configurations after the loop has put off MDEC out where it met it.
AfterPollsAtOnce == config

AfterPolls == [ch \in Channels |->
  IF \E i \in Polled : control.order[i] = ch
  THEN [config[ch] EXCEPT !.next = PollDelay] ELSE config[ch]]

\* Decoding changes whether there is output: input may produce some, and reading
\* output may use it up.
MdecAfter(ch) ==
  \/ mdec_out' = mdec_out
  \/ ch = MDEC_IN /\ config[ch].units # 0 /\ mdec_out' = TRUE
  \/ ch = MDEC_OUT /\ config[ch].units # 0 /\ mdec_out' = FALSE

RunChannel(ch, v) ==
  LET after == IF v.config.active THEN irq ELSE Flagged(irq, ch)
  IN /\ config' = [AfterPolls EXCEPT ![ch] = v.config]
     /\ cpu_wait' = v.wait
     /\ irq' = after
     /\ Raise(after)
     /\ MdecAfter(ch)
     /\ UNCHANGED panicked

\* process, from the transfer on: no channel, or the first one the loop may run.
Idles ==
  /\ Visited = {}
  /\ config' = AfterPolls
  /\ cpu_wait' = 0
  /\ UNCHANGED <<irq, mdec_out, istat, panicked>>

Transfers ==
  \E i \in Visited :
    LET ch == control.order[i]
    IN /\ \A j \in Visited : i <= j
       /\ IF Panics(ch)
          THEN /\ panicked' = TRUE
               /\ UNCHANGED <<irq, config, cpu_wait, mdec_out, istat>>
          ELSE \E v \in Visits(ch) : RunChannel(ch, v)

\* The ProcessDma event is popped and process runs.
Process ==
  /\ ~panicked
  /\ event = 0
  /\ IF global_next # 0
     THEN /\ event' = global_next
          /\ UNCHANGED <<irq, config, cpu_wait, global_next, mdec_out, istat, panicked>>
     ELSE /\ Idles \/ Transfers
          /\ global_next' = cpu_wait'
          /\ event' = MaybeSchedule(NoEvent, control, config', global_next')
  /\ UNCHANGED control
-----------------------------------------------------------------------------
\* increment_cpu_cycles
LeftUnclamped(cycles, n) == cycles - n
Left(cycles, n) == IF cycles < n THEN 0 ELSE cycles - n

Elapse(n) ==
  /\ config' = [ch \in Channels |-> [config[ch] EXCEPT !.next = Left(@, n)]]
  /\ global_next' = Left(global_next, n)
  /\ event' = IF event = NoEvent THEN NoEvent ELSE Left(event, n)
  /\ UNCHANGED <<control, irq, mdec_out, istat, panicked>>

\* tick makes up for the transfer before the CPU runs again.
TakeCpuWaitCycles ==
  /\ ~panicked
  /\ event # 0
  /\ cpu_wait # 0
  /\ cpu_wait' = 0
  /\ Elapse(cpu_wait)

\* The CPU executes instructions while no event is ready and nothing is left to wait for.
CpuRunsDuringTransfer == ~panicked /\ event # 0
CpuRuns == ~panicked /\ event # 0 /\ cpu_wait = 0

ExecuteInstruction(n) ==
  /\ CpuRuns
  /\ UNCHANGED cpu_wait
  /\ Elapse(n)

\* write_control: a channel that is already active may have been enabled.
WriteControlUnsorted(value) ==
  /\ CpuRuns
  /\ control' = [priority |-> value.priority, enabled |-> value.enabled,
                 order |-> control.order]
  /\ event' = MaybeSchedule(event, control', config, global_next)
  /\ UNCHANGED <<irq, config, cpu_wait, global_next, mdec_out, istat, panicked>>

WriteControl(value) ==
  /\ CpuRuns
  /\ \E order \in Orders :
       /\ IsSorted(value, order)
       /\ control' = [priority |-> value.priority, enabled |-> value.enabled, order |-> order]
  /\ event' = MaybeSchedule(event, control', config, global_next)
  /\ UNCHANGED <<irq, config, cpu_wait, global_next, mdec_out, istat, panicked>>

\* write_interrupt: pending flags are cleared by a 1 and by disabling their channel.
WriteInterrupt(value) ==
  LET new == [force |-> value.force, enable |-> value.enable, channels |-> value.channels,
              pending |-> (irq.pending \ value.ack) \intersect value.channels]
  IN /\ CpuRuns
     /\ irq' = new
     /\ Raise(new)
     /\ UNCHANGED <<control, config, cpu_wait, global_next, event, mdec_out, panicked>>

\* write_channel_length, and write_channel_address for a linked list.
WriteChannelLength(ch, units) ==
  /\ CpuRuns
  /\ config' = [config EXCEPT ![ch].units = units]
  /\ UNCHANGED <<control, irq, cpu_wait, global_next, event, mdec_out, istat, panicked>>

\* write_channel_control.  Channel 6 keeps its mode.
WriteChannelControl(ch, mode, start) ==
  /\ CpuRuns
  /\ config' = [config EXCEPT ![ch].mode = IF ch = OTC THEN @ ELSE mode,
                              ![ch].active = start]
  /\ event' = IF start THEN Sooner(0) ELSE event
  /\ UNCHANGED <<control, irq, cpu_wait, global_next, mdec_out, istat, panicked>>

\* Software feeds the MDEC, reads its output, or turns its output request off.
AccessMdec ==
  /\ CpuRuns
  /\ mdec_out' = ~mdec_out
  /\ UNCHANGED <<control, irq, config, cpu_wait, global_next, event, istat, panicked>>

AcknowledgeIStat ==
  /\ CpuRuns
  /\ istat
  /\ istat' = FALSE
  /\ UNCHANGED <<control, irq, config, cpu_wait, global_next, event, mdec_out, panicked>>

\* Modes other than the GPU's are ignored, so only the GPU's are enumerated.
HostWrites ==
  \/ \E value \in ControlWrites : WriteControl(value)
  \/ \E value \in InterruptWrites : WriteInterrupt(value)
  \/ \E ch \in Channels, units \in 1 .. MaxUnits : WriteChannelLength(ch, units)
  \/ \E ch \in Channels, start \in BOOLEAN :
       \E mode \in IF ch = GPU THEN Modes ELSE {"Block"} : WriteChannelControl(ch, mode, start)
  \/ AccessMdec
  \/ AcknowledgeIStat

Next ==
  \/ Process
  \/ TakeCpuWaitCycles
  \/ \E n \in 1 .. MaxAdvance : ExecuteInstruction(n)
  \/ HostWrites

Spec == Init /\ [][Next]_vars

\* The main loop goes on: it processes what is ready, pays for transfers and executes
\* instructions.  Nothing is assumed of what the instructions write.
FairSpec ==
  /\ Spec
  /\ WF_vars(Process)
  /\ WF_vars(TakeCpuWaitCycles)
  /\ WF_vars(ExecuteInstruction(1))
-----------------------------------------------------------------------------
TypeOK ==
  /\ control \in [priority: [Channels -> Nat], enabled: [Channels -> BOOLEAN],
                  order: Orders]
  /\ irq \in [force: BOOLEAN, enable: BOOLEAN, channels: SUBSET Channels,
              pending: SUBSET Channels]
  /\ config \in [Channels -> [mode: Modes, units: Nat, active: BOOLEAN, next: Nat]]
  /\ cpu_wait \in Nat /\ global_next \in Nat /\ event \in Nat \union {NoEvent}
  /\ mdec_out \in BOOLEAN /\ istat \in BOOLEAN /\ panicked \in BOOLEAN

\* No transfer is forgotten: while any enabled channel is active a ProcessDma event is
\* scheduled, and no later than the bus and the first such channel are ready.  (A channel
\* may be started while disabled, enabled while active, or stopped and restarted.)
Enabled(ch) == control.enabled[ch]
Pending(ch) == config[ch].active /\ Enabled(ch)

TransfersAreScheduled ==
  ~panicked => \A ch \in Channels : Pending(ch) =>
    event # NoEvent /\ event <= Later(global_next, config[ch].next)

\* The CPU pays for every cycle of the bus, once: what it still has to wait is exactly the
\* time until the bus is free, so process never finds the bus busy.
CpuPaysForBus == ~panicked => cpu_wait = global_next

\* The channels stay sorted by what DPCR holds, which the loop relies on when it stops at
\* the first disabled channel: no enabled one comes after it.
SortedByPriority == IsSorted(control, control.order)

\* Whatever DPCR was written and in whatever order channels were enabled, a transfer
\* proceeds only when no enabled channel of higher priority (or the same and a lower
\* number) could.
Outranks(a, b) ==
  \/ control.priority[a] < control.priority[b]
  \/ control.priority[a] = control.priority[b] /\ a < b

Proceeds(ch) ==
  /\ global_next = 0 /\ event = 0
  /\ config[ch].active /\ (config'[ch].units # config[ch].units \/ ~config'[ch].active)

HighestPriorityProceeds ==
  [][Process => \A a, b \in Channels :
       Proceeds(b) => Enabled(b) /\ (Outranks(a, b) /\ Enabled(a) => ~Due(a) \/ Polls(a))]_vars

\* Software that enabled the interrupt of a channel learns of every completion: the
\* channel's flag is set, no other channel's flag is lost with it, and I_STAT is raised
\* unless the line is still high from an earlier one.
CompletionIsReported ==
  [][Process => \A ch \in Channels :
       config[ch].active /\ ~config'[ch].active /\ ch \in irq.channels
       => /\ irq'.pending = irq.pending \union {ch}
          /\ irq.enable => istat' \/ IrqPending(irq)]_vars

\* When software stops interfering, every transfer on an enabled channel completes; only
\* MDEC out may wait for data for ever, and then no other channel waits with it.
WaitsForMdec(ch) == ch = MDEC_OUT /\ ~mdec_out

TransfersComplete ==
  <>[][~HostWrites]_vars =>
    \A ch \in Channels : <>[](~Pending(ch) \/ WaitsForMdec(ch) \/ panicked)
=============================================================================
