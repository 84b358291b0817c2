------------------------- MODULE DmaControllerProofs -------------------------
(***************************************************************************)
(* Proofs about DmaController for every set of channels, every cost and    *)
(* every value software may write.                                         *)
(*                                                                         *)
(* The inductive invariant is the conjunction of what is claimed: the      *)
(* event is on time only because the CPU has paid for the bus when it      *)
(* writes a register, and the bus is paid for only because each visit sets *)
(* both counters together.                                                 *)
(***************************************************************************)
EXTENDS DmaController, FiniteSetTheorems, WellFoundedInduction, TLAPS

IInv == TypeOK /\ TransfersAreScheduled /\ CpuPaysForBus /\ SortedByPriority

\* The minimum of a set of natural numbers is one of them and bounds them all.
LEMMA MinIsLeast ==
  ASSUME NEW S \in SUBSET Nat, S # {}
  PROVE  Min(S) \in S /\ \A x \in S : Min(S) <= x
<1>1. PICK m \in S : \A x \in S : ~(<<x, m>> \in OpToRel(<, Nat))
  BY NatLessThanWellFounded, WFMin
<1>2. \A x \in S : m <= x
  <2>1. SUFFICES ASSUME NEW x \in S, ~(m <= x)
                 PROVE  FALSE
    OBVIOUS
  <2>2. x \in Nat /\ m \in Nat /\ x < m
    BY <2>1
  <2>3. <<x, m>> \in OpToRel(<, Nat)
    BY <2>2 DEF OpToRel
  <2>4. QED
    BY <1>1, <2>3
<1>3. QED
  BY <1>2 DEF Min

\* maybe_schedule_process_dma never moves the event later, and leaves it no later than
\* the first enabled active channel and the bus are ready.
LEMMA ScheduleIsOnTime ==
  ASSUME NEW current \in Nat \union {NoEvent}, NEW ctl, NEW global \in Nat,
         NEW cfg \in [Channels -> [mode: Modes, units: Nat, active: BOOLEAN, next: Nat]]
  PROVE  /\ MaybeSchedule(current, ctl, cfg, global) \in Nat \union {NoEvent}
         /\ \A ch \in Channels : cfg[ch].active /\ ctl.enabled[ch] =>
              /\ MaybeSchedule(current, ctl, cfg, global) # NoEvent
              /\ MaybeSchedule(current, ctl, cfg, global) <= Later(global, cfg[ch].next)
<1> DEFINE times == DueTimes(ctl, cfg, global) \union ({current} \ {NoEvent})
<1> HIDE DEF times
<1>1. times \in SUBSET Nat
  BY DEF times, DueTimes, Later
<1>2. ASSUME times # {}
      PROVE  Min(times) \in Nat /\ \A t \in times : Min(times) <= t
  BY <1>1, <1>2, MinIsLeast
<1>3. MaybeSchedule(current, ctl, cfg, global) = IF times = {} THEN NoEvent ELSE Min(times)
  BY DEF MaybeSchedule, times
<1>4. \A ch \in Channels : cfg[ch].active /\ ctl.enabled[ch] =>
        Later(global, cfg[ch].next) \in times
  BY DEF times, DueTimes
<1>5. NoEvent \notin Nat
  BY DmaAssumption
<1>6. QED
  BY <1>2, <1>3, <1>4, <1>5

\* The registers a visit leaves behind have the types of the registers.
Config == [mode: Modes, units: Nat, active: BOOLEAN, next: Nat]
Irq == [force: BOOLEAN, enable: BOOLEAN, channels: SUBSET Channels, pending: SUBSET Channels]

LEMMA VisitsAreTyped ==
  ASSUME TypeOK, NEW ch \in Channels, ~Panics(ch), NEW v \in Visits(ch)
  PROVE  v.wait \in Nat /\ v.config \in Config
<1>1. config[ch] \in Config
  BY DEF TypeOK, Config
<1>2. BurstWait[ch] \in Nat /\ BlockWait[ch] \in Nat /\ BlockDelay[ch] \in Nat /\ NodeDelay \in Nat
  BY DmaAssumption
<1>3. Finish(ch) \in Config
  BY <1>1 DEF Finish, Config
<1>4. ASSUME config[ch].units # 0, NEW delay \in Nat
      PROVE  Continue(ch, delay) \in Config
  <2>1. config[ch].units \in Nat /\ config[ch].units - 1 \in Nat
    BY <1>1, <1>4 DEF Config
  <2>2. QED
    BY <1>1, <2>1 DEF Continue, Config
<1>5. CASE v \in BurstVisits(ch)
  BY <1>5, <1>2, <1>3 DEF BurstVisits, Visit
<1>6. CASE v \in BlockVisits(ch)
  <2>1. CASE config[ch].units = 0
    BY <1>6, <2>1, <1>3 DEF BlockVisits, Visit
  <2>2. CASE config[ch].units # 0
    <3>1. BlockWait[ch] + BlockDelay[ch] \in Nat
      BY <1>2
    <3>2. v = Visit(BlockWait[ch], Continue(ch, BlockWait[ch] + BlockDelay[ch]))
      BY <1>6, <2>2 DEF BlockVisits
    <3>3. QED
      BY <3>1, <3>2, <1>2, <1>4, <2>2 DEF Visit
  <2>3. QED
    BY <2>1, <2>2
<1>7. CASE v \in NodeVisits(ch)
  <2>1. CASE config[ch].units = 0
    BY <1>7, <2>1, <1>3 DEF NodeVisits, Visit
  <2>2. CASE config[ch].units # 0
    <3>1. BlockWait[ch] + BlockDelay[ch] \in Nat
      BY <1>2
    <3>2. \/ v = Visit(0, Continue(ch, NodeDelay))
          \/ v = Visit(BlockWait[ch], Continue(ch, BlockWait[ch] + BlockDelay[ch]))
      BY <1>7, <2>2 DEF NodeVisits
    <3>3. QED
      BY <3>1, <3>2, <1>2, <1>4, <2>2 DEF Visit
  <2>3. QED
    BY <2>1, <2>2
<1>8. v \in BurstVisits(ch) \/ v \in BlockVisits(ch) \/ v \in NodeVisits(ch)
  <2>1. ch \in 0 .. 6
    BY DmaAssumption
  <2>2. config[ch].mode \in Modes
    BY <1>1 DEF Config
  <2>3. QED
    BY <2>1, <2>2 DEF Visits, Panics, Modes, MDEC_IN, MDEC_OUT, GPU, CD_ROM, SPU, PIO, OTC
<1>9. QED
  BY <1>5, <1>6, <1>7, <1>8

\* The order is a list of channels, so every place the loop visits holds one.
LEMMA PlacesHoldChannels ==
  ASSUME TypeOK, NEW i \in Places
  PROVE  control.order[i] \in Channels
  BY DEF TypeOK, Orders

LEMMA InitInvariant == Init => IInv
<1> SUFFICES ASSUME Init PROVE IInv
  OBVIOUS
<1>1. PICK order \in Orders :
        /\ \A i, j \in Places : i < j => order[i] < order[j]
        /\ control = [priority |-> [ch \in Channels |-> ch + 1],
                      enabled  |-> [ch \in Channels |-> FALSE],
                      order    |-> order]
  BY DEF Init
<1>2. \A i \in Places : order[i] \in Channels
  BY <1>1 DEF Orders
<1>3. Channels \subseteq 0 .. 6
  BY DmaAssumption
<1>4. TypeOK
  <2>1. control \in [priority: [Channels -> Nat], enabled: [Channels -> BOOLEAN], order: Orders]
    BY <1>1, <1>3
  <2>2. irq \in Irq
    BY DEF Init, Irq
  <2>3. config \in [Channels -> [mode: Modes, units: Nat, active: BOOLEAN, next: Nat]]
    BY DEF Init, Modes
  <2>4. QED
    BY <2>1, <2>2, <2>3 DEF Init, TypeOK, Irq
<1>5. TransfersAreScheduled
  BY DEF Init, TransfersAreScheduled, Pending
<1>6. CpuPaysForBus
  BY DEF Init, CpuPaysForBus
<1>7. SortedByPriority
  <2>1. SUFFICES ASSUME NEW i \in Places, NEW j \in Places, i < j
                 PROVE  Before(control, order[i], order[j])
    BY <1>1 DEF SortedByPriority, IsSorted
  <2>2. order[i] \in Channels /\ order[j] \in Channels
    BY <1>2
  <2>3. \A ch \in Channels : ch \in Nat
    BY <1>3
  <2>4. order[i] < order[j]
    BY <1>1, <2>1
  <2>5. \A ch \in Channels : control.enabled[ch] = FALSE /\ control.priority[ch] = ch + 1
    BY <1>1
  <2>6. control.priority[order[i]] < control.priority[order[j]]
    BY <2>2, <2>3, <2>4, <2>5
  <2>7. control.enabled[order[i]] = control.enabled[order[j]]
    BY <2>2, <2>5
  <2>8. QED
    BY <2>6, <2>7 DEF Before
<1>8. QED
  BY <1>4, <1>5, <1>6, <1>7 DEF IInv

\* Time passing brings the event and every channel nearer at the same pace.
LEMMA ElapseStep ==
  ASSUME IInv, NEW n \in Nat, Elapse(n), cpu_wait' \in Nat
  PROVE  TypeOK' /\ TransfersAreScheduled' /\ SortedByPriority'
<1>0. NoEvent \notin Nat
  BY DmaAssumption
<1>1. \A cycles \in Nat : Left(cycles, n) \in Nat
  BY DEF Left
<1>2. config \in [Channels -> Config] /\ global_next \in Nat /\ event \in Nat \union {NoEvent}
  BY DEF IInv, TypeOK, Config
<1>3. config' \in [Channels -> Config]
  BY <1>1, <1>2 DEF Elapse, Config
<1>4. TypeOK'
  BY <1>1, <1>2, <1>3 DEF IInv, TypeOK, Elapse, Config
<1>5. TransfersAreScheduled'
  <2>1. SUFFICES ASSUME ~panicked', NEW ch \in Channels, Pending(ch)'
                 PROVE  event' # NoEvent /\ event' <= Later(global_next', config'[ch].next)
    BY DEF TransfersAreScheduled
  <2>2. Pending(ch) /\ ~panicked
    BY <2>1, <1>2 DEF Pending, Enabled, Elapse, Config
  <2>3. event \in Nat /\ event <= Later(global_next, config[ch].next)
    BY <2>2, <1>2 DEF IInv, TransfersAreScheduled
  <2>4. /\ config[ch].next \in Nat
        /\ config'[ch].next = Left(config[ch].next, n)
        /\ global_next' = Left(global_next, n)
    BY <1>2 DEF Elapse, Config
  <2>5. event' = Left(event, n)
    BY <2>3, <1>0 DEF Elapse
  <2>6. QED
    BY <2>3, <2>4, <2>5, <1>0, <1>2 DEF Left, Later
<1>6. SortedByPriority'
  BY DEF IInv, SortedByPriority, IsSorted, Before, Elapse
<1>7. QED
  BY <1>4, <1>5, <1>6

\* process: the bus and the CPU are charged the same, and the event is scheduled anew.
LEMMA AfterPollsTyped == ASSUME TypeOK PROVE AfterPolls \in [Channels -> Config]
<1>1. PollDelay \in Nat
  BY DmaAssumption
<1>2. QED
  BY <1>1 DEF TypeOK, AfterPolls, Config

LEMMA TransferTyped ==
  ASSUME TypeOK, Idles \/ Transfers
  PROVE  /\ config' \in [Channels -> Config] /\ irq' \in Irq /\ cpu_wait' \in Nat
         /\ mdec_out' \in BOOLEAN /\ istat' \in BOOLEAN /\ panicked' \in BOOLEAN
<1>1. CASE Idles
  BY <1>1, AfterPollsTyped DEF Idles, TypeOK, Irq
<1>2. CASE Transfers
  <2>1. PICK i \in Visited :
          LET ch == control.order[i]
          IN  IF Panics(ch)
              THEN /\ panicked' = TRUE
                   /\ UNCHANGED <<irq, config, cpu_wait, mdec_out, istat>>
              ELSE \E v \in Visits(ch) : RunChannel(ch, v)
    BY <1>2 DEF Transfers
  <2> DEFINE ch == control.order[i]
  <2>2. ch \in Channels
    BY PlacesHoldChannels DEF Visited, Scanned
  <2> HIDE DEF ch
  <2>3. CASE Panics(ch)
    BY <2>1, <2>3 DEF TypeOK, Irq, Config, ch
  <2>4. CASE ~Panics(ch)
    <3>1. PICK v \in Visits(ch) : RunChannel(ch, v)
      BY <2>1, <2>4 DEF ch
    <3>2. v.wait \in Nat /\ v.config \in Config
      BY <2>2, <2>4, <3>1, VisitsAreTyped
    <3>3. config' \in [Channels -> Config] /\ cpu_wait' \in Nat
      BY <2>2, <3>1, <3>2, AfterPollsTyped DEF RunChannel
    <3>4. irq \in Irq /\ Flagged(irq, ch) \in Irq
      BY <2>2 DEF TypeOK, Flagged, Irq
    <3>5. irq' \in Irq
      BY <3>1, <3>4 DEF RunChannel
    <3>6. mdec_out' \in BOOLEAN /\ istat' \in BOOLEAN /\ panicked' \in BOOLEAN
      <4>1. IrqPending(irq) \in BOOLEAN /\ IrqPending(irq') \in BOOLEAN
        BY DEF IrqPending
      <4>2. QED
        BY <3>1, <4>1 DEF RunChannel, Raise, MdecAfter, TypeOK
    <3>7. QED
      BY <3>3, <3>5, <3>6
  <2>5. QED
    BY <2>3, <2>4
<1>3. QED
  BY <1>1, <1>2

LEMMA ProcessStep == ASSUME IInv, Process PROVE IInv'
<1> USE DEF IInv
<1>0. NoEvent \notin Nat
  BY DmaAssumption
<1>1. SortedByPriority'
  BY DEF Process, SortedByPriority, IsSorted, Before
<1>2. CASE global_next # 0
  <2>1. /\ event' = global_next
        /\ UNCHANGED <<control, irq, config, cpu_wait, global_next, mdec_out, istat, panicked>>
    BY <1>2 DEF Process
  <2>2. TypeOK'
    BY <2>1 DEF TypeOK
  <2>3. TransfersAreScheduled'
    <3>1. \A ch \in Channels : config[ch].next \in Nat
      BY DEF TypeOK
    <3>2. global_next \in Nat
      BY DEF TypeOK
    <3>3. QED
      BY <2>1, <3>1, <3>2, <1>0 DEF TransfersAreScheduled, Pending, Enabled, Later
  <2>4. CpuPaysForBus'
    BY <2>1 DEF CpuPaysForBus
  <2>5. QED
    BY <1>1, <2>2, <2>3, <2>4
<1>3. CASE global_next = 0
  <2>1. /\ Idles \/ Transfers
        /\ global_next' = cpu_wait'
        /\ event' = MaybeSchedule(NoEvent, control, config', global_next')
        /\ UNCHANGED control
    BY <1>3 DEF Process
  <2>2. /\ config' \in [Channels -> Config] /\ irq' \in Irq /\ cpu_wait' \in Nat
        /\ mdec_out' \in BOOLEAN /\ istat' \in BOOLEAN /\ panicked' \in BOOLEAN
    BY <2>1, TransferTyped
  <2>3. /\ event' \in Nat \union {NoEvent}
        /\ \A ch \in Channels : config'[ch].active /\ control.enabled[ch] =>
             event' # NoEvent /\ event' <= Later(global_next', config'[ch].next)
    <3>1. global_next' \in Nat /\ NoEvent \in Nat \union {NoEvent}
      BY <2>1, <2>2
    <3>2. config' \in [Channels -> [mode: Modes, units: Nat, active: BOOLEAN, next: Nat]]
      BY <2>2 DEF Config
    <3>3. QED
      BY <2>1, <3>1, <3>2, ScheduleIsOnTime
  <2>4. TypeOK'
    BY <2>1, <2>2, <2>3 DEF TypeOK, Config, Irq
  <2>5. TransfersAreScheduled'
    BY <2>1, <2>3 DEF TransfersAreScheduled, Pending, Enabled
  <2>6. CpuPaysForBus'
    BY <2>1 DEF CpuPaysForBus
  <2>7. QED
    BY <1>1, <2>4, <2>5, <2>6
<1>4. QED
  BY <1>2, <1>3

LEMMA TakeStep == ASSUME IInv, TakeCpuWaitCycles PROVE IInv'
<1>1. /\ cpu_wait \in Nat /\ cpu_wait' = 0 /\ Elapse(cpu_wait) /\ ~panicked
      /\ global_next \in Nat /\ cpu_wait = global_next
  BY DEF TakeCpuWaitCycles, IInv, TypeOK, CpuPaysForBus
<1>2. TypeOK' /\ TransfersAreScheduled' /\ SortedByPriority'
  BY <1>1, ElapseStep
<1>3. global_next' = 0
  BY <1>1 DEF Elapse, Left
<1>4. CpuPaysForBus'
  BY <1>1, <1>3 DEF CpuPaysForBus
<1>5. QED
  BY <1>2, <1>4 DEF IInv

LEMMA InstructionStep ==
  ASSUME IInv, NEW n \in 1 .. MaxAdvance, ExecuteInstruction(n) PROVE IInv'
<1>0. n \in Nat /\ 0 < n
  BY DmaAssumption
<1>1. /\ cpu_wait = 0 /\ cpu_wait' = 0 /\ Elapse(n) /\ ~panicked /\ global_next = 0
  BY DEF ExecuteInstruction, CpuRuns, IInv, TypeOK, CpuPaysForBus
<1>2. TypeOK' /\ TransfersAreScheduled' /\ SortedByPriority'
  BY <1>0, <1>1, ElapseStep
<1>3. global_next' = 0
  BY <1>0, <1>1 DEF Elapse, Left
<1>4. CpuPaysForBus'
  BY <1>1, <1>3 DEF CpuPaysForBus
<1>5. QED
  BY <1>2, <1>4 DEF IInv

\* A register write that disables, enables or reorders channels schedules the event anew.
LEMMA ControlStep ==
  ASSUME IInv, NEW value \in ControlWrites, WriteControl(value) PROVE IInv'
<1>1. PICK order \in Orders :
        /\ IsSorted(value, order)
        /\ control' = [priority |-> value.priority, enabled |-> value.enabled, order |-> order]
  BY DEF WriteControl
<1>2. value \in [priority: [Channels -> 0 .. 7], enabled: [Channels -> BOOLEAN]]
  BY DmaAssumption
<1>3. control' \in [priority: [Channels -> Nat], enabled: [Channels -> BOOLEAN], order: Orders]
  <2>1. value.priority \in [Channels -> Nat]
    BY <1>2
  <2>2. QED
    BY <1>1, <1>2, <2>1
<1>4. event' = MaybeSchedule(event, control', config, global_next)
  BY DEF WriteControl
<1>5. /\ event \in Nat \union {NoEvent} /\ global_next \in Nat
      /\ config \in [Channels -> [mode: Modes, units: Nat, active: BOOLEAN, next: Nat]]
  BY DEF IInv, TypeOK
<1>6. /\ event' \in Nat \union {NoEvent}
      /\ \A ch \in Channels : config[ch].active /\ control'.enabled[ch] =>
           event' # NoEvent /\ event' <= Later(global_next, config[ch].next)
  BY <1>4, <1>5, ScheduleIsOnTime
<1>7. TypeOK'
  BY <1>3, <1>6 DEF IInv, TypeOK, WriteControl
<1>8. TransfersAreScheduled'
  BY <1>6 DEF TransfersAreScheduled, Pending, Enabled, WriteControl
<1>9. CpuPaysForBus'
  BY DEF IInv, CpuPaysForBus, WriteControl
<1>10. SortedByPriority'
  BY <1>1 DEF SortedByPriority, IsSorted, Before
<1>11. QED
  BY <1>7, <1>8, <1>9, <1>10 DEF IInv

LEMMA ChannelControlStep ==
  ASSUME IInv, NEW ch \in Channels, NEW mode \in Modes, NEW start \in BOOLEAN,
         WriteChannelControl(ch, mode, start)
  PROVE  IInv'
<1>0. NoEvent \notin Nat
  BY DmaAssumption
<1>1. config \in [Channels -> Config] /\ event \in Nat \union {NoEvent} /\ global_next \in Nat
  BY DEF IInv, TypeOK, Config
<1>2. config' \in [Channels -> Config]
  BY <1>1, ZenonT(30) DEF WriteChannelControl, Config
<1>3. event' \in Nat \union {NoEvent} /\ (start => event' = 0)
  BY <1>0, <1>1 DEF WriteChannelControl, Sooner
<1>4. TypeOK'
  BY <1>2, <1>3 DEF IInv, TypeOK, WriteChannelControl, Config
<1>5. TransfersAreScheduled'
  <2>1. SUFFICES ASSUME ~panicked', NEW c \in Channels, Pending(c)'
                 PROVE  event' # NoEvent /\ event' <= Later(global_next', config'[c].next)
    BY DEF TransfersAreScheduled
  <2>2. config'[c].next = config[c].next /\ config'[c].next \in Nat /\ global_next' = global_next
    BY <1>1 DEF WriteChannelControl, Config
  <2>3. CASE start
    BY <1>0, <1>1, <1>3, <2>2, <2>3 DEF Later
  <2>4. CASE ~start
    <3>1. c # ch /\ Pending(c) /\ ~panicked
      BY <2>1, <2>4, <1>1 DEF Pending, Enabled, WriteChannelControl, Config
    <3>2. event' = event
      BY <2>4 DEF WriteChannelControl
    <3>3. QED
      BY <3>1, <3>2, <2>2 DEF IInv, TransfersAreScheduled
  <2>5. QED
    BY <2>3, <2>4
<1>6. CpuPaysForBus' /\ SortedByPriority'
  BY DEF IInv, CpuPaysForBus, SortedByPriority, IsSorted, Before, WriteChannelControl
<1>7. QED
  BY <1>4, <1>5, <1>6 DEF IInv

\* The other registers do not decide when the controller runs.
LEMMA LengthStep ==
  ASSUME IInv, NEW ch \in Channels, NEW units \in 1 .. MaxUnits, WriteChannelLength(ch, units)
  PROVE  IInv'
<1>1. config \in [Channels -> Config] /\ units \in Nat
  BY DEF IInv, TypeOK, Config
<1>2. config' \in [Channels -> Config]
  BY <1>1 DEF WriteChannelLength, Config
<1>3. \A c \in Channels : config'[c].next = config[c].next /\ config'[c].active = config[c].active
  BY <1>1 DEF WriteChannelLength, Config
<1>4. TypeOK'
  BY <1>2 DEF IInv, TypeOK, WriteChannelLength, Config
<1>5. TransfersAreScheduled'
  BY <1>3 DEF IInv, TransfersAreScheduled, Pending, Enabled, WriteChannelLength
<1>6. CpuPaysForBus' /\ SortedByPriority'
  BY DEF IInv, CpuPaysForBus, SortedByPriority, IsSorted, Before, WriteChannelLength
<1>7. QED
  BY <1>4, <1>5, <1>6 DEF IInv

Quiet == UNCHANGED <<control, config, cpu_wait, global_next, event, panicked>>

LEMMA QuietStep ==
  ASSUME IInv, Quiet, irq' \in Irq, mdec_out' \in BOOLEAN, istat' \in BOOLEAN PROVE IInv'
<1>1. TypeOK'
  BY DEF IInv, TypeOK, Quiet, Irq
<1>2. TransfersAreScheduled' /\ CpuPaysForBus' /\ SortedByPriority'
  BY DEF IInv, TransfersAreScheduled, Pending, Enabled, CpuPaysForBus, SortedByPriority,
         IsSorted, Before, Quiet
<1>3. QED
  BY <1>1, <1>2 DEF IInv

LEMMA InterruptStep ==
  ASSUME IInv, NEW value \in InterruptWrites, WriteInterrupt(value) PROVE IInv'
<1>1. value \in [force: BOOLEAN, enable: BOOLEAN, channels: SUBSET Channels, ack: SUBSET Channels]
  BY DmaAssumption
<1>2. irq \in Irq /\ mdec_out \in BOOLEAN /\ istat \in BOOLEAN
  BY DEF IInv, TypeOK, Irq
<1>3. irq' \in Irq
  BY <1>1, <1>2 DEF WriteInterrupt, Irq
<1>4. istat' \in BOOLEAN /\ mdec_out' \in BOOLEAN /\ Quiet
  BY <1>2 DEF WriteInterrupt, Raise, Quiet, IrqPending
<1>5. QED
  BY <1>3, <1>4, QuietStep

LEMMA NextStep == ASSUME IInv, [Next]_vars PROVE IInv'
<1>1. CASE Process
  BY <1>1, ProcessStep
<1>2. CASE TakeCpuWaitCycles
  BY <1>2, TakeStep
<1>3. CASE \E n \in 1 .. MaxAdvance : ExecuteInstruction(n)
  BY <1>3, InstructionStep
<1>4. CASE \E value \in ControlWrites : WriteControl(value)
  BY <1>4, ControlStep
<1>5. CASE \E value \in InterruptWrites : WriteInterrupt(value)
  BY <1>5, InterruptStep
<1>6. CASE \E ch \in Channels, units \in 1 .. MaxUnits : WriteChannelLength(ch, units)
  BY <1>6, LengthStep
<1>7. CASE \E ch \in Channels, start \in BOOLEAN :
             \E mode \in IF ch = GPU THEN Modes ELSE {"Block"} :
               WriteChannelControl(ch, mode, start)
  <2>1. PICK ch \in Channels, start \in BOOLEAN :
          \E mode \in IF ch = GPU THEN Modes ELSE {"Block"} : WriteChannelControl(ch, mode, start)
    BY <1>7
  <2>2. PICK mode \in Modes : WriteChannelControl(ch, mode, start)
    BY <2>1 DEF Modes
  <2>3. QED
    BY <2>2, ChannelControlStep
<1>8. CASE AccessMdec
  BY <1>8, QuietStep DEF AccessMdec, IInv, TypeOK, Quiet, Irq
<1>9. CASE AcknowledgeIStat
  BY <1>9, QuietStep DEF AcknowledgeIStat, IInv, TypeOK, Quiet, Irq
<1>10. CASE UNCHANGED vars
  BY <1>10, QuietStep DEF vars, IInv, TypeOK, Quiet, Irq
<1>11. QED
  BY <1>1, <1>2, <1>3, <1>4, <1>5, <1>6, <1>7, <1>8, <1>9, <1>10 DEF Next, HostWrites
-----------------------------------------------------------------------------
LEMMA Invariance == Spec => []IInv
<1>1. Init => IInv
  BY InitInvariant
<1>2. IInv /\ [Next]_vars => IInv'
  BY NextStep
<1>3. QED
  BY <1>1, <1>2, PTL DEF Spec

\* Every register keeps a value of its type.
THEOREM TypeCorrect == Spec => []TypeOK
<1>1. IInv => TypeOK
  BY DEF IInv
<1>2. QED
  BY <1>1, Invariance, PTL

\* No transfer that software started on an enabled channel is ever forgotten by the
\* scheduler, whatever is written to the registers and in whatever order.
THEOREM NoTransferForgotten == Spec => []TransfersAreScheduled
<1>1. IInv => TransfersAreScheduled
  BY DEF IInv
<1>2. QED
  BY <1>1, Invariance, PTL

\* The CPU waits exactly as long as the bus is taken, so the early return of process is
\* never needed.
THEOREM BusIsPaidFor == Spec => []CpuPaysForBus
<1>1. IInv => CpuPaysForBus
  BY DEF IInv
<1>2. QED
  BY <1>1, Invariance, PTL

\* The order of the channels is always the one DPCR calls for.
THEOREM OrderFollowsControl == Spec => []SortedByPriority
<1>1. IInv => SortedByPriority
  BY DEF IInv
<1>2. QED
  BY <1>1, Invariance, PTL

\* A place before another holds a different channel, which outranks the other's when
\* both are enabled.
LEMMA LowerRanksComeLater ==
  ASSUME IInv, NEW i \in Places, NEW j \in Places,
         Outranks(control.order[j], control.order[i]), Enabled(control.order[j])
  PROVE  j < i
<1> DEFINE a == control.order[j]
           b == control.order[i]
<1>1. /\ a \in Channels /\ b \in Channels
      /\ control.priority[a] \in Nat /\ control.priority[b] \in Nat
  BY PlacesHoldChannels DEF IInv, TypeOK
<1>2. a \in Nat /\ b \in Nat /\ i \in Nat /\ j \in Nat
  <2>1. Channels \subseteq 0 .. 6
    BY DmaAssumption
  <2>2. IsFiniteSet(0 .. 6)
    <3>1. \A m, n \in Int : IsFiniteSet(m .. n)
      BY FS_Interval
    <3>2. 0 \in Int /\ 6 \in Int
      OBVIOUS
    <3>3. QED
      BY <3>1, <3>2, Zenon
  <2>3. IsFiniteSet(Channels)
    BY <2>1, <2>2, FS_Subset
  <2>4. Cardinality(Channels) \in Nat
    BY <2>3, FS_CardinalityType
  <2>5. i \in Nat /\ j \in Nat
    BY <2>4 DEF Places
  <2>6. \A ch \in Channels : ch \in Nat
    BY <2>1
  <2>7. QED
    BY <1>1, <2>5, <2>6
<1>3. SUFFICES ASSUME ~(j < i) PROVE FALSE
  OBVIOUS
<1>4. i # j
  BY <1>1, <1>2 DEF Outranks
<1>5. Before(control, b, a)
  BY <1>2, <1>3, <1>4 DEF IInv, SortedByPriority, IsSorted
<1>6. QED
  BY <1>1, <1>2, <1>5 DEF Before, Outranks, Enabled

\* Only the channel the loop runs proceeds; one that is put off keeps its transfer.
LEMMA OneChannelProceeds ==
  ASSUME IInv, Process, NEW b \in Channels, Proceeds(b)
  PROVE  \E i \in Visited : control.order[i] = b /\ \A j \in Visited : i <= j
<1>1. config \in [Channels -> Config] /\ global_next = 0 /\ config[b].active
  BY DEF IInv, TypeOK, Config, Proceeds
<1>2. Idles \/ Transfers
  BY <1>1 DEF Process
<1>3. AfterPolls[b].units = config[b].units /\ AfterPolls[b].active
  BY <1>1 DEF AfterPolls, Config
<1>4. CASE Idles
  BY <1>3, <1>4 DEF Idles, Proceeds
<1>5. CASE Transfers
  <2>1. PICK i \in Visited :
          /\ \A j \in Visited : i <= j
          /\ LET ch == control.order[i]
             IN  IF Panics(ch)
                 THEN /\ panicked' = TRUE
                      /\ UNCHANGED <<irq, config, cpu_wait, mdec_out, istat>>
                 ELSE \E v \in Visits(ch) : RunChannel(ch, v)
    BY <1>5 DEF Transfers
  <2> DEFINE ch == control.order[i]
  <2>2. ch \in Channels
    BY PlacesHoldChannels DEF Visited, Scanned, IInv
  <2> HIDE DEF ch
  <2>3. CASE Panics(ch)
    BY <2>1, <2>3, <1>1 DEF Proceeds, ch
  <2>4. CASE ~Panics(ch)
    <3>1. PICK v \in Visits(ch) : RunChannel(ch, v)
      BY <2>1, <2>4 DEF ch
    <3>2. config' = [AfterPolls EXCEPT ![ch] = v.config]
      BY <3>1 DEF RunChannel
    <3>3. b = ch
      BY <3>2, <1>3, AfterPollsTyped DEF Proceeds, IInv
    <3>4. QED
      BY <2>1, <3>3 DEF ch
  <2>5. QED
    BY <2>3, <2>4
<1>6. QED
  BY <1>2, <1>4, <1>5

\* Priority holds for every transfer: nothing that could run and outranks it is passed over.
THEOREM PriorityIsRespected == Spec => HighestPriorityProceeds
<1>1. ASSUME IInv, Process, NEW a \in Channels, NEW b \in Channels, Proceeds(b)
      PROVE  Enabled(b) /\ (Outranks(a, b) /\ Enabled(a) => ~Due(a) \/ Polls(a))
  <2>1. PICK i \in Visited : control.order[i] = b /\ \A j \in Visited : i <= j
    BY <1>1, OneChannelProceeds
  <2>2. i \in Places /\ i \in Scanned /\ i \in Nat
    BY DEF Visited, Scanned, Places
  <2>3. Enabled(b)
    BY <2>1, <2>2 DEF Scanned, Enabled, Places
  <2>4. ASSUME Outranks(a, b), Enabled(a), Due(a), ~Polls(a)
        PROVE  FALSE
    <3>1. PICK j \in Places : control.order[j] = a
      BY <1>1 DEF IInv, TypeOK, Orders
    <3>2. j < i
      BY <1>1, <2>1, <2>2, <2>4, <3>1, LowerRanksComeLater
    <3>3. j \in Scanned
      BY <2>2, <3>1, <3>2 DEF Scanned, Places
    <3>4. j \in Visited
      BY <2>4, <3>1, <3>3 DEF Visited
    <3>5. QED
      BY <2>1, <2>2, <3>2, <3>4 DEF Places
  <2>5. QED
    BY <2>3, <2>4
<1>2. IInv /\ [Next]_vars =>
        [Process => \A a, b \in Channels :
           Proceeds(b) => Enabled(b) /\ (Outranks(a, b) /\ Enabled(a) => ~Due(a) \/ Polls(a))]_vars
  BY <1>1
<1>3. QED
  BY <1>2, Invariance, PTL DEF Spec, HighestPriorityProceeds

\* Every completion reaches software that asked for it.
THEOREM CompletionsAreReported == Spec => CompletionIsReported
<1>1. ASSUME IInv, Process, NEW b \in Channels,
             config[b].active, ~config'[b].active, b \in irq.channels
      PROVE  /\ irq'.pending = irq.pending \union {b}
             /\ irq.enable => istat' \/ IrqPending(irq)
  <2>1. config \in [Channels -> Config] /\ irq \in Irq
    BY <1>1 DEF IInv, TypeOK, Config, Irq
  <2>2. global_next = 0
    BY <1>1 DEF Process
  <2>3. Proceeds(b)
    BY <1>1, <2>2 DEF Proceeds, Process
  <2>4. Idles \/ Transfers
    BY <1>1, <2>2 DEF Process
  <2>5. AfterPolls[b].active
    BY <1>1, <2>1 DEF AfterPolls, Config
  <2>6. ~Idles
    BY <1>1, <2>5 DEF Idles
  <2>7. PICK i \in Visited :
          LET ch == control.order[i]
          IN  IF Panics(ch)
              THEN /\ panicked' = TRUE
                   /\ UNCHANGED <<irq, config, cpu_wait, mdec_out, istat>>
              ELSE \E v \in Visits(ch) : RunChannel(ch, v)
    BY <2>4, <2>6 DEF Transfers
  <2> DEFINE ch == control.order[i]
  <2>8. ~Panics(ch)
    BY <1>1, <2>7
  <2>9. PICK v \in Visits(ch) : RunChannel(ch, v)
    BY <2>7, <2>8
  <2>10. config' = [AfterPolls EXCEPT ![ch] = v.config]
    BY <2>9 DEF RunChannel
  <2>11. b = ch /\ ~v.config.active
    BY <1>1, <2>5, <2>10, AfterPollsTyped DEF IInv
  <2>12. irq' = Flagged(irq, b) /\ Raise(irq')
    BY <2>9, <2>11 DEF RunChannel
  <2>13. irq' = [irq EXCEPT !.pending = @ \union {b}]
    BY <1>1, <2>12 DEF Flagged
  <2>14. irq'.pending = irq.pending \union {b}
    BY <2>1, <2>13 DEF Irq
  <2>15. ASSUME irq.enable PROVE istat' \/ IrqPending(irq)
    <3>1. IrqPending(irq')
      BY <1>1, <2>1, <2>13, <2>15 DEF IrqPending, Irq
    <3>2. QED
      BY <2>12, <3>1 DEF Raise
  <2>16. QED
    BY <2>14, <2>15
<1>2. IInv /\ [Next]_vars =>
        [Process => \A ch \in Channels :
           config[ch].active /\ ~config'[ch].active /\ ch \in irq.channels
           => /\ irq'.pending = irq.pending \union {ch}
              /\ irq.enable => istat' \/ IrqPending(irq)]_vars
  BY <1>1
<1>3. QED
  BY <1>2, Invariance, PTL DEF Spec, CompletionIsReported
=============================================================================
