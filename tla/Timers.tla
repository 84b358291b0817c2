------------------------------- MODULE Timers -------------------------------
(***************************************************************************)
(* The timers of ps1-core (timers.rs): the video clock, which walks over   *)
(* the lines of a frame, and three hardware timers that count CPU cycles,  *)
(* dots or lines, two of them under the control of the blanking periods.   *)
(* Nothing here runs by itself.  Registers, GPU commands and scheduler     *)
(* events call catch_up, which makes up for all the CPU cycles since the   *)
(* last time, and the scheduler is told when VBlank begins and when each   *)
(* timer will raise its interrupt.                                         *)
(*                                                                         *)
(* Abstractions.  Absolute cycle numbers are kept as distances from the    *)
(* current cycle; line lengths, clock rates and divisors are parameters.   *)
(***************************************************************************)
EXTENDS TimerCounter

CONSTANTS
  CpuClock, GpuClock,     \* clock rates; the GPU's depends on the video mode
  CyclesPerLine,          \* GPU cycles of a line in each video mode
  LinesPerFrame,          \* [video mode -> [interlaced -> lines]]
  RetraceCycles,          \* twice the GPU cycles scheduled per line: 6825
  SlowDivider,            \* 8, the divisor of timer 2
  NoEvent,                \* an event is not scheduled
  InitGpu,                \* the horizontal and vertical range and dot divisor at power on
  ModeWrites,             \* the mode writes of the host: [timer, mode, sync, sync_mode, source]
  TargetWrites,           \* the target writes: [timer, value]
  CounterWrites,          \* and the counter writes
  HorizontalRanges, VerticalRanges,
  DisplayModes,           \* what GP1 sets: [divider, interlaced, mode]
  ModeReads,              \* the timers whose mode the host reads
  MaxAdvance,             \* bound: the longest CPU instruction
  MaxBehind               \* bound: the most CPU cycles between two catch-ups

VARIABLES
  tm,           \* Timers, as a record
  behind,       \* CPU cycles since last_update_cycles
  phase,        \* last_update_cycles modulo SlowDivider
  vblank,       \* cycles until the VBlank event, or NoEvent
  irq_event,    \* cycles until the event of each timer, or NoEvent
  vblank_irq,   \* the VBlank bit of I_STAT
  beam,         \* history: the video clock walked one GPU cycle at a time
  cycle,        \* history: the CPU cycles since power on modulo SlowDivider
  one_by_one    \* history: the timers counted one CPU cycle at a time

vars == <<tm, behind, phase, vblank, irq_event, vblank_irq, beam, cycle, one_by_one>>

Timer == 0 .. 2
VideoModes == {"Ntsc", "Pal"}
PauseDuringBlank == 0
ResetAtBlank == 1
PauseOutsideBlank == 2
PauseTillNextBlank == 3

\* Half a line is not empty; software writes what the registers hold.
ClockAssumption ==
  /\ CpuClock \in Nat \ {0} /\ GpuClock \in [VideoModes -> Nat \ {0}] /\ SlowDivider \in Nat \ {0}
  /\ CyclesPerLine \in [VideoModes -> Nat \ {0, 1}]
  /\ LinesPerFrame \in [VideoModes -> [BOOLEAN -> Nat \ {0}]]
  /\ InitGpu \in [x1: Nat, x2: Nat, y1: Nat, y2: Nat, divider: Nat \ {0}]
  /\ HorizontalRanges \subseteq [x1: Nat, x2: Nat] /\ VerticalRanges \subseteq [y1: Nat, y2: Nat]
  /\ DisplayModes \subseteq [divider: Nat \ {0}, interlaced: BOOLEAN, mode: VideoModes]
  /\ ModeReads \subseteq Timer
  /\ ModeWrites \subseteq
       [timer: Timer, mode: ModeValues, sync: BOOLEAN, sync_mode: 0 .. 3, source: BOOLEAN]
  /\ TargetWrites \subseteq [timer: Timer, value: Counts]
  /\ CounterWrites \subseteq [timer: Timer, value: Counts]
  /\ MaxAdvance \in Nat /\ MaxBehind \in Nat /\ NoEvent \notin Nat

\* The GPU's clock is faster than the CPU's and an instruction shorter than half a line;
\* NTSC frames have an odd number of lines, and no frame has more when it is interlaced.
FrameAssumption ==
  /\ MaxAdvance # 0
  /\ \A m \in VideoModes :
       /\ CpuClock <= GpuClock[m]
       /\ (MaxAdvance * GpuClock[m]) + CpuClock <= CpuClock * (CyclesPerLine[m] \div 2)
       /\ LinesPerFrame[m][TRUE] <= LinesPerFrame[m][FALSE]
  /\ \A interlaced \in BOOLEAN : LinesPerFrame["Ntsc"][interlaced] % 2 = 1

\* No two vertical ranges with the same Y2 of which only one is valid: the source looks at Y2
\* alone to see whether VBlank must be scheduled again.
RangesKeepValidity ==
  \A y, z \in VerticalRanges \union {InitGpu} : y.y2 = z.y2 => (y.y1 < y.y2 <=> z.y1 < z.y2)
-----------------------------------------------------------------------------
\* GpuTimer::cycles_in_line: the last line of an interlaced frame is half a line, and odd
\* NTSC lines are a cycle longer.
LastLine(g) == LinesPerFrame[g.mode][g.interlaced] - 1
CyclesInLine(g) ==
  (IF g.interlaced /\ g.line = LastLine(g) THEN CyclesPerLine[g.mode] \div 2
   ELSE CyclesPerLine[g.mode])
  + (IF g.mode = "Ntsc" THEN g.line % 2 ELSE 0)

\* increment_line, always at the start of a line
NextLine(g) ==
  LET wraps == g.line >= LastLine(g)
  IN [g EXCEPT !.line_cycle = 0, !.line = IF wraps THEN 0 ELSE @ + 1,
               !.odd_frame = IF wraps THEN ~@ ELSE @]

RangeValid(g) == g.y1 < g.y2
InVBlank(g) == ~(g.y1 <= g.line /\ g.line < g.y2)
AtVBlankStart(g) == RangeValid(g) /\ g.line = g.y2 /\ g.line_cycle = 0

\* The conversion of CPU to GPU cycles, whose remainder is kept for the next time.
GpuElapsed(g, cycles) == (g.product + cycles * GpuClock[g.mode]) \div CpuClock
ChargedWithoutRemainder(g, cycles) == [g EXCEPT !.product = 0]
Charged(g, cycles) == [g EXCEPT !.product = (@ + cycles * GpuClock[g.mode]) % CpuClock]

\* Dots between two positions of one line.
Dots(g, to) == to \div g.divider - g.line_cycle \div g.divider

\* is_timer_paused
PausedOutside(in_blank, sync, sync_mode) ==
  sync /\ IF in_blank THEN sync_mode = PauseOutsideBlank
          ELSE sync_mode \in {PauseDuringBlank, PauseTillNextBlank}

Paused(in_blank, sync, sync_mode) ==
  sync /\ IF in_blank THEN sync_mode \in {PauseDuringBlank, PauseTillNextBlank}
          ELSE sync_mode = PauseOutsideBlank

\* A walk over gpu_elapsed cycles: where it is, what is left of it, and what timers 0 and 1
\* will be clocked by.
Walk(t, cycles) ==
  [tm |-> [t EXCEPT !.gpu = Charged(@, cycles)], left |-> GpuElapsed(t.gpu, cycles),
   dots |-> 0, retraces |-> 0, gpu0 |-> 0, gpu1 |-> 0]

\* Repeats a step that consumes at least one GPU cycle until none is left.
RunWalk(Step(_), walk) ==
  LET after[k \in 0 .. walk.left] ==
        IF k = 0 THEN walk
        ELSE LET w == after[k - 1] IN IF w.left = 0 THEN w ELSE Step(w)
  IN after[walk.left]

\* catch_up_gpu_no_sync: to the end of the line, or as far as the cycles go.
WalkLine(w) ==
  LET g    == w.tm.gpu
      n    == Min({CyclesInLine(g) - g.line_cycle, w.left})
      to   == g.line_cycle + n
      ends == to = CyclesInLine(g)
  IN [w EXCEPT !.left = @ - n,
               !.dots = @ + Dots(g, to),
               !.retraces = IF ends THEN @ + 1 ELSE @,
               !.tm.gpu = IF ends THEN NextLine(g) ELSE [g EXCEPT !.line_cycle = to]]

ClockUnsynced(w, cycles) ==
  [w.tm EXCEPT !.timers[0] = Clock(@, IF w.tm.source[0] THEN w.dots ELSE cycles),
               !.timers[1] = Clock(@, IF w.tm.source[1] THEN w.retraces ELSE cycles)]
CatchUpNoSync(t, cycles) == ClockUnsynced(RunWalk(WalkLine, Walk(t, cycles)), cycles)

\* Timer0ClockSource::clocks and Timer1ClockSource::clocks: GPU cycles are converted back
\* to CPU cycles, without a remainder kept.
Clocks0(w) ==
  IF w.tm.source[0] THEN w.dots ELSE (w.gpu0 * CpuClock) \div GpuClock[w.tm.gpu.mode]
Clocks1(w) ==
  IF w.tm.source[1] THEN w.retraces ELSE (w.gpu1 * CpuClock) \div GpuClock[w.tm.gpu.mode]

\* Start-of-HBlank and start-of-VBlank sync events.
Restart(t) == WriteCounter(t, 0)
HBlankSync(w) ==
  CASE w.tm.sync_mode[0] \in {ResetAtBlank, PauseOutsideBlank} ->
         [w EXCEPT !.tm.timers[0] = Restart(Clock(@, Clocks0(w))), !.dots = 0, !.gpu0 = 0]
    [] w.tm.sync_mode[0] = PauseTillNextBlank -> [w EXCEPT !.tm.sync[0] = FALSE]
    [] w.tm.sync_mode[0] = PauseDuringBlank -> w

VBlankSync(w) ==
  CASE w.tm.sync_mode[1] \in {ResetAtBlank, PauseOutsideBlank} ->
         [w EXCEPT !.tm.timers[1] = Restart(Clock(@, Clocks1(w))), !.retraces = 0, !.gpu1 = 0]
    [] w.tm.sync_mode[1] = PauseTillNextBlank -> [w EXCEPT !.tm.sync[1] = FALSE]
    [] w.tm.sync_mode[1] = PauseDuringBlank -> w

\* The part of the line the beam is in: the left border until x1, the active display
\* until x2, the right border until the end of the line.
PartOfLine(g) ==
  LET inside(x) == g.x1 < g.x2 /\ g.line_cycle < x /\ x < CyclesInLine(g)
  IN CASE inside(g.x1) -> [display |-> FALSE, until |-> g.x1]
       [] ~inside(g.x1) /\ inside(g.x2) -> [display |-> TRUE, until |-> g.x2]
       [] OTHER -> [display |-> FALSE, until |-> CyclesInLine(g)]

\* One iteration of catch_up_gpu_with_sync: n cycles in one part of the line, which run the
\* timers that are not paused there, then the sync event at the border, if any.
WalkBy(w, n, display) ==
  LET g    == w.tm.gpu
      to   == g.line_cycle + n
      ends == to = CyclesInLine(g)
      run0 == ~Paused(~display, w.tm.sync[0], w.tm.sync_mode[0])
      run1 == ~Paused(InVBlank(g), w.tm.sync[1], w.tm.sync_mode[1])
  IN [w EXCEPT !.left = @ - n,
               !.dots = IF run0 THEN @ + Dots(g, to) ELSE @,
               !.gpu0 = IF run0 THEN @ + n ELSE @,
               !.gpu1 = IF run1 THEN @ + n ELSE @,
               !.retraces = IF run1 /\ ends THEN @ + 1 ELSE @,
               !.tm.gpu = IF ends THEN NextLine(g) ELSE [g EXCEPT !.line_cycle = to]]

AtBorder(w, hblank) ==
  IF hblank /\ w.tm.sync[0] THEN HBlankSync(w)
  ELSE IF AtVBlankStart(w.tm.gpu) /\ w.tm.sync[1] THEN VBlankSync(w)
  ELSE w

WalkInPart(w, part) ==
  LET n == Min({part.until - w.tm.gpu.line_cycle, w.left})
  IN AtBorder(WalkBy(w, n, part.display),
              part.display /\ w.tm.gpu.line_cycle + n = w.tm.gpu.x2)
WalkPart(w) == WalkInPart(w, PartOfLine(w.tm.gpu))

ClockSynced(w) ==
  [w.tm EXCEPT !.timers[0] = Clock(@, Clocks0(w)), !.timers[1] = Clock(@, Clocks1(w))]
CatchUpWithSync(t, cycles) == ClockSynced(RunWalk(WalkPart, Walk(t, cycles)))

\* catch_up
Stopped2(t) == t.sync[2] /\ t.sync_mode[2] \in {0, 3}

SlowWithoutRemainder(cycles) == cycles \div SlowDivider
Slow(cycles) == (phase + cycles) \div SlowDivider
Clocks2(t, cycles) ==
  IF Stopped2(t) THEN 0 ELSE IF t.source[2] THEN Slow(cycles) ELSE cycles

CatchUp(t, cycles) ==
  LET video == IF t.sync[0] \/ t.sync[1] THEN CatchUpWithSync(t, cycles)
               ELSE CatchUpNoSync(t, cycles)
  IN [video EXCEPT !.timers[2] = Clock(@, Clocks2(t, cycles))]

\* The timers as every register access and event sees them.
Now == CatchUp(tm, behind)
-----------------------------------------------------------------------------
\* schedule_timer_events, for timers that have caught up at the current cycle.
GpuToCpu(g, cycles) == (cycles * CpuClock) \div GpuClock[g.mode] + 1

CyclesUntilIrqFromNow(t, i, clocks) ==
  CASE i = 0 /\ t.source[0] -> GpuToCpu(t.gpu, clocks * t.gpu.divider)
    [] i = 1 /\ t.source[1] -> GpuToCpu(t.gpu, (clocks * RetraceCycles) \div 2)
    [] i = 2 /\ t.source[2] -> clocks * SlowDivider
    [] OTHER -> clocks

CyclesUntilIrq(t, i, clocks) ==
  CASE i = 0 /\ t.source[0] -> GpuToCpu(t.gpu, clocks * t.gpu.divider)
    [] i = 1 /\ t.source[1] -> GpuToCpu(t.gpu, (clocks * RetraceCycles) \div 2)
    [] i = 2 /\ t.source[2] -> (clocks * SlowDivider) - ((phase + behind) % SlowDivider)
    [] OTHER -> clocks

TimerEvents(t) ==
  [i \in Timer |-> LET clocks == ClocksUntilIrq(t.timers[i])
                   IN IF clocks = NoIrq THEN NoEvent ELSE CyclesUntilIrq(t, i, clocks)]

\* schedule_next_vblank: the rest of this line and the lines up to Y2, which may be in the
\* next frame.
LinesAt(g, lines) ==
  LET odd(S) == Cardinality({y \in S : g.mode = "Ntsc" /\ y % 2 = 1})
  IN Cardinality(lines) * CyclesPerLine[g.mode] + odd(lines)

LinesToVBlankFromLast(g) ==
  IF g.line < g.y2 THEN LinesAt(g, g.line + 1 .. g.y2 - 1)
  ELSE LinesAt(g, 0 .. g.y2 - 1) + LinesAt(g, g.line + 1 .. LastLine(g))

LinesToVBlank(g) ==
  IF g.line < g.y2 THEN LinesAt(g, g.line + 1 .. g.y2 - 1)
  ELSE LinesAt(g, 0 .. g.y2 - 1)
       + IF g.line = LastLine(g) THEN 0
         ELSE (IF g.interlaced THEN CyclesPerLine[g.mode] \div 2 ELSE CyclesPerLine[g.mode])
              + LinesAt(g, g.line + 1 .. LastLine(g) - 1)

NextVBlank(g) ==
  IF RangeValid(g) THEN GpuToCpu(g, CyclesInLine(g) - g.line_cycle + LinesToVBlank(g))
  ELSE NoEvent
-----------------------------------------------------------------------------
NewGpu ==
  [product |-> 0, line |-> 0, line_cycle |-> 0, odd_frame |-> FALSE,
   x1 |-> InitGpu.x1, x2 |-> InitGpu.x2, y1 |-> InitGpu.y1, y2 |-> InitGpu.y2,
   divider |-> InitGpu.divider, mode |-> "Ntsc", interlaced |-> FALSE]

\* Timers::new, and schedule_initial_events of the main loop.
Init ==
  /\ tm = [gpu |-> NewGpu, timers |-> [i \in Timer |-> NewTimer],
           source |-> [i \in Timer |-> FALSE], sync |-> [i \in Timer |-> FALSE],
           sync_mode |-> [i \in Timer |-> 0]]
  /\ behind = 0
  /\ phase = 0
  /\ vblank = NextVBlank(NewGpu)
  /\ irq_event = [i \in Timer |-> NoEvent]
  /\ vblank_irq = FALSE
  /\ beam = NewGpu /\ cycle = 0
  /\ one_by_one = [i \in Timer |-> NewTimer]

\* last_update_cycles = cpu_cycle_counter
CaughtUp(t) ==
  /\ tm' = t
  /\ behind' = 0
  /\ phase' = (phase + behind) % SlowDivider

\* The one-by-one histories follow a register access.
Followed == beam' = tm'.gpu /\ one_by_one' = tm'.timers /\ cycle' = cycle
Watched == UNCHANGED <<beam, one_by_one, cycle>>

\* The CPU executes instructions, and accesses registers, while no event is ready.
Sooner(event, n) == IF event = NoEvent THEN NoEvent ELSE IF event < n THEN 0 ELSE event - n
CpuRuns == vblank # 0 /\ \A i \in Timer : irq_event[i] # 0

\* History: the beam taken from one GPU cycle to the next.
BeamOne(g) ==
  IF g.line_cycle + 1 = CyclesInLine(g) THEN NextLine(g) ELSE [g EXCEPT !.line_cycle = @ + 1]
BeamSteps(g, n) ==
  LET after[k \in 0 .. n] == IF k = 0 THEN g ELSE BeamOne(after[k - 1]) IN after[n]
BeamAfter(g, cycles) == BeamSteps(Charged(g, cycles), GpuElapsed(g, cycles))

\* History: a timer taken from one CPU cycle to the next, and timer 2 with the divided clock,
\* which ticks at every SlowDivider-th cycle since power on.
CountsCpuCycles(t, i) == i = 2 \/ (~t.source[i] /\ ~t.sync[i])

SlowOne(s) ==
  IF s.cycle + 1 = SlowDivider THEN [timer |-> CountOne(s.timer), cycle |-> 0]
  ELSE [s EXCEPT !.cycle = @ + 1]
SlowCount(timer, at, n) ==
  LET after[k \in 0 .. n] ==
        IF k = 0 THEN [timer |-> timer, cycle |-> at] ELSE SlowOne(after[k - 1])
  IN after[n].timer

OneByOne(t, i, timer, at, n) ==
  IF i = 2 /\ Stopped2(t) THEN timer
  ELSE IF i = 2 /\ t.source[2] THEN SlowCount(timer, at, n)
  ELSE Count(timer, n)

ExecuteInstruction(n) ==
  /\ CpuRuns
  /\ behind + n <= MaxBehind
  /\ behind' = behind + n
  /\ vblank' = Sooner(vblank, n)
  /\ irq_event' = [i \in Timer |-> Sooner(irq_event[i], n)]
  /\ beam' = BeamAfter(beam, n)
  /\ cycle' = (cycle + n) % SlowDivider
  /\ one_by_one' = [i \in Timer |->
       IF CountsCpuCycles(tm, i) THEN OneByOne(tm, i, one_by_one[i], cycle, n) ELSE one_by_one[i]]
  /\ UNCHANGED <<tm, phase, vblank_irq>>

\* The VBlank event: the interrupt, and the next frame's event.
VBlankEvent ==
  /\ vblank = 0
  /\ vblank_irq' = TRUE
  /\ IF RangeValid(tm.gpu) THEN CaughtUp(Now) ELSE UNCHANGED <<tm, behind, phase>>
  /\ vblank' = IF RangeValid(tm.gpu) THEN NextVBlank(tm'.gpu) ELSE NoEvent
  /\ Watched
  /\ UNCHANGED irq_event

\* The event of a timer
TimerEvent(i) ==
  /\ irq_event[i] = 0
  /\ CaughtUp(Now)
  /\ irq_event' = TimerEvents(tm')
  /\ Watched
  /\ UNCHANGED <<vblank, vblank_irq>>

\* get_gpu_status, and read_register of a counter or target
ReadStatus ==
  /\ CpuRuns
  /\ behind # 0
  /\ CaughtUp(Now)
  /\ Watched
  /\ UNCHANGED <<vblank, irq_event, vblank_irq>>

ReadTimerMode(i) ==
  /\ CpuRuns
  /\ CaughtUp([Now EXCEPT !.timers[i] = ReadMode(@)])
  /\ Followed
  /\ UNCHANGED <<vblank, irq_event, vblank_irq>>

\* write_register
WriteRegister(t) ==
  /\ CpuRuns
  /\ CaughtUp(t)
  /\ irq_event' = TimerEvents(t)
  /\ Followed
  /\ UNCHANGED <<vblank, vblank_irq>>

WriteTimerMode(w) ==
  WriteRegister([Now EXCEPT !.timers[w.timer] = WriteMode(@, w.mode),
                            !.sync[w.timer] = w.sync,
                            !.sync_mode[w.timer] = w.sync_mode,
                            !.source[w.timer] = w.source])
WriteTimerTarget(w) ==
  WriteRegister([Now EXCEPT !.timers[w.timer] = WriteTarget(@, w.value)])
WriteTimerCounter(w) ==
  WriteRegister([Now EXCEPT !.timers[w.timer] = WriteCounter(@, w.value)])

\* update_horizontal_display_range
WriteHorizontalRange(x) ==
  /\ CpuRuns
  /\ CaughtUp([Now EXCEPT !.gpu.x1 = x.x1, !.gpu.x2 = x.x2])
  /\ Followed
  /\ UNCHANGED <<vblank, irq_event, vblank_irq>>

\* update_vertical_display_range: only a new Y2 moves the VBlank event.
WriteVerticalRange(y) ==
  LET t == [Now EXCEPT !.gpu.y1 = y.y1, !.gpu.y2 = y.y2]
  IN /\ CpuRuns
     /\ CaughtUp(t)
     /\ vblank' = IF y.y2 # tm.gpu.y2 THEN NextVBlank(tm'.gpu) ELSE vblank
     /\ Followed
     /\ UNCHANGED <<irq_event, vblank_irq>>

\* update_display_mode: a position that the new mode does not have moves to the next line.
InMode(g, d) ==
  LET new == [g EXCEPT !.divider = d.divider, !.interlaced = d.interlaced, !.mode = d.mode]
  IN IF new.line > LastLine(new) \/ new.line_cycle >= CyclesInLine(new) THEN NextLine(new)
     ELSE new

WriteDisplayMode(d) ==
  LET same == d.interlaced = tm.gpu.interlaced /\ d.mode = tm.gpu.mode
      t == [Now EXCEPT !.gpu = IF same THEN [@ EXCEPT !.divider = d.divider]
                               ELSE InMode(@, d)]
  IN /\ CpuRuns
     /\ CaughtUp(t)
     /\ vblank' = IF same THEN vblank ELSE NextVBlank(tm'.gpu)
     /\ Followed
     /\ UNCHANGED <<irq_event, vblank_irq>>

\* write_interrupt_status
AcknowledgeTimer(i) ==
  /\ CpuRuns
  /\ tm.timers[i].istat
  /\ tm' = [tm EXCEPT !.timers[i].istat = FALSE]
  /\ one_by_one' = [one_by_one EXCEPT ![i].istat = FALSE]
  /\ UNCHANGED <<behind, phase, vblank, irq_event, vblank_irq, beam, cycle>>

AcknowledgeVBlank ==
  /\ CpuRuns
  /\ vblank_irq
  /\ vblank_irq' = FALSE
  /\ Watched
  /\ UNCHANGED <<tm, behind, phase, vblank, irq_event>>

Next ==
  \/ \E n \in 1 .. MaxAdvance : ExecuteInstruction(n)
  \/ VBlankEvent
  \/ \E i \in Timer : TimerEvent(i)
  \/ ReadStatus
  \/ \E i \in ModeReads : ReadTimerMode(i)
  \/ \E w \in ModeWrites : WriteTimerMode(w)
  \/ \E w \in TargetWrites : WriteTimerTarget(w)
  \/ \E w \in CounterWrites : WriteTimerCounter(w)
  \/ \E x \in HorizontalRanges : WriteHorizontalRange(x)
  \/ \E y \in VerticalRanges : WriteVerticalRange(y)
  \/ \E d \in DisplayModes : WriteDisplayMode(d)
  \/ \E i \in Timer : AcknowledgeTimer(i)
  \/ AcknowledgeVBlank

Spec == Init /\ [][Next]_vars
-----------------------------------------------------------------------------
TypeOK ==
  /\ tm.timers \in [Timer -> SystemTimers]
  /\ tm.source \in [Timer -> BOOLEAN] /\ tm.sync \in [Timer -> BOOLEAN]
  /\ tm.sync_mode \in [Timer -> 0 .. 3]
  /\ tm.gpu.product \in 0 .. CpuClock - 1
  /\ tm.gpu.line \in 0 .. LastLine(tm.gpu)
  /\ tm.gpu.line_cycle \in 0 .. CyclesInLine(tm.gpu) - 1
  /\ behind \in Nat /\ {phase, cycle} \subseteq 0 .. SlowDivider - 1
  /\ vblank \in Nat \union {NoEvent} /\ irq_event \in [Timer -> Nat \union {NoEvent}]
  /\ vblank_irq \in BOOLEAN

\* However the CPU cycles were cut into catch-ups, and with or without synchronization, the
\* video clock is where one GPU cycle after another would have taken it, with the same
\* remainder of a cycle left over.
LazyBeamIsExact == Now.gpu = beam

\* A timer that counts the system clock and is not synchronized counts every CPU cycle
\* once, whatever the other timers are set to ("Timer 1: Can track the CPU clock or GPU
\* horizontal retraces", timers.rs:5).  Timer 2 does so in each of its modes: with the divided
\* clock it counts one for every SlowDivider cycles of the machine, however these were cut
\* into catch-ups and however often the clock was chosen anew.
UnsyncedTimersCountCpuCycles ==
  \A i \in Timer : CountsCpuCycles(tm, i) => Now.timers[i] = one_by_one[i]

\* The event of a timer never comes after its interrupt is due: of the cycles ahead, none
\* raises the interrupt before the event when the timer counts them one by one.
IrqsAfter(n) ==
  {i \in Timer :
     /\ CountsCpuCycles(tm, i)
     /\ OneByOne(tm, i, [tm.timers[i] EXCEPT !.istat = FALSE], phase, behind + n).istat}
TimerIrqsAreOnTime ==
  \A n \in 0 .. SlowDivider * Span : \A i \in IrqsAfter(n) :
    irq_event[i] # NoEvent /\ irq_event[i] <= n

\* While the vertical display range is valid, VBlank is scheduled for the moment the beam
\* next enters line Y2 (at most one CPU cycle late), through the end of the frame, changes
\* of the display mode and of the range: "Triggers once per frame (when scanline == Y2)
\* unless the GPU's vertical display range is invalid", api.rs:455.
EntersY2(n) == BeamAfter(beam, n).line = beam.y2 /\ BeamAfter(beam, n - 1).line # beam.y2
FrameCycles == (LinesPerFrame[beam.mode][FALSE] + 1) * (CyclesPerLine[beam.mode] + 1)

VBlankOnTime ==
  RangeValid(beam) /\ beam.y2 <= LastLine(beam) =>
    \/ vblank # NoEvent /\ vblank <= 1 /\ beam.line = beam.y2
    \/ \E n \in 1 .. FrameCycles :
         /\ EntersY2(n)
         /\ \A k \in 1 .. n - 1 : ~EntersY2(k)
         /\ vblank \in {n, n + 1}

\* VBlank is scheduled whenever the range is valid (the same comment).
VBlankWhileRangeValid == RangeValid(tm.gpu) => vblank # NoEvent

\* A timer that pauses during its blanking period does not move while the beam is in
\* it: timer 0 in the borders of a line, timer 1 in the lines of VBlank.
Stands(i, g) ==
  /\ tm.sync[i] /\ tm.sync_mode[i] = PauseDuringBlank
  /\ IF i = 0 THEN ~PartOfLine(g).display ELSE InVBlank(g)

SyncedTimersStandStill ==
  \A i \in 0 .. 1, n \in 1 .. MaxAdvance :
    (\A k \in 0 .. GpuElapsed(beam, n) : Stands(i, BeamSteps(beam, k)))
      => CatchUp(tm, behind + n).timers[i] = Now.timers[i]
=============================================================================
