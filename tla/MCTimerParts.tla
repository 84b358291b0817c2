---------------------------- MODULE MCTimerParts ----------------------------
(* The timers in four parts, each explored by itself: a counter beside one that    *)
(* counts one by one ("counter"); the video clock ("video"), with every change of  *)
(* display ranges and modes; timer 2, which counts CPU cycles, and its interrupts  *)
(* ("cpu"), in a PAL mode without a valid range, so that no VBlank comes between;  *)
(* timers 0 and 1 synchronized to the blanking periods ("sync"), in the NTSC mode  *)
(* of power on with timer 2 stopped.                                               *)
EXTENDS Timers

CONSTANT TimerClocks    \* bound: the most clocks between two catch-ups of the counter

VARIABLES part, timer, counted

counter_vars == <<timer, counted>>
mc_vars == <<part, counter_vars, vars>>

\* Every mode and target but a repeating toggle interrupt at the target of a counter that
\* resets at its maximum: clock_reset_at_max_toggle_irq raises that one at every catch-up,
\* whether or not the target was reached.
Exact(m, target) ==
  m.repeat /\ m.toggle /\ m.irq_at_target => m.reset_at_target /\ target # MaxCount

Counter == INSTANCE SystemTimer WITH
  one_by_one <- counted, Allowed <- Exact, MaxClocks <- TimerClocks

\* The host of "cpu" writes timer 2, whose interrupt does not toggle (of toggling ones,
\* "counter" has all), that of "sync" timers 0 and 1.
CpuModes == {w \in ModeWrites : w.timer = 2 /\ ~(w.mode.repeat /\ w.mode.toggle)}
SyncedModes == {w \in ModeWrites : w.timer # 2}

ASSUME TimersAreValid == MaxCountAssumption /\ ClockAssumption /\ TimerClocks \in Nat
ASSUME FramesAreValid == FrameAssumption
-----------------------------------------------------------------------------
(* Values for the constants.                                                  *)

\* Three GPU cycles to two CPU cycles.
MCGpuClock == [mode \in VideoModes |-> 3]

\* Frames of a few short lines: odd numbers of NTSC lines, as in the source; PAL has a line
\* more when it is not interlaced.
MCCyclesPerLine == [mode \in VideoModes |-> IF mode = "Ntsc" THEN 8 ELSE 9]
MCLinesPerFrame ==
  [mode \in VideoModes |-> [interlaced \in BOOLEAN |-> IF mode = "Pal" /\ ~interlaced THEN 4 ELSE 3]]
MCInitGpu == [x1 |-> 1, x2 |-> 4, y1 |-> 0, y2 |-> 2, divider |-> 2]

\* Y2 differs between the valid and the invalid ranges; Y1 alone changes between two.
MCHorizontalRanges == {[x1 |-> 1, x2 |-> 4], [x1 |-> 2, x2 |-> 1]}
MCVerticalRanges ==
  {[y1 |-> 0, y2 |-> 2], [y1 |-> 1, y2 |-> 2], [y1 |-> 0, y2 |-> 1], [y1 |-> 1, y2 |-> 0]}
MCDisplayModes == [divider: {2}, interlaced: BOOLEAN, mode: VideoModes]

IrqMode(reset, target, max, repeat, toggle) ==
  [reset_at_target |-> reset, irq_at_target |-> target, irq_at_max |-> max,
   repeat |-> repeat, toggle |-> toggle, set_irq |-> TRUE]
Irqs == {IrqMode(TRUE, TRUE, FALSE, TRUE, FALSE), IrqMode(FALSE, FALSE, TRUE, FALSE, FALSE)}
Quiet == IrqMode(FALSE, FALSE, FALSE, FALSE, FALSE)

MCModeWrites ==
  [timer: {2}, mode: Irqs, sync: {FALSE}, sync_mode: {0}, source: BOOLEAN]
    \union [timer: {0}, mode: {Quiet}, sync: {TRUE}, sync_mode: {0, 1, 3}, source: {TRUE}]
    \union [timer: {1}, mode: {Quiet}, sync: {TRUE}, sync_mode: {0, 2}, source: {FALSE}]
MCTargetWrites == {[timer |-> 2, value |-> 1]}
MCCounterWrites == [timer: {2}, value: {2, 3}]

\* Bounds of each part.
Bounds == [counter |-> 0, video |-> 20, cpu |-> 3, sync |-> 2]
ShorterBounds == behind' <= Bounds[part] /\ (part # "cpu" => behind' <= behind + 1)

\* Without sources and interrupts the timers do not touch the video clock, nor it them
\* without a valid range; no timer looks at which of two interlaced frames is drawn, and the
\* borders of a line are for the synchronized ones.
Seen(g) == IF part = "sync" THEN [g EXCEPT !.odd_frame = FALSE] ELSE [g EXCEPT !.x1 = 0, !.x2 = 0]
SameBorders == tm.gpu.x1 = beam.x1 /\ tm.gpu.x2 = beam.x2
MCView ==
  <<part, counter_vars, behind, vblank, vblank_irq, SameBorders,
    IF part = "cpu" THEN <<>> ELSE <<Seen(tm.gpu), Seen(beam)>>,
    IF part = "video" THEN <<>> ELSE <<[tm EXCEPT !.gpu = 0], phase, irq_event>>,
    IF part = "cpu" THEN <<one_by_one, cycle>> ELSE <<>>>>
-----------------------------------------------------------------------------
InitCpu ==
  LET gpu == [NewGpu EXCEPT !.mode = "Pal", !.x1 = 0, !.x2 = 0, !.y1 = 0, !.y2 = 0]
  IN /\ tm = [gpu |-> gpu, timers |-> [i \in Timer |-> NewTimer],
              source |-> [i \in Timer |-> FALSE], sync |-> [i \in Timer |-> FALSE],
              sync_mode |-> [i \in Timer |-> 0]]
     /\ behind = 0 /\ phase = 0 /\ vblank_irq = FALSE
     /\ vblank = NextVBlank(gpu)
     /\ irq_event = [i \in Timer |-> NoEvent]
     /\ beam = gpu /\ cycle = 0
     /\ one_by_one = tm.timers

InitSynced ==
  /\ tm = [gpu |-> NewGpu, timers |-> [i \in Timer |-> NewTimer],
           source |-> [i \in Timer |-> FALSE], sync |-> [i \in Timer |-> i = 2],
           sync_mode |-> [i \in Timer |-> 0]]
  /\ behind = 0 /\ phase = 0 /\ vblank_irq = FALSE
  /\ vblank = NextVBlank(NewGpu)
  /\ irq_event = [i \in Timer |-> NoEvent]
  /\ beam = NewGpu /\ cycle = 0
  /\ one_by_one = tm.timers

MCInit ==
  /\ Counter!Init
  /\ \/ part \in {"counter", "video"} /\ Init
     \/ part = "cpu" /\ InitCpu
     \/ part = "sync" /\ InitSynced

\* What every host does, and what happens by itself.
Runs ==
  \/ \E n \in 1 .. MaxAdvance : ExecuteInstruction(n)
  \/ VBlankEvent
  \/ \E i \in Timer : TimerEvent(i)
  \/ ReadStatus
  \/ AcknowledgeVBlank

VideoNext ==
  \/ \E x \in HorizontalRanges : WriteHorizontalRange(x)
  \/ \E y \in VerticalRanges : WriteVerticalRange(y)
  \/ \E d \in DisplayModes : WriteDisplayMode(d)

CpuNext ==
  \/ \E i \in ModeReads : ReadTimerMode(i)
  \/ \E w \in CpuModes : WriteTimerMode(w)
  \/ \E w \in TargetWrites : WriteTimerTarget(w)
  \/ \E w \in CounterWrites : WriteTimerCounter(w)
  \/ \E i \in Timer : AcknowledgeTimer(i)

SyncedNext == \E w \in SyncedModes : WriteTimerMode(w)

In(p) == part = p /\ UNCHANGED part

MCNext ==
  \/ In("counter") /\ Counter!Next /\ UNCHANGED vars
  \/ In("video") /\ (Runs \/ VideoNext) /\ UNCHANGED counter_vars
  \/ In("cpu") /\ (Runs \/ CpuNext) /\ UNCHANGED counter_vars
  \/ In("sync") /\ (Runs \/ SyncedNext) /\ UNCHANGED counter_vars

MCSpec == MCInit /\ [][MCNext]_mc_vars
-----------------------------------------------------------------------------
\* A timer's counter that counts many clocks at once counts what one that counts them one
\* by one does, and says when its interrupt comes.
CountsAndPredicts == part = "counter" => Counter!LazyCountIsExact /\ Counter!IrqIsPredicted

\* The beam is where one GPU cycle after another takes it, and VBlank is scheduled for the
\* moment it next enters line Y2.
VideoClockIsExact == part = "video" => LazyBeamIsExact /\ VBlankOnTime

\* A timer that counts CPU cycles counts each of them once, and with the divided clock each
\* SlowDivider-th of them, and its interrupt event never comes after the interrupt is due.
\* (Timers 0 and 1 count GPU cycles converted back when one is synchronized, and have nothing
\* to schedule.)
CpuTimerIsExact == part = "cpu" => UnsyncedTimersCountCpuCycles /\ TimerIrqsAreOnTime

\* A timer that pauses during its blanking period does not move while the beam is in it.
SyncedStandStill == part = "sync" => SyncedTimersStandStill
=============================================================================
