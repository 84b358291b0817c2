------------------------------ MODULE MainLoop ------------------------------
(* Ps1Emulator::tick and the dispatch of scheduler events (api.rs), as far as  *)
(* they decide when audio is generated and when a frame is rendered.  Time is  *)
(* the scheduler's CPU cycle counter.  The CPU may move the VBlank event or    *)
(* remove it (GP1 writes, Timers), and it schedules events of other devices.   *)
(* The two steps that can fail are the clocking of the CD-ROM controller and   *)
(* the saving of the memory card, the last part of a render.                   *)
EXTENDS Integers

CONSTANTS ClockDivider,     \* SPU_CLOCK_DIVIDER
          RenderTimeout,    \* cycles without a render before one is forced
          FramePeriod,      \* the farthest a VBlank or a device event is scheduled
          MaxInstruction,   \* cycles of the longest instruction
          MaxWait,          \* the longest time the CPU waits for a DMA
          Never             \* the time of an event that is not scheduled

LoopAssumption ==
  /\ {ClockDivider, RenderTimeout} \subseteq Nat \ {0}
  /\ {MaxInstruction, MaxWait} \subseteq Nat
  /\ Never \notin Nat

VARIABLES now,          \* scheduler.cpu_cycle_counter
          due,          \* scheduler.heap: the time of each event
          pc,           \* where in tick the emulator is
          last_render_cycles,
          generated,    \* history: samples generated so far
          cd_failed     \* history: the CD-ROM controller returned an error

vars == <<now, due, pc, last_render_cycles, generated, cd_failed>>

Events == {"VBlank", "SpuAndCdClock", "Other"}

Init ==
  /\ now = 0 /\ pc = "wait" /\ last_render_cycles = 0 /\ generated = 0
  /\ cd_failed = FALSE
  /\ \E v \in 1..FramePeriod :
       due = [e \in Events |-> CASE e = "VBlank" -> v
                                 [] e = "SpuAndCdClock" -> ClockDivider
                                 [] OTHER -> Never]

IsReady(e) == due[e] # Never /\ now >= due[e]
IsEventReady == \E e \in Events : IsReady(e)
IsFirst(e) == IsReady(e) /\ \A f \in Events : IsReady(f) => due[e] <= due[f]
Later(time) == {Never} \cup (time + 1)..(time + FramePeriod)

\* The cycles the DMA controller took from the CPU, at the start of a tick.
WaitForDma ==
  /\ pc = "wait" /\ pc' = "run"
  /\ \E cycles \in 0..MaxWait : now' = now + cycles
  /\ UNCHANGED <<due, last_render_cycles, generated, cd_failed>>

\* An instruction: it may reschedule any event but the SPU and CD-ROM clock.
Execute ==
  /\ pc = "run" /\ ~IsEventReady
  /\ \E cycles \in 1..MaxInstruction : now' = now + cycles
  /\ \/ due' = due
     \/ \E e \in {"VBlank", "Other"}, t \in Later(now) : due' = [due EXCEPT ![e] = t]
  /\ UNCHANGED <<pc, last_render_cycles, generated, cd_failed>>

StartEvents ==
  /\ pc = "run" /\ IsEventReady /\ pc' = "events"
  /\ UNCHANGED <<now, due, last_render_cycles, generated, cd_failed>>

Rendered(next) ==
  /\ last_render_cycles' = now
  /\ pc' \in {next, "wait"}         \* "wait": the card could not be saved

VBlank ==
  /\ pc = "events" /\ IsFirst("VBlank")
  /\ \E t \in Later(now) : due' = [due EXCEPT !["VBlank"] = t]
  /\ Rendered("events")
  /\ UNCHANGED <<now, generated, cd_failed>>

NextClockFromNow(time) == now + ClockDivider

\* clock returns an error before the event is scheduled again.
NextClock(time) == time + ClockDivider

SpuAndCdClock ==
  /\ pc = "events" /\ IsFirst("SpuAndCdClock")
  /\ \/ /\ generated' = generated + 1
        /\ due' = [due EXCEPT !["SpuAndCdClock"] = NextClock(due["SpuAndCdClock"])]
        /\ UNCHANGED <<pc, cd_failed>>
     \/ /\ cd_failed' = TRUE /\ pc' = "wait"
        /\ due' = [due EXCEPT !["SpuAndCdClock"] = Never]
        /\ UNCHANGED generated
  /\ UNCHANGED <<now, last_render_cycles>>

OtherEvent ==
  /\ pc = "events" /\ IsFirst("Other")
  /\ \E t \in Later(now) : due' = [due EXCEPT !["Other"] = t]
  /\ UNCHANGED <<now, pc, last_render_cycles, generated, cd_failed>>

\* All ready events were handled: a frame is rendered if none was for too long.
EndTick ==
  /\ pc = "events" /\ ~IsEventReady
  /\ IF now - last_render_cycles >= RenderTimeout THEN Rendered("wait")
     ELSE pc' = "wait" /\ UNCHANGED last_render_cycles
  /\ UNCHANGED <<now, due, generated, cd_failed>>

Next == \/ WaitForDma \/ Execute \/ StartEvents
        \/ VBlank \/ SpuAndCdClock \/ OtherEvent \/ EndTick

Spec == Init /\ [][Next]_vars

\* Samples are generated at exactly one per ClockDivider cycles however late
\* their events are handled, and no frame takes longer than the time after which
\* a render is forced, the distance of two clock events and one overrun: the
\* main loop returns to the emulator thread in a bounded time whatever the
\* program does to the VBlank event.  Both end with the first CD-ROM error,
\* after which there is no SPU and CD-ROM clock any more.
SamplesKeepPace == due["SpuAndCdClock"] = ClockDivider * (generated + 1)
LongestFrame == RenderTimeout + ClockDivider + MaxInstruction + MaxWait
FrameInTime == now - last_render_cycles < LongestFrame
TimeIsKept == cd_failed \/ (SamplesKeepPace /\ FrameInTime)
=============================================================================
