---------------------------- MODULE SystemTimer ----------------------------
(***************************************************************************)
(* One timer of timers.rs under every sequence of register accesses and    *)
(* catch-ups.  The source counts lazily: clock is called with however many *)
(* clocks have passed since some register access or event made the timers  *)
(* catch up.  Beside the timer runs the one that the same clocks and       *)
(* accesses give when every clock is counted by itself.                    *)
(***************************************************************************)
EXTENDS TimerCounter

CONSTANTS
  Allowed(_, _),  \* whether the host lets a mode and a target be in force together
  MaxClocks       \* bound: the most clocks between two catch-ups

VARIABLES
  timer,      \* SystemTimer, as the source counts it
  one_by_one  \* history: the same timer, every clock counted by itself

vars == <<timer, one_by_one>>

Init ==
  /\ timer = NewTimer
  /\ one_by_one = NewTimer

\* catch_up, for a timer that is not synchronized
CatchUp(clocks) ==
  /\ timer' = Clock(timer, clocks)
  /\ one_by_one' = Count(one_by_one, clocks)

Both(Access(_)) ==
  /\ timer' = Access(timer)
  /\ one_by_one' = Access(one_by_one)

HostWritesMode(m) == Allowed(m, timer.target) /\ Both(LAMBDA t : WriteMode(t, m))
HostWritesTarget(value) == Allowed(timer, value) /\ Both(LAMBDA t : WriteTarget(t, value))
HostWritesCounter(value) == Both(LAMBDA t : WriteCounter(t, value))
HostReadsMode == Both(ReadMode)

\* write_interrupt_status
HostAcknowledges == timer.istat /\ Both(LAMBDA t : [t EXCEPT !.istat = FALSE])

Next ==
  \/ \E clocks \in 1 .. MaxClocks : CatchUp(clocks)
  \/ \E m \in ModeValues : HostWritesMode(m)
  \/ \E value \in Counts : HostWritesTarget(value)
  \/ \E value \in Counts : HostWritesCounter(value)
  \/ HostReadsMode
  \/ HostAcknowledges

Spec == Init /\ [][Next]_vars
-----------------------------------------------------------------------------
TypeOK == timer \in SystemTimers /\ one_by_one \in SystemTimers

\* Counting in closed form is counting one by one: the counter, the reached-target flag, the
\* one-shot state, the toggled interrupt bit and I_STAT never depend on when or how often
\* a register access or an event made the timers catch up, so no interrupt is lost, doubled
\* or made up by counting many clocks at once.  Only the reached-max flag may be missing:
\* clock_reset_at_max_toggle_irq does not set it for the full turns of a counter that starts
\* at the maximum, although "Each 65536-step loop will hit both the target and the max"
\* (timers.rs:269).
LazyCountIsExact ==
  \/ timer = one_by_one
  \/ timer = [one_by_one EXCEPT !.reached_max = FALSE]

\* A further n clocks trigger the interrupt.
Triggers(n) ==
  LET before == [timer EXCEPT !.istat = FALSE]
      after  == Clock(before, n)
  IN after.istat \/ after.irq # timer.irq

\* The event that schedule_timer_events asks for comes exactly when the counter raises
\* its interrupt, and there is none exactly when no number of clocks would raise one.
IrqIsPredicted ==
  LET k == ClocksUntilIrq(timer)
  IN IF k = NoIrq THEN \A n \in 1 .. 2 * Span : ~Triggers(n)
     ELSE Triggers(k) /\ \A n \in 1 .. k - 1 : ~Triggers(n)
=============================================================================
