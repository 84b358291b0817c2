---------------------------- MODULE TimerCounter ----------------------------
(***************************************************************************)
(* One hardware timer of ps1-core (struct SystemTimer of timers.rs): a     *)
(* counter that wraps at its target or at its maximum, and raises an       *)
(* interrupt at either.  The source counts any number of clocks in closed  *)
(* form, by four methods chosen by the mode; each is an operator from the  *)
(* timer and the number of clocks to the timer afterwards.  Where a method *)
(* triggers the interrupt in a loop, the model counts the iterations.      *)
(***************************************************************************)
EXTENDS Integers, FiniteSetsExt

CONSTANTS
  MaxCount,   \* $FFFF, the largest value of the counter
  NoIrq       \* clocks_until_irq returns None

MaxCountAssumption == MaxCount \in Nat \ {0} /\ NoIrq \notin Nat

Span == MaxCount + 1
Counts == 0 .. MaxCount

\* The bits of a mode write; set_irq is bit 10.
ModeValues == [reset_at_target: BOOLEAN, irq_at_target: BOOLEAN, irq_at_max: BOOLEAN,
               repeat: BOOLEAN, toggle: BOOLEAN, set_irq: BOOLEAN]

\* SystemTimer, with the bit of I_STAT that set_interrupt_flag sets (istat).
SystemTimers ==
  [counter: Counts, target: Counts,
   reset_at_target: BOOLEAN, irq_at_target: BOOLEAN, irq_at_max: BOOLEAN,
   repeat: BOOLEAN, toggle: BOOLEAN, irq: BOOLEAN, irq_since_mode_write: BOOLEAN,
   reached_target: BOOLEAN, reached_max: BOOLEAN, istat: BOOLEAN]

NewTimer ==
  [counter |-> 0, target |-> 0,
   reset_at_target |-> FALSE, irq_at_target |-> FALSE, irq_at_max |-> FALSE,
   repeat |-> FALSE, toggle |-> FALSE, irq |-> FALSE, irq_since_mode_write |-> FALSE,
   reached_target |-> FALSE, reached_max |-> FALSE, istat |-> FALSE]

\* trigger_irq: a one-shot interrupt comes once per mode write; a toggling one raises
\* I_STAT every other time.
TriggerIrq(t) ==
  IF ~t.repeat /\ t.irq_since_mode_write THEN t
  ELSE [t EXCEPT !.irq_since_mode_write = TRUE,
                 !.irq = IF t.toggle THEN ~@ ELSE @,
                 !.istat = @ \/ ~t.toggle \/ ~t.irq]

TriggerIf(condition, t) == IF condition THEN TriggerIrq(t) ELSE t

TriggerTimes(n, t) ==
  LET after[k \in 0 .. n] == IF k = 0 THEN t ELSE TriggerIrq(after[k - 1]) IN after[n]

\* The conditions clock chooses a method by.
ResetsAtTarget(t) == t.reset_at_target /\ t.target # MaxCount
Toggles(t) == t.repeat /\ t.toggle
-----------------------------------------------------------------------------
\* Both methods for a counter that resets at its target begin by leaving the target.
AtOrAbove(t) == t.counter >= t.target
Restarted(t) == IF AtOrAbove(t) THEN [t EXCEPT !.counter = 0] ELSE t
ClocksAfterRestart(t, clocks) == IF AtOrAbove(t) THEN clocks - 1 ELSE clocks

\* clock_reset_at_target_pulse_irq.  The remainder is the target itself when the clocks
\* end there.
ResetAtTargetPulseUnderflow(t, clocks) ==
  LET s    == Restarted(t)
      left == ClocksAfterRestart(t, clocks)
      past == left - (t.target - s.counter)
  IN IF past < 0 THEN [s EXCEPT !.counter = @ + left]
     ELSE TriggerIf(t.irq_at_target,
                    [s EXCEPT !.reached_target = TRUE,
                              !.counter = IF past > t.target THEN past % (t.target + 1) ELSE past - 1])

ResetAtTargetPulse(t, clocks) ==
  LET s    == Restarted(t)
      left == ClocksAfterRestart(t, clocks)
      past == left - (t.target - s.counter)
  IN IF past < 0 THEN [s EXCEPT !.counter = @ + left]
     ELSE TriggerIf(t.irq_at_target,
                    [s EXCEPT !.reached_target = TRUE,
                              !.counter = (past - 1) % (t.target + 1)])

\* clock_reset_at_target_toggle_irq: once more for every further period.
ResetAtTargetToggle(t, clocks) ==
  LET s    == Restarted(t)
      left == ClocksAfterRestart(t, clocks)
      past == left - (t.target - s.counter)
  IN IF past < 0 THEN [s EXCEPT !.counter = @ + left]
     ELSE TriggerTimes(1 + past \div (t.target + 1),
                       [s EXCEPT !.reached_target = TRUE,
                                 !.counter = (past - 1) % (t.target + 1)])

\* clock_reset_at_max_pulse_irq
ResetAtMaxPulseFromMax(t, clocks) ==
  LET max    == clocks >= MaxCount - t.counter
      target == clocks >= IF t.target > t.counter THEN t.target - t.counter
                          ELSE Span - (t.counter - t.target)
  IN TriggerIf((t.irq_at_target /\ target) \/ (t.irq_at_max /\ max),
               [t EXCEPT !.reached_max = @ \/ max, !.reached_target = @ \/ target,
                         !.counter = (@ + clocks) % Span])

ResetAtMaxPulse(t, clocks) ==
  LET wraps  == t.counter = MaxCount
      start  == IF wraps THEN [t EXCEPT !.counter = 0] ELSE t
      s      == IF wraps /\ t.target = 0
                THEN TriggerIf(t.irq_at_target, [start EXCEPT !.reached_target = TRUE])
                ELSE start
      left   == IF wraps THEN clocks - 1 ELSE clocks
      max    == left >= MaxCount - s.counter
      target == left >= IF t.target > s.counter THEN t.target - s.counter
                        ELSE Span - (s.counter - t.target)
  IN TriggerIf((t.irq_at_target /\ target) \/ (t.irq_at_max /\ max),
               [s EXCEPT !.reached_max = @ \/ max,
                         !.reached_target = @ \/ target,
                         !.counter = (@ + left) % Span])

\* clock_reset_at_max_toggle_irq.  As long as the maximum is not reached, the target
\* interrupt is triggered whether or not the target was.
TargetIrqsEnabled(t) == t.irq_at_target /\ (t.target # MaxCount \/ ~t.irq_at_max)

BelowMaxToggle(t, clocks) ==
  LET reached == t.target > t.counter /\ clocks >= t.target - t.counter
  IN TriggerIf(TargetIrqsEnabled(t),
               [t EXCEPT !.reached_target = @ \/ reached, !.counter = @ + clocks])

\* The first advance to the maximum, unless the counter is there already.
ToMaxToggle(t) ==
  LET target == t.target > t.counter
      s == [t EXCEPT !.reached_target = @ \/ target, !.reached_max = TRUE, !.counter = MaxCount]
  IN IF t.counter = MaxCount THEN t
     ELSE TriggerIf(t.irq_at_max, TriggerIf(TargetIrqsEnabled(t) /\ target, s))

\* Full turns, each with both interrupts, and the part of a turn that is left.
PastMaxToggle(t, clocks) ==
  LET left    == clocks - (MaxCount - t.counter)
      turns   == left \div Span
      each    == (IF TargetIrqsEnabled(t) THEN 1 ELSE 0) + (IF t.irq_at_max THEN 1 ELSE 0)
      s       == TriggerTimes(turns * each, [ToMaxToggle(t) EXCEPT !.reached_target = @ \/ turns > 0])
      counter == (left % Span) - 1
      target  == t.target <= counter
  IN IF left % Span = 0 THEN s
     ELSE TriggerIf(TargetIrqsEnabled(t) /\ target,
                    [s EXCEPT !.reached_target = @ \/ target, !.counter = counter])

ResetAtMaxToggle(t, clocks) ==
  IF clocks < MaxCount - t.counter THEN BelowMaxToggle(t, clocks) ELSE PastMaxToggle(t, clocks)

\* clock
Clock(t, clocks) ==
  CASE clocks = 0 -> t
    [] clocks # 0 /\ ResetsAtTarget(t) ->
         IF t.irq_at_target /\ Toggles(t) THEN ResetAtTargetToggle(t, clocks)
         ELSE ResetAtTargetPulse(t, clocks)
    [] clocks # 0 /\ ~ResetsAtTarget(t) ->
         IF (t.irq_at_target \/ t.irq_at_max) /\ Toggles(t) THEN ResetAtMaxToggle(t, clocks)
         ELSE ResetAtMaxPulse(t, clocks)
-----------------------------------------------------------------------------
\* clocks_until_irq
ClocksUntilTarget(t) ==
  CASE t.target > t.counter -> t.target - t.counter
    [] t.target <= t.counter /\ t.reset_at_target -> t.target + 1
    [] t.target <= t.counter /\ ~t.reset_at_target -> Span - (t.counter - t.target)

ClocksUntilMaxFromMax(t) == MaxCount - t.counter
ClocksUntilMax(t) == IF t.counter = MaxCount THEN Span ELSE MaxCount - t.counter

ClocksUntilIrq(t) ==
  LET spent == ~t.repeat /\ t.irq_since_mode_write
      until == (IF t.irq_at_target THEN {ClocksUntilTarget(t)} ELSE {})
               \union (IF t.irq_at_max /\ ~ResetsAtTarget(t) THEN {ClocksUntilMax(t)} ELSE {})
  IN IF spent \/ until = {} THEN NoIrq ELSE Min(until)

\* The registers.  Reading the mode clears the two reached flags.
WriteCounter(t, value) == [t EXCEPT !.counter = value]
WriteTarget(t, value) == [t EXCEPT !.target = value]
ReadMode(t) == [t EXCEPT !.reached_target = FALSE, !.reached_max = FALSE]

WriteMode(t, m) ==
  [t EXCEPT !.reset_at_target = m.reset_at_target, !.irq_at_target = m.irq_at_target,
            !.irq_at_max = m.irq_at_max, !.repeat = m.repeat, !.toggle = m.toggle,
            !.irq = @ /\ ~m.set_irq /\ m.toggle,
            !.counter = 0, !.irq_since_mode_write = FALSE]
-----------------------------------------------------------------------------
\* What the methods have to agree with: one clock, and n of them one by one.  Reaching
\* the target and the maximum at once is one interrupt.
CountOne(t) ==
  LET next == IF t.counter = MaxCount \/ (ResetsAtTarget(t) /\ AtOrAbove(t)) THEN 0
              ELSE t.counter + 1
      target == next = t.target
      max    == next = MaxCount
  IN TriggerIf((t.irq_at_target /\ target) \/ (t.irq_at_max /\ max),
               [t EXCEPT !.counter = next, !.reached_target = @ \/ target,
                         !.reached_max = @ \/ max])

Count(t, n) ==
  LET after[k \in 0 .. n] == IF k = 0 THEN t ELSE CountOne(after[k - 1]) IN after[n]
=============================================================================
