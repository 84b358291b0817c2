---------------------------- MODULE CountingProofs ---------------------------
(* What counts in the source, and how far: a hardware timer's counter, which    *)
(* counts many clocks in closed form and is compared with counting them one by  *)
(* one; the times of a disc, which are added, subtracted and compared digit by  *)
(* digit and are compared with sector numbers; the video clock, which walks     *)
(* from border to border and is compared with one that takes every GPU cycle;   *)
(* and the timers the video clock and the CPU's cycles drive, caught up late.   *)
EXTENDS MCTimerParts, CdTime, FiniteSetTheorems, WellFoundedInduction, TLAPS

\* Quotient and remainder, and that there are no others.
LEMMA Division ==
  ASSUME NEW P \in Nat \ {0}, NEW n \in Nat
  PROVE  n \div P \in Nat /\ n % P \in 0 .. P - 1 /\ n = P * (n \div P) + (n % P)
<1>1. P \in Nat /\ P > 0
  OBVIOUS
<1>2. n % P \in 0 .. P - 1
  BY <1>1
<1>3. \A i \in Nat : i = P * (i \div P) + (i % P)
  BY <1>1
<1> DEFINE d == n \div P
<1>4. d >= 0
  BY <1>1
<1>5. d \in Int
  BY <1>1
<1>6. d \in Nat
  <2> HIDE DEF d
  <2> QED BY <1>4, <1>5
<1>7. n = P * d + (n % P)
  BY <1>3, Zenon
<1> QED BY <1>2, <1>6, <1>7, Zenon

LEMMA DivisionIs ==
  ASSUME NEW P \in Nat \ {0}, NEW n \in Nat, NEW q \in Nat, NEW r \in 0 .. P - 1, n = P * q + r
  PROVE  n \div P = q /\ n % P = r
<1> DEFINE d == n \div P
           m == n % P
<1>1. d \in Nat /\ m \in 0 .. P - 1 /\ n = P * d + m
  BY Division
<1> HIDE DEF d, m
<1>2. \A i, j \in Nat : i < j => P * i + P <= P * j
  <2> SUFFICES ASSUME NEW i \in Nat, NEW j \in Nat, i < j PROVE P * i + P <= P * j
    OBVIOUS
  <2>1. j - i - 1 \in Nat
    OBVIOUS
  <2>2. P * j = P * i + P + P * (j - i - 1)
    OBVIOUS
  <2>3. P * (j - i - 1) \in Nat
    BY <2>1
  <2> QED BY <2>2, <2>3
<1>3. P * d \in Nat /\ P * q \in Nat
  BY <1>1
<1>4. ~(d < q)
  BY <1>1, <1>2, <1>3
<1>5. ~(q < d)
  BY <1>1, <1>2, <1>3
<1>6. d = q
  BY <1>1, <1>4, <1>5
<1> QED BY <1>1, <1>3, <1>6 DEF d, m

\* One more: the remainder grows, or the quotient does.
LEMMA DivisionGoesOn ==
  ASSUME NEW P \in Nat \ {0}, NEW n \in Nat
  PROVE  /\ (n + 1) % P = IF n % P = P - 1 THEN 0 ELSE (n % P) + 1
         /\ (n + 1) \div P = IF n % P = P - 1 THEN n \div P + 1 ELSE n \div P
<1> DEFINE d == n \div P
           m == n % P
<1>1. d \in Nat /\ m \in 0 .. P - 1 /\ n = P * d + m
  BY Division
<1> HIDE DEF d, m
<1>2. CASE m = P - 1
  <2>1. n + 1 = P * (d + 1) + 0
    BY <1>1, <1>2
  <2>2. d + 1 \in Nat /\ 0 \in 0 .. P - 1 /\ n + 1 \in Nat
    BY <1>1
  <2>3. (n + 1) \div P = d + 1 /\ (n + 1) % P = 0
    BY <2>1, <2>2, DivisionIs
  <2> QED BY <1>2, <2>3 DEF d, m
<1>3. CASE m # P - 1
  <2>1. n + 1 = P * d + (m + 1) /\ m + 1 \in 0 .. P - 1 /\ n + 1 \in Nat
    BY <1>1, <1>3
  <2>2. (n + 1) \div P = d /\ (n + 1) % P = m + 1
    BY <1>1, <2>1, DivisionIs
  <2> QED BY <1>3, <2>2 DEF d, m
<1> QED BY <1>2, <1>3

\* Whole periods do not matter.
LEMMA DivisionOfMore ==
  ASSUME NEW P \in Nat \ {0}, NEW n \in Nat
  PROVE  (n + P) % P = n % P /\ (n + P) \div P = n \div P + 1
<1> DEFINE d == n \div P
           m == n % P
<1>1. d \in Nat /\ m \in 0 .. P - 1 /\ n = P * d + m
  BY Division
<1> HIDE DEF d, m
<1>2. n + P = P * (d + 1) + m /\ d + 1 \in Nat /\ n + P \in Nat
  BY <1>1
<1>3. (n + P) \div P = d + 1 /\ (n + P) % P = m
  BY <1>1, <1>2, DivisionIs
<1> QED BY <1>3 DEF d, m

LEMMA DivisionOfLess ==
  ASSUME NEW P \in Nat \ {0}, NEW n \in 0 .. P - 1
  PROVE  n % P = n /\ n \div P = 0
<1>1. n = P * 0 + n
  OBVIOUS
<1> QED BY <1>1, DivisionIs

-----------------------------------------------------------------------------
\* A timer counts to Max; P of its periods are Span or the target's.
LEMMA TimerWidth == MaxCount \in Nat /\ MaxCount > 0 /\ NoIrq \notin Nat
  BY TimersAreValid DEF MaxCountAssumption

LEMMA TimerFields ==
  ASSUME NEW t \in SystemTimers
  PROVE  /\ t.counter \in 0 .. MaxCount /\ t.target \in 0 .. MaxCount
         /\ t.reset_at_target \in BOOLEAN /\ t.irq_at_target \in BOOLEAN
         /\ t.irq_at_max \in BOOLEAN /\ t.repeat \in BOOLEAN /\ t.toggle \in BOOLEAN
         /\ t.irq \in BOOLEAN /\ t.irq_since_mode_write \in BOOLEAN
         /\ t.reached_target \in BOOLEAN /\ t.reached_max \in BOOLEAN /\ t.istat \in BOOLEAN
  BY DEF SystemTimers, Counts

\* The timer t with another count, other reached flags and another state of its interrupt.
Made(t, c, reached_target, reached_max, irq, since, istat_bit) ==
  [counter |-> c, target |-> t.target,
   reset_at_target |-> t.reset_at_target, irq_at_target |-> t.irq_at_target,
   irq_at_max |-> t.irq_at_max, repeat |-> t.repeat, toggle |-> t.toggle,
   irq |-> irq, irq_since_mode_write |-> since,
   reached_target |-> reached_target, reached_max |-> reached_max, istat |-> istat_bit]

\* The interrupt of t after k more triggers.
Spent(t) == ~t.repeat /\ t.irq_since_mode_write
Fires(t, k) == k > 0 /\ ~Spent(t)
Flips(t, k) == IF Toggles(t) THEN k % 2 = 1 ELSE t.toggle
IrqAfter(t, k) == IF Fires(t, k) /\ Flips(t, k) THEN ~t.irq ELSE t.irq
SinceAfter(t, k) == t.irq_since_mode_write \/ Fires(t, k)
IstatAfter(t, k) ==
  t.istat \/ (Fires(t, k) /\ (~t.toggle \/ ~t.irq \/ (Toggles(t) /\ k > 1)))

After(t, c, reached_target, reached_max, k) ==
  Made(t, c, reached_target, reached_max, IrqAfter(t, k), SinceAfter(t, k), IstatAfter(t, k))

TimerNames ==
  {"counter", "target", "reset_at_target", "irq_at_target", "irq_at_max", "repeat", "toggle",
   "irq", "irq_since_mode_write", "reached_target", "reached_max", "istat"}
HasTimerNames(r) == r = [f \in TimerNames |-> r[f]]

LEMMA InterruptTypes ==
  ASSUME NEW t \in SystemTimers, NEW k
  PROVE  IrqAfter(t, k) \in BOOLEAN /\ SinceAfter(t, k) \in BOOLEAN /\ IstatAfter(t, k) \in BOOLEAN
  BY TimerFields DEF IrqAfter, SinceAfter, IstatAfter

LEMMA MadeOfItself ==
  ASSUME NEW t \in SystemTimers
  PROVE  t = Made(t, t.counter, t.reached_target, t.reached_max,
                  t.irq, t.irq_since_mode_write, t.istat)
  BY DEF Made, SystemTimers

LEMMA AfterNothing ==
  ASSUME NEW t \in SystemTimers
  PROVE  t = After(t, t.counter, t.reached_target, t.reached_max, 0)
<1>1. IrqAfter(t, 0) = t.irq /\ SinceAfter(t, 0) = t.irq_since_mode_write /\ IstatAfter(t, 0) = t.istat
  BY TimerFields DEF IrqAfter, SinceAfter, IstatAfter, Fires
<1> QED BY <1>1, MadeOfItself DEF After

LEMMA MadeIsTimer ==
  ASSUME NEW t \in SystemTimers, NEW c \in 0 .. MaxCount,
         NEW rt \in BOOLEAN, NEW rm \in BOOLEAN,
         NEW i \in BOOLEAN, NEW s \in BOOLEAN, NEW b \in BOOLEAN
  PROVE  Made(t, c, rt, rm, i, s, b) \in SystemTimers
  BY DEF Made, SystemTimers, Counts

LEMMA AfterIsTimer ==
  ASSUME NEW t \in SystemTimers, NEW c \in 0 .. MaxCount,
         NEW rt \in BOOLEAN, NEW rm \in BOOLEAN, NEW k
  PROVE  After(t, c, rt, rm, k) \in SystemTimers
  BY InterruptTypes, MadeIsTimer DEF After

LEMMA IsMade ==
  ASSUME NEW r, NEW t, NEW c, NEW rt, NEW rm, NEW i, NEW s, NEW b,
         HasTimerNames(r),
         r.counter = c, r.target = t.target, r.reset_at_target = t.reset_at_target,
         r.irq_at_target = t.irq_at_target, r.irq_at_max = t.irq_at_max,
         r.repeat = t.repeat, r.toggle = t.toggle, r.irq = i, r.irq_since_mode_write = s,
         r.reached_target = rt, r.reached_max = rm, r.istat = b
  PROVE  r = Made(t, c, rt, rm, i, s, b)
  BY DEF Made, TimerNames, HasTimerNames

LEMMA MadeFields ==
  ASSUME NEW t, NEW c, NEW rt, NEW rm, NEW i, NEW s, NEW b, NEW m, m = Made(t, c, rt, rm, i, s, b)
  PROVE  /\ HasTimerNames(m)
         /\ m.counter = c /\ m.target = t.target /\ m.reset_at_target = t.reset_at_target
         /\ m.irq_at_target = t.irq_at_target /\ m.irq_at_max = t.irq_at_max
         /\ m.repeat = t.repeat /\ m.toggle = t.toggle /\ m.irq = i
         /\ m.irq_since_mode_write = s /\ m.reached_target = rt /\ m.reached_max = rm
         /\ m.istat = b
<1>1. HasTimerNames(m)
  BY DEF Made, TimerNames, HasTimerNames
<1> QED BY <1>1 DEF Made

LEMMA TriggerFields ==
  ASSUME NEW m, HasTimerNames(m), NEW r, r = TriggerIrq(m)
  PROVE  /\ HasTimerNames(r)
         /\ r.counter = m.counter /\ r.target = m.target
         /\ r.reset_at_target = m.reset_at_target /\ r.irq_at_target = m.irq_at_target
         /\ r.irq_at_max = m.irq_at_max /\ r.repeat = m.repeat /\ r.toggle = m.toggle
         /\ r.reached_target = m.reached_target /\ r.reached_max = m.reached_max
         /\ Spent(m) => r = m
         /\ ~Spent(m) => /\ r.irq_since_mode_write = TRUE
                         /\ r.irq = IF m.toggle THEN ~m.irq ELSE m.irq
                         /\ r.istat = (m.istat \/ ~m.toggle \/ ~m.irq)
<1>1. CASE Spent(m)
  BY <1>1 DEF Spent, TriggerIrq
<1>2. CASE ~Spent(m)
  <2>1. r = [m EXCEPT !.irq_since_mode_write = TRUE,
                      !.irq = (IF m.toggle THEN ~m.irq ELSE m.irq),
                      !.istat = (m.istat \/ ~m.toggle \/ ~m.irq)]
    BY <1>2, Zenon DEF Spent, TriggerIrq
  <2>2. HasTimerNames(r)
    BY <2>1 DEF HasTimerNames
  <2>3. /\ r.counter = m.counter /\ r.target = m.target
        /\ r.reset_at_target = m.reset_at_target /\ r.irq_at_target = m.irq_at_target
        /\ r.irq_at_max = m.irq_at_max /\ r.repeat = m.repeat /\ r.toggle = m.toggle
        /\ r.reached_target = m.reached_target /\ r.reached_max = m.reached_max
    BY <2>1 DEF TimerNames, HasTimerNames
  <2>4. /\ r.irq_since_mode_write = TRUE
        /\ r.irq = IF m.toggle THEN ~m.irq ELSE m.irq
        /\ r.istat = (m.istat \/ ~m.toggle \/ ~m.irq)
    BY <2>1, Zenon DEF TimerNames, HasTimerNames
  <2> QED BY <1>2, <2>2, <2>3, <2>4
<1> QED BY <1>1, <1>2

\* trigger_irq is one more.
LEMMA TriggerIsOneMore ==
  ASSUME NEW t \in SystemTimers, NEW c, NEW rt, NEW rm, NEW k \in Nat
  PROVE  TriggerIrq(After(t, c, rt, rm, k)) = After(t, c, rt, rm, k + 1)
<1> DEFINE m == After(t, c, rt, rm, k)
           r == TriggerIrq(m)
<1>1. /\ HasTimerNames(m)
      /\ m.counter = c /\ m.target = t.target /\ m.reset_at_target = t.reset_at_target
      /\ m.irq_at_target = t.irq_at_target /\ m.irq_at_max = t.irq_at_max
      /\ m.repeat = t.repeat /\ m.toggle = t.toggle /\ m.irq = IrqAfter(t, k)
      /\ m.irq_since_mode_write = SinceAfter(t, k) /\ m.reached_target = rt /\ m.reached_max = rm
      /\ m.istat = IstatAfter(t, k)
  BY MadeFields DEF After
<1> HIDE DEF m
<1>2. /\ HasTimerNames(r)
      /\ r.counter = m.counter /\ r.target = m.target
      /\ r.reset_at_target = m.reset_at_target /\ r.irq_at_target = m.irq_at_target
      /\ r.irq_at_max = m.irq_at_max /\ r.repeat = m.repeat /\ r.toggle = m.toggle
      /\ r.reached_target = m.reached_target /\ r.reached_max = m.reached_max
      /\ Spent(m) => r = m
      /\ ~Spent(m) => /\ r.irq_since_mode_write = TRUE
                      /\ r.irq = IF m.toggle THEN ~m.irq ELSE m.irq
                      /\ r.istat = (m.istat \/ ~m.toggle \/ ~m.irq)
  BY <1>1, TriggerFields
<1> HIDE DEF r
<1>3. /\ t.repeat \in BOOLEAN /\ t.toggle \in BOOLEAN /\ t.irq \in BOOLEAN
      /\ t.irq_since_mode_write \in BOOLEAN /\ t.istat \in BOOLEAN
  BY TimerFields
<1>4. k % 2 \in {0, 1} /\ ((k + 1) % 2 = 1 <=> k % 2 # 1) /\ 0 % 2 # 1 /\ 1 % 2 = 1
  OBVIOUS
<1>5. /\ r.irq = IrqAfter(t, k + 1)
      /\ r.irq_since_mode_write = SinceAfter(t, k + 1)
      /\ r.istat = IstatAfter(t, k + 1)
  <2> USE DEF IrqAfter, SinceAfter, IstatAfter, Fires, Spent, Flips, Toggles
  <2>1. CASE Spent(m)
    BY <1>1, <1>2, <1>3, <1>4, <2>1
  <2>2. CASE ~Spent(m)
    <3>0. /\ t.repeat = TRUE \/ (k = 0 /\ t.irq_since_mode_write = FALSE)
          /\ ~Spent(t)
      <4>1. CASE t.repeat = TRUE
        BY <4>1
      <4>2. CASE t.repeat = FALSE
        <5>1. SinceAfter(t, k) = FALSE
          <6> HIDE DEF SinceAfter
          <6> QED BY <1>1, <2>2, <4>2, InterruptTypes
        <5> QED BY <1>3, <4>2, <5>1
      <4> QED BY <1>3, <4>1, <4>2
    <3>4. r.irq_since_mode_write = TRUE /\ r.irq = IF t.toggle THEN ~m.irq ELSE m.irq
      BY <1>1, <1>2, <2>2
    <3>1. r.irq = IrqAfter(t, k + 1)
      <4>1. CASE t.toggle
        <5>1. r.irq = (~IrqAfter(t, k))
          BY <1>1, <3>4, <4>1
        <5> QED BY <1>3, <1>4, <3>0, <4>1, <5>1
      <4>2. CASE ~t.toggle
        <5>1. r.irq = IrqAfter(t, k)
          BY <1>1, <3>4, <4>2
        <5> QED BY <1>3, <1>4, <3>0, <4>2, <5>1
      <4> QED BY <4>1, <4>2
    <3>2. r.irq_since_mode_write = SinceAfter(t, k + 1)
      <4>1. SinceAfter(t, k + 1) = TRUE
        BY <3>0
      <4> QED BY <3>4, <4>1
    <3>3. r.istat = IstatAfter(t, k + 1)
      BY <1>1, <1>2, <1>3, <1>4, <2>2
    <3> QED BY <3>1, <3>2, <3>3
  <2> QED BY <2>1, <2>2
<1>6. r = Made(t, c, rt, rm, IrqAfter(t, k + 1), SinceAfter(t, k + 1), IstatAfter(t, k + 1))
  BY <1>1, <1>2, <1>5, IsMade
<1> QED BY <1>6 DEF m, r, After

\* An interrupt that does not repeat or does not toggle is the same however often it comes.
LEMMA OnceIsEnough ==
  ASSUME NEW t, ~Toggles(t), NEW c, NEW rt, NEW rm,
         NEW j \in Nat \ {0}, NEW k \in Nat \ {0}
  PROVE  After(t, c, rt, rm, j) = After(t, c, rt, rm, k)
<1>1. IrqAfter(t, j) = IrqAfter(t, k) /\ SinceAfter(t, j) = SinceAfter(t, k)
  BY DEF IrqAfter, SinceAfter, Fires, Flips
<1>2. IstatAfter(t, j) = IstatAfter(t, k)
  BY DEF IstatAfter, Fires
<1> QED BY <1>1, <1>2 DEF After

\* k times trigger_irq.
TriggerRun(f, t, n) == f = [k \in 0 .. n |-> IF k = 0 THEN t ELSE TriggerIrq(f[k - 1])]

LEMMA TriggerRunIs ==
  ASSUME NEW t \in SystemTimers, NEW c, NEW rt, NEW rm, NEW j \in Nat, NEW n \in Nat,
         NEW f, TriggerRun(f, After(t, c, rt, rm, j), n)
  PROVE  \A k \in 0 .. n : f[k] = After(t, c, rt, rm, j + k)
<1> DEFINE Bad == {k \in 0 .. n : f[k] # After(t, c, rt, rm, j + k)}
<1>1. SUFFICES ASSUME Bad # {} PROVE FALSE
  OBVIOUS
<1>2. PICK k \in Bad : \A i \in Bad : ~(<<i, k>> \in OpToRel(<, Nat))
  <2>1. Bad \subseteq Nat
    OBVIOUS
  <2> QED BY <1>1, <2>1, NatLessThanWellFounded, WFMin
<1>3. k \in 0 .. n /\ f[k] # After(t, c, rt, rm, j + k)
  OBVIOUS
<1>4. CASE k = 0
  <2>1. f[0] = After(t, c, rt, rm, j)
    BY DEF TriggerRun
  <2> QED BY <1>3, <1>4, <2>1
<1>5. CASE k # 0
  <2>1. k - 1 \in 0 .. n /\ k - 1 \in Nat /\ k \in Nat /\ k - 1 < k
    BY <1>3, <1>5
  <2>2. k - 1 \notin Bad
    BY <1>2, <2>1 DEF OpToRel
  <2>3. f[k - 1] = After(t, c, rt, rm, j + (k - 1))
    BY <2>1, <2>2
  <2>4. f[k] = TriggerIrq(f[k - 1])
    BY <1>3, <1>5 DEF TriggerRun
  <2>5. j + (k - 1) \in Nat /\ (j + (k - 1)) + 1 = j + k
    BY <2>1
  <2> QED BY <1>3, <2>3, <2>4, <2>5, TriggerIsOneMore
<1> QED BY <1>4, <1>5

LEMMA TriggerTimesIsMore ==
  ASSUME NEW t \in SystemTimers, NEW c, NEW rt, NEW rm, NEW j \in Nat, NEW n \in Nat
  PROVE  TriggerTimes(n, After(t, c, rt, rm, j)) = After(t, c, rt, rm, j + n)
<1> DEFINE s == After(t, c, rt, rm, j)
           g == [k \in 0 .. n |-> After(t, c, rt, rm, j + k)]
           f == CHOOSE h : TriggerRun(h, s, n)
<1>1. TriggerRun(g, s, n)
  <2>1. ASSUME NEW k \in 0 .. n
        PROVE  g[k] = IF k = 0 THEN s ELSE TriggerIrq(g[k - 1])
    <3>1. CASE k = 0
      BY <3>1
    <3>2. CASE k # 0
      <4>1. k - 1 \in 0 .. n /\ j + (k - 1) \in Nat /\ (j + (k - 1)) + 1 = j + k
        BY <3>2
      <4>2. TriggerIrq(After(t, c, rt, rm, j + (k - 1))) = After(t, c, rt, rm, j + k)
        BY <4>1, TriggerIsOneMore
      <4>3. g[k] = After(t, c, rt, rm, j + k) /\ g[k - 1] = After(t, c, rt, rm, j + (k - 1))
        BY <4>1
      <4> HIDE DEF g
      <4> QED BY <3>2, <4>2, <4>3
    <3> QED BY <3>1, <3>2
  <2>2. g = [k \in 0 .. n |-> g[k]]
    OBVIOUS
  <2> HIDE DEF g, s
  <2> QED BY <2>1, <2>2 DEF TriggerRun
<1>2. TriggerRun(f, s, n)
  BY <1>1
<1>3. TriggerTimes(n, s) = f[n]
  BY DEF TriggerTimes, TriggerRun
<1>4. n \in 0 .. n
  OBVIOUS
<1> HIDE DEF f
<1> QED BY <1>2, <1>3, <1>4, TriggerRunIs

-----------------------------------------------------------------------------
\* r is t apart from its count and its reached flags.
Like(r, t) ==
  /\ HasTimerNames(r)
  /\ r.target = t.target /\ r.reset_at_target = t.reset_at_target
  /\ r.irq_at_target = t.irq_at_target /\ r.irq_at_max = t.irq_at_max
  /\ r.repeat = t.repeat /\ r.toggle = t.toggle
  /\ r.irq = t.irq /\ r.irq_since_mode_write = t.irq_since_mode_write /\ r.istat = t.istat

LEMMA AfterNone ==
  ASSUME NEW t \in SystemTimers
  PROVE  IrqAfter(t, 0) = t.irq /\ SinceAfter(t, 0) = t.irq_since_mode_write /\ IstatAfter(t, 0) = t.istat
  BY TimerFields DEF IrqAfter, SinceAfter, IstatAfter, Fires

LEMMA LikeIsAfter ==
  ASSUME NEW t \in SystemTimers, NEW r, Like(r, t),
         NEW c, NEW rt, NEW rm, r.counter = c, r.reached_target = rt, r.reached_max = rm
  PROVE  r = After(t, c, rt, rm, 0)
<1>1. r = Made(t, c, rt, rm, t.irq, t.irq_since_mode_write, t.istat)
  BY IsMade DEF Like
<1> QED BY <1>1, AfterNone DEF After

LEMMA LikeItself ==
  ASSUME NEW t \in SystemTimers
  PROVE  Like(t, t)
<1>1. HasTimerNames(t)
  BY DEF HasTimerNames, TimerNames, SystemTimers
<1> QED BY <1>1 DEF Like

\* Counting as the source does, without the interrupt.
Recounted(m, c, rt, rm) == [m EXCEPT !.counter = c, !.reached_target = rt, !.reached_max = rm]

LEMMA RecountedFields ==
  ASSUME NEW m, HasTimerNames(m), NEW c, NEW rt, NEW rm, NEW r, r = Recounted(m, c, rt, rm)
  PROVE  /\ HasTimerNames(r)
         /\ r.counter = c /\ r.reached_target = rt /\ r.reached_max = rm
         /\ r.target = m.target /\ r.reset_at_target = m.reset_at_target
         /\ r.irq_at_target = m.irq_at_target /\ r.irq_at_max = m.irq_at_max
         /\ r.repeat = m.repeat /\ r.toggle = m.toggle
         /\ r.irq = m.irq /\ r.irq_since_mode_write = m.irq_since_mode_write /\ r.istat = m.istat
<1>1. HasTimerNames(r)
  BY DEF HasTimerNames, Recounted
<1> QED BY <1>1 DEF HasTimerNames, TimerNames, Recounted

LEMMA RecountedAfter ==
  ASSUME NEW t, NEW c, NEW rt, NEW rm, NEW k, NEW d, NEW st, NEW sm
  PROVE  Recounted(After(t, c, rt, rm, k), d, st, sm) = After(t, d, st, sm, k)
<1> DEFINE m == After(t, c, rt, rm, k)
           r == Recounted(m, d, st, sm)
<1>1. /\ HasTimerNames(m)
      /\ m.target = t.target /\ m.reset_at_target = t.reset_at_target
      /\ m.irq_at_target = t.irq_at_target /\ m.irq_at_max = t.irq_at_max
      /\ m.repeat = t.repeat /\ m.toggle = t.toggle /\ m.irq = IrqAfter(t, k)
      /\ m.irq_since_mode_write = SinceAfter(t, k) /\ m.istat = IstatAfter(t, k)
  BY MadeFields DEF After
<1> HIDE DEF m
<1>2. /\ HasTimerNames(r)
      /\ r.counter = d /\ r.reached_target = st /\ r.reached_max = sm
      /\ r.target = m.target /\ r.reset_at_target = m.reset_at_target
      /\ r.irq_at_target = m.irq_at_target /\ r.irq_at_max = m.irq_at_max
      /\ r.repeat = m.repeat /\ r.toggle = m.toggle
      /\ r.irq = m.irq /\ r.irq_since_mode_write = m.irq_since_mode_write /\ r.istat = m.istat
  BY <1>1, RecountedFields
<1> HIDE DEF r
<1>3. r = Made(t, d, st, sm, IrqAfter(t, k), SinceAfter(t, k), IstatAfter(t, k))
  BY <1>1, <1>2, IsMade
<1> QED BY <1>3 DEF m, r, After

\* One clock.
NextCount(t, c) ==
  IF c = MaxCount \/ (ResetsAtTarget(t) /\ c >= t.target) THEN 0 ELSE c + 1
Hits(t, c) == (t.irq_at_target /\ c = t.target) \/ (t.irq_at_max /\ c = MaxCount)

LEMMA CountOneAfter ==
  ASSUME NEW t \in SystemTimers, NEW c, NEW rt, NEW rm, NEW k \in Nat,
         NEW d, d = NextCount(t, c), NEW st, st = (rt \/ d = t.target),
         NEW sm, sm = (rm \/ d = MaxCount), NEW j, j = IF Hits(t, d) THEN k + 1 ELSE k
  PROVE  CountOne(After(t, c, rt, rm, k)) = After(t, d, st, sm, j)
<1> DEFINE m == After(t, c, rt, rm, k)
<1>1. /\ m.counter = c /\ m.target = t.target /\ m.reset_at_target = t.reset_at_target
      /\ m.irq_at_target = t.irq_at_target /\ m.irq_at_max = t.irq_at_max
      /\ m.reached_target = rt /\ m.reached_max = rm
  BY MadeFields DEF After
<1>2. Recounted(m, d, st, sm) = After(t, d, st, sm, k)
  BY RecountedAfter
<1> HIDE DEF m
<1> DEFINE next == IF m.counter = MaxCount \/ (ResetsAtTarget(m) /\ AtOrAbove(m)) THEN 0
                   ELSE m.counter + 1
           target == next = m.target
           max == next = MaxCount
<1>3. next = d
  BY <1>1 DEF NextCount, ResetsAtTarget, AtOrAbove
<1>4. CountOne(m) =
        TriggerIf((m.irq_at_target /\ target) \/ (m.irq_at_max /\ max),
                        Recounted(m, next, m.reached_target \/ target, m.reached_max \/ max))
  BY Zenon DEF CountOne, Recounted
<1>5. (m.reached_target \/ target) = st /\ (m.reached_max \/ max) = sm
  BY <1>1, <1>3, Zenon
<1>6. (m.irq_at_target /\ target) \/ (m.irq_at_max /\ max) <=> Hits(t, d)
  BY <1>1, <1>3 DEF Hits
<1> HIDE DEF next, target, max
<1>7. CountOne(m) = IF Hits(t, d) THEN TriggerIrq(Recounted(m, d, st, sm))
                          ELSE Recounted(m, d, st, sm)
  BY <1>3, <1>4, <1>5, <1>6, Zenon DEF TriggerIf
<1>8. TriggerIrq(After(t, d, st, sm, k)) = After(t, d, st, sm, k + 1)
  BY TriggerIsOneMore
<1>9. CASE Hits(t, d)
  BY <1>2, <1>7, <1>8, <1>9 DEF m
<1>10. CASE ~Hits(t, d)
  BY <1>2, <1>7, <1>10 DEF m
<1> QED BY <1>9, <1>10

-----------------------------------------------------------------------------
\* Timers whose target interrupt does not both repeat and toggle without resetting the count.
Regular(t) ==
  /\ t \in SystemTimers
  /\ Toggles(t) /\ t.irq_at_target => ResetsAtTarget(t)

\* Where n clocks lead, for n > 0.
Period(t) == IF ResetsAtTarget(t) THEN t.target + 1 ELSE Span
Elapsed(t, n) == IF ResetsAtTarget(t) /\ AtOrAbove(t) THEN n - 1 ELSE t.counter + n
CountAt(t, n) == Elapsed(t, n) % Period(t)

ToTarget(t) == ClocksUntilTarget(t)
ToMax(t) == ClocksUntilMax(t)
TargetBy(t, n) == n >= ToTarget(t)
MaxBy(t, n) == ~ResetsAtTarget(t) /\ n >= ToMax(t)

LEMMA PeriodIs ==
  ASSUME NEW t \in SystemTimers
  PROVE  /\ Period(t) \in Nat \ {0} /\ Span = MaxCount + 1
         /\ ResetsAtTarget(t) => t.target < MaxCount /\ Period(t) = t.target + 1
         /\ ~ResetsAtTarget(t) => Period(t) = MaxCount + 1
  BY TimerFields, TimerWidth DEF Period, Span, ResetsAtTarget

LEMMA ElapsedIs ==
  ASSUME NEW t \in SystemTimers, NEW n \in Nat \ {0}
  PROVE  /\ Elapsed(t, n) \in Nat
         /\ Elapsed(t, n + 1) = Elapsed(t, n) + 1
         /\ CountAt(t, n) \in 0 .. Period(t) - 1
         /\ CountAt(t, n) \in 0 .. MaxCount
<1>1. Elapsed(t, n) \in Nat /\ Elapsed(t, n + 1) = Elapsed(t, n) + 1
  BY TimerFields, TimerWidth DEF Elapsed
<1>2. CountAt(t, n) \in 0 .. Period(t) - 1
  BY <1>1, PeriodIs, Division DEF CountAt
<1>3. Period(t) - 1 <= MaxCount /\ Period(t) \in Nat
  BY PeriodIs, TimerFields, TimerWidth
<1> QED BY <1>1, <1>2, <1>3, TimerWidth

LEMMA CountGoesOn ==
  ASSUME NEW t \in SystemTimers, NEW n \in Nat \ {0}
  PROVE  CountAt(t, n + 1) = NextCount(t, CountAt(t, n))
<1> DEFINE e == Elapsed(t, n)
           P == Period(t)
<1>1. e \in Nat /\ Elapsed(t, n + 1) = e + 1 /\ P \in Nat \ {0} /\ e % P \in 0 .. P - 1
  BY ElapsedIs, PeriodIs DEF CountAt
<1>2. (e + 1) % P = IF e % P = P - 1 THEN 0 ELSE (e % P) + 1
  BY <1>1, DivisionGoesOn
<1>3. CountAt(t, n) = e % P /\ CountAt(t, n + 1) = (e + 1) % P
  BY <1>1 DEF CountAt
<1>4. /\ ResetsAtTarget(t) => t.target < MaxCount /\ P = t.target + 1
      /\ ~ResetsAtTarget(t) => P = MaxCount + 1
  BY PeriodIs
<1>5. t.target \in 0 .. MaxCount /\ MaxCount \in Nat
  BY TimerFields, TimerWidth
<1> HIDE DEF e, P
<1> DEFINE m == e % P
<1>6. m \in 0 .. P - 1
  BY <1>1
<1> HIDE DEF m
<1>7. (IF m = P - 1 THEN 0 ELSE m + 1) = NextCount(t, m)
  BY <1>1, <1>4, <1>5, <1>6 DEF NextCount
<1> QED BY <1>2, <1>3, <1>7 DEF m

LEMMA CountBegins ==
  ASSUME NEW t \in SystemTimers
  PROVE  CountAt(t, 1) = NextCount(t, t.counter)
<1>1. t.target \in 0 .. MaxCount /\ t.counter \in 0 .. MaxCount /\ MaxCount \in Nat
  BY TimerFields, TimerWidth
<1>2. CASE ResetsAtTarget(t) /\ AtOrAbove(t)
  <2>1. Elapsed(t, 1) = 0 /\ Period(t) \in Nat \ {0} /\ 0 \in 0 .. Period(t) - 1
    BY <1>2, PeriodIs DEF Elapsed
  <2>2. CountAt(t, 1) = 0
    BY <2>1, DivisionOfLess DEF CountAt
  <2> QED BY <1>2, <2>2 DEF NextCount, AtOrAbove
<1>3. CASE ~(ResetsAtTarget(t) /\ AtOrAbove(t)) /\ t.counter < Period(t) - 1
  <2>1. Elapsed(t, 1) = t.counter + 1 /\ Period(t) \in Nat \ {0} /\ t.counter + 1 \in 0 .. Period(t) - 1
    BY <1>1, <1>3, PeriodIs DEF Elapsed
  <2>2. CountAt(t, 1) = t.counter + 1
    BY <2>1, DivisionOfLess DEF CountAt
  <2>3. t.counter # MaxCount
    BY <1>1, <1>3, PeriodIs
  <2> QED BY <1>3, <2>2, <2>3 DEF NextCount, AtOrAbove
<1>4. CASE ~(ResetsAtTarget(t) /\ AtOrAbove(t)) /\ ~(t.counter < Period(t) - 1)
  <2>1. ~ResetsAtTarget(t) /\ t.counter = MaxCount /\ Period(t) = MaxCount + 1
    BY <1>1, <1>4, PeriodIs DEF AtOrAbove
  <2>2. Elapsed(t, 1) = 0 + Period(t) /\ Period(t) \in Nat \ {0} /\ 0 \in 0 .. Period(t) - 1
    BY <1>1, <2>1, PeriodIs DEF Elapsed
  <2>3. CountAt(t, 1) = 0
    BY <2>2, DivisionOfLess, DivisionOfMore DEF CountAt
  <2> QED BY <2>1, <2>3 DEF NextCount
<1> QED BY <1>2, <1>3, <1>4

\* The counter is at its target first after ToTarget(t) clocks, and at its maximum, if it does
\* not reset before, after ToMax(t).
LEMMA FirstTarget ==
  ASSUME NEW t \in SystemTimers, NEW n \in Nat \ {0}
  PROVE  /\ ToTarget(t) \in Nat \ {0}
         /\ n = ToTarget(t) => CountAt(t, n) = t.target
         /\ CountAt(t, n) = t.target => n >= ToTarget(t)
<1>1. t.target \in 0 .. MaxCount /\ t.counter \in 0 .. MaxCount /\ MaxCount \in Nat
  BY TimerFields, TimerWidth
<1> DEFINE P == Period(t)
           e == Elapsed(t, n)
<1>2. P \in Nat \ {0} /\ e \in Nat /\ CountAt(t, n) = e % P
  BY PeriodIs, ElapsedIs DEF CountAt
<1>3. CASE t.target > t.counter
  <2>1. ToTarget(t) = t.target - t.counter /\ e = t.counter + n /\ t.target < P
    BY <1>1, <1>3, PeriodIs DEF ToTarget, ClocksUntilTarget, Elapsed, AtOrAbove
  <2> HIDE DEF P, e
  <2>2. ASSUME n <= ToTarget(t) PROVE CountAt(t, n) = t.counter + n
    <3>1. e \in 0 .. P - 1
      BY <1>1, <1>2, <2>1, <2>2
    <3> QED BY <1>2, <2>1, <3>1, DivisionOfLess
  <2> QED BY <1>1, <1>3, <2>1, <2>2
<1>4. CASE t.target <= t.counter /\ ResetsAtTarget(t)
  <2>1. ToTarget(t) = t.target + 1 /\ e = n - 1 /\ P = t.target + 1
    BY <1>1, <1>4, PeriodIs DEF ToTarget, ClocksUntilTarget, Elapsed, AtOrAbove,
       ResetsAtTarget
  <2> HIDE DEF P, e
  <2>2. ASSUME n <= ToTarget(t) PROVE CountAt(t, n) = n - 1
    <3>1. e \in 0 .. P - 1
      BY <1>1, <1>2, <2>1, <2>2
    <3> QED BY <1>2, <2>1, <3>1, DivisionOfLess
  <2> QED BY <1>1, <1>4, <2>1, <2>2
<1>5. CASE t.target <= t.counter /\ ~ResetsAtTarget(t)
  <2>1. ToTarget(t) = (MaxCount + 1) - (t.counter - t.target) /\ e = t.counter + n /\ P = MaxCount + 1
    <3>1. t.reset_at_target => t.target = MaxCount
      BY <1>5 DEF ResetsAtTarget
    <3>2. e = t.counter + n /\ P = MaxCount + 1 /\ Span = MaxCount + 1
      BY <1>5, PeriodIs DEF Elapsed
    <3>3. ~(t.target > t.counter)
      BY <1>1, <1>5
    <3>4. CASE t.reset_at_target
      BY <1>1, <1>5, <3>1, <3>2, <3>3, <3>4 DEF ToTarget, ClocksUntilTarget
    <3>5. CASE ~t.reset_at_target
      BY <1>1, <1>5, <3>2, <3>3, <3>5 DEF ToTarget, ClocksUntilTarget
    <3> QED BY <3>2, <3>4, <3>5
  <2> HIDE DEF P, e
  <2>2. CASE e < P
    <3>1. CountAt(t, n) = e
      BY <1>2, <2>2, DivisionOfLess
    <3> QED BY <1>1, <1>5, <2>1, <2>2, <3>1
  <2>3. CASE e >= P /\ n <= ToTarget(t)
    <3>1. e - P \in 0 .. P - 1 /\ e = (e - P) + P
      BY <1>1, <1>2, <1>5, <2>1, <2>3
    <3>2. CountAt(t, n) = e - P
      <4> DEFINE x == e - P
      <4>1. x \in 0 .. P - 1 /\ x \in Nat /\ e = x + P
        BY <1>2, <3>1
      <4> HIDE DEF x
      <4>2. e % P = x
        BY <1>2, <4>1, DivisionOfLess, DivisionOfMore
      <4> QED BY <1>2, <4>2 DEF x
    <3> QED BY <1>1, <1>2, <1>5, <2>1, <3>1, <3>2
  <2>4. CASE n > ToTarget(t)
    BY <1>1, <1>5, <2>1, <2>4
  <2> QED BY <1>1, <1>2, <2>1, <2>2, <2>3, <2>4
<1> QED BY <1>1, <1>3, <1>4, <1>5

LEMMA FirstMax ==
  ASSUME NEW t \in SystemTimers, NEW n \in Nat \ {0}
  PROVE  /\ ToMax(t) \in Nat \ {0}
         /\ MaxBy(t, n) /\ n = ToMax(t) => CountAt(t, n) = MaxCount
         /\ CountAt(t, n) = MaxCount => MaxBy(t, n)
<1>1. t.target \in 0 .. MaxCount /\ t.counter \in 0 .. MaxCount /\ MaxCount \in Nat /\ MaxCount > 0
  BY TimerFields, TimerWidth
<1> DEFINE P == Period(t)
           e == Elapsed(t, n)
<1>2. P \in Nat \ {0} /\ e \in Nat /\ CountAt(t, n) = e % P /\ e % P \in 0 .. P - 1
  BY PeriodIs, ElapsedIs DEF CountAt
<1>3. /\ ToMax(t) \in Nat \ {0}
      /\ ToMax(t) = IF t.counter = MaxCount THEN MaxCount + 1 ELSE MaxCount - t.counter
  BY <1>1 DEF ToMax, ClocksUntilMax, Span
<1>4. CASE ResetsAtTarget(t)
  <2>1. P < MaxCount + 1
    BY <1>1, <1>4, PeriodIs
  <2>2. CountAt(t, n) # MaxCount
    <3> HIDE DEF P, e
    <3> QED BY <1>1, <1>2, <2>1
  <2> QED BY <1>3, <1>4, <2>2 DEF MaxBy
<1>5. CASE ~ResetsAtTarget(t)
  <2>1. e = t.counter + n /\ P = MaxCount + 1
    BY <1>5, PeriodIs DEF Elapsed
  <2> HIDE DEF P, e
  <2>2. CASE e < P
    <3>0. e \in 0 .. P - 1
      BY <1>2, <2>2
    <3>1. CountAt(t, n) = e
      BY <1>2, <3>0, DivisionOfLess
    <3> QED BY <1>1, <1>3, <1>5, <2>1, <2>2, <3>1 DEF MaxBy
  <2>3. CASE e >= P /\ n <= ToMax(t)
    <3> DEFINE x == e - P
    <3>1. x \in 0 .. P - 1 /\ x \in Nat /\ e = x + P
      BY <1>1, <1>2, <1>3, <2>1, <2>3
    <3>2. t.counter = MaxCount /\ x = n - 1
      BY <1>1, <1>3, <2>1, <2>3
    <3> HIDE DEF x
    <3>3. e % P = x
      BY <1>2, <3>1, DivisionOfLess, DivisionOfMore
    <3> QED BY <1>1, <1>2, <1>3, <1>5, <2>1, <3>2, <3>3 DEF MaxBy
  <2>4. CASE n > ToMax(t)
    BY <1>3, <1>5, <2>4 DEF MaxBy
  <2> QED BY <1>1, <1>2, <1>3, <2>1, <2>2, <2>3, <2>4
<1> QED BY <1>4, <1>5

LEMMA ReachedBy ==
  ASSUME NEW t \in SystemTimers, NEW n \in Nat \ {0}
  PROVE  /\ TargetBy(t, n + 1) <=> TargetBy(t, n) \/ CountAt(t, n + 1) = t.target
         /\ MaxBy(t, n + 1) <=> MaxBy(t, n) \/ CountAt(t, n + 1) = MaxCount
         /\ TargetBy(t, 1) <=> CountAt(t, 1) = t.target
         /\ MaxBy(t, 1) <=> CountAt(t, 1) = MaxCount
<1>1. n + 1 \in Nat \ {0} /\ 1 \in Nat \ {0}
  OBVIOUS
<1>2. ToTarget(t) \in Nat \ {0} /\ ToMax(t) \in Nat \ {0}
  BY FirstTarget, FirstMax
<1>3. TargetBy(t, n + 1) <=> TargetBy(t, n) \/ CountAt(t, n + 1) = t.target
  BY <1>1, <1>2, FirstTarget DEF TargetBy
<1>4. TargetBy(t, 1) <=> CountAt(t, 1) = t.target
  BY <1>1, <1>2, FirstTarget DEF TargetBy
<1>5. MaxBy(t, n + 1) <=> MaxBy(t, n) \/ CountAt(t, n + 1) = MaxCount
  <2>1. MaxBy(t, n) => MaxBy(t, n + 1)
    BY <1>2 DEF MaxBy
  <2>2. MaxBy(t, n + 1) /\ ~MaxBy(t, n) => n + 1 = ToMax(t)
    BY <1>2 DEF MaxBy
  <2> QED BY <1>1, <2>1, <2>2, FirstMax
<1>6. MaxBy(t, 1) <=> CountAt(t, 1) = MaxCount
  <2>1. MaxBy(t, 1) => 1 = ToMax(t)
    BY <1>2 DEF MaxBy
  <2> QED BY <1>1, <2>1, FirstMax
<1> QED BY <1>3, <1>4, <1>5, <1>6

-----------------------------------------------------------------------------
\* How often the interrupt is triggered; once counts for many unless it toggles and repeats.
TogglesAtTarget(t) == Toggles(t) /\ ResetsAtTarget(t) /\ t.irq_at_target
TogglesAtMax(t) == Toggles(t) /\ ~ResetsAtTarget(t) /\ t.irq_at_max
HitBy(t, n) == (t.irq_at_target /\ TargetBy(t, n)) \/ (t.irq_at_max /\ MaxBy(t, n))
Turns(t, n) == (Elapsed(t, n) + 1) \div Period(t)

IrqsBy(t, n) ==
  IF TogglesAtTarget(t) THEN Turns(t, n)
  ELSE IF TogglesAtMax(t) THEN IF t.counter = MaxCount THEN Turns(t, n) - 1 ELSE Turns(t, n)
  ELSE IF HitBy(t, n) THEN 1 ELSE 0

Closed(t, n) ==
  After(t, CountAt(t, n), t.reached_target \/ TargetBy(t, n), t.reached_max \/ MaxBy(t, n), IrqsBy(t, n))

LEMMA TurnsGoOn ==
  ASSUME NEW t \in SystemTimers, NEW n \in Nat \ {0}
  PROVE  /\ Turns(t, n) \in Nat
         /\ Turns(t, n + 1) = IF CountAt(t, n + 1) = Period(t) - 1 THEN Turns(t, n) + 1 ELSE Turns(t, n)
<1> DEFINE e == Elapsed(t, n)
           P == Period(t)
<1>1. e \in Nat /\ Elapsed(t, n + 1) = e + 1 /\ P \in Nat \ {0} /\ e + 1 \in Nat
  BY ElapsedIs, PeriodIs
<1>2. CountAt(t, n + 1) = (e + 1) % P /\ Turns(t, n + 1) = ((e + 1) + 1) \div P
  BY <1>1, Zenon DEF CountAt, Turns
<1>3. Turns(t, n) = (e + 1) \div P
  BY DEF Turns
<1> HIDE DEF e, P
<1>4. (e + 1) \div P \in Nat
  BY <1>1, Division
<1>5. ((e + 1) + 1) \div P = IF (e + 1) % P = P - 1 THEN ((e + 1) \div P) + 1 ELSE (e + 1) \div P
  BY <1>1, DivisionGoesOn
<1> QED BY <1>2, <1>3, <1>4, <1>5 DEF P

\* Turns of one clock.
LEMMA TurnsBegin ==
  ASSUME NEW t \in SystemTimers
  PROVE  /\ ResetsAtTarget(t) => Turns(t, 1) = IF CountAt(t, 1) = t.target THEN 1 ELSE 0
         /\ ~ResetsAtTarget(t) => 
              Turns(t, 1) = IF t.counter = MaxCount \/ CountAt(t, 1) = MaxCount THEN 1 ELSE 0
<1> DEFINE P == Period(t)
           e == Elapsed(t, 1)
<1>1. t.target \in 0 .. MaxCount /\ t.counter \in 0 .. MaxCount /\ MaxCount \in Nat /\ MaxCount > 0
  BY TimerFields, TimerWidth
<1>2. /\ P \in Nat \ {0} /\ e \in Nat /\ Turns(t, 1) = (e + 1) \div P /\ CountAt(t, 1) = e % P
      /\ ResetsAtTarget(t) => t.target < MaxCount /\ P = t.target + 1
      /\ ~ResetsAtTarget(t) => P = MaxCount + 1
  BY PeriodIs, ElapsedIs DEF Turns, CountAt
<1>3. /\ ResetsAtTarget(t) => e <= t.target
      /\ ~ResetsAtTarget(t) => e = t.counter + 1
  BY <1>1 DEF Elapsed, AtOrAbove
<1> HIDE DEF P, e
<1>4. CASE e = P
  <2>1. e + 1 = 1 + P /\ 0 + P = P /\ 0 \in 0 .. P - 1 /\ 1 \in Nat
    BY <1>2, <1>4
  <2>2. e % P = 0
    BY <1>2, <1>4, <2>1, DivisionOfLess, DivisionOfMore
  <2>3. ~ResetsAtTarget(t) /\ t.counter = MaxCount /\ P > 1
    BY <1>1, <1>2, <1>3, <1>4
  <2>4. (e + 1) \div P = 1
    <3>1. 1 \in 0 .. P - 1
      BY <1>2, <2>3
    <3>2. 1 \div P = 0
      BY <1>2, <3>1, DivisionOfLess
    <3>3. (1 + P) \div P = (1 \div P) + 1
      BY <1>2, DivisionOfMore
    <3> QED BY <2>1, <3>2, <3>3
  <2> QED BY <1>2, <2>3, <2>4
<1>5. CASE e = P - 1
  <2>1. e + 1 = 0 + P /\ 0 \in 0 .. P - 1 /\ e \in 0 .. P - 1
    BY <1>2, <1>5
  <2>2. e % P = e /\ 0 \div P = 0
    BY <1>2, <2>1, DivisionOfLess
  <2>3. (0 + P) \div P = (0 \div P) + 1
    BY <1>2, DivisionOfMore
  <2>4. (e + 1) \div P = 1
    BY <2>1, <2>2, <2>3
  <2> QED BY <1>1, <1>2, <1>3, <1>5, <2>2, <2>4
<1>6. CASE e < P - 1
  <2>1. e + 1 \in 0 .. P - 1 /\ e \in 0 .. P - 1
    BY <1>2, <1>6
  <2>2. e % P = e /\ (e + 1) \div P = 0
    BY <1>2, <2>1, DivisionOfLess
  <2> QED BY <1>1, <1>2, <1>3, <1>6, <2>2
<1> QED BY <1>1, <1>2, <1>3, <1>4, <1>5, <1>6

LEMMA TurnsMade ==
  ASSUME NEW t \in SystemTimers, ~ResetsAtTarget(t), t.counter = MaxCount,
         NEW n \in Nat \ {0}
  PROVE  Turns(t, n) - 1 \in Nat
<1> DEFINE x == (t.counter + n) - MaxCount
           P == Period(t)
<1>1. MaxCount \in Nat /\ P = MaxCount + 1 /\ Elapsed(t, n) + 1 = n + P /\ P \in Nat \ {0}
  BY TimerWidth, PeriodIs DEF Elapsed
<1>2. Turns(t, n) = (n + P) \div P
  BY <1>1 DEF Turns
<1> HIDE DEF P
<1>3. (n + P) \div P = (n \div P) + 1 /\ n \div P \in Nat
  BY <1>1, DivisionOfMore, Division
<1> DEFINE d == n \div P
<1> HIDE DEF d
<1>4. Turns(t, n) = d + 1 /\ d \in Nat
  BY <1>2, <1>3 DEF d
<1> QED BY <1>4

LEMMA IrqsAreNumber ==
  ASSUME NEW t \in SystemTimers, NEW n \in Nat \ {0}
  PROVE  IrqsBy(t, n) \in Nat
<1>1. Turns(t, n) \in Nat
  BY TurnsGoOn
<1>2. TogglesAtMax(t) /\ t.counter = MaxCount => Turns(t, n) - 1 \in Nat
  BY TurnsMade DEF TogglesAtMax
<1> QED BY <1>1, <1>2 DEF IrqsBy

LEMMA ClosedIsTimer ==
  ASSUME NEW t \in SystemTimers, NEW n \in Nat \ {0}
  PROVE  Closed(t, n) \in SystemTimers
<1>1. CountAt(t, n) \in 0 .. MaxCount
  BY ElapsedIs
<1>2. (t.reached_target \/ TargetBy(t, n)) \in BOOLEAN /\ (t.reached_max \/ MaxBy(t, n)) \in BOOLEAN
  OBVIOUS
<1> QED BY <1>1, <1>2, AfterIsTimer DEF Closed

\* The interrupt of t that the clock after n triggers, or the first one.
LEMMA IrqsGoOn ==
  ASSUME NEW t, Regular(t), NEW n \in Nat \ {0}, NEW c, NEW rt, NEW rm, NEW d, d = CountAt(t, n + 1),
         NEW k, k = IF Hits(t, d) THEN IrqsBy(t, n) + 1 ELSE IrqsBy(t, n)
  PROVE  After(t, c, rt, rm, k) = After(t, c, rt, rm, IrqsBy(t, n + 1))
<1>0. t \in SystemTimers /\ n + 1 \in Nat \ {0} /\ t.target \in 0 .. MaxCount /\ MaxCount \in Nat
  BY TimerFields, TimerWidth DEF Regular
<1>1. CASE TogglesAtTarget(t)
  <2>1. Period(t) - 1 = t.target /\ d # MaxCount
    <3>1. Period(t) = t.target + 1 /\ t.target < MaxCount /\ d \in 0 .. Period(t) - 1
      BY <1>0, <1>1, PeriodIs, ElapsedIs DEF TogglesAtTarget
    <3> QED BY <1>0, <3>1
  <2>2. IrqsBy(t, n + 1) = k
    BY <1>0, <1>1, <2>1, TurnsGoOn DEF IrqsBy, Hits, TogglesAtTarget
  <2> QED BY <2>2
<1>2. CASE TogglesAtMax(t)
  <2>1. Period(t) - 1 = MaxCount /\ ~t.irq_at_target /\ t.irq_at_max /\ ~TogglesAtTarget(t)
    BY <1>0, <1>2, PeriodIs DEF TogglesAtMax, Regular, TogglesAtTarget
  <2>2. IrqsBy(t, n + 1) = k
    BY <1>0, <1>2, <2>1, TurnsGoOn DEF IrqsBy, Hits
  <2> QED BY <2>2
<1>3. CASE ~TogglesAtTarget(t) /\ ~TogglesAtMax(t)
  <2>1. HitBy(t, n + 1) <=> HitBy(t, n) \/ Hits(t, d)
    <3>1. /\ TargetBy(t, n + 1) <=> TargetBy(t, n) \/ d = t.target
          /\ MaxBy(t, n + 1) <=> MaxBy(t, n) \/ d = MaxCount
      BY <1>0, ReachedBy
    <3> QED BY <3>1 DEF HitBy, Hits
  <2>2. /\ IrqsBy(t, n + 1) = IF HitBy(t, n + 1) THEN 1 ELSE 0
        /\ IrqsBy(t, n) = IF HitBy(t, n) THEN 1 ELSE 0
    BY <1>3 DEF IrqsBy
  <2>3. CASE HitBy(t, n + 1)
    <3>1. k \in Nat \ {0} /\ IrqsBy(t, n + 1) \in Nat \ {0}
      BY <2>1, <2>2, <2>3
    <3>2. CASE Toggles(t)
      <4>1. ~HitBy(t, n + 1)
        <5>1. MaxCount \in Nat /\ t.target <= MaxCount
          BY <1>0
        <5> QED BY <1>0, <1>3, <3>2 DEF HitBy, TogglesAtTarget, TogglesAtMax, Regular, MaxBy
      <4> QED BY <2>3, <4>1
    <3>3. CASE ~Toggles(t)
      BY <3>1, <3>3, OnceIsEnough
    <3> QED BY <3>2, <3>3
  <2>4. CASE ~HitBy(t, n + 1)
    <3>1. k = IrqsBy(t, n + 1)
      BY <2>1, <2>2, <2>4
    <3> QED BY <3>1
  <2> QED BY <2>3, <2>4
<1> QED BY <1>1, <1>2, <1>3

LEMMA IrqsBegin ==
  ASSUME NEW t, Regular(t)
  PROVE  IrqsBy(t, 1) = IF Hits(t, CountAt(t, 1)) THEN 1 ELSE 0
<1>0. t \in SystemTimers /\ 1 \in Nat \ {0} /\ t.target \in 0 .. MaxCount /\ MaxCount \in Nat
  BY TimerFields, TimerWidth DEF Regular
<1>1. CASE TogglesAtTarget(t)
  <2>1. CountAt(t, 1) # MaxCount
    <3>1. Period(t) = t.target + 1 /\ t.target < MaxCount /\ CountAt(t, 1) \in 0 .. Period(t) - 1
      BY <1>0, <1>1, PeriodIs, ElapsedIs DEF TogglesAtTarget
    <3> QED BY <1>0, <3>1
  <2> QED BY <1>0, <1>1, <2>1, TurnsBegin DEF IrqsBy, Hits, TogglesAtTarget
<1>2. CASE TogglesAtMax(t)
  <2>1. ~t.irq_at_target /\ t.irq_at_max /\ ~TogglesAtTarget(t) /\ ~ResetsAtTarget(t)
    BY <1>0, <1>2 DEF TogglesAtMax, Regular, TogglesAtTarget
  <2>2. t.counter = MaxCount => CountAt(t, 1) # MaxCount
    <3>1. CountAt(t, 1) = NextCount(t, t.counter) /\ MaxCount > 0
      BY <1>0, CountBegins, TimerWidth
    <3> QED BY <1>0, <3>1 DEF NextCount
  <2> QED BY <1>0, <1>2, <2>1, <2>2, TurnsBegin DEF IrqsBy, Hits
<1>3. CASE ~TogglesAtTarget(t) /\ ~TogglesAtMax(t)
  BY <1>0, <1>3, ReachedBy DEF IrqsBy, HitBy, Hits
<1> QED BY <1>1, <1>2, <1>3

LEMMA ClosedGoesOn ==
  ASSUME NEW t, Regular(t), NEW n \in Nat \ {0}
  PROVE  CountOne(Closed(t, n)) = Closed(t, n + 1)
<1>0. t \in SystemTimers /\ n + 1 \in Nat \ {0}
  BY DEF Regular
<1> DEFINE c == CountAt(t, n)
           d == CountAt(t, n + 1)
           rt == t.reached_target \/ TargetBy(t, n)
           rm == t.reached_max \/ MaxBy(t, n)
           st == t.reached_target \/ TargetBy(t, n + 1)
           sm == t.reached_max \/ MaxBy(t, n + 1)
           k == IrqsBy(t, n)
           j == IF Hits(t, d) THEN k + 1 ELSE k
<1>1. d = NextCount(t, c) /\ k \in Nat
  BY <1>0, CountGoesOn, IrqsAreNumber
<1>2. st = (rt \/ d = t.target) /\ sm = (rm \/ d = MaxCount)
  BY <1>0, ReachedBy
<1>3. Closed(t, n) = After(t, c, rt, rm, k) /\ Closed(t, n + 1) = After(t, d, st, sm, IrqsBy(t, n + 1))
  BY DEF Closed
<1>4. After(t, d, st, sm, j) = After(t, d, st, sm, IrqsBy(t, n + 1))
  <2> HIDE DEF k, st, sm
  <2>1. d = CountAt(t, n + 1) /\ j = IF Hits(t, d) THEN IrqsBy(t, n) + 1 ELSE IrqsBy(t, n)
    BY DEF k
  <2> HIDE DEF d, j
  <2> QED BY <2>1, IrqsGoOn
<1> HIDE DEF c, d, rt, rm, st, sm, k
<1>5. j = IF Hits(t, d) THEN k + 1 ELSE k
  OBVIOUS
<1> HIDE DEF j
<1>6. CountOne(After(t, c, rt, rm, k)) = After(t, d, st, sm, j)
  BY <1>0, <1>1, <1>2, <1>5, CountOneAfter
<1> QED BY <1>3, <1>4, <1>6

LEMMA ClosedBegins ==
  ASSUME NEW t, Regular(t)
  PROVE  CountOne(t) = Closed(t, 1)
<1>0. t \in SystemTimers /\ 1 \in Nat \ {0} /\ 0 \in Nat
  BY DEF Regular
<1> DEFINE d == CountAt(t, 1)
           st == t.reached_target \/ TargetBy(t, 1)
           sm == t.reached_max \/ MaxBy(t, 1)
           j == IrqsBy(t, 1)
<1>1. d = NextCount(t, t.counter) /\ j = IF Hits(t, d) THEN 0 + 1 ELSE 0
  BY <1>0, CountBegins, IrqsBegin
<1>2. st = (t.reached_target \/ d = t.target) /\ sm = (t.reached_max \/ d = MaxCount)
  BY <1>0, ReachedBy
<1>3. Closed(t, 1) = After(t, d, st, sm, j)
  BY DEF Closed
<1>4. t = After(t, t.counter, t.reached_target, t.reached_max, 0)
  BY <1>0, AfterNothing
<1> HIDE DEF d, st, sm, j
<1>5. CountOne(After(t, t.counter, t.reached_target, t.reached_max, 0)) = After(t, d, st, sm, j)
  BY <1>0, <1>1, <1>2, CountOneAfter
<1> QED BY <1>3, <1>4, <1>5

-----------------------------------------------------------------------------
\* Counted one by one.
CountRun(f, t, n) == f = [k \in 0 .. n |-> IF k = 0 THEN t ELSE CountOne(f[k - 1])]
ClosedFrom(t, n) == IF n = 0 THEN t ELSE Closed(t, n)

LEMMA ClosedSteps ==
  ASSUME NEW t, Regular(t), NEW k \in Nat \ {0}
  PROVE  ClosedFrom(t, k) = CountOne(ClosedFrom(t, k - 1))
<1>1. CASE k = 1
  BY <1>1, ClosedBegins DEF ClosedFrom
<1>2. CASE k # 1
  <2>1. k - 1 \in Nat \ {0} /\ (k - 1) + 1 = k
    BY <1>2
  <2>2. CountOne(Closed(t, k - 1)) = Closed(t, (k - 1) + 1)
    BY <2>1, ClosedGoesOn
  <2> QED BY <2>1, <2>2 DEF ClosedFrom
<1> QED BY <1>1, <1>2

LEMMA CountRunIs ==
  ASSUME NEW t, Regular(t), NEW n \in Nat, NEW f, CountRun(f, t, n)
  PROVE  \A k \in 0 .. n : f[k] = ClosedFrom(t, k)
<1> DEFINE Bad == {k \in 0 .. n : f[k] # ClosedFrom(t, k)}
<1>1. SUFFICES ASSUME Bad # {} PROVE FALSE
  OBVIOUS
<1>2. PICK k \in Bad : \A i \in Bad : ~(<<i, k>> \in OpToRel(<, Nat))
  <2>1. Bad \subseteq Nat
    OBVIOUS
  <2> QED BY <1>1, <2>1, NatLessThanWellFounded, WFMin
<1>3. k \in 0 .. n /\ f[k] # ClosedFrom(t, k)
  OBVIOUS
<1>4. CASE k = 0
  <2>1. f[0] = t
    BY DEF CountRun
  <2> QED BY <1>3, <1>4, <2>1 DEF ClosedFrom
<1>5. CASE k # 0
  <2>1. k - 1 \in 0 .. n /\ k - 1 \in Nat /\ k \in Nat \ {0} /\ k - 1 < k
    BY <1>3, <1>5
  <2>2. k - 1 \notin Bad
    BY <1>2, <2>1 DEF OpToRel
  <2>3. f[k - 1] = ClosedFrom(t, k - 1)
    BY <2>1, <2>2
  <2>4. f[k] = CountOne(f[k - 1])
    BY <1>3, <1>5 DEF CountRun
  <2> QED BY <1>3, <2>1, <2>3, <2>4, ClosedSteps
<1> QED BY <1>4, <1>5

LEMMA CountIsClosed ==
  ASSUME NEW t, Regular(t), NEW n \in Nat \ {0}
  PROVE  Count(t, n) = Closed(t, n)
<1> DEFINE g == [k \in 0 .. n |-> ClosedFrom(t, k)]
           f == CHOOSE h : CountRun(h, t, n)
<1>1. CountRun(g, t, n)
  <2>1. ASSUME NEW k \in 0 .. n
        PROVE  g[k] = IF k = 0 THEN t ELSE CountOne(g[k - 1])
    <3>1. CASE k = 0
      BY <3>1 DEF ClosedFrom
    <3>2. CASE k # 0
      <4>1. k - 1 \in 0 .. n /\ k \in Nat \ {0}
        BY <3>2
      <4>2. g[k] = ClosedFrom(t, k) /\ g[k - 1] = ClosedFrom(t, k - 1)
        BY <4>1
      <4> HIDE DEF g
      <4> QED BY <3>2, <4>1, <4>2, ClosedSteps
    <3> QED BY <3>1, <3>2
  <2>2. g = [k \in 0 .. n |-> g[k]]
    OBVIOUS
  <2> HIDE DEF g
  <2> QED BY <2>1, <2>2 DEF CountRun
<1>2. CountRun(f, t, n)
  BY <1>1
<1>3. Count(t, n) = f[n]
  BY DEF Count, CountRun
<1>4. n \in 0 .. n /\ n \in Nat
  OBVIOUS
<1> HIDE DEF f
<1>5. f[n] = ClosedFrom(t, n)
  BY <1>2, <1>4, CountRunIs
<1> QED BY <1>3, <1>5 DEF ClosedFrom

-----------------------------------------------------------------------------
\* The methods for a counter that resets at its target.
Moved(r, c) == [r EXCEPT !.counter = c]
Reached(r, c) == [r EXCEPT !.reached_target = TRUE, !.counter = c]
LeftOf(t, n) == ClocksAfterRestart(t, n)
PastTarget(t, n) == LeftOf(t, n) - (t.target - Restarted(t).counter)

LEMMA MovedIsLike ==
  ASSUME NEW t, NEW r, Like(r, t), NEW c, NEW u, u = Moved(r, c)
  PROVE  Like(u, t) /\ u.counter = c /\ u.reached_target = r.reached_target
         /\ u.reached_max = r.reached_max
<1>1. HasTimerNames(u)
  BY DEF Like, HasTimerNames, Moved
<1> QED BY <1>1 DEF Like, HasTimerNames, TimerNames, Moved

LEMMA ReachedIsLike ==
  ASSUME NEW t, NEW r, Like(r, t), NEW c, NEW u, u = Reached(r, c)
  PROVE  Like(u, t) /\ u.reached_max = r.reached_max /\ u.counter = c
<1>1. HasTimerNames(u)
  BY DEF Like, HasTimerNames, Reached
<1> QED BY <1>1 DEF Like, HasTimerNames, TimerNames, Reached

LEMMA ReachedIsReached ==
  ASSUME NEW t, NEW r, Like(r, t), NEW c, NEW u, u = Reached(r, c)
  PROVE  u.reached_target = TRUE
  BY DEF Like, HasTimerNames, TimerNames, Reached

LEMMA RestartedIsLike ==
  ASSUME NEW t \in SystemTimers, NEW r, r = Restarted(t)
  PROVE  /\ Like(r, t) /\ r.reached_target = t.reached_target /\ r.reached_max = t.reached_max
         /\ r.counter = IF AtOrAbove(t) THEN 0 ELSE t.counter
<1>1. CASE AtOrAbove(t)
  <2>1. r = Moved(t, 0)
    BY <1>1 DEF Restarted, Moved
  <2> QED BY <1>1, <2>1, LikeItself, MovedIsLike
<1>2. CASE ~AtOrAbove(t)
  BY <1>2, LikeItself DEF Restarted
<1> QED BY <1>1, <1>2

LEMMA PastTargetIs ==
  ASSUME NEW t \in SystemTimers, ResetsAtTarget(t), NEW n \in Nat \ {0}
  PROVE  /\ PastTarget(t, n) = Elapsed(t, n) - t.target
         /\ Restarted(t).counter + LeftOf(t, n) = Elapsed(t, n)
         /\ PastTarget(t, n) >= 0 <=> TargetBy(t, n)
         /\ ~MaxBy(t, n)
<1>1. t.target \in 0 .. MaxCount /\ t.counter \in 0 .. MaxCount /\ MaxCount \in Nat
  BY TimerFields, TimerWidth
<1>2. Restarted(t).counter = IF AtOrAbove(t) THEN 0 ELSE t.counter
  BY RestartedIsLike
<1>3. ToTarget(t) = IF AtOrAbove(t) THEN t.target + 1 ELSE t.target - t.counter
  BY <1>1 DEF ToTarget, ClocksUntilTarget, AtOrAbove, ResetsAtTarget
<1>4. PastTarget(t, n) = Elapsed(t, n) - t.target /\ Restarted(t).counter + LeftOf(t, n) = Elapsed(t, n)
  BY <1>1, <1>2 DEF PastTarget, LeftOf, ClocksAfterRestart, Elapsed
<1>5. PastTarget(t, n) >= 0 <=> TargetBy(t, n)
  BY <1>1, <1>3, <1>4 DEF TargetBy, Elapsed
<1> QED BY <1>4, <1>5 DEF MaxBy

LEMMA BeforeTarget ==
  ASSUME NEW t \in SystemTimers, ResetsAtTarget(t), NEW n \in Nat \ {0},
         PastTarget(t, n) < 0
  PROVE  Moved(Restarted(t), Restarted(t).counter + LeftOf(t, n)) = Closed(t, n)
<1> DEFINE s == Restarted(t)
           u == Moved(s, s.counter + LeftOf(t, n))
<1>1. t.target \in 0 .. MaxCount /\ MaxCount \in Nat /\ Elapsed(t, n) \in Nat
      /\ Period(t) = t.target + 1 /\ Period(t) \in Nat \ {0}
  BY TimerFields, TimerWidth, ElapsedIs, PeriodIs
<1>2. /\ Elapsed(t, n) < t.target /\ s.counter + LeftOf(t, n) = Elapsed(t, n)
      /\ ~TargetBy(t, n) /\ ~MaxBy(t, n)
  BY <1>1, PastTargetIs
<1>3. CountAt(t, n) = Elapsed(t, n)
  <2>1. Elapsed(t, n) \in 0 .. Period(t) - 1
    BY <1>1, <1>2
  <2> QED BY <1>1, <2>1, DivisionOfLess DEF CountAt
<1>4. Like(s, t) /\ s.reached_target = t.reached_target /\ s.reached_max = t.reached_max
  BY RestartedIsLike
<1>5. /\ Like(u, t) /\ u.counter = CountAt(t, n) /\ u.reached_target = t.reached_target
      /\ u.reached_max = t.reached_max
  <2> HIDE DEF s
  <2> QED BY <1>2, <1>3, <1>4, MovedIsLike
<1>6. /\ t.reached_target = (t.reached_target \/ TargetBy(t, n))
      /\ t.reached_max = (t.reached_max \/ MaxBy(t, n))
  BY <1>2, TimerFields
<1>7. IrqsBy(t, n) = 0
  <2>1. TogglesAtTarget(t) => Turns(t, n) = 0
    <3>1. Elapsed(t, n) + 1 \in 0 .. Period(t) - 1
      BY <1>1, <1>2
    <3> QED BY <1>1, <3>1, DivisionOfLess DEF Turns
  <2> QED BY <1>2, <2>1 DEF IrqsBy, TogglesAtMax, HitBy
<1> HIDE DEF u
<1>8. u = After(t, CountAt(t, n), t.reached_target, t.reached_max, 0)
  BY <1>5, LikeIsAfter
<1> QED BY <1>6, <1>7, <1>8 DEF Closed, u

LEMMA FromTarget ==
  ASSUME NEW t \in SystemTimers, ResetsAtTarget(t), NEW n \in Nat \ {0},
         PastTarget(t, n) >= 0
  PROVE  /\ Reached(Restarted(t), (PastTarget(t, n) - 1) % (t.target + 1))
              = After(t, CountAt(t, n), t.reached_target \/ TargetBy(t, n),
                      t.reached_max \/ MaxBy(t, n), 0)
         /\ Turns(t, n) = 1 + (PastTarget(t, n) \div (t.target + 1))
         /\ TargetBy(t, n) /\ ~MaxBy(t, n)
<1> DEFINE s == Restarted(t)
           p == PastTarget(t, n)
           P == t.target + 1
           u == Reached(s, (p - 1) % P)
<1>1. t.target \in 0 .. MaxCount /\ MaxCount \in Nat /\ Elapsed(t, n) \in Nat
      /\ Period(t) = P /\ P \in Nat \ {0}
  BY TimerFields, TimerWidth, ElapsedIs, PeriodIs
<1>2. Elapsed(t, n) = p + t.target /\ p \in Nat /\ TargetBy(t, n) /\ ~MaxBy(t, n)
  BY <1>1, PastTargetIs
<1>3. CountAt(t, n) = (p - 1) % P
  <2>1. CASE p = 0
    <3>1. Elapsed(t, n) = t.target /\ t.target \in 0 .. P - 1
      BY <1>1, <1>2, <2>1
    <3>2. CountAt(t, n) = t.target
      BY <1>1, <3>1, DivisionOfLess DEF CountAt
    <3>3. (-1) % P = P - 1
      <4> HIDE DEF P
      <4> QED BY <1>1, SMTT(30)
    <3>4. p - 1 = -1
      BY <2>1
    <3> QED BY <1>1, <3>2, <3>3, <3>4
  <2>2. CASE p # 0
    <3> DEFINE x == p - 1
    <3>1. x \in Nat /\ Elapsed(t, n) = x + P
      BY <1>1, <1>2, <2>2
    <3> HIDE DEF x, P
    <3>2. (x + P) % P = x % P
      BY <1>1, <3>1, DivisionOfMore
    <3> QED BY <1>1, <3>1, <3>2 DEF CountAt, x
  <2> QED BY <2>1, <2>2
<1>4. Like(s, t) /\ s.reached_max = t.reached_max
  BY RestartedIsLike
<1>5. /\ Like(u, t) /\ u.counter = CountAt(t, n) /\ u.reached_max = t.reached_max
      /\ u.reached_target = TRUE
  <2> DEFINE x == (p - 1) % P
  <2>1. u = Reached(s, x) /\ CountAt(t, n) = x
    BY <1>3
  <2> HIDE DEF s, x, u
  <2>2. Like(u, t) /\ u.counter = x /\ u.reached_max = s.reached_max
    BY <1>4, <2>1, ReachedIsLike
  <2>3. u.reached_target = TRUE
    BY <1>4, <2>1, ReachedIsReached
  <2> QED BY <1>4, <2>1, <2>2, <2>3
<1>6. /\ (t.reached_target \/ TargetBy(t, n)) = TRUE
      /\ t.reached_max = (t.reached_max \/ MaxBy(t, n))
  BY <1>2, TimerFields
<1>7. Turns(t, n) = 1 + (p \div P)
  <2>1. Elapsed(t, n) + 1 = p + P
    BY <1>1, <1>2
  <2> HIDE DEF p, P
  <2>2. (p + P) \div P = (p \div P) + 1 /\ p \div P \in Nat
    BY <1>1, <1>2, DivisionOfMore, Division
  <2> QED BY <1>1, <2>1, <2>2 DEF Turns
<1>8. u = After(t, CountAt(t, n), t.reached_target \/ TargetBy(t, n), t.reached_max \/ MaxBy(t, n), 0)
  <2> DEFINE st == t.reached_target \/ TargetBy(t, n)
             sm == t.reached_max \/ MaxBy(t, n)
  <2>1. u.reached_target = st /\ u.reached_max = sm
    BY <1>5, <1>6
  <2> HIDE DEF u, st, sm
  <2>2. u = After(t, CountAt(t, n), st, sm, 0)
    <3>1. Like(u, t) /\ u.counter = CountAt(t, n)
      BY <1>5
    <3> QED BY <2>1, <3>1, LikeIsAfter
  <2> QED BY <2>2 DEF st, sm
<1> QED BY <1>2, <1>7, <1>8

LEMMA ResetAtTargetPulseIs ==
  ASSUME NEW t, Regular(t), ResetsAtTarget(t), ~TogglesAtTarget(t), NEW n \in Nat \ {0}
  PROVE  ResetAtTargetPulse(t, n) = Closed(t, n)
<1> DEFINE s == Restarted(t)
           a == After(t, CountAt(t, n), t.reached_target \/ TargetBy(t, n), t.reached_max \/ MaxBy(t, n), 0)
           u == Reached(s, (PastTarget(t, n) - 1) % (t.target + 1))
<1>0. t \in SystemTimers
  BY DEF Regular
<1>1. ResetAtTargetPulse(t, n) =
        IF PastTarget(t, n) < 0 THEN Moved(s, s.counter + LeftOf(t, n))
        ELSE TriggerIf(t.irq_at_target, u)
  BY Zenon DEF ResetAtTargetPulse, PastTarget, LeftOf, Moved, Reached
<1>2. CASE PastTarget(t, n) < 0
  BY <1>0, <1>1, <1>2, BeforeTarget
<1>3. CASE ~(PastTarget(t, n) < 0)
  <2>0. PastTarget(t, n) >= 0
    <3>1. t.target \in Int /\ Elapsed(t, n) \in Nat /\ PastTarget(t, n) = Elapsed(t, n) - t.target
      BY <1>0, TimerFields, TimerWidth, PastTargetIs, ElapsedIs
    <3> QED BY <1>3, <3>1
  <2>1. u = a /\ TargetBy(t, n) /\ ~MaxBy(t, n)
    BY <1>0, <2>0, FromTarget
  <2>2. IrqsBy(t, n) = IF t.irq_at_target THEN 1 ELSE 0
    BY <2>1 DEF IrqsBy, TogglesAtMax, HitBy
  <2>3. TriggerIrq(a) = After(t, CountAt(t, n), t.reached_target \/ TargetBy(t, n),
                                    t.reached_max \/ MaxBy(t, n), 0 + 1)
    BY <1>0, TriggerIsOneMore
  <2> HIDE DEF u, a
  <2>4. ResetAtTargetPulse(t, n) = IF t.irq_at_target THEN TriggerIrq(a) ELSE a
    BY <1>1, <1>3, <2>1 DEF TriggerIf
  <2> QED BY <2>2, <2>3, <2>4 DEF Closed, a
<1> QED BY <1>2, <1>3

LEMMA ResetAtTargetToggleIs ==
  ASSUME NEW t, Regular(t), TogglesAtTarget(t), NEW n \in Nat \ {0}
  PROVE  ResetAtTargetToggle(t, n) = Closed(t, n)
<1> DEFINE s == Restarted(t)
           a == After(t, CountAt(t, n), t.reached_target \/ TargetBy(t, n), t.reached_max \/ MaxBy(t, n), 0)
           u == Reached(s, (PastTarget(t, n) - 1) % (t.target + 1))
           more == 1 + (PastTarget(t, n) \div (t.target + 1))
<1>0. t \in SystemTimers /\ ResetsAtTarget(t)
  BY DEF Regular, TogglesAtTarget
<1>1. ResetAtTargetToggle(t, n) =
        IF PastTarget(t, n) < 0 THEN Moved(s, s.counter + LeftOf(t, n))
        ELSE TriggerTimes(more, u)
  BY Zenon DEF ResetAtTargetToggle, PastTarget, LeftOf, Moved, Reached
<1>2. CASE PastTarget(t, n) < 0
  BY <1>0, <1>1, <1>2, BeforeTarget
<1>3. CASE ~(PastTarget(t, n) < 0)
  <2>0. PastTarget(t, n) >= 0
    <3>1. t.target \in Int /\ Elapsed(t, n) \in Nat /\ PastTarget(t, n) = Elapsed(t, n) - t.target
      BY <1>0, TimerFields, TimerWidth, PastTargetIs, ElapsedIs
    <3> QED BY <1>3, <3>1
  <2>1. u = a /\ Turns(t, n) = more
    BY <1>0, <2>0, FromTarget
  <2>2. IrqsBy(t, n) = more /\ more \in Nat
    BY <1>0, <2>1, TurnsGoOn DEF IrqsBy
  <2> HIDE DEF u, more
  <2>3. TriggerTimes(more, a) = After(t, CountAt(t, n), t.reached_target \/ TargetBy(t, n),
                                            t.reached_max \/ MaxBy(t, n), 0 + more)
    BY <1>0, <2>2, TriggerTimesIsMore
  <2> HIDE DEF a
  <2>4. ResetAtTargetToggle(t, n) = TriggerTimes(more, a)
    BY <1>1, <1>3, <2>1
  <2>5. 0 + more = IrqsBy(t, n)
    BY <2>2
  <2> QED BY <2>3, <2>4, <2>5 DEF Closed
<1> QED BY <1>2, <1>3

-----------------------------------------------------------------------------
\* The methods for a counter that resets at its maximum.
MaxRecounted(m, c, rt, rm) == [m EXCEPT !.reached_max = rm, !.reached_target = rt, !.counter = c]
WithTarget(m, rt) == [m EXCEPT !.reached_target = rt]

LEMMA MaxRecountedAfter ==
  ASSUME NEW t, NEW c, NEW rt, NEW rm, NEW k, NEW d, NEW st, NEW sm
  PROVE  MaxRecounted(After(t, c, rt, rm, k), d, st, sm) = After(t, d, st, sm, k)
<1>1. \A m : MaxRecounted(m, d, st, sm) = Recounted(m, d, st, sm)
  BY DEF MaxRecounted, Recounted
<1> QED BY <1>1, RecountedAfter

LEMMA MovedAfter ==
  ASSUME NEW t, NEW c, NEW rt, NEW rm, NEW k, NEW d
  PROVE  Moved(After(t, c, rt, rm, k), d) = After(t, d, rt, rm, k)
<1> DEFINE m == After(t, c, rt, rm, k)
<1>1. HasTimerNames(m) /\ m.reached_target = rt /\ m.reached_max = rm
  BY MadeFields DEF After
<1> HIDE DEF m
<1>2. Moved(m, d) = Recounted(m, d, rt, rm)
  BY <1>1 DEF Moved, Recounted, HasTimerNames, TimerNames
<1> QED BY <1>2, RecountedAfter DEF m

LEMMA WithTargetAfter ==
  ASSUME NEW t, NEW c, NEW rt, NEW rm, NEW k, NEW st
  PROVE  WithTarget(After(t, c, rt, rm, k), st) = After(t, c, st, rm, k)
<1> DEFINE m == After(t, c, rt, rm, k)
<1>1. HasTimerNames(m) /\ m.counter = c /\ m.reached_max = rm
  BY MadeFields DEF After
<1> HIDE DEF m
<1>2. WithTarget(m, st) = Recounted(m, c, st, rm)
  BY <1>1 DEF WithTarget, Recounted, HasTimerNames, TimerNames
<1> QED BY <1>2, RecountedAfter DEF m

LEMMA AfterFields ==
  ASSUME NEW t, NEW c, NEW rt, NEW rm, NEW k, NEW m, m = After(t, c, rt, rm, k)
  PROVE  m.counter = c /\ m.reached_target = rt /\ m.reached_max = rm
  BY MadeFields DEF After

\* The clocks to the target, and the count, without resets at the target.
LEMMA ToTargetIs ==
  ASSUME NEW t \in SystemTimers, ~ResetsAtTarget(t)
  PROVE  /\ ToTarget(t) = IF t.target > t.counter THEN t.target - t.counter
                          ELSE (MaxCount + 1) - (t.counter - t.target)
         /\ ToMax(t) = IF t.counter = MaxCount THEN MaxCount + 1 ELSE MaxCount - t.counter
<1>1. t.target \in 0 .. MaxCount /\ t.counter \in 0 .. MaxCount /\ MaxCount \in Nat
  BY TimerFields, TimerWidth
<1>2. t.reset_at_target => t.target = MaxCount
  BY DEF ResetsAtTarget
<1>3. Span = MaxCount + 1
  BY DEF Span
<1>4. CASE t.target > t.counter
  BY <1>1, <1>3, <1>4 DEF ToTarget, ClocksUntilTarget, ToMax, ClocksUntilMax
<1>5. CASE ~(t.target > t.counter) /\ t.reset_at_target
  BY <1>1, <1>2, <1>3, <1>5 DEF ToTarget, ClocksUntilTarget, ToMax, ClocksUntilMax
<1>6. CASE ~(t.target > t.counter) /\ ~t.reset_at_target
  BY <1>1, <1>3, <1>6 DEF ToTarget, ClocksUntilTarget, ToMax, ClocksUntilMax
<1> QED BY <1>4, <1>5, <1>6

Wraps(t) == t.counter = MaxCount
Early(t) == Wraps(t) /\ t.target = 0
From(t) == IF Wraps(t) THEN 0 ELSE t.counter
LeftAfterWrap(t, n) == IF Wraps(t) THEN n - 1 ELSE n
LateTarget(t, n) ==
  LeftAfterWrap(t, n) >= IF t.target > From(t) THEN t.target - From(t)
                         ELSE Span - (From(t) - t.target)
LateMax(t, n) == LeftAfterWrap(t, n) >= MaxCount - From(t)

LEMMA PulseArithmetic ==
  ASSUME NEW t \in SystemTimers, ~ResetsAtTarget(t), NEW n \in Nat \ {0}
  PROVE  /\ TargetBy(t, n) <=> Early(t) \/ LateTarget(t, n)
         /\ MaxBy(t, n) <=> LateMax(t, n)
         /\ CountAt(t, n) = (From(t) + LeftAfterWrap(t, n)) % Span
<1>1. t.target \in 0 .. MaxCount /\ t.counter \in 0 .. MaxCount /\ MaxCount \in Nat /\ MaxCount > 0
  BY TimerFields, TimerWidth
<1>2. Span = MaxCount + 1 /\ Period(t) = Span /\ Elapsed(t, n) = t.counter + n
  BY PeriodIs DEF Elapsed
<1>3. TargetBy(t, n) <=> Early(t) \/ LateTarget(t, n)
  BY <1>1, <1>2, ToTargetIs DEF TargetBy, Early, LateTarget, Wraps, From, LeftAfterWrap
<1>4. MaxBy(t, n) <=> LateMax(t, n)
  BY <1>1, <1>2, ToTargetIs DEF MaxBy, LateMax, Wraps, From, LeftAfterWrap
<1>5. CountAt(t, n) = (From(t) + LeftAfterWrap(t, n)) % Span
  <2>1. CASE Wraps(t)
    <3> DEFINE x == n - 1
               S == MaxCount + 1
    <3>1. x \in Nat /\ S \in Nat \ {0} /\ t.counter + n = x + S
      BY <1>1, <2>1 DEF Wraps
    <3>2. From(t) + LeftAfterWrap(t, n) = x
      BY <3>1, <2>1 DEF From, LeftAfterWrap
    <3>3. CountAt(t, n) = (x + S) % S
      BY <1>2, <3>1 DEF CountAt
    <3>4. Span = S
      BY <1>2
    <3> HIDE DEF x, S
    <3>5. (x + S) % S = x % S
      BY <3>1, DivisionOfMore
    <3> QED BY <3>2, <3>3, <3>4, <3>5
  <2>2. CASE ~Wraps(t)
    BY <1>2, <2>2 DEF CountAt, From, LeftAfterWrap
  <2> QED BY <2>1, <2>2
<1> QED BY <1>3, <1>4, <1>5

LEMMA ResetAtMaxPulseIs ==
  ASSUME NEW t, Regular(t), ~ResetsAtTarget(t), ~TogglesAtMax(t), NEW n \in Nat \ {0}
  PROVE  ResetAtMaxPulse(t, n) = Closed(t, n)
<1> DEFINE start == IF Wraps(t) THEN Moved(t, 0) ELSE t
           s == IF Wraps(t) /\ t.target = 0
                THEN TriggerIf(t.irq_at_target, WithTarget(start, TRUE)) ELSE start
           left == LeftAfterWrap(t, n)
           max == left >= MaxCount - s.counter
           target == left >= IF t.target > s.counter THEN t.target - s.counter
                             ELSE Span - (s.counter - t.target)
           early == t.reached_target \/ Early(t)
           first == IF Early(t) /\ t.irq_at_target THEN 1 ELSE 0
           again == IF (t.irq_at_target /\ LateTarget(t, n)) \/ (t.irq_at_max /\ LateMax(t, n))
                    THEN first + 1 ELSE first
           st == t.reached_target \/ TargetBy(t, n)
           sm == t.reached_max \/ MaxBy(t, n)
<1>0. t \in SystemTimers /\ Span = MaxCount + 1
  BY PeriodIs DEF Regular
<1>1. ResetAtMaxPulse(t, n) =
        TriggerIf((t.irq_at_target /\ target) \/ (t.irq_at_max /\ max),
                        MaxRecounted(s, (s.counter + left) % Span,
                                     s.reached_target \/ target, s.reached_max \/ max))
  BY Zenon DEF ResetAtMaxPulse, MaxRecounted, WithTarget, Moved, Wraps, LeftAfterWrap
<1>2. start = After(t, From(t), t.reached_target, t.reached_max, 0)
  <2>1. t = After(t, t.counter, t.reached_target, t.reached_max, 0)
    BY <1>0, AfterNothing
  <2>2. Moved(After(t, t.counter, t.reached_target, t.reached_max, 0), 0)
          = After(t, 0, t.reached_target, t.reached_max, 0)
    BY MovedAfter
  <2> QED BY <2>1, <2>2 DEF From
<1>3. s = After(t, From(t), early, t.reached_max, first)
  <2> HIDE DEF start
  <2>1. CASE ~Early(t)
    <3>1. early = t.reached_target /\ first = 0
      BY <1>0, <2>1, TimerFields
    <3> QED BY <1>2, <2>1, <3>1 DEF Early
  <2>2. CASE Early(t)
    <3>1. early = TRUE
      BY <2>2
    <3> HIDE DEF early
    <3>2. WithTarget(start, early) = After(t, From(t), early, t.reached_max, 0)
      BY <1>2, WithTargetAfter
    <3>3. WithTarget(start, TRUE) = After(t, From(t), early, t.reached_max, 0)
      BY <3>1, <3>2, Zenon
    <3>4. TriggerIrq(After(t, From(t), early, t.reached_max, 0))
            = After(t, From(t), early, t.reached_max, 0 + 1)
      BY <1>0, TriggerIsOneMore
    <3>5. s = IF t.irq_at_target THEN TriggerIrq(WithTarget(start, TRUE))
              ELSE WithTarget(start, TRUE)
      BY <2>2 DEF Early, TriggerIf
    <3>6. CASE t.irq_at_target
      <4>1. s = TriggerIrq(WithTarget(start, TRUE))
        BY <3>5, <3>6
      <4>2. first = 0 + 1
        BY <2>2, <3>6
      <4> HIDE DEF s, first
      <4> QED BY <3>3, <3>4, <4>1, <4>2, Zenon
    <3>7. CASE ~t.irq_at_target
      <4>1. s = WithTarget(start, TRUE)
        BY <3>5, <3>7
      <4>2. first = 0
        BY <3>7
      <4> HIDE DEF s, first
      <4> QED BY <3>3, <4>1, <4>2, Zenon
    <3> QED BY <3>6, <3>7
  <2> QED BY <2>1, <2>2
<1>4. s.counter = From(t) /\ s.reached_target = early /\ s.reached_max = t.reached_max
  <2> HIDE DEF s, early, first
  <2> QED BY <1>3, AfterFields
<1> HIDE DEF s, start
<1>5. (target <=> LateTarget(t, n)) /\ (max <=> LateMax(t, n))
  BY <1>4 DEF LateTarget, LateMax
<1>6. (s.reached_target \/ target) = st /\ (s.reached_max \/ max) = sm
  <2> HIDE DEF target, max
  <2> QED BY <1>0, <1>4, <1>5, PulseArithmetic
<1>7. (s.counter + left) % Span = CountAt(t, n)
  BY <1>0, <1>4, PulseArithmetic
<1>8. MaxRecounted(s, CountAt(t, n), st, sm) = After(t, CountAt(t, n), st, sm, first)
  <2> HIDE DEF st, sm, first, early
  <2> QED BY <1>3, MaxRecountedAfter
<1>9. TriggerIrq(After(t, CountAt(t, n), st, sm, first)) = After(t, CountAt(t, n), st, sm, first + 1)
  <2>1. first \in Nat
    OBVIOUS
  <2> HIDE DEF st, sm, first
  <2> QED BY <1>0, <2>1, TriggerIsOneMore
<1>10. ResetAtMaxPulse(t, n) = After(t, CountAt(t, n), st, sm, again)
  <2>1. (t.irq_at_target /\ target) \/ (t.irq_at_max /\ max)
          <=> (t.irq_at_target /\ LateTarget(t, n)) \/ (t.irq_at_max /\ LateMax(t, n))
    BY <1>5
  <2> DEFINE fires == (t.irq_at_target /\ target) \/ (t.irq_at_max /\ max)
  <2>2. again = IF fires THEN first + 1 ELSE first
    BY <2>1
  <2>3. ResetAtMaxPulse(t, n) =
          TriggerIf(fires, MaxRecounted(s, CountAt(t, n), st, sm))
    <3> HIDE DEF target, max, st, sm
    <3> QED BY <1>1, <1>6, <1>7, Zenon
  <2> HIDE DEF fires, again, st, sm, first, target, max
  <2>4. CASE fires
    BY <1>8, <1>9, <2>2, <2>3, <2>4 DEF TriggerIf
  <2>5. CASE ~fires
    BY <1>8, <2>2, <2>3, <2>5 DEF TriggerIf
  <2> QED BY <2>4, <2>5
<1>11. IrqsBy(t, n) = IF HitBy(t, n) THEN 1 ELSE 0
  BY DEF IrqsBy, TogglesAtTarget
<1>12. again > 0 <=> HitBy(t, n)
  BY <1>0, PulseArithmetic DEF HitBy
<1>13. again \in Nat
  OBVIOUS
<1>14. After(t, CountAt(t, n), st, sm, again) = After(t, CountAt(t, n), st, sm, IrqsBy(t, n))
  <2> HIDE DEF again, st, sm
  <2>1. CASE HitBy(t, n)
    <3>1. again \in Nat \ {0} /\ IrqsBy(t, n) \in Nat \ {0}
      BY <1>11, <1>12, <1>13, <2>1
    <3>2. ~Toggles(t)
      BY <2>1 DEF HitBy, Regular, TogglesAtMax
    <3> QED BY <3>1, <3>2, OnceIsEnough
  <2>2. CASE ~HitBy(t, n)
    <3>1. again = IrqsBy(t, n)
      BY <1>11, <1>12, <1>13, <2>2
    <3> QED BY <3>1
  <2> QED BY <2>1, <2>2
<1> QED BY <1>10, <1>14 DEF Closed

-----------------------------------------------------------------------------
\* The toggling method raises only the interrupt at the maximum of a regular timer.
LEMMA ToggleIsAtMax ==
  ASSUME NEW t, Regular(t), TogglesAtMax(t)
  PROVE  /\ t \in SystemTimers /\ ~ResetsAtTarget(t) /\ t.irq_at_target = FALSE
         /\ t.irq_at_max = TRUE /\ ~TogglesAtTarget(t) /\ ~TargetIrqsEnabled(t)
<1>1. t \in SystemTimers /\ ~ResetsAtTarget(t) /\ ~t.irq_at_target /\ t.irq_at_max
  BY DEF Regular, TogglesAtMax
<1> QED BY <1>1, TimerFields DEF TogglesAtTarget, TargetIrqsEnabled

LEMMA BelowMaxIs ==
  ASSUME NEW t, Regular(t), TogglesAtMax(t), NEW n \in Nat \ {0}, n < MaxCount - t.counter
  PROVE  BelowMaxToggle(t, n) = Closed(t, n)
<1> DEFINE reached == t.target > t.counter /\ n >= t.target - t.counter
           st == t.reached_target \/ TargetBy(t, n)
           sm == t.reached_max \/ MaxBy(t, n)
           u == [t EXCEPT !.reached_target = t.reached_target \/ reached, !.counter = t.counter + n]
<1>0. /\ t \in SystemTimers /\ ~ResetsAtTarget(t) /\ ~TogglesAtTarget(t)
      /\ ~TargetIrqsEnabled(t)
      /\ t.target \in 0 .. MaxCount /\ t.counter \in 0 .. MaxCount /\ MaxCount \in Nat
  BY ToggleIsAtMax, TimerFields, TimerWidth
<1>1. /\ reached <=> TargetBy(t, n)
      /\ ~MaxBy(t, n)
  BY <1>0, ToTargetIs DEF TargetBy, MaxBy
<1>2. CountAt(t, n) = t.counter + n /\ Turns(t, n) = 0 /\ t.counter # MaxCount
  <2>1. Period(t) = MaxCount + 1 /\ Period(t) \in Nat \ {0} /\ Elapsed(t, n) = t.counter + n
    BY <1>0, PeriodIs DEF Elapsed
  <2>2. t.counter + n \in 0 .. Period(t) - 1 /\ (t.counter + n) + 1 \in 0 .. Period(t) - 1
    BY <1>0, <2>1
  <2>3. CountAt(t, n) = t.counter + n /\ Turns(t, n) = 0
    BY <2>1, <2>2, DivisionOfLess DEF CountAt, Turns
  <2> QED BY <1>0, <2>3
<1>3. IrqsBy(t, n) = 0
  BY <1>0, <1>2 DEF IrqsBy
<1>4. BelowMaxToggle(t, n) = u
  BY <1>0, Zenon DEF BelowMaxToggle, TriggerIf
<1>5. (t.reached_target \/ reached) = st /\ t.reached_max = sm
  BY <1>0, <1>1, TimerFields
<1>6. u = Recounted(t, CountAt(t, n), st, sm)
  <2> HIDE DEF reached, st, sm
  <2>1. HasTimerNames(t)
    BY <1>0, LikeItself DEF Like
  <2>2. u = [t EXCEPT !.reached_target = st, !.counter = CountAt(t, n)]
    BY <1>2, <1>5, Zenon
  <2> HIDE DEF u
  <2> QED BY <1>5, <2>1, <2>2 DEF HasTimerNames, TimerNames, Recounted
<1>7. t = After(t, t.counter, t.reached_target, t.reached_max, 0)
  BY <1>0, AfterNothing
<1>8. Recounted(After(t, t.counter, t.reached_target, t.reached_max, 0), CountAt(t, n), st, sm)
        = After(t, CountAt(t, n), st, sm, 0)
  <2> HIDE DEF st, sm
  <2> QED BY RecountedAfter
<1> HIDE DEF u
<1> QED BY <1>3, <1>4, <1>6, <1>7, <1>8 DEF Closed

Over(t, n) == n - (MaxCount - t.counter)

LEMMA PastMaxArithmetic ==
  ASSUME NEW t \in SystemTimers, ~ResetsAtTarget(t), NEW n \in Nat \ {0},
         ~(n < MaxCount - t.counter)
  PROVE  /\ Over(t, n) \in Nat
         /\ Over(t, n) % Span = IF CountAt(t, n) = MaxCount THEN 0 ELSE CountAt(t, n) + 1
         /\ Turns(t, n) = (Over(t, n) \div Span) + 1
         /\ CountAt(t, n) \in 0 .. MaxCount
         /\ TargetBy(t, n) <=> \/ t.target > t.counter
                               \/ Over(t, n) \div Span > 0
                               \/ Over(t, n) % Span # 0 /\ t.target <= (Over(t, n) % Span) - 1
<1> DEFINE x == Over(t, n)
           S == Span
<1>1. t.target \in 0 .. MaxCount /\ t.counter \in 0 .. MaxCount /\ MaxCount \in Nat /\ S = MaxCount + 1
  BY TimerFields, TimerWidth, PeriodIs
<1>2. x \in Nat /\ S \in Nat \ {0} /\ n = x + (MaxCount - t.counter)
  BY <1>1 DEF Over
<1>3. Elapsed(t, n) = x + MaxCount /\ Period(t) = S /\ Elapsed(t, n) + 1 = x + S
  BY <1>1, <1>2, PeriodIs DEF Elapsed
<1>4. CountAt(t, n) = (x + MaxCount) % S /\ Turns(t, n) = (x + S) \div S
  BY <1>3 DEF CountAt, Turns
<1> DEFINE m == x % S
           d == x \div S
<1> HIDE DEF x, S
<1>5. m \in 0 .. S - 1 /\ d \in Nat /\ x = S * d + m
  BY <1>2, Division
<1>6. Turns(t, n) = d + 1
  BY <1>2, <1>4, DivisionOfMore
<1>7. CountAt(t, n) \in 0 .. MaxCount
  BY <1>1, <1>2, <1>4, Division, ElapsedIs
<1>8. m = IF CountAt(t, n) = MaxCount THEN 0 ELSE CountAt(t, n) + 1
  <2> DEFINE y == x + MaxCount
             q == y % S
  <2>1. y \in Nat /\ y + 1 = x + S
    BY <1>1, <1>2
  <2>2. CountAt(t, n) = q
    BY <1>4
  <2> HIDE DEF y
  <2>3. (y + 1) % S = IF q = S - 1 THEN 0 ELSE q + 1
    BY <1>2, <2>1, DivisionGoesOn
  <2>4. (x + S) % S = m
    BY <1>2, DivisionOfMore
  <2> QED BY <1>1, <1>7, <2>1, <2>2, <2>3, <2>4
<1>9. d > 0 => x >= S
  <2> HIDE DEF m, d
  <2>1. SUFFICES ASSUME d > 0 PROVE x >= S
    OBVIOUS
  <2>2. d - 1 \in Nat /\ S * d = S + S * (d - 1)
    BY <1>2, <1>5, <2>1
  <2>3. S * (d - 1) \in Nat
    BY <1>2, <2>2
  <2> QED BY <1>2, <1>5, <2>2, <2>3
<1>10. d = 0 => x = m
  <2> HIDE DEF m, d
  <2> QED BY <1>2, <1>5
<1>11. TargetBy(t, n) <=> t.target > t.counter \/ d > 0 \/ (m # 0 /\ t.target <= m - 1)
  <2> HIDE DEF m, d
  <2>1. TargetBy(t, n) <=> t.target > t.counter \/ x >= t.target + 1
    BY <1>1, <1>2, ToTargetIs DEF TargetBy
  <2>2. CASE d > 0
    BY <1>1, <1>2, <1>9, <2>1, <2>2
  <2>3. CASE d = 0
    BY <1>1, <1>2, <1>5, <1>10, <2>1, <2>3
  <2> QED BY <1>5, <2>2, <2>3
<1> QED BY <1>2, <1>6, <1>7, <1>8, <1>11, Zenon DEF x, S, m, d

\* As far as the maximum.
AtMax(r, rt, rm) == [r EXCEPT !.reached_target = rt, !.reached_max = rm, !.counter = MaxCount]

LEMMA AtMaxAfter ==
  ASSUME NEW t, NEW c, NEW rt, NEW rm, NEW k, NEW st, NEW sm
  PROVE  AtMax(After(t, c, rt, rm, k), st, sm) = After(t, MaxCount, st, sm, k)
<1>1. \A m : AtMax(m, st, sm) = Recounted(m, MaxCount, st, sm)
  BY DEF AtMax, Recounted
<1> QED BY <1>1, RecountedAfter

LEMMA ToMaxIs ==
  ASSUME NEW t, Regular(t), TogglesAtMax(t),
         NEW st, st = (t.reached_target \/ t.target > t.counter),
         NEW sm, sm = (t.reached_max \/ t.counter # MaxCount)
  PROVE  ToMaxToggle(t) = After(t, MaxCount, st, sm, IF t.counter = MaxCount THEN 0 ELSE 1)
<1>0. /\ t \in SystemTimers /\ ~TargetIrqsEnabled(t) /\ t.irq_at_max = TRUE
      /\ t.target \in 0 .. MaxCount /\ t.counter \in 0 .. MaxCount /\ MaxCount \in Nat
  BY ToggleIsAtMax, TimerFields, TimerWidth
<1>1. t = After(t, t.counter, t.reached_target, t.reached_max, 0)
  BY <1>0, AfterNothing
<1>2. CASE t.counter = MaxCount
  <2>1. st = t.reached_target /\ sm = t.reached_max
    BY <1>0, <1>2, TimerFields
  <2>2. ToMaxToggle(t) = t
    BY <1>2, Zenon DEF ToMaxToggle
  <2> QED BY <1>1, <1>2, <2>1, <2>2
<1>3. CASE t.counter # MaxCount
  <2>1. ToMaxToggle(t) = TriggerIrq(AtMax(t, t.reached_target \/ t.target > t.counter, TRUE))
    BY <1>0, <1>3, Zenon DEF ToMaxToggle, TriggerIf, AtMax
  <2>3. sm = TRUE
    BY <1>3
  <2>2. ToMaxToggle(t) = TriggerIrq(AtMax(t, st, sm))
    BY <2>1, <2>3, Zenon
  <2>4. AtMax(After(t, t.counter, t.reached_target, t.reached_max, 0), st, sm)
          = After(t, MaxCount, st, sm, 0)
    BY AtMaxAfter
  <2>5. TriggerIrq(After(t, MaxCount, st, sm, 0)) = After(t, MaxCount, st, sm, 0 + 1)
    BY <1>0, TriggerIsOneMore
  <2> QED BY <1>1, <1>3, <2>2, <2>4, <2>5
<1> QED BY <1>2, <1>3

RecountedTarget(r, rt, c) == [r EXCEPT !.reached_target = rt, !.counter = c]

LEMMA RecountedTargetAfter ==
  ASSUME NEW t, NEW c, NEW rt, NEW rm, NEW k, NEW d, NEW st
  PROVE  RecountedTarget(After(t, c, rt, rm, k), st, d) = After(t, d, st, rm, k)
<1> DEFINE m == After(t, c, rt, rm, k)
<1>1. HasTimerNames(m) /\ m.reached_max = rm
  BY MadeFields DEF After
<1> HIDE DEF m
<1>2. RecountedTarget(m, st, d) = Recounted(m, d, st, rm)
  BY <1>1 DEF RecountedTarget, Recounted, HasTimerNames, TimerNames
<1> QED BY <1>2, RecountedAfter DEF m

LEMMA PastMaxIs ==
  ASSUME NEW t, Regular(t), TogglesAtMax(t), NEW n \in Nat \ {0}, ~(n < MaxCount - t.counter),
         NEW st, st = (t.reached_target \/ TargetBy(t, n)),
         NEW sm, sm = (t.reached_max \/ t.counter # MaxCount)
  PROVE  PastMaxToggle(t, n) = After(t, CountAt(t, n), st, sm, IrqsBy(t, n))
<1> DEFINE left == n - (MaxCount - t.counter)
           turns == left \div Span
           rest == left % Span
           r == ToMaxToggle(t)
           first == t.reached_target \/ t.target > t.counter
           second == first \/ turns > 0
           s == TriggerTimes(turns, WithTarget(r, r.reached_target \/ turns > 0))
           target == t.target <= rest - 1
           k == IF t.counter = MaxCount THEN 0 ELSE 1
<1>0. /\ t \in SystemTimers /\ ~ResetsAtTarget(t)
      /\ ~TargetIrqsEnabled(t) /\ t.irq_at_max = TRUE /\ ~TogglesAtTarget(t)
      /\ t.target \in 0 .. MaxCount /\ t.counter \in 0 .. MaxCount /\ MaxCount \in Nat
  BY ToggleIsAtMax, TimerFields, TimerWidth
<1>1. /\ left \in Nat /\ rest = IF CountAt(t, n) = MaxCount THEN 0 ELSE CountAt(t, n) + 1
      /\ Turns(t, n) = turns + 1 /\ CountAt(t, n) \in 0 .. MaxCount
      /\ TargetBy(t, n) <=> t.target > t.counter \/ turns > 0 \/ (rest # 0 /\ target)
  BY <1>0, PastMaxArithmetic, Zenon DEF Over
<1>2. turns \in Nat
  <2>1. Span \in Nat \ {0}
    BY <1>0, PeriodIs
  <2> HIDE DEF left
  <2> QED BY <1>1, <2>1, Division
<1>3. IrqsBy(t, n) = k + turns
  <2> HIDE DEF turns
  <2> QED BY <1>0, <1>1, <1>2 DEF IrqsBy
<1> HIDE DEF left
<1>4. r = After(t, MaxCount, first, sm, k)
  <2>1. first = (t.reached_target \/ t.target > t.counter)
    OBVIOUS
  <2> HIDE DEF first
  <2> QED BY <2>1, ToMaxIs
<1>5. (r.reached_target \/ turns > 0) = second
  <2> HIDE DEF r, first, k, turns
  <2>1. r.reached_target = first
    BY <1>4, AfterFields
  <2> QED BY <2>1
<1>6. WithTarget(r, second) = After(t, MaxCount, second, sm, k)
  <2> HIDE DEF r, first, second, k
  <2> QED BY <1>4, WithTargetAfter
<1>7. s = After(t, MaxCount, second, sm, k + turns)
  <2>1. s = TriggerTimes(turns, WithTarget(r, second))
    BY <1>5, Zenon
  <2>2. k \in Nat
    OBVIOUS
  <2> HIDE DEF s, r, second, turns, k
  <2>3. TriggerTimes(turns, After(t, MaxCount, second, sm, k))
          = After(t, MaxCount, second, sm, k + turns)
    BY <1>0, <1>2, <2>2, TriggerTimesIsMore
  <2> QED BY <1>6, <2>1, <2>3
<1>8. PastMaxToggle(t, n) =
        IF rest = 0 THEN s ELSE RecountedTarget(s, s.reached_target \/ target, rest - 1)
  <2>1. turns * ((IF TargetIrqsEnabled(t) THEN 1 ELSE 0) + (IF t.irq_at_max THEN 1 ELSE 0)) = turns
    <3> HIDE DEF turns
    <3> QED BY <1>0, <1>2
  <2> QED BY <1>0, <2>1, Zenon DEF PastMaxToggle, TriggerIf, RecountedTarget,
       WithTarget, left
<1>9. CASE rest = 0
  <2>1. second = st
    BY <1>1, <1>9
  <2>2. CountAt(t, n) = MaxCount
    <3> HIDE DEF rest
    <3> QED BY <1>0, <1>1, <1>9
  <2> HIDE DEF s, second, k, turns
  <2>3. PastMaxToggle(t, n) = s
    BY <1>8, <1>9
  <2> QED BY <1>3, <1>7, <2>1, <2>2, <2>3
<1>10. CASE rest # 0
  <2>1. (second \/ target) = st
    BY <1>1, <1>10
  <2>2. rest - 1 = CountAt(t, n)
    <3> HIDE DEF rest
    <3> QED BY <1>0, <1>1, <1>10
  <2>3. (s.reached_target \/ target) = st
    <3> HIDE DEF s, second, k, turns, target
    <3>1. s.reached_target = second
      BY <1>7, AfterFields
    <3> QED BY <2>1, <3>1
  <2> HIDE DEF s, second, target, rest, k, turns
  <2>4. PastMaxToggle(t, n) = RecountedTarget(s, st, CountAt(t, n))
    BY <1>8, <1>10, <2>2, <2>3
  <2>5. RecountedTarget(s, st, CountAt(t, n)) = After(t, CountAt(t, n), st, sm, k + turns)
    BY <1>7, RecountedTargetAfter
  <2> QED BY <1>3, <2>4, <2>5
<1> QED BY <1>9, <1>10

-----------------------------------------------------------------------------
\* clock counts what counting one by one does, except for the full turns of a counter that
\* starts at its maximum.
MaxFlags(t, n) == {t.reached_max, t.reached_max \/ MaxBy(t, n)}

LEMMA ClockIsClosed ==
  ASSUME NEW t, Regular(t), NEW n \in Nat \ {0}
  PROVE  \E rm \in MaxFlags(t, n) :
           Clock(t, n) = After(t, CountAt(t, n), t.reached_target \/ TargetBy(t, n), rm, IrqsBy(t, n))
<1> DEFINE sm == t.reached_max \/ MaxBy(t, n)
           st == t.reached_target \/ TargetBy(t, n)
<1>0. t \in SystemTimers /\ sm \in MaxFlags(t, n) /\ t.reached_max \in MaxFlags(t, n)
  BY DEF Regular, MaxFlags
<1>1. CASE ResetsAtTarget(t) /\ TogglesAtTarget(t)
  <2>1. Clock(t, n) = ResetAtTargetToggle(t, n)
    BY <1>1 DEF Clock, TogglesAtTarget
  <2> QED BY <1>0, <1>1, <2>1, ResetAtTargetToggleIs DEF Closed
<1>2. CASE ResetsAtTarget(t) /\ ~TogglesAtTarget(t)
  <2>1. Clock(t, n) = ResetAtTargetPulse(t, n)
    BY <1>2 DEF Clock, TogglesAtTarget
  <2> QED BY <1>0, <1>2, <2>1, ResetAtTargetPulseIs DEF Closed
<1>3. CASE ~ResetsAtTarget(t) /\ ~TogglesAtMax(t)
  <2>1. Clock(t, n) = ResetAtMaxPulse(t, n)
    BY <1>3 DEF Clock, TogglesAtMax, Regular
  <2> QED BY <1>0, <1>3, <2>1, ResetAtMaxPulseIs DEF Closed
<1>4. CASE ~ResetsAtTarget(t) /\ TogglesAtMax(t)
  <2>1. Clock(t, n) = ResetAtMaxToggle(t, n)
    BY <1>4 DEF Clock, TogglesAtMax
  <2>2. CASE n < MaxCount - t.counter
    <3>1. Clock(t, n) = BelowMaxToggle(t, n)
      BY <2>1, <2>2 DEF ResetAtMaxToggle
    <3> QED BY <1>0, <1>4, <2>2, <3>1, BelowMaxIs DEF Closed
  <2>3. CASE ~(n < MaxCount - t.counter)
    <3>1. Clock(t, n) = PastMaxToggle(t, n)
      BY <2>1, <2>3 DEF ResetAtMaxToggle
    <3> DEFINE rm == t.reached_max \/ t.counter # MaxCount
    <3>2. rm \in MaxFlags(t, n)
      <4>1. t.counter # MaxCount => MaxBy(t, n)
        BY <1>0, <1>4, <2>3, ToTargetIs, TimerFields, TimerWidth DEF MaxBy
      <4>2. t.counter = MaxCount => rm = t.reached_max
        BY <1>0, TimerFields
      <4>3. t.counter # MaxCount => rm = sm
        BY <4>1
      <4> QED BY <1>0, <4>2, <4>3
    <3>3. st = (t.reached_target \/ TargetBy(t, n)) /\ rm = (t.reached_max \/ t.counter # MaxCount)
      OBVIOUS
    <3> HIDE DEF rm, st
    <3>4. PastMaxToggle(t, n) = After(t, CountAt(t, n), st, rm, IrqsBy(t, n))
      BY <1>4, <2>3, <3>3, PastMaxIs
    <3> QED BY <3>1, <3>2, <3>4 DEF st
  <2> QED BY <2>2, <2>3
<1> QED BY <1>1, <1>2, <1>3, <1>4

\* Only its own flag tells two timers apart that differ in reached_max.
Forgot(o) == [o EXCEPT !.reached_max = FALSE]
SameButMax(t, o) == t \in {o, Forgot(o)}

LEMMA ForgotFields ==
  ASSUME NEW o \in SystemTimers, NEW t, t = Forgot(o)
  PROVE  /\ t \in SystemTimers /\ HasTimerNames(t)
         /\ t.counter = o.counter /\ t.target = o.target
         /\ t.reset_at_target = o.reset_at_target /\ t.irq_at_target = o.irq_at_target
         /\ t.irq_at_max = o.irq_at_max /\ t.repeat = o.repeat /\ t.toggle = o.toggle
         /\ t.irq = o.irq /\ t.irq_since_mode_write = o.irq_since_mode_write
         /\ t.reached_target = o.reached_target /\ t.reached_max = FALSE /\ t.istat = o.istat
<1>1. HasTimerNames(o)
  BY LikeItself DEF Like
<1>2. HasTimerNames(t)
  BY <1>1 DEF HasTimerNames, Forgot
<1>3. t \in SystemTimers
  BY DEF SystemTimers, Forgot
<1>4. t.reached_max = FALSE
  BY <1>1 DEF HasTimerNames, TimerNames, Forgot
<1>5. /\ t.counter = o.counter /\ t.target = o.target
      /\ t.reset_at_target = o.reset_at_target /\ t.irq_at_target = o.irq_at_target
      /\ t.irq_at_max = o.irq_at_max /\ t.repeat = o.repeat /\ t.toggle = o.toggle
      /\ t.irq = o.irq /\ t.irq_since_mode_write = o.irq_since_mode_write
      /\ t.reached_target = o.reached_target /\ t.istat = o.istat
  BY <1>1 DEF HasTimerNames, TimerNames, Forgot
<1> QED BY <1>2, <1>3, <1>4, <1>5

LEMMA ForgotAfter ==
  ASSUME NEW o \in SystemTimers, NEW c, NEW rt, NEW rm, NEW k
  PROVE  /\ After(Forgot(o), c, rt, rm, k) = After(o, c, rt, rm, k)
         /\ \A n : /\ CountAt(Forgot(o), n) = CountAt(o, n) /\ IrqsBy(Forgot(o), n) = IrqsBy(o, n)
                   /\ TargetBy(Forgot(o), n) = TargetBy(o, n)
                   /\ MaxBy(Forgot(o), n) = MaxBy(o, n)
         /\ Regular(o) => Regular(Forgot(o))
<1> DEFINE t == Forgot(o)
<1>1. /\ t \in SystemTimers
      /\ t.counter = o.counter /\ t.target = o.target
      /\ t.reset_at_target = o.reset_at_target /\ t.irq_at_target = o.irq_at_target
      /\ t.irq_at_max = o.irq_at_max /\ t.repeat = o.repeat /\ t.toggle = o.toggle
      /\ t.irq = o.irq /\ t.irq_since_mode_write = o.irq_since_mode_write
      /\ t.istat = o.istat
  BY ForgotFields
<1> HIDE DEF t
<1>2. After(t, c, rt, rm, k) = After(o, c, rt, rm, k)
  BY <1>1, Zenon DEF After, Made, IrqAfter, SinceAfter, IstatAfter, Fires, Flips, Spent, Toggles
<1>3. /\ Toggles(t) = Toggles(o) /\ ResetsAtTarget(t) = ResetsAtTarget(o)
      /\ AtOrAbove(t) = AtOrAbove(o) /\ Period(t) = Period(o)
      /\ ToTarget(t) = ToTarget(o) /\ ToMax(t) = ToMax(o)
  BY <1>1, Zenon DEF Toggles, ResetsAtTarget, AtOrAbove, Period, ToTarget, ToMax,
     ClocksUntilTarget, ClocksUntilMax
<1>4. ASSUME NEW n
      PROVE  /\ CountAt(t, n) = CountAt(o, n) /\ IrqsBy(t, n) = IrqsBy(o, n)
             /\ TargetBy(t, n) = TargetBy(o, n) /\ MaxBy(t, n) = MaxBy(o, n)
  <2>1. Elapsed(t, n) = Elapsed(o, n)
    BY <1>1, <1>3, Zenon DEF Elapsed
  <2>2. TargetBy(t, n) = TargetBy(o, n) /\ MaxBy(t, n) = MaxBy(o, n)
    BY <1>1, <1>3, Zenon DEF TargetBy, MaxBy
  <2>3. CountAt(t, n) = CountAt(o, n) /\ Turns(t, n) = Turns(o, n)
    BY <1>3, <2>1, Zenon DEF CountAt, Turns
  <2>4. TogglesAtTarget(t) = TogglesAtTarget(o) /\ TogglesAtMax(t) = TogglesAtMax(o)
    BY <1>1, <1>3, Zenon DEF TogglesAtTarget, TogglesAtMax
  <2>5. HitBy(t, n) = HitBy(o, n)
    BY <1>1, <2>2, Zenon DEF HitBy
  <2>6. IrqsBy(t, n) = IrqsBy(o, n)
    BY <1>1, <2>3, <2>4, <2>5, Zenon DEF IrqsBy
  <2> QED BY <2>2, <2>3, <2>6
<1>5. Regular(o) => Regular(t)
  BY <1>1, <1>3, Zenon DEF Regular
<1> QED BY <1>2, <1>4, <1>5 DEF t

ForgotAs(m, v) == [m EXCEPT !.reached_max = v]

LEMMA ForgotMade ==
  ASSUME NEW t, NEW c, NEW rt, NEW k, NEW rm, NEW v
  PROVE  ForgotAs(After(t, c, rt, rm, k), v) = After(t, c, rt, v, k)
<1> DEFINE m == After(t, c, rt, rm, k)
<1>1. HasTimerNames(m) /\ m.counter = c /\ m.reached_target = rt
  BY MadeFields DEF After
<1> HIDE DEF m
<1>2. ForgotAs(m, v) = Recounted(m, c, rt, v)
  BY <1>1 DEF ForgotAs, Recounted, HasTimerNames, TimerNames
<1> QED BY <1>2, RecountedAfter DEF m

\* Advancing a counter by any number of clocks, in whichever of the four ways, counts what as
\* many single clocks do, for every mode but the one that interrupts at every catch-up; only the
\* reached-max flag can be missing, and that it was missing before changes nothing else
\* (timers.rs: clock).
THEOREM ClockCountsOneByOne ==
  ASSUME NEW o, Regular(o), NEW t, SameButMax(t, o), NEW n \in Nat \ {0}
  PROVE  /\ SameButMax(Clock(t, n), Count(o, n))
         /\ Count(o, n) \in SystemTimers
<1> DEFINE st == o.reached_target \/ TargetBy(o, n)
           sm == o.reached_max \/ MaxBy(o, n)
           c == CountAt(o, n)
           k == IrqsBy(o, n)
<1>0. o \in SystemTimers
  BY DEF Regular
<1>1. Count(o, n) = After(o, c, st, sm, k)
  BY CountIsClosed DEF Closed
<1>2. Count(o, n) \in SystemTimers
  BY <1>0, CountIsClosed, ClosedIsTimer
<1>3. ASSUME NEW rm \in {FALSE, o.reached_max, sm, FALSE \/ MaxBy(o, n)}
      PROVE  SameButMax(After(o, c, st, rm, k), After(o, c, st, sm, k))
  <2>1. o.reached_max \in BOOLEAN
    BY <1>0, TimerFields
  <2>2. CASE rm = sm
    BY <2>2 DEF SameButMax
  <2>3. CASE rm # sm
    <3>1. rm = FALSE
      BY <2>1, <2>3
    <3> HIDE DEF sm, st, c, k
    <3>2. ForgotAs(After(o, c, st, sm, k), rm) = After(o, c, st, rm, k)
      BY ForgotMade
    <3>3. Forgot(After(o, c, st, sm, k)) = ForgotAs(After(o, c, st, sm, k), rm)
      BY <3>1, Zenon DEF Forgot, ForgotAs
    <3> QED BY <3>2, <3>3 DEF SameButMax
  <2> QED BY <2>2, <2>3
<1>4. CASE t = o
  <2>1. PICK rm \in MaxFlags(o, n) : Clock(o, n) = After(o, c, st, rm, k)
    BY ClockIsClosed
  <2>2. rm \in {FALSE, o.reached_max, sm, FALSE \/ MaxBy(o, n)}
    BY <2>1 DEF MaxFlags
  <2> HIDE DEF st, sm, c, k
  <2> QED BY <1>1, <1>2, <1>3, <1>4, <2>1, <2>2
<1>5. CASE t = Forgot(o)
  <2>0. /\ Regular(t) /\ t.reached_max = FALSE /\ t.reached_target = o.reached_target
        /\ CountAt(t, n) = c /\ IrqsBy(t, n) = k /\ TargetBy(t, n) = TargetBy(o, n)
        /\ MaxBy(t, n) = MaxBy(o, n)
    BY <1>0, <1>5, ForgotAfter, ForgotFields
  <2>1. PICK rm \in MaxFlags(t, n) :
          Clock(t, n) = After(t, CountAt(t, n), t.reached_target \/ TargetBy(t, n), rm, IrqsBy(t, n))
    BY <2>0, ClockIsClosed
  <2>2. rm \in {FALSE, o.reached_max, sm, FALSE \/ MaxBy(o, n)}
    BY <2>0, <2>1 DEF MaxFlags
  <2>3. Clock(t, n) = After(t, c, st, rm, k)
    BY <2>0, <2>1, Zenon
  <2> HIDE DEF st, sm, c, k
  <2>4. After(t, c, st, rm, k) = After(o, c, st, rm, k)
    BY <1>0, <1>5, ForgotAfter
  <2> QED BY <1>1, <1>2, <1>3, <2>2, <2>3, <2>4
<1> QED BY <1>4, <1>5 DEF SameButMax

-----------------------------------------------------------------------------
\* When the interrupt is triggered: from the first hit on.
LEMMA TurnsBy ==
  ASSUME NEW t \in SystemTimers, NEW n \in Nat \ {0}
  PROVE  Turns(t, n) \in Nat /\ (Turns(t, n) > 0 <=> Elapsed(t, n) + 1 >= Period(t))
<1> DEFINE e == Elapsed(t, n) + 1
           P == Period(t)
<1>1. e \in Nat /\ P \in Nat \ {0} /\ Turns(t, n) = e \div P
  BY ElapsedIs, PeriodIs DEF Turns
<1> HIDE DEF e, P
<1>2. CASE e < P
  <2>1. e \in 0 .. P - 1
    BY <1>1, <1>2
  <2>2. e \div P = 0
    BY <1>1, <2>1, DivisionOfLess
  <2> QED BY <1>1, <1>2, <2>2 DEF e, P
<1>3. CASE e >= P
  <2> DEFINE x == e - P
  <2>1. x \in Nat /\ e = x + P
    BY <1>1, <1>3
  <2> HIDE DEF x
  <2>2. e \div P = (x \div P) + 1 /\ x \div P \in Nat
    BY <1>1, <2>1, DivisionOfMore, Division
  <2> DEFINE d == x \div P
  <2> HIDE DEF d
  <2>3. Turns(t, n) = d + 1 /\ d \in Nat
    BY <1>1, <2>2 DEF d
  <2> QED BY <1>3, <2>3 DEF e, P
<1> QED BY <1>1, <1>2, <1>3

LEMMA TurnsFromMax ==
  ASSUME NEW t \in SystemTimers, ~ResetsAtTarget(t), t.counter = MaxCount,
         NEW n \in Nat \ {0}
  PROVE  Turns(t, n) \in Nat /\ (Turns(t, n) > 1 <=> n >= MaxCount + 1)
<1> DEFINE P == Period(t)
<1>1. MaxCount \in Nat /\ P = MaxCount + 1 /\ Elapsed(t, n) + 1 = n + P /\ P \in Nat \ {0}
  BY TimerWidth, PeriodIs DEF Elapsed
<1>2. Turns(t, n) = (n + P) \div P
  BY <1>1 DEF Turns
<1> HIDE DEF P
<1>3. (n + P) \div P = (n \div P) + 1 /\ n \div P \in Nat
  BY <1>1, DivisionOfMore, Division
<1>4. n \div P > 0 <=> n >= P
  <2>1. CASE n < P
    <3>1. n \in 0 .. P - 1
      BY <1>1, <2>1
    <3> QED BY <1>1, <2>1, <3>1, DivisionOfLess
  <2>2. CASE n >= P
    <3> DEFINE x == n - P
    <3>1. x \in Nat /\ n = x + P
      BY <1>1, <2>2
    <3> HIDE DEF x
    <3>2. n \div P = (x \div P) + 1 /\ x \div P \in Nat
      BY <1>1, <3>1, DivisionOfMore, Division
    <3> DEFINE d == x \div P
               f == n \div P
    <3> HIDE DEF d, f
    <3>3. f = d + 1 /\ d \in Nat
      BY <3>2 DEF d, f
    <3>4. f > 0
      BY <3>3
    <3> QED BY <2>2, <3>4 DEF f
  <2> QED BY <1>1, <2>1, <2>2
<1> DEFINE d == n \div P
<1> HIDE DEF d
<1>5. Turns(t, n) = d + 1 /\ d \in Nat /\ (d > 0 <=> n >= P)
  BY <1>2, <1>3, <1>4 DEF d
<1> QED BY <1>1, <1>5

LEMMA IrqsByHit ==
  ASSUME NEW t, Regular(t), NEW n \in Nat \ {0}
  PROVE  IrqsBy(t, n) \in Nat /\ (IrqsBy(t, n) > 0 <=> HitBy(t, n))
<1>0. /\ t \in SystemTimers /\ t.target \in 0 .. MaxCount /\ t.counter \in 0 .. MaxCount
      /\ MaxCount \in Nat /\ MaxCount > 0 /\ Span = MaxCount + 1
  BY TimerFields, TimerWidth, PeriodIs DEF Regular
<1>1. IrqsBy(t, n) \in Nat
  BY <1>0, IrqsAreNumber
<1>2. CASE TogglesAtTarget(t)
  <2>1. HitBy(t, n) <=> n >= ToTarget(t)
    BY <1>2 DEF HitBy, TargetBy, MaxBy, TogglesAtTarget
  <2>2. Period(t) = t.target + 1 /\ IrqsBy(t, n) = Turns(t, n)
    BY <1>0, <1>2, PeriodIs DEF TogglesAtTarget, IrqsBy
  <2>3. Elapsed(t, n) + 1 >= t.target + 1 <=> n >= ToTarget(t)
    <3>1. ResetsAtTarget(t) /\ t.reset_at_target
      BY <1>2 DEF TogglesAtTarget, ResetsAtTarget
    <3>2. CASE t.target > t.counter
      <4>1. ToTarget(t) = t.target - t.counter /\ Elapsed(t, n) = t.counter + n
        BY <1>0, <3>2 DEF ToTarget, ClocksUntilTarget, Elapsed, AtOrAbove
      <4> QED BY <1>0, <4>1
    <3>3. CASE t.target <= t.counter
      <4>1. ToTarget(t) = t.target + 1 /\ Elapsed(t, n) = n - 1
        BY <1>0, <3>1, <3>3 DEF ToTarget, ClocksUntilTarget, Elapsed, AtOrAbove
      <4> QED BY <1>0, <4>1
    <3> QED BY <1>0, <3>2, <3>3
  <2> QED BY <1>0, <1>1, <2>1, <2>2, <2>3, TurnsBy
<1>3. CASE TogglesAtMax(t)
  <2>1. ~ResetsAtTarget(t) /\ t.irq_at_max /\ ~t.irq_at_target /\ ~TogglesAtTarget(t)
    BY <1>3 DEF TogglesAtMax, TogglesAtTarget, Regular
  <2>2. HitBy(t, n) <=> n >= ToMax(t)
    BY <2>1 DEF HitBy, MaxBy
  <2>3. CASE t.counter = MaxCount
    <3>1. ToMax(t) = MaxCount + 1 /\ IrqsBy(t, n) = Turns(t, n) - 1
      BY <1>0, <1>3, <2>1, <2>3 DEF ToMax, ClocksUntilMax, IrqsBy
    <3> QED BY <1>0, <1>1, <2>1, <2>2, <2>3, <3>1, TurnsFromMax
  <2>4. CASE t.counter # MaxCount
    <3>1. /\ ToMax(t) = MaxCount - t.counter /\ IrqsBy(t, n) = Turns(t, n)
          /\ Elapsed(t, n) = t.counter + n /\ Period(t) = MaxCount + 1
      BY <1>0, <1>3, <2>1, <2>4 DEF ToMax, ClocksUntilMax, IrqsBy, Elapsed, Period
    <3> QED BY <1>0, <1>1, <2>2, <3>1, TurnsBy
  <2> QED BY <2>3, <2>4
<1>4. CASE ~TogglesAtTarget(t) /\ ~TogglesAtMax(t)
  BY <1>4 DEF IrqsBy
<1> QED BY <1>2, <1>3, <1>4

\* I_STAT, which was clear, or the interrupt bit changes exactly when the interrupt fires.
LEMMA FiringShows ==
  ASSUME NEW t \in SystemTimers, t.istat = FALSE, NEW k \in Nat
  PROVE  IstatAfter(t, k) \/ IrqAfter(t, k) # t.irq <=> Fires(t, k)
<1>1. /\ t.repeat \in BOOLEAN /\ t.toggle \in BOOLEAN /\ t.irq \in BOOLEAN
  BY TimerFields
<1>2. CASE ~Fires(t, k)
  BY <1>2 DEF IstatAfter, IrqAfter
<1>3. CASE Fires(t, k)
  <2>1. CASE ~t.toggle
    BY <1>3, <2>1 DEF IstatAfter
  <2>2. CASE t.toggle /\ Flips(t, k)
    BY <1>1, <1>3, <2>2 DEF IrqAfter
  <2>3. CASE t.toggle /\ ~Flips(t, k)
    <3>1. Toggles(t) /\ k % 2 # 1
      BY <2>3 DEF Flips
    <3>2. k > 1
      BY <1>3, <3>1 DEF Fires
    <3> QED BY <1>3, <3>1, <3>2 DEF IstatAfter
  <2> QED BY <1>3, <2>1, <2>2, <2>3
<1> QED BY <1>2, <1>3

-----------------------------------------------------------------------------
\* clocks_until_irq is the first hit.
LEMMA UntilIrq ==
  ASSUME NEW t \in SystemTimers, NEW k, k = ClocksUntilIrq(t)
  PROVE  /\ k = NoIrq => Spent(t) \/ (\A n \in Nat \ {0} : ~HitBy(t, n))
         /\ k # NoIrq => k \in Nat \ {0} /\ ~Spent(t) /\ \A n \in Nat \ {0} : HitBy(t, n) <=> n >= k
<1>0. ToTarget(t) \in Nat \ {0} /\ ToMax(t) \in Nat \ {0} /\ NoIrq \notin Nat
  <2>1. 1 \in Nat \ {0}
    OBVIOUS
  <2> QED BY <2>1, FirstTarget, FirstMax, TimerWidth
<1> DEFINE at == IF t.irq_at_target THEN {ToTarget(t)} ELSE {}
           am == IF t.irq_at_max /\ ~ResetsAtTarget(t) THEN {ToMax(t)} ELSE {}
           until == at \union am
           first == CHOOSE x \in until : \A y \in until : x =< y
<1>1. k = IF Spent(t) \/ until = {} THEN NoIrq ELSE first
  BY DEF ClocksUntilIrq, Min, Spent, ToTarget, ToMax
<1>2. \A n \in Nat \ {0} : HitBy(t, n) <=> \E x \in until : n >= x
  BY <1>0 DEF HitBy, TargetBy, MaxBy
<1>3. CASE Spent(t)
  BY <1>1, <1>3
<1>4. CASE ~Spent(t) /\ until = {}
  BY <1>1, <1>2, <1>4
<1>5. CASE ~Spent(t) /\ until # {}
  <2>0. k = first
    BY <1>1, <1>5
  <2>1. until \subseteq {ToTarget(t), ToMax(t)}
    OBVIOUS
  <2> HIDE DEF until
  <2>2. \E x \in until : \A y \in until : x =< y
    BY <1>0, <1>5, <2>1
  <2>3. first \in until /\ \A y \in until : first =< y
    BY <2>2
  <2>4. k \in Nat \ {0} /\ k # NoIrq
    BY <1>0, <2>0, <2>1, <2>3
  <2>5. ASSUME NEW n \in Nat \ {0} PROVE HitBy(t, n) <=> n >= k
    <3>1. \A y \in until : y \in Nat
      BY <1>0, <2>1
    <3>2. HitBy(t, n) <=> \E x \in until : n >= x
      BY <1>2
    <3> HIDE DEF first
    <3> QED BY <2>0, <2>3, <2>4, <3>1, <3>2
  <2> QED BY <1>5, <2>4, <2>5
<1> QED BY <1>3, <1>4, <1>5

\* The timer with its bit of I_STAT cleared.
Cleared(t) == [t EXCEPT !.istat = FALSE]

LEMMA ClearedFields ==
  ASSUME NEW o \in SystemTimers, NEW t, t = Cleared(o)
  PROVE  /\ t \in SystemTimers
         /\ t.counter = o.counter /\ t.target = o.target
         /\ t.reset_at_target = o.reset_at_target /\ t.irq_at_target = o.irq_at_target
         /\ t.irq_at_max = o.irq_at_max /\ t.repeat = o.repeat /\ t.toggle = o.toggle
         /\ t.irq = o.irq /\ t.irq_since_mode_write = o.irq_since_mode_write
         /\ t.istat = FALSE
<1>1. HasTimerNames(o)
  BY LikeItself DEF Like
<1>2. t \in SystemTimers
  BY DEF SystemTimers, Cleared
<1>3. t.istat = FALSE
  BY <1>1 DEF HasTimerNames, TimerNames, Cleared
<1>4. /\ t.counter = o.counter /\ t.target = o.target
      /\ t.reset_at_target = o.reset_at_target /\ t.irq_at_target = o.irq_at_target
      /\ t.irq_at_max = o.irq_at_max /\ t.repeat = o.repeat /\ t.toggle = o.toggle
      /\ t.irq = o.irq /\ t.irq_since_mode_write = o.irq_since_mode_write
  BY <1>1 DEF HasTimerNames, TimerNames, Cleared
<1> QED BY <1>2, <1>3, <1>4

LEMMA ClearedIsLike ==
  ASSUME NEW t \in SystemTimers
  PROVE  /\ Cleared(t) \in SystemTimers /\ Cleared(t).istat = FALSE /\ Cleared(t).irq = t.irq
         /\ Regular(t) => Regular(Cleared(t))
         /\ Spent(Cleared(t)) <=> Spent(t)
         /\ \A n : HitBy(Cleared(t), n) <=> HitBy(t, n)
<1> DEFINE b == Cleared(t)
<1>1. /\ b \in SystemTimers
      /\ b.counter = t.counter /\ b.target = t.target
      /\ b.reset_at_target = t.reset_at_target /\ b.irq_at_target = t.irq_at_target
      /\ b.irq_at_max = t.irq_at_max /\ b.repeat = t.repeat /\ b.toggle = t.toggle
      /\ b.irq = t.irq /\ b.irq_since_mode_write = t.irq_since_mode_write
      /\ b.istat = FALSE
  BY ClearedFields
<1> HIDE DEF b
<1>2. /\ Toggles(b) = Toggles(t) /\ ResetsAtTarget(b) = ResetsAtTarget(t)
      /\ ToTarget(b) = ToTarget(t) /\ ToMax(b) = ToMax(t)
  BY <1>1, Zenon DEF Toggles, ResetsAtTarget, ToTarget, ToMax,
     ClocksUntilTarget, ClocksUntilMax
<1>3. Regular(t) => Regular(b)
  BY <1>1, <1>2, Zenon DEF Regular
<1>4. Spent(b) <=> Spent(t)
  BY <1>1, Zenon DEF Spent
<1>5. ASSUME NEW n PROVE HitBy(b, n) <=> HitBy(t, n)
  BY <1>1, <1>2, Zenon DEF HitBy, TargetBy, MaxBy
<1> QED BY <1>1, <1>3, <1>4, <1>5 DEF b

\* The counter of the instance counts as those of the timers do.
LEMMA CounterIsTimer ==
  /\ Counter!NewTimer = NewTimer /\ Counter!Counts = Counts
  /\ Counter!ModeValues = ModeValues /\ Counter!Span = Span
  /\ \A t, n : Counter!Clock(t, n) = Clock(t, n) /\ Counter!Count(t, n) = Count(t, n)
  /\ \A t : Counter!ClocksUntilIrq(t) = ClocksUntilIrq(t) /\ Counter!ReadMode(t) = ReadMode(t)
  /\ \A t, v : /\ Counter!WriteCounter(t, v) = WriteCounter(t, v)
              /\ Counter!WriteTarget(t, v) = WriteTarget(t, v)
              /\ Counter!WriteMode(t, v) = WriteMode(t, v)
<1>1. /\ Counter!NewTimer = NewTimer /\ Counter!Counts = Counts
      /\ Counter!ModeValues = ModeValues /\ Counter!Span = Span
  BY Zenon DEF Counter!NewTimer, NewTimer, Counter!Counts, Counts, Counter!ModeValues, ModeValues,
     Counter!Span, Span
<1>2. ASSUME NEW t, NEW n PROVE Counter!Clock(t, n) = Clock(t, n)
  <2>1. \A c, u, k : /\ Counter!TriggerIf(c, u) = TriggerIf(c, u)
                    /\ Counter!TriggerTimes(k, u) = TriggerTimes(k, u)
    BY Zenon DEF Counter!TriggerIf, TriggerIf, Counter!TriggerTimes, TriggerTimes,
       Counter!TriggerIrq, TriggerIrq
  <2>2. /\ Counter!ResetsAtTarget(t) = ResetsAtTarget(t) /\ Counter!Toggles(t) = Toggles(t)
        /\ Counter!Restarted(t) = Restarted(t)
        /\ Counter!ClocksAfterRestart(t, n) = ClocksAfterRestart(t, n)
        /\ Counter!TargetIrqsEnabled(t) = TargetIrqsEnabled(t) /\ Counter!Span = Span
    BY Zenon DEF Counter!ResetsAtTarget, ResetsAtTarget, Counter!Toggles, Toggles,
       Counter!Restarted, Restarted, Counter!ClocksAfterRestart, ClocksAfterRestart,
       Counter!AtOrAbove, AtOrAbove, Counter!TargetIrqsEnabled, TargetIrqsEnabled, Counter!Span, Span
  <2>3. Counter!ResetAtTargetToggle(t, n) = ResetAtTargetToggle(t, n)
    BY <2>1, <2>2, Zenon DEF Counter!ResetAtTargetToggle, ResetAtTargetToggle
  <2>4. Counter!ResetAtTargetPulse(t, n) = ResetAtTargetPulse(t, n)
    BY <2>1, <2>2, Zenon DEF Counter!ResetAtTargetPulse, ResetAtTargetPulse
  <2>5. Counter!ResetAtMaxPulse(t, n) = ResetAtMaxPulse(t, n)
    BY Zenon DEF Counter!ResetAtMaxPulse, ResetAtMaxPulse, Counter!Span, Span,
       Counter!TriggerIf, TriggerIf, Counter!TriggerIrq, TriggerIrq
  <2>6. Counter!ToMaxToggle(t) = ToMaxToggle(t)
    BY <2>1, <2>2, Zenon DEF Counter!ToMaxToggle, ToMaxToggle
  <2>7. Counter!PastMaxToggle(t, n) = PastMaxToggle(t, n)
    BY Zenon DEF Counter!PastMaxToggle, PastMaxToggle, Counter!Span, Span,
       Counter!TargetIrqsEnabled, TargetIrqsEnabled, Counter!ToMaxToggle, ToMaxToggle,
       Counter!TriggerTimes, TriggerTimes, Counter!TriggerIf, TriggerIf, Counter!TriggerIrq, TriggerIrq
  <2>8. Counter!BelowMaxToggle(t, n) = BelowMaxToggle(t, n)
    BY <2>1, <2>2, Zenon DEF Counter!BelowMaxToggle, BelowMaxToggle
  <2>9. Counter!ResetAtMaxToggle(t, n) = ResetAtMaxToggle(t, n)
    BY <2>7, <2>8, Zenon DEF Counter!ResetAtMaxToggle, ResetAtMaxToggle
  <2> QED BY <2>2, <2>3, <2>4, <2>5, <2>9, Zenon DEF Counter!Clock, Clock
<1>3. ASSUME NEW t, NEW n PROVE Counter!Count(t, n) = Count(t, n)
  BY Zenon DEF Counter!Count, Count, Counter!CountOne, CountOne, Counter!ResetsAtTarget, ResetsAtTarget,
     Counter!AtOrAbove, AtOrAbove, Counter!TriggerIf, TriggerIf, Counter!TriggerIrq, TriggerIrq
<1>4. ASSUME NEW t
      PROVE  Counter!ClocksUntilIrq(t) = ClocksUntilIrq(t) /\ Counter!ReadMode(t) = ReadMode(t)
  BY Zenon DEF Counter!ClocksUntilIrq, ClocksUntilIrq, Counter!ClocksUntilTarget, ClocksUntilTarget,
     Counter!ClocksUntilMax, ClocksUntilMax, Counter!ResetsAtTarget, ResetsAtTarget,
     Counter!Min, Min, Counter!Span, Span, Counter!ReadMode, ReadMode
<1>5. ASSUME NEW t, NEW v
      PROVE  /\ Counter!WriteCounter(t, v) = WriteCounter(t, v)
             /\ Counter!WriteTarget(t, v) = WriteTarget(t, v)
             /\ Counter!WriteMode(t, v) = WriteMode(t, v)
  BY Zenon DEF Counter!WriteCounter, WriteCounter, Counter!WriteTarget, WriteTarget,
     Counter!WriteMode, WriteMode
<1> QED BY <1>1, <1>2, <1>3, <1>4, <1>5

LEMMA TriggersIs ==
  ASSUME Regular(timer), NEW n \in Nat \ {0}
  PROVE  Counter!Triggers(n) <=> ~Spent(timer) /\ HitBy(timer, n)
<1> DEFINE b == Cleared(timer)
           after == Clock(b, n)
           k == IrqsBy(b, n)
<1>1. /\ b \in SystemTimers /\ b.istat = FALSE /\ b.irq = timer.irq /\ Regular(b)
      /\ Spent(b) <=> Spent(timer)
      /\ HitBy(b, n) <=> HitBy(timer, n)
  BY ClearedIsLike DEF Regular
<1>2. Counter!Triggers(n) <=> after.istat \/ after.irq # timer.irq
  BY CounterIsTimer DEF Counter!Triggers, Cleared
<1> HIDE DEF b
<1>3. PICK rm \in MaxFlags(b, n) :
        after = After(b, CountAt(b, n), b.reached_target \/ TargetBy(b, n), rm, k)
  BY <1>1, ClockIsClosed
<1>4. after.istat = IstatAfter(b, k) /\ after.irq = IrqAfter(b, k)
  <2> DEFINE c == CountAt(b, n)
             rt == b.reached_target \/ TargetBy(b, n)
  <2> HIDE DEF after, k, c, rt
  <2>1. after = After(b, c, rt, rm, k)
    BY <1>3 DEF c, rt
  <2> QED BY <2>1, MadeFields DEF After
<1>5. k \in Nat /\ (k > 0 <=> HitBy(b, n))
  BY <1>1, IrqsByHit
<1> HIDE DEF after, k
<1>6. IstatAfter(b, k) \/ IrqAfter(b, k) # b.irq <=> Fires(b, k)
  BY <1>1, <1>5, FiringShows
<1>7. Counter!Triggers(n) <=> Fires(b, k)
  BY <1>1, <1>2, <1>4, <1>6, Zenon
<1>8. Fires(b, k) <=> k > 0 /\ ~Spent(timer)
  BY <1>1, Zenon DEF Fires
<1> QED BY <1>1, <1>5, <1>7, <1>8, Zenon

LEMMA Predicted ==
  ASSUME Regular(timer)
  PROVE  Counter!IrqIsPredicted
<1> DEFINE k == ClocksUntilIrq(timer)
<1>1. /\ k = NoIrq => Spent(timer) \/ (\A n \in Nat \ {0} : ~HitBy(timer, n))
      /\ k # NoIrq => /\ k \in Nat \ {0} /\ ~Spent(timer)
                      /\ \A n \in Nat \ {0} : HitBy(timer, n) <=> n >= k
  BY UntilIrq DEF Regular
<1>2. Counter!IrqIsPredicted <=>
        IF k = NoIrq THEN \A n \in 1 .. 2 * Span : ~Counter!Triggers(n)
        ELSE Counter!Triggers(k) /\ \A n \in 1 .. k - 1 : ~Counter!Triggers(n)
  BY CounterIsTimer DEF Counter!IrqIsPredicted
<1> HIDE DEF k
<1>3. CASE k = NoIrq
  <2>1. ASSUME NEW n \in 1 .. 2 * Span PROVE ~Counter!Triggers(n)
    <3>1. n \in Nat \ {0}
      BY PeriodIs, TimerWidth DEF Regular, Span
    <3> QED BY <1>1, <1>3, <3>1, TriggersIs
  <2> QED BY <1>2, <1>3, <2>1
<1>4. CASE k # NoIrq
  <2>1. Counter!Triggers(k)
    BY <1>1, <1>4, TriggersIs
  <2>2. ASSUME NEW n \in 1 .. k - 1 PROVE ~Counter!Triggers(n)
    <3>1. n \in Nat \ {0} /\ ~(n >= k)
      BY <1>1, <1>4
    <3> QED BY <1>1, <1>4, <3>1, TriggersIs
  <2> QED BY <1>2, <1>4, <2>1, <2>2
<1> QED BY <1>3, <1>4

-----------------------------------------------------------------------------
\* What a catch-up or a register access of the two timers keeps.
Agree(t, o) == Regular(o) /\ SameButMax(t, o)

LEMMA AgreeingTimers ==
  ASSUME NEW t, NEW o, Agree(t, o)
  PROVE  /\ t \in SystemTimers /\ o \in SystemTimers /\ Regular(t)
         /\ t.target = o.target
         /\ t.repeat = o.repeat /\ t.toggle = o.toggle /\ t.irq_at_target = o.irq_at_target
         /\ t.reset_at_target = o.reset_at_target
<1>1. o \in SystemTimers
  BY DEF Agree, Regular
<1>2. CASE t = o
  BY <1>1, <1>2 DEF Agree
<1>3. CASE t = Forgot(o)
  BY <1>1, <1>3, ForgotFields, ForgotAfter DEF Agree
<1> QED BY <1>2, <1>3 DEF Agree, SameButMax

\* A timer and its fields.
LEMMA SameFields ==
  ASSUME NEW r, NEW s, HasTimerNames(r), HasTimerNames(s),
         r.counter = s.counter, r.target = s.target, r.reset_at_target = s.reset_at_target,
         r.irq_at_target = s.irq_at_target, r.irq_at_max = s.irq_at_max,
         r.repeat = s.repeat, r.toggle = s.toggle, r.irq = s.irq,
         r.irq_since_mode_write = s.irq_since_mode_write,
         r.reached_target = s.reached_target, r.reached_max = s.reached_max, r.istat = s.istat
  PROVE  r = s
<1>1. \A f \in TimerNames : r[f] = s[f]
  BY DEF TimerNames
<1> QED BY <1>1, Zenon DEF HasTimerNames

LEMMA TimerIs ==
  ASSUME NEW r, HasTimerNames(r), r.counter \in 0 .. MaxCount, r.target \in 0 .. MaxCount,
         r.reset_at_target \in BOOLEAN, r.irq_at_target \in BOOLEAN, r.irq_at_max \in BOOLEAN,
         r.repeat \in BOOLEAN, r.toggle \in BOOLEAN, r.irq \in BOOLEAN,
         r.irq_since_mode_write \in BOOLEAN, r.reached_target \in BOOLEAN,
         r.reached_max \in BOOLEAN, r.istat \in BOOLEAN
  PROVE  r \in SystemTimers
BY DEF HasTimerNames, TimerNames, SystemTimers, Counts

\* The registers.
LEMMA WriteCounterAgrees ==
  ASSUME NEW t, NEW o, Agree(t, o), NEW value \in 0 .. MaxCount
  PROVE  Agree(WriteCounter(t, value), WriteCounter(o, value))
<1> DEFINE p == WriteCounter(o, value)
<1>0. o \in SystemTimers /\ HasTimerNames(o)
  BY AgreeingTimers, LikeItself DEF Like
<1>1. p \in SystemTimers
  BY <1>0 DEF SystemTimers, WriteCounter, Counts
<1>2. /\ p.target = o.target /\ p.repeat = o.repeat /\ p.toggle = o.toggle
      /\ p.irq_at_target = o.irq_at_target /\ p.reset_at_target = o.reset_at_target
  BY <1>0 DEF HasTimerNames, TimerNames, WriteCounter
<1>3. Regular(p)
  BY <1>1, <1>2, Zenon DEF Agree, Regular, Toggles, ResetsAtTarget
<1>4. WriteCounter(Forgot(o), value) = Forgot(p)
  BY <1>0 DEF WriteCounter, Forgot, HasTimerNames, TimerNames
<1> QED BY <1>3, <1>4, Zenon DEF Agree, SameButMax

LEMMA WriteTargetAgrees ==
  ASSUME NEW t, NEW o, Agree(t, o), NEW value \in 0 .. MaxCount, Exact(t, value)
  PROVE  Agree(WriteTarget(t, value), WriteTarget(o, value))
<1> DEFINE p == WriteTarget(o, value)
<1>0. o \in SystemTimers /\ HasTimerNames(o)
  BY AgreeingTimers, LikeItself DEF Like
<1>1. p \in SystemTimers
  BY <1>0 DEF SystemTimers, WriteTarget, Counts
<1>2. /\ p.target = value /\ p.repeat = o.repeat /\ p.toggle = o.toggle
      /\ p.irq_at_target = o.irq_at_target /\ p.reset_at_target = o.reset_at_target
  BY <1>0 DEF HasTimerNames, TimerNames, WriteTarget
<1>3. Exact(o, value)
  BY AgreeingTimers, Zenon DEF Exact
<1>4. Regular(p)
  BY <1>1, <1>2, <1>3, Zenon DEF Exact, Regular, Toggles, ResetsAtTarget
<1>5. WriteTarget(Forgot(o), value) = Forgot(p)
  BY <1>0 DEF WriteTarget, Forgot, HasTimerNames, TimerNames
<1> QED BY <1>4, <1>5, Zenon DEF Agree, SameButMax

LEMMA WriteModeAgrees ==
  ASSUME NEW t, NEW o, Agree(t, o), NEW m \in ModeValues, Exact(m, t.target)
  PROVE  Agree(WriteMode(t, m), WriteMode(o, m))
<1> DEFINE p == WriteMode(o, m)
<1>0. o \in SystemTimers /\ HasTimerNames(o) /\ t.target = o.target
  BY AgreeingTimers, LikeItself DEF Like
<1>m. /\ m.repeat \in BOOLEAN /\ m.toggle \in BOOLEAN /\ m.irq_at_target \in BOOLEAN
      /\ m.reset_at_target \in BOOLEAN /\ m.irq_at_max \in BOOLEAN
      /\ 0 \in 0 .. MaxCount
  BY TimerWidth DEF ModeValues
<1>1. p \in SystemTimers
  <2> DEFINE irq == o.irq /\ ~m.set_irq /\ m.toggle
  <2>1. irq \in BOOLEAN
    OBVIOUS
  <2>2. HasTimerNames(p)
    BY <1>0 DEF WriteMode, HasTimerNames
  <2>3. /\ p.counter = 0 /\ p.target = o.target /\ p.reset_at_target = m.reset_at_target
        /\ p.irq_at_target = m.irq_at_target /\ p.irq_at_max = m.irq_at_max
        /\ p.repeat = m.repeat /\ p.toggle = m.toggle /\ p.irq = irq
        /\ p.irq_since_mode_write = FALSE /\ p.reached_target = o.reached_target
        /\ p.reached_max = o.reached_max /\ p.istat = o.istat
    BY <1>0 DEF WriteMode, HasTimerNames, TimerNames
  <2> HIDE DEF irq, p
  <2> QED BY <1>0, <1>m, <2>1, <2>2, <2>3, TimerFields, TimerIs
<1>2. /\ p.target = o.target /\ p.repeat = m.repeat /\ p.toggle = m.toggle
      /\ p.irq_at_target = m.irq_at_target /\ p.reset_at_target = m.reset_at_target
  BY <1>0 DEF HasTimerNames, TimerNames, WriteMode
<1>3. Exact(m, o.target)
  BY <1>0
<1>4. Regular(p)
  BY <1>1, <1>2, <1>3, Zenon DEF Exact, Regular, Toggles, ResetsAtTarget
<1>5. WriteMode(Forgot(o), m) = Forgot(p)
  BY <1>0 DEF WriteMode, Forgot, HasTimerNames, TimerNames
<1> QED BY <1>4, <1>5, Zenon DEF Agree, SameButMax

LEMMA ReadModeAgrees ==
  ASSUME NEW t, NEW o, Agree(t, o)
  PROVE  Agree(ReadMode(t), ReadMode(o))
<1> DEFINE p == ReadMode(o)
<1>0. o \in SystemTimers /\ HasTimerNames(o)
  BY AgreeingTimers, LikeItself DEF Like
<1>1. p \in SystemTimers
  BY <1>0 DEF SystemTimers, ReadMode
<1>2. /\ p.target = o.target /\ p.repeat = o.repeat /\ p.toggle = o.toggle
      /\ p.irq_at_target = o.irq_at_target /\ p.reset_at_target = o.reset_at_target
  BY <1>0 DEF HasTimerNames, TimerNames, ReadMode
<1>3. Regular(p)
  BY <1>1, <1>2, Zenon DEF Agree, Regular, Toggles, ResetsAtTarget
<1>4. ReadMode(Forgot(o)) = p
  BY <1>0 DEF ReadMode, Forgot, HasTimerNames, TimerNames
<1> QED BY <1>3, <1>4, Zenon DEF Agree, SameButMax

LEMMA ClearedAgrees ==
  ASSUME NEW t, NEW o, Agree(t, o)
  PROVE  Agree(Cleared(t), Cleared(o))
<1> DEFINE p == Cleared(o)
<1>0. o \in SystemTimers /\ HasTimerNames(o)
  BY AgreeingTimers, LikeItself DEF Like
<1>1. Regular(p)
  BY <1>0, ClearedIsLike DEF Agree
<1>2. Cleared(Forgot(o)) = Forgot(p)
  BY <1>0 DEF Cleared, Forgot, HasTimerNames, TimerNames
<1> QED BY <1>1, <1>2, Zenon DEF Agree, SameButMax

LEMMA CatchUpKeeps ==
  ASSUME NEW t, NEW o, Agree(t, o), NEW n \in Nat \ {0}
  PROVE  Agree(Clock(t, n), Count(o, n))
<1> DEFINE p == Count(o, n)
           c == CountAt(o, n)
           rt == o.reached_target \/ TargetBy(o, n)
           rm == o.reached_max \/ MaxBy(o, n)
           k == IrqsBy(o, n)
<1>1. SameButMax(Clock(t, n), p) /\ p \in SystemTimers
  BY ClockCountsOneByOne DEF Agree
<1>2. p = After(o, c, rt, rm, k)
  BY CountIsClosed DEF Closed, Agree
<1> HIDE DEF p, c, rt, rm, k
<1>3. /\ p.target = o.target /\ p.repeat = o.repeat /\ p.toggle = o.toggle
      /\ p.irq_at_target = o.irq_at_target /\ p.reset_at_target = o.reset_at_target
  BY <1>2, MadeFields DEF After
<1>4. Regular(p)
  BY <1>1, <1>3, Zenon DEF Agree, Regular, Toggles, ResetsAtTarget
<1> QED BY <1>1, <1>4 DEF Agree, p

-----------------------------------------------------------------------------
\* The inductive invariant: whatever the part, the two timers agree.
TimersAgree == Agree(timer, counted)

LEMMA InitTimers == Counter!Init => TimersAgree
<1> SUFFICES ASSUME Counter!Init PROVE TimersAgree
  OBVIOUS
<1> DEFINE o == NewTimer
<1>1. timer = o /\ counted = o
  BY CounterIsTimer DEF Counter!Init
<1>2. o \in SystemTimers
  BY TimerWidth DEF NewTimer, SystemTimers, Counts
<1>3. Regular(o)
  <2>1. o.toggle = FALSE
    BY DEF NewTimer
  <2> QED BY <1>2, <2>1 DEF Regular, Toggles
<1> QED BY <1>1, <1>3 DEF TimersAgree, Agree, SameButMax

LEMMA TimersStep ==
  ASSUME TimersAgree, Counter!Next
  PROVE  TimersAgree'
<1>0. Agree(timer, counted)
  BY DEF TimersAgree
<1>1. ASSUME NEW clocks \in 1 .. TimerClocks, Counter!CatchUp(clocks) PROVE TimersAgree'
  <2>1. clocks \in Nat \ {0}
    BY TimersAreValid
  <2> QED BY <1>0, <1>1, <2>1, CatchUpKeeps, CounterIsTimer DEF Counter!CatchUp, TimersAgree
<1>2. ASSUME NEW m \in ModeValues, Counter!HostWritesMode(m) PROVE TimersAgree'
  <2>1. Exact(m, timer.target)
    BY <1>2 DEF Counter!HostWritesMode
  <2>2. timer' = WriteMode(timer, m) /\ counted' = WriteMode(counted, m)
    BY <1>2, CounterIsTimer DEF Counter!HostWritesMode, Counter!Both
  <2> QED BY <1>0, <2>1, <2>2, WriteModeAgrees DEF TimersAgree
<1>3. ASSUME NEW value \in Counts, Counter!HostWritesTarget(value) PROVE TimersAgree'
  <2>1. Exact(timer, value) /\ value \in 0 .. MaxCount
    BY <1>3 DEF Counter!HostWritesTarget, Counts
  <2>2. timer' = WriteTarget(timer, value) /\ counted' = WriteTarget(counted, value)
    BY <1>3, CounterIsTimer DEF Counter!HostWritesTarget, Counter!Both
  <2> QED BY <1>0, <2>1, <2>2, WriteTargetAgrees DEF TimersAgree
<1>4. ASSUME NEW value \in Counts, Counter!HostWritesCounter(value) PROVE TimersAgree'
  <2>1. value \in 0 .. MaxCount
    BY DEF Counts
  <2>2. timer' = WriteCounter(timer, value) /\ counted' = WriteCounter(counted, value)
    BY <1>4, CounterIsTimer DEF Counter!HostWritesCounter, Counter!Both
  <2> QED BY <1>0, <2>1, <2>2, WriteCounterAgrees DEF TimersAgree
<1>5. CASE Counter!HostReadsMode
  <2>1. timer' = ReadMode(timer) /\ counted' = ReadMode(counted)
    BY <1>5, CounterIsTimer DEF Counter!HostReadsMode, Counter!Both
  <2> QED BY <1>0, <2>1, ReadModeAgrees DEF TimersAgree
<1>6. CASE Counter!HostAcknowledges
  <2>1. timer' = Cleared(timer) /\ counted' = Cleared(counted)
    BY <1>6 DEF Counter!HostAcknowledges, Counter!Both, Cleared
  <2> QED BY <1>0, <2>1, ClearedAgrees DEF TimersAgree
<1> QED BY <1>1, <1>2, <1>3, <1>4, <1>5, <1>6, CounterIsTimer, Zenon DEF Counter!Next

LEMMA TimersUntouched ==
  ASSUME TimersAgree, UNCHANGED counter_vars
  PROVE  TimersAgree'
<1>1. timer' = timer /\ counted' = counted
  BY DEF counter_vars
<1> QED BY <1>1, Zenon DEF TimersAgree

LEMMA TimersPart ==
  ASSUME TimersAgree, [MCNext]_mc_vars
  PROVE  TimersAgree'
<1>1. CASE Counter!Next
  BY <1>1, TimersStep
<1>2. CASE UNCHANGED counter_vars
  BY <1>2, TimersUntouched
<1>3. Counter!Next \/ UNCHANGED counter_vars
  BY DEF MCNext, mc_vars
<1> QED BY <1>1, <1>2, <1>3

LEMMA AgreeingTimersCount == TimersAgree => CountsAndPredicts
<1> SUFFICES ASSUME TimersAgree PROVE CountsAndPredicts
  OBVIOUS
<1>1. Regular(timer)
  BY AgreeingTimers DEF TimersAgree
<1>2. Counter!LazyCountIsExact
  BY DEF TimersAgree, Agree, SameButMax, Forgot, Counter!LazyCountIsExact
<1> QED BY <1>1, <1>2, Predicted DEF CountsAndPredicts

\* A timer that counts any number of clocks at once counts what one that counts them one by
\* one does, and the event it asks for comes exactly with its next interrupt: at every
\* register access and catch-up, whatever the width of the counter.
THEOREM CountsAlwaysAndPredicts == MCSpec => []CountsAndPredicts
<1>1. MCInit => TimersAgree
  BY InitTimers DEF MCInit
<1>2. TimersAgree /\ [MCNext]_mc_vars => TimersAgree'
  BY TimersPart
<1> QED BY <1>1, <1>2, AgreeingTimersCount, PTL DEF MCSpec
-----------------------------------------------------------------------------
\* A digit and its carry are the sum; a digit and its borrow, the difference.
LEMMA Digits ==
  ASSUME NEW base \in Nat \ {0}, NEW a \in 0 .. base - 1, NEW b \in 0 .. base - 1, NEW c \in {0, 1}
  PROVE  \E d \in 0 .. base - 1, e \in {0, 1} :
           AddDigit(a, b, c, base) = [digit |-> d, carry |-> e] /\ d + e * base = a + b + c
<1> DEFINE sum == a + b + c
<1>1. sum \in Nat /\ sum < 2 * base
  OBVIOUS
<1>2. CASE sum < base
  <2>1. sum % base = sum
    BY <1>1, <1>2
  <2>2. AddDigit(a, b, c, base) = [digit |-> sum, carry |-> 0]
    BY <1>1, <1>2, <2>1 DEF AddDigit
  <2> QED BY <1>1, <1>2, <2>2
<1>3. CASE sum >= base
  <2>1. sum % base = sum - base
    BY <1>1, <1>3
  <2>2. AddDigit(a, b, c, base) = [digit |-> sum - base, carry |-> 1]
    BY <1>1, <1>3, <2>1 DEF AddDigit
  <2>3. sum - base \in 0 .. base - 1
    BY <1>1, <1>3
  <2> QED BY <1>1, <2>2, <2>3
<1> QED BY <1>1, <1>2, <1>3

LEMMA SubDigits ==
  ASSUME NEW base \in Nat \ {0}, NEW a \in 0 .. base - 1, NEW b \in 0 .. base - 1, NEW c \in {0, 1}
  PROVE  \E d \in 0 .. base - 1, e \in {0, 1} :
           SubDigit(a, b, c, base) = [digit |-> d, carry |-> e] /\ d + b + c = a + e * base
<1>1. CASE a < b + c
  <2>1. SubDigit(a, b, c, base) = [digit |-> base - (b + c - a), carry |-> 1]
    BY <1>1 DEF SubDigit
  <2>2. base - (b + c - a) \in 0 .. base - 1
    BY <1>1
  <2> QED BY <2>1, <2>2
<1>2. CASE ~ (a < b + c)
  <2>1. SubDigit(a, b, c, base) = [digit |-> a - (b + c), carry |-> 0]
    BY <1>2 DEF SubDigit
  <2>2. a - (b + c) \in 0 .. base - 1
    BY <1>2
  <2> QED BY <2>1, <2>2
<1> QED BY <1>1, <1>2

LEMMA Fields ==
  ASSUME NEW a \in Times
  PROVE  /\ a.frames \in 0 .. FRAMES_PER_SECOND - 1
         /\ a.seconds \in 0 .. SECONDS_PER_MINUTE - 1
         /\ a.minutes \in 0 .. MAX_MINUTES - 1
  BY DEF Times

\* Adding two times adds their sector numbers, unless the sum is past the longest disc; then it
\* wraps to the beginning (cdtime.rs: Add).
THEOREM PlusAddsSectors ==
  ASSUME BasesAssumption, NEW a \in Times, NEW b \in Times
  PROVE  /\ Plus(a, b) \in Times
         /\ \E wraps \in {0, 1} :
              ToSector(Plus(a, b)) + wraps * MAX_SECTORS = ToSector(a) + ToSector(b)
<1> DEFINE F == FRAMES_PER_SECOND
           S == SECONDS_PER_MINUTE
           M == MAX_MINUTES
<1>1. F \in Nat \ {0} /\ S \in Nat \ {0} /\ M \in Nat \ {0}
  BY DEF BasesAssumption
<1>2. PICK xa \in 0 .. F - 1, ya \in 0 .. S - 1, za \in 0 .. M - 1 :
        a = [minutes |-> za, seconds |-> ya, frames |-> xa]
  BY DEF Times
<1>3. PICK xb \in 0 .. F - 1, yb \in 0 .. S - 1, zb \in 0 .. M - 1 :
        b = [minutes |-> zb, seconds |-> yb, frames |-> xb]
  BY DEF Times
<1>4. PICK f \in 0 .. F - 1, c \in {0, 1} :
        AddDigit(xa, xb, 0, F) = [digit |-> f, carry |-> c] /\ f + c * F = xa + xb + 0
  BY <1>1, Digits
<1>5. PICK s \in 0 .. S - 1, d \in {0, 1} :
        AddDigit(ya, yb, c, S) = [digit |-> s, carry |-> d] /\ s + d * S = ya + yb + c
  BY <1>1, Digits
<1>6. PICK m \in 0 .. M - 1, e \in {0, 1} :
        AddDigit(za, zb, d, M) = [digit |-> m, carry |-> e] /\ m + e * M = za + zb + d
  BY <1>1, Digits
<1>7. Plus(a, b) = [minutes |-> m, seconds |-> s, frames |-> f]
  BY <1>2, <1>3, <1>4, <1>5, <1>6 DEF Plus
<1>8. Plus(a, b) \in Times
  BY <1>7 DEF Times
<1>9. (S * m + s) * F + f + e * (M * S * F)
        = (S * (za + zb) + (ya + yb)) * F + (xa + xb)
  <2>1. /\ f + c * F = xa + xb
        /\ s + d * S = (ya + yb) + c
        /\ m + e * M = (za + zb) + d
    BY <1>1, <1>4, <1>5, <1>6
  <2>2. /\ f \in Int /\ s \in Int /\ m \in Int /\ c \in Int /\ d \in Int /\ e \in Int
        /\ xa + xb \in Int /\ ya + yb \in Int /\ za + zb \in Int
    BY <1>1
  <2> HIDE DEF F, S, M
  <2>3. m = (za + zb) + d - e * M /\ s = (ya + yb) + c - d * S
    BY <1>1, <2>1, <2>2
  <2>4. S * m = S * (za + zb) + S * d - S * (e * M)
    BY <1>1, <2>2, <2>3
  <2>5. S * m + s = (S * (za + zb) + (ya + yb)) + c - S * (e * M)
    BY <1>1, <2>2, <2>3, <2>4
  <2>6. (S * m + s) * F = (S * (za + zb) + (ya + yb)) * F + c * F - (S * (e * M)) * F
    BY <1>1, <2>2, <2>5
  <2>7. (S * (e * M)) * F = e * (M * S * F)
    BY <1>1, <2>2
  <2> QED BY <1>1, <2>1, <2>2, <2>6, <2>7
<1>10. (S * (za + zb) + (ya + yb)) * F + (xa + xb) = ToSector(a) + ToSector(b)
  BY <1>1, <1>2, <1>3 DEF ToSector
<1>11. ToSector(Plus(a, b)) = (S * m + s) * F + f
  BY <1>7 DEF ToSector
<1>12. ToSector(Plus(a, b)) + e * MAX_SECTORS = ToSector(a) + ToSector(b)
  BY <1>9, <1>10, <1>11 DEF MAX_SECTORS
<1> QED BY <1>8, <1>12

\* Subtracting times subtracts their sector numbers, and a difference below 0 wraps to the end
\* of the longest disc (cdtime.rs: Sub).
THEOREM MinusSubtractsSectors ==
  ASSUME BasesAssumption, NEW a \in Times, NEW b \in Times
  PROVE  /\ Minus(a, b) \in Times
         /\ \E wraps \in {0, 1} :
              ToSector(Minus(a, b)) + ToSector(b) = ToSector(a) + wraps * MAX_SECTORS
<1> DEFINE F == FRAMES_PER_SECOND
           S == SECONDS_PER_MINUTE
           M == MAX_MINUTES
<1>1. F \in Nat \ {0} /\ S \in Nat \ {0} /\ M \in Nat \ {0}
  BY DEF BasesAssumption
<1>2. PICK xa \in 0 .. F - 1, ya \in 0 .. S - 1, za \in 0 .. M - 1 :
        a = [minutes |-> za, seconds |-> ya, frames |-> xa]
  BY DEF Times
<1>3. PICK xb \in 0 .. F - 1, yb \in 0 .. S - 1, zb \in 0 .. M - 1 :
        b = [minutes |-> zb, seconds |-> yb, frames |-> xb]
  BY DEF Times
<1>4. PICK f \in 0 .. F - 1, c \in {0, 1} :
        SubDigit(xa, xb, 0, F) = [digit |-> f, carry |-> c] /\ f + xb + 0 = xa + c * F
  BY <1>1, SubDigits
<1>5. PICK s \in 0 .. S - 1, d \in {0, 1} :
        SubDigit(ya, yb, c, S) = [digit |-> s, carry |-> d] /\ s + yb + c = ya + d * S
  BY <1>1, SubDigits
<1>6. PICK m \in 0 .. M - 1, e \in {0, 1} :
        SubDigit(za, zb, d, M) = [digit |-> m, carry |-> e] /\ m + zb + d = za + e * M
  BY <1>1, SubDigits
<1>7. Minus(a, b) = [minutes |-> m, seconds |-> s, frames |-> f]
  BY <1>2, <1>3, <1>4, <1>5, <1>6 DEF Minus
<1>8. Minus(a, b) \in Times
  BY <1>7 DEF Times
<1>9. ((S * m + s) * F + f) - e * (M * S * F)
        = (S * (za - zb) + (ya - yb)) * F + (xa - xb)
  <2>1. /\ f - c * F = xa - xb
        /\ s - d * S = (ya - yb) - c
        /\ m - e * M = (za - zb) - d
    BY <1>1, <1>4, <1>5, <1>6
  <2>2. /\ f \in Int /\ s \in Int /\ m \in Int /\ c \in Int /\ d \in Int /\ e \in Int
        /\ xa - xb \in Int /\ ya - yb \in Int /\ za - zb \in Int
    BY <1>1
  <2> HIDE DEF F, S, M
  <2>3. m = (za - zb) - d + e * M /\ s = (ya - yb) - c + d * S
    BY <1>1, <2>1, <2>2
  <2>4. S * m = S * (za - zb) - S * d + S * (e * M)
    BY <1>1, <2>2, <2>3
  <2>5. S * m + s = (S * (za - zb) + (ya - yb)) - c + S * (e * M)
    BY <1>1, <2>2, <2>3, <2>4
  <2>6. (S * m + s) * F = (S * (za - zb) + (ya - yb)) * F - c * F + (S * (e * M)) * F
    BY <1>1, <2>2, <2>5
  <2>7. (S * (e * M)) * F = e * (M * S * F)
    BY <1>1, <2>2
  <2> QED BY <1>1, <2>1, <2>2, <2>6, <2>7
<1>10. (S * (za - zb) + (ya - yb)) * F + (xa - xb) = ToSector(a) - ToSector(b)
  BY <1>1, <1>2, <1>3 DEF ToSector
<1>11. ToSector(Minus(a, b)) = (S * m + s) * F + f
  BY <1>7 DEF ToSector
<1>12. ToSector(Minus(a, b)) + ToSector(b) = ToSector(a) + e * MAX_SECTORS
  <2>1. e * MAX_SECTORS = e * (M * S * F)
    BY DEF MAX_SECTORS
  <2>2. /\ ToSector(Minus(a, b)) \in Int /\ ToSector(a) \in Int /\ ToSector(b) \in Int
        /\ e * (M * S * F) \in Int
    BY <1>1, <1>2, <1>3, <1>7 DEF ToSector
  <2> HIDE DEF F, S, M
  <2>3. ToSector(Minus(a, b)) - e * (M * S * F) = ToSector(a) - ToSector(b)
    BY <1>9, <1>10, <1>11, Zenon
  <2> QED BY <2>1, <2>2, <2>3
<1> QED BY <1>8, <1>12

\* Times are in the order of their sectors (cdtime.rs: Ord).
THEOREM BeforeIsTheOrderOfSectors ==
  ASSUME BasesAssumption, NEW a \in Times, NEW b \in Times
  PROVE  Before(a, b) <=> ToSector(a) < ToSector(b)
<1> DEFINE F == FRAMES_PER_SECOND
           S == SECONDS_PER_MINUTE
           u == S * a.minutes + a.seconds
           v == S * b.minutes + b.seconds
<1>1. F \in Nat \ {0} /\ S \in Nat \ {0}
  BY DEF BasesAssumption
<1>2. ASSUME NEW base \in Nat \ {0}, NEW i \in Nat, NEW j \in Nat,
             NEW x \in 0 .. base - 1, NEW y \in 0 .. base - 1
      PROVE  (base * i + x < base * j + y) <=> (i < j \/ (i = j /\ x < y))
  <2>1. ASSUME NEW p \in Nat, NEW q \in Nat, p < q PROVE base * p + base <= base * q
    <3>1. q - p - 1 \in Nat
      BY <2>1
    <3>2. base * q = base * p + base + base * (q - p - 1)
      OBVIOUS
    <3>3. base * (q - p - 1) \in Nat
      BY <3>1
    <3> QED BY <3>2, <3>3
  <2>2. CASE i < j
    BY <2>1, <2>2
  <2>3. CASE j < i
    BY <2>1, <2>3
  <2>4. CASE i = j
    BY <2>4
  <2> QED BY <2>2, <2>3, <2>4
<1>3. u \in Nat /\ v \in Nat
  BY <1>1, Fields
<1>4. (u < v) <=> (a.minutes < b.minutes \/ (a.minutes = b.minutes /\ a.seconds < b.seconds))
  BY <1>1, <1>2, Fields
<1>5. (v < u) <=> (b.minutes < a.minutes \/ (b.minutes = a.minutes /\ b.seconds < a.seconds))
  BY <1>1, <1>2, Fields
<1>6. (u = v) <=> (a.minutes = b.minutes /\ a.seconds = b.seconds)
  BY <1>3, <1>4, <1>5, Fields
<1>7. ToSector(a) = F * u + a.frames /\ ToSector(b) = F * v + b.frames
  BY <1>1, <1>3, Fields DEF ToSector
<1> HIDE DEF u, v
<1>8. (F * u + a.frames < F * v + b.frames) <=> (u < v \/ (u = v /\ a.frames < b.frames))
  BY <1>1, <1>2, <1>3, Fields
<1> QED BY <1>4, <1>6, <1>7, <1>8 DEF Before
-----------------------------------------------------------------------------
\* Induction, for a set of numbers.
LEMMA OneMore ==
  ASSUME NEW S, 0 \in S, \A n \in Nat : n \in S => n + 1 \in S
  PROVE  \A n \in Nat : n \in S
<1> DEFINE Bad == Nat \ S
<1>1. SUFFICES ASSUME Bad # {} PROVE FALSE
  OBVIOUS
<1>2. PICK k \in Bad : \A i \in Bad : ~(<<i, k>> \in OpToRel(<, Nat))
  <2>1. Bad \subseteq Nat
    OBVIOUS
  <2> QED BY <1>1, <2>1, NatLessThanWellFounded, WFMin
<1>3. k \in Nat /\ k # 0 /\ k \notin S
  OBVIOUS
<1>4. k - 1 \in Nat /\ k - 1 < k /\ (k - 1) + 1 = k
  BY <1>3
<1>5. k - 1 \notin Bad
  BY <1>2, <1>4 DEF OpToRel
<1>6. k - 1 \in S
  BY <1>4, <1>5
<1> QED BY <1>3, <1>4, <1>6

\* What is repeated: a GPU cycle of the beam, a step of either walk while cycles are left,
\* a clock of a counter, and a CPU cycle of the divided clock.
Step(kind, x) ==
  CASE kind = "cycle" -> BeamOne(x)
    [] kind = "line" -> IF x.left = 0 THEN x ELSE WalkLine(x)
    [] kind = "part" -> IF x.left = 0 THEN x ELSE WalkPart(x)
    [] kind = "count" -> CountOne(x)
    [] kind = "slow" -> SlowOne(x)
Run(f, kind, x, n) == f = [k \in 0 .. n |-> IF k = 0 THEN x ELSE Step(kind, f[k - 1])]
Steps(kind, x, n) == (CHOOSE f : Run(f, kind, x, n))[n]

LEMMA RunAt ==
  ASSUME NEW kind, NEW x, NEW n \in Nat, NEW f, Run(f, kind, x, n)
  PROVE  /\ f[0] = x
         /\ \A k \in 0 .. n - 1 : f[k + 1] = Step(kind, f[k])
<1>1. f[0] = x
  BY DEF Run
<1>2. ASSUME NEW k \in 0 .. n - 1 PROVE f[k + 1] = Step(kind, f[k])
  <2>1. k + 1 \in 0 .. n /\ k + 1 # 0 /\ (k + 1) - 1 = k
    OBVIOUS
  <2>2. f[k + 1] = IF k + 1 = 0 THEN x ELSE Step(kind, f[(k + 1) - 1])
    BY <2>1, Zenon DEF Run
  <2> QED BY <2>1, <2>2
<1> QED BY <1>1, <1>2

LEMMA RunExists ==
  ASSUME NEW kind, NEW x
  PROVE  \A n \in Nat : \E f : Run(f, kind, x, n)
<1> DEFINE S == {n \in Nat : \E f : Run(f, kind, x, n)}
<1>1. 0 \in S
  <2> DEFINE f == [k \in 0 .. 0 |-> x]
  <2>1. Run(f, kind, x, 0)
    <3>1. \A k \in 0 .. 0 : k = 0
      OBVIOUS
    <3> QED BY <3>1 DEF Run
  <2> QED BY <2>1
<1>2. ASSUME NEW n \in Nat, n \in S PROVE n + 1 \in S
  <2>1. PICK f : Run(f, kind, x, n)
    BY <1>2
  <2> DEFINE h == [k \in 0 .. n + 1 |-> IF k = 0 THEN x ELSE Step(kind, f[k - 1])]
  <2>2. \A k \in 0 .. n : h[k] = f[k]
    <3>1. \A k \in 0 .. n : f[k] = IF k = 0 THEN x ELSE Step(kind, f[k - 1])
      BY <2>1, Zenon DEF Run
    <3> QED BY <3>1
  <2>3. \A k \in 0 .. n + 1 : k # 0 => k - 1 \in 0 .. n
    OBVIOUS
  <2>4. h = [k \in 0 .. n + 1 |-> IF k = 0 THEN x ELSE Step(kind, h[k - 1])]
    <3> HIDE DEF Step
    <3>1. \A k \in 0 .. n + 1 : h[k] = IF k = 0 THEN x ELSE Step(kind, h[k - 1])
      BY <2>2, <2>3
    <3>2. h = [k \in 0 .. n + 1 |-> h[k]]
      OBVIOUS
    <3> QED BY <3>1, <3>2, Zenon
  <2>5. Run(h, kind, x, n + 1)
    BY <2>4, Zenon DEF Run
  <2> QED BY <2>5
<1>3. \A n \in Nat : n \in S
  BY <1>1, <1>2, OneMore
<1> QED BY <1>3

LEMMA RunIsOne ==
  ASSUME NEW kind, NEW x, NEW n \in Nat, NEW m \in Nat, n <= m,
         NEW f, Run(f, kind, x, n), NEW h, Run(h, kind, x, m)
  PROVE  \A k \in 0 .. n : f[k] = h[k]
<1> DEFINE S == {k \in Nat : k <= n => f[k] = h[k]}
<1>1. 0 \in S
  <2>1. f[0] = x
    BY RunAt
  <2>2. h[0] = x
    <3>1. 0 \in 0 .. m
      OBVIOUS
    <3> QED BY <3>1 DEF Run
  <2> QED BY <2>1, <2>2
<1>2. ASSUME NEW k \in Nat, k \in S PROVE k + 1 \in S
  <2>1. SUFFICES ASSUME k + 1 <= n PROVE f[k + 1] = h[k + 1]
    OBVIOUS
  <2>2. k \in 0 .. n - 1 /\ k \in 0 .. m - 1
    BY <2>1
  <2>3. f[k + 1] = Step(kind, f[k])
    BY <2>2, RunAt
  <2>4. h[k + 1] = Step(kind, h[k])
    BY <2>2, RunAt
  <2>5. f[k] = h[k]
    BY <1>2, <2>1
  <2> QED BY <2>3, <2>4, <2>5
<1>3. \A k \in Nat : k \in S
  BY <1>1, <1>2, OneMore
<1> QED BY <1>3

LEMMA StepsGoOn ==
  ASSUME NEW kind, NEW x
  PROVE  /\ Steps(kind, x, 0) = x
         /\ \A n \in Nat : Steps(kind, x, n + 1) = Step(kind, Steps(kind, x, n))
<1> DEFINE R(n) == CHOOSE f : Run(f, kind, x, n)
<1>1. \A n \in Nat : Run(R(n), kind, x, n)
  BY RunExists
<1>2. \A n \in Nat : Steps(kind, x, n) = R(n)[n]
  BY DEF Steps
<1> HIDE DEF R
<1>3. Steps(kind, x, 0) = x
  BY <1>1, <1>2, RunAt
<1>4. ASSUME NEW n \in Nat PROVE Steps(kind, x, n + 1) = Step(kind, Steps(kind, x, n))
  <2>1. R(n)[n] = R(n + 1)[n]
    BY <1>1, RunIsOne
  <2>2. R(n + 1)[n + 1] = Step(kind, R(n + 1)[n])
    <3>1. Run(R(n + 1), kind, x, n + 1) /\ n + 1 \in Nat /\ n \in 0 .. (n + 1) - 1
      BY <1>1
    <3> QED BY <3>1, RunAt
  <2> QED BY <1>2, <2>1, <2>2
<1> QED BY <1>3, <1>4

LEMMA StepsAdd ==
  ASSUME NEW kind, NEW x, NEW m \in Nat
  PROVE  \A n \in Nat : Steps(kind, x, m + n) = Steps(kind, Steps(kind, x, m), n)
<1> DEFINE y == Steps(kind, x, m)
           S == {n \in Nat : Steps(kind, x, m + n) = Steps(kind, y, n)}
<1>1. 0 \in S
  BY StepsGoOn
<1>2. ASSUME NEW n \in Nat, n \in S PROVE n + 1 \in S
  <2>0. m + n \in Nat
    OBVIOUS
  <2>1. Steps(kind, x, (m + n) + 1) = Step(kind, Steps(kind, x, m + n))
    BY <2>0, StepsGoOn
  <2>2. Steps(kind, y, n + 1) = Step(kind, Steps(kind, y, n))
    BY StepsGoOn
  <2>3. (m + n) + 1 = m + (n + 1)
    OBVIOUS
  <2> HIDE DEF y
  <2> QED BY <1>2, <2>1, <2>2, <2>3
<1>3. \A n \in Nat : n \in S
  <2> HIDE DEF S
  <2> QED BY <1>1, <1>2, OneMore
<1> QED BY <1>3

\* The model's repetitions.
LEMMA RepeatedSteps ==
  /\ \A g, n : BeamSteps(g, n) = Steps("cycle", g, n)
  /\ \A t, n : Count(t, n) = Steps("count", t, n)
  /\ \A w : RunWalk(WalkLine, w) = Steps("line", w, w.left)
  /\ \A w : RunWalk(WalkPart, w) = Steps("part", w, w.left)
  /\ \A t, c, n : SlowCount(t, c, n) = Steps("slow", [timer |-> t, cycle |-> c], n).timer
<1>1. ASSUME NEW g, NEW n PROVE BeamSteps(g, n) = Steps("cycle", g, n)
  BY Zenon DEF BeamSteps, Steps, Run, Step
<1>2. ASSUME NEW t, NEW n PROVE Count(t, n) = Steps("count", t, n)
  <2>1. \A x : Step("count", x) = CountOne(x)
    BY DEF Step
  <2> QED BY <2>1, Zenon DEF Count, Steps, Run
<1>3. ASSUME NEW w PROVE RunWalk(WalkLine, w) = Steps("line", w, w.left)
  <2>1. \A x : Step("line", x) = IF x.left = 0 THEN x ELSE WalkLine(x)
    BY DEF Step
  <2> QED BY <2>1, ZenonT(60) DEF RunWalk, Steps, Run
<1>4. ASSUME NEW w PROVE RunWalk(WalkPart, w) = Steps("part", w, w.left)
  <2>1. \A x : Step("part", x) = IF x.left = 0 THEN x ELSE WalkPart(x)
    BY DEF Step
  <2> QED BY <2>1, ZenonT(60) DEF RunWalk, Steps, Run
<1>5. ASSUME NEW t, NEW c, NEW n
      PROVE  SlowCount(t, c, n) = Steps("slow", [timer |-> t, cycle |-> c], n).timer
  <2>1. \A x : Step("slow", x) = SlowOne(x)
    BY DEF Step
  <2> QED BY <2>1, ZenonT(60) DEF SlowCount, Steps, Run
<1> QED BY <1>1, <1>2, <1>3, <1>4, <1>5

LEMMA BeamGoesOn ==
  ASSUME NEW g
  PROVE  /\ BeamSteps(g, 0) = g
         /\ \A n \in Nat : BeamSteps(g, n + 1) = BeamOne(BeamSteps(g, n))
<1>1. \A x : Step("cycle", x) = BeamOne(x)
  BY DEF Step
<1>2. \A n : BeamSteps(g, n) = Steps("cycle", g, n)
  BY RepeatedSteps
<1>3. /\ Steps("cycle", g, 0) = g
      /\ \A n \in Nat : Steps("cycle", g, n + 1) = Step("cycle", Steps("cycle", g, n))
  BY StepsGoOn
<1> QED BY <1>1, <1>2, <1>3

LEMMA BeamAdds ==
  ASSUME NEW g, NEW m \in Nat, NEW n \in Nat, NEW s, s = m + n
  PROVE  BeamSteps(g, s) = BeamSteps(BeamSteps(g, m), n)
<1>1. Steps("cycle", g, m + n) = Steps("cycle", Steps("cycle", g, m), n)
  BY StepsAdd
<1> QED BY <1>1, RepeatedSteps

-----------------------------------------------------------------------------
\* The video clock.
GpuNames ==
  {"product", "line", "line_cycle", "odd_frame", "x1", "x2", "y1", "y2", "divider", "mode",
   "interlaced"}
HasGpuNames(g) == g = [f \in GpuNames |-> g[f]]

Framed(g) ==
  /\ HasGpuNames(g)
  /\ g.mode \in VideoModes /\ g.interlaced \in BOOLEAN /\ g.odd_frame \in BOOLEAN
  /\ g.x1 \in Nat /\ g.x2 \in Nat /\ g.y1 \in Nat /\ g.y2 \in Nat /\ g.divider \in Nat \ {0}
  /\ g.product \in 0 .. CpuClock - 1
OnScreen(g) ==
  /\ Framed(g)
  /\ g.line \in 0 .. LastLine(g) /\ g.line_cycle \in 0 .. CyclesInLine(g) - 1

\* What no GPU cycle changes.
SameFrame(g, h) ==
  /\ h.mode = g.mode /\ h.interlaced = g.interlaced /\ h.divider = g.divider
  /\ h.product = g.product
  /\ h.x1 = g.x1 /\ h.x2 = g.x2 /\ h.y1 = g.y1 /\ h.y2 = g.y2

At(g, to) == [g EXCEPT !.line_cycle = to]

LEMMA ClockRates ==
  /\ CpuClock \in Nat \ {0} /\ SlowDivider \in Nat \ {0}
  /\ \A m \in VideoModes : GpuClock[m] \in Nat \ {0} /\ CyclesPerLine[m] \in Nat \ {0, 1}
  /\ \A m \in VideoModes, i \in BOOLEAN : LinesPerFrame[m][i] \in Nat \ {0}
  BY TimersAreValid DEF ClockAssumption

LEMMA LineLengths ==
  ASSUME NEW g, g.mode \in VideoModes, g.interlaced \in BOOLEAN, g.line \in Nat
  PROVE  CyclesInLine(g) \in Nat \ {0} /\ LastLine(g) \in Nat
<1>1. CyclesPerLine[g.mode] \in Nat \ {0, 1} /\ LinesPerFrame[g.mode][g.interlaced] \in Nat \ {0}
  BY ClockRates
<1>2. g.line % 2 \in 0 .. 1
  OBVIOUS
<1>3. CyclesPerLine[g.mode] \div 2 \in Nat \ {0}
  BY <1>1
<1> QED BY <1>1, <1>2, <1>3 DEF CyclesInLine, LastLine

LEMMA NextLineFields ==
  ASSUME NEW g, HasGpuNames(g), NEW h, h = NextLine(g)
  PROVE  /\ HasGpuNames(h) /\ SameFrame(g, h)
         /\ h.line_cycle = 0
         /\ h.line = IF g.line >= LastLine(g) THEN 0 ELSE g.line + 1
         /\ h.odd_frame = IF g.line >= LastLine(g) THEN ~g.odd_frame ELSE g.odd_frame
<1>1. h = [g EXCEPT !.line_cycle = 0, !.line = (IF g.line >= LastLine(g) THEN 0 ELSE g.line + 1),
                    !.odd_frame = (IF g.line >= LastLine(g) THEN ~g.odd_frame ELSE g.odd_frame)]
  BY Zenon DEF NextLine
<1>2. HasGpuNames(h)
  BY <1>1 DEF HasGpuNames
<1>3. /\ h.line_cycle = 0
      /\ h.line = IF g.line >= LastLine(g) THEN 0 ELSE g.line + 1
      /\ h.odd_frame = IF g.line >= LastLine(g) THEN ~g.odd_frame ELSE g.odd_frame
  BY <1>1 DEF HasGpuNames, GpuNames
<1>4. SameFrame(g, h)
  BY <1>1 DEF HasGpuNames, GpuNames, SameFrame
<1> QED BY <1>2, <1>3, <1>4

LEMMA AtFields ==
  ASSUME NEW g, HasGpuNames(g), NEW to, NEW h, h = At(g, to)
  PROVE  /\ HasGpuNames(h) /\ SameFrame(g, h)
         /\ h.line_cycle = to /\ h.line = g.line /\ h.odd_frame = g.odd_frame
<1>1. h = [g EXCEPT !.line_cycle = to]
  BY DEF At
<1>2. HasGpuNames(h)
  BY <1>1 DEF HasGpuNames
<1>3. h.line_cycle = to /\ h.line = g.line /\ h.odd_frame = g.odd_frame
  BY <1>1 DEF HasGpuNames, GpuNames
<1>4. SameFrame(g, h)
  BY <1>1 DEF HasGpuNames, GpuNames, SameFrame
<1> QED BY <1>2, <1>3, <1>4

LEMMA SameFields2 ==
  ASSUME NEW g, NEW h, HasGpuNames(g), HasGpuNames(h), SameFrame(g, h),
         g.line = h.line, g.line_cycle = h.line_cycle, g.odd_frame = h.odd_frame
  PROVE  g = h
<1>1. \A f \in GpuNames : g[f] = h[f]
  BY DEF GpuNames, SameFrame
<1> QED BY <1>1, Zenon DEF HasGpuNames

LEMMA SameLines ==
  ASSUME NEW g, NEW h, SameFrame(g, h)
  PROVE  /\ LastLine(h) = LastLine(g)
         /\ h.line = g.line => CyclesInLine(h) = CyclesInLine(g)
         /\ Framed(g) /\ HasGpuNames(h) /\ h.odd_frame \in BOOLEAN => Framed(h)
<1>1. LastLine(h) = LastLine(g)
  BY Zenon DEF SameFrame, LastLine
<1>2. h.line = g.line => CyclesInLine(h) = CyclesInLine(g)
  BY <1>1 DEF SameFrame, CyclesInLine
<1>3. Framed(g) /\ HasGpuNames(h) /\ h.odd_frame \in BOOLEAN => Framed(h)
  BY DEF SameFrame, Framed
<1> QED BY <1>1, <1>2, <1>3

LEMMA NextLineStays ==
  ASSUME NEW g, Framed(g), g.line \in Nat, NEW h, h = NextLine(g)
  PROVE  OnScreen(h)
<1>1. /\ HasGpuNames(h) /\ SameFrame(g, h) /\ h.line_cycle = 0
      /\ h.line = IF g.line >= LastLine(g) THEN 0 ELSE g.line + 1
      /\ h.odd_frame = IF g.line >= LastLine(g) THEN ~g.odd_frame ELSE g.odd_frame
  BY NextLineFields DEF Framed
<1>2. Framed(h) /\ LastLine(h) = LastLine(g)
  BY <1>1, SameLines DEF Framed
<1>3. LastLine(g) \in Nat
  BY LineLengths DEF Framed
<1>4. h.line \in 0 .. LastLine(h)
  BY <1>1, <1>2, <1>3
<1>5. CyclesInLine(h) \in Nat \ {0}
  BY <1>2, <1>4, LineLengths DEF Framed
<1> QED BY <1>1, <1>2, <1>4, <1>5 DEF OnScreen

LEMMA AtStays ==
  ASSUME NEW g, OnScreen(g), NEW to \in 0 .. CyclesInLine(g) - 1, NEW h, h = At(g, to)
  PROVE  OnScreen(h)
<1>1. /\ HasGpuNames(h) /\ SameFrame(g, h)
      /\ h.line_cycle = to /\ h.line = g.line /\ h.odd_frame = g.odd_frame
  BY AtFields DEF OnScreen, Framed
<1>2. Framed(h) /\ LastLine(h) = LastLine(g) /\ CyclesInLine(h) = CyclesInLine(g)
  BY <1>1, SameLines DEF OnScreen, Framed
<1> QED BY <1>1, <1>2 DEF OnScreen

\* n cycles within a line.
Within(g, n) ==
  IF g.line_cycle + n = CyclesInLine(g) THEN NextLine(g) ELSE At(g, g.line_cycle + n)

LEMMA WithinLine ==
  ASSUME NEW g, OnScreen(g)
  PROVE  \A n \in 0 .. CyclesInLine(g) - g.line_cycle : BeamSteps(g, n) = Within(g, n)
<1>0. /\ CyclesInLine(g) \in Nat \ {0} /\ g.line_cycle \in 0 .. CyclesInLine(g) - 1
      /\ HasGpuNames(g)
  BY LineLengths DEF OnScreen, Framed
<1> DEFINE S == {n \in Nat : n <= CyclesInLine(g) - g.line_cycle => BeamSteps(g, n) = Within(g, n)}
<1>1. 0 \in S
  <2> DEFINE h == At(g, g.line_cycle + 0)
  <2>0. g.line_cycle + 0 = g.line_cycle
    BY <1>0
  <2>1. /\ HasGpuNames(h) /\ SameFrame(g, h)
        /\ h.line_cycle = g.line_cycle /\ h.line = g.line /\ h.odd_frame = g.odd_frame
    BY <1>0, <2>0, AtFields
  <2> HIDE DEF h
  <2>2. g = h
    BY <1>0, <2>1, SameFields2
  <2>3. Within(g, 0) = g
    BY <1>0, <2>0, <2>2 DEF Within, h
  <2> QED BY <2>3, BeamGoesOn
<1>2. ASSUME NEW n \in Nat, n \in S PROVE n + 1 \in S
  <2>0. SUFFICES ASSUME n + 1 <= CyclesInLine(g) - g.line_cycle
                 PROVE  BeamSteps(g, n + 1) = Within(g, n + 1)
    OBVIOUS
  <2> DEFINE h == At(g, g.line_cycle + n)
  <2>1. BeamSteps(g, n) = h
    BY <1>0, <1>2, <2>0 DEF Within
  <2>2. BeamSteps(g, n + 1) = BeamOne(h)
    BY <2>1, BeamGoesOn
  <2>3. /\ HasGpuNames(h) /\ SameFrame(g, h)
        /\ h.line_cycle = g.line_cycle + n /\ h.line = g.line /\ h.odd_frame = g.odd_frame
    BY <1>0, AtFields
  <2> HIDE DEF h
  <2>4. CyclesInLine(h) = CyclesInLine(g) /\ LastLine(h) = LastLine(g)
    BY <2>3, SameLines
  <2>5. CASE g.line_cycle + (n + 1) = CyclesInLine(g)
    <3> DEFINE p == NextLine(g)
               q == NextLine(h)
    <3>1. BeamOne(h) = q
      BY <1>0, <2>3, <2>4, <2>5 DEF BeamOne
    <3>2. /\ HasGpuNames(p) /\ SameFrame(g, p)
          /\ p.line_cycle = 0
          /\ p.line = IF g.line >= LastLine(g) THEN 0 ELSE g.line + 1
          /\ p.odd_frame = IF g.line >= LastLine(g) THEN ~g.odd_frame ELSE g.odd_frame
      BY <1>0, NextLineFields
    <3>3. /\ HasGpuNames(q) /\ SameFrame(h, q)
          /\ q.line_cycle = 0
          /\ q.line = IF h.line >= LastLine(h) THEN 0 ELSE h.line + 1
          /\ q.odd_frame = IF h.line >= LastLine(h) THEN ~h.odd_frame ELSE h.odd_frame
      BY <2>3, NextLineFields
    <3> HIDE DEF p, q
    <3>4. SameFrame(p, q)
      BY <2>3, <3>2, <3>3 DEF SameFrame
    <3>5. p = q
      <4>1. p.line = q.line /\ p.line_cycle = q.line_cycle /\ p.odd_frame = q.odd_frame
        BY <2>3, <2>4, <3>2, <3>3
      <4> QED BY <3>2, <3>3, <3>4, <4>1, SameFields2
    <3> QED BY <2>2, <2>5, <3>1, <3>5 DEF Within, p
  <2>6. CASE g.line_cycle + (n + 1) # CyclesInLine(g)
    <3> DEFINE p == At(g, g.line_cycle + (n + 1))
               q == At(h, h.line_cycle + 1)
    <3>1. BeamOne(h) = q
      BY <1>0, <2>3, <2>4, <2>6 DEF BeamOne, At
    <3>2. /\ HasGpuNames(p) /\ SameFrame(g, p)
          /\ p.line_cycle = g.line_cycle + (n + 1) /\ p.line = g.line /\ p.odd_frame = g.odd_frame
      BY <1>0, AtFields
    <3>3. /\ HasGpuNames(q) /\ SameFrame(h, q)
          /\ q.line_cycle = h.line_cycle + 1 /\ q.line = h.line /\ q.odd_frame = h.odd_frame
      BY <2>3, AtFields
    <3> HIDE DEF p, q
    <3>4. SameFrame(p, q)
      BY <2>3, <3>2, <3>3 DEF SameFrame
    <3>5. p = q
      <4>1. p.line = q.line /\ p.line_cycle = q.line_cycle /\ p.odd_frame = q.odd_frame
        BY <1>0, <2>3, <3>2, <3>3
      <4> QED BY <3>2, <3>3, <3>4, <4>1, SameFields2
    <3> QED BY <2>2, <2>6, <3>1, <3>5 DEF Within, p
  <2> QED BY <2>5, <2>6
<1>3. \A n \in Nat : n \in S
  <2> HIDE DEF S
  <2> QED BY <1>1, <1>2, OneMore
<1>4. \A n \in 0 .. CyclesInLine(g) - g.line_cycle : n \in Nat /\ n <= CyclesInLine(g) - g.line_cycle
  BY <1>0
<1> QED BY <1>3, <1>4

LEMMA WithinStays ==
  ASSUME NEW g, OnScreen(g), NEW n \in 0 .. CyclesInLine(g) - g.line_cycle, NEW h, h = Within(g, n)
  PROVE  OnScreen(h) /\ SameFrame(g, h)
<1>0. /\ CyclesInLine(g) \in Nat \ {0} /\ g.line_cycle \in 0 .. CyclesInLine(g) - 1
      /\ HasGpuNames(g) /\ g.line \in Nat /\ Framed(g)
  BY LineLengths DEF OnScreen, Framed
<1>1. CASE g.line_cycle + n = CyclesInLine(g)
  <2>1. h = NextLine(g)
    BY <1>1 DEF Within
  <2> QED BY <1>0, <2>1, NextLineStays, NextLineFields
<1>2. CASE g.line_cycle + n # CyclesInLine(g)
  <2>1. h = At(g, g.line_cycle + n) /\ g.line_cycle + n \in 0 .. CyclesInLine(g) - 1
    BY <1>0, <1>2 DEF Within
  <2> QED BY <1>0, <2>1, AtStays, AtFields
<1> QED BY <1>1, <1>2

\* However many cycles.
LEMMA BeamStays ==
  ASSUME NEW g, OnScreen(g)
  PROVE  \A n \in Nat : OnScreen(BeamSteps(g, n)) /\ SameFrame(g, BeamSteps(g, n))
<1> DEFINE S == {n \in Nat : OnScreen(BeamSteps(g, n)) /\ SameFrame(g, BeamSteps(g, n))}
<1>1. 0 \in S
  <2>1. BeamSteps(g, 0) = g
    BY BeamGoesOn
  <2>2. SameFrame(g, g)
    BY DEF SameFrame
  <2> QED BY <2>1, <2>2
<1>2. ASSUME NEW n \in Nat, n \in S PROVE n + 1 \in S
  <2> DEFINE h == BeamSteps(g, n)
             p == BeamSteps(g, n + 1)
  <2>1. OnScreen(h) /\ SameFrame(g, h)
    BY <1>2
  <2>2. p = BeamOne(h)
    BY BeamGoesOn
  <2> HIDE DEF h, p
  <2>3. CyclesInLine(h) \in Nat \ {0} /\ h.line_cycle \in 0 .. CyclesInLine(h) - 1
    BY <2>1, LineLengths DEF OnScreen, Framed
  <2>4. p = Within(h, 1) /\ 1 \in 0 .. CyclesInLine(h) - h.line_cycle
    BY <2>2, <2>3 DEF Within, At, BeamOne
  <2>5. OnScreen(p) /\ SameFrame(h, p)
    BY <2>1, <2>4, WithinStays
  <2>6. SameFrame(g, p)
    BY <2>1, <2>5 DEF SameFrame
  <2> QED BY <2>5, <2>6 DEF p
<1>3. \A n \in Nat : n \in S
  <2> HIDE DEF S
  <2> QED BY <1>1, <1>2, OneMore
<1> QED BY <1>3
-----------------------------------------------------------------------------
\* CPU and GPU cycles.
LEMMA DivisionAdds ==
  ASSUME NEW P \in Nat \ {0}, NEW a \in Nat, NEW b \in Nat
  PROVE  /\ (a + b) \div P = (a \div P) + (((a % P) + b) \div P)
         /\ (a + b) % P = ((a % P) + b) % P
<1> DEFINE d == a \div P
           r == a % P
           e == (r + b) \div P
           s == (r + b) % P
<1>1. d \in Nat /\ r \in 0 .. P - 1 /\ a = P * d + r
  BY Division
<1>2. e \in Nat /\ s \in 0 .. P - 1 /\ r + b = P * e + s
  <2>1. r + b \in Nat
    BY <1>1
  <2> HIDE DEF r
  <2> QED BY <2>1, Division
<1> HIDE DEF d, r, e, s
<1>3. a + b = P * (d + e) + s
  <2>1. P * (d + e) = (P * d) + (P * e)
    BY <1>1, <1>2
  <2>2. P * d \in Nat /\ P * e \in Nat
    BY <1>1, <1>2
  <2> QED BY <1>1, <1>2, <2>1, <2>2
<1>4. a + b \in Nat /\ d + e \in Nat
  BY <1>1, <1>2
<1>5. (a + b) \div P = d + e /\ (a + b) % P = s
  BY <1>2, <1>3, <1>4, DivisionIs
<1> QED BY <1>5 DEF d, r, e, s

WithProduct(g, p) == [g EXCEPT !.product = p]

LEMMA WithProductFields ==
  ASSUME NEW g, HasGpuNames(g), NEW p, NEW h, h = WithProduct(g, p)
  PROVE  /\ HasGpuNames(h) /\ h.product = p
         /\ h.line = g.line /\ h.line_cycle = g.line_cycle /\ h.odd_frame = g.odd_frame
         /\ h.mode = g.mode /\ h.interlaced = g.interlaced /\ h.divider = g.divider
         /\ h.x1 = g.x1 /\ h.x2 = g.x2 /\ h.y1 = g.y1 /\ h.y2 = g.y2
<1>1. h = [g EXCEPT !.product = p]
  BY DEF WithProduct
<1>2. HasGpuNames(h)
  BY <1>1 DEF HasGpuNames
<1> QED BY <1>1, <1>2 DEF HasGpuNames, GpuNames

LEMMA ProductOnScreen ==
  ASSUME NEW g, OnScreen(g), NEW p \in 0 .. CpuClock - 1, NEW h, h = WithProduct(g, p)
  PROVE  OnScreen(h) /\ CyclesInLine(h) = CyclesInLine(g) /\ LastLine(h) = LastLine(g)
<1>1. /\ HasGpuNames(h) /\ h.product = p
      /\ h.line = g.line /\ h.line_cycle = g.line_cycle /\ h.odd_frame = g.odd_frame
      /\ h.mode = g.mode /\ h.interlaced = g.interlaced /\ h.divider = g.divider
      /\ h.x1 = g.x1 /\ h.x2 = g.x2 /\ h.y1 = g.y1 /\ h.y2 = g.y2
  BY WithProductFields DEF OnScreen, Framed
<1>2. LastLine(h) = LastLine(g)
  BY <1>1 DEF LastLine
<1>3. CyclesInLine(h) = CyclesInLine(g)
  BY <1>1, <1>2 DEF CyclesInLine
<1>4. Framed(h)
  BY <1>1 DEF OnScreen, Framed
<1> QED BY <1>1, <1>2, <1>3, <1>4 DEF OnScreen

LEMMA ProductApart ==
  ASSUME NEW g, OnScreen(g), NEW p \in 0 .. CpuClock - 1
  PROVE  BeamOne(WithProduct(g, p)) = WithProduct(BeamOne(g), p)
<1> DEFINE h == WithProduct(g, p)
           u == BeamOne(g)
           v == BeamOne(h)
           w == WithProduct(u, p)
<1>0. HasGpuNames(g)
  BY DEF OnScreen, Framed
<1>1. /\ HasGpuNames(h) /\ h.product = p
      /\ h.line = g.line /\ h.line_cycle = g.line_cycle /\ h.odd_frame = g.odd_frame
      /\ h.mode = g.mode /\ h.interlaced = g.interlaced /\ h.divider = g.divider
      /\ h.x1 = g.x1 /\ h.x2 = g.x2 /\ h.y1 = g.y1 /\ h.y2 = g.y2
  BY <1>0, WithProductFields
<1>2. CyclesInLine(h) = CyclesInLine(g) /\ LastLine(h) = LastLine(g)
  BY ProductOnScreen
<1> HIDE DEF h
<1>3. u = IF g.line_cycle + 1 = CyclesInLine(g) THEN NextLine(g) ELSE At(g, g.line_cycle + 1)
  BY DEF BeamOne, At
<1>4. v = IF h.line_cycle + 1 = CyclesInLine(h) THEN NextLine(h) ELSE At(h, h.line_cycle + 1)
  BY DEF BeamOne, At
<1> HIDE DEF u, v
<1>5. /\ HasGpuNames(u) /\ HasGpuNames(v) /\ SameFrame(g, u) /\ SameFrame(h, v)
      /\ u.line = v.line /\ u.line_cycle = v.line_cycle /\ u.odd_frame = v.odd_frame
  <2>1. CASE g.line_cycle + 1 = CyclesInLine(g)
    <3>1. u = NextLine(g) /\ v = NextLine(h)
      BY <1>1, <1>2, <1>3, <1>4, <2>1
    <3>2. /\ HasGpuNames(u) /\ SameFrame(g, u)
          /\ u.line_cycle = 0
          /\ u.line = IF g.line >= LastLine(g) THEN 0 ELSE g.line + 1
          /\ u.odd_frame = IF g.line >= LastLine(g) THEN ~g.odd_frame ELSE g.odd_frame
      BY <1>0, <3>1, NextLineFields
    <3>3. /\ HasGpuNames(v) /\ SameFrame(h, v)
          /\ v.line_cycle = 0
          /\ v.line = IF h.line >= LastLine(h) THEN 0 ELSE h.line + 1
          /\ v.odd_frame = IF h.line >= LastLine(h) THEN ~h.odd_frame ELSE h.odd_frame
      BY <1>1, <3>1, NextLineFields
    <3> QED BY <1>1, <1>2, <3>2, <3>3
  <2>2. CASE g.line_cycle + 1 # CyclesInLine(g)
    <3>1. u = At(g, g.line_cycle + 1) /\ v = At(h, g.line_cycle + 1)
      BY <1>1, <1>2, <1>3, <1>4, <2>2
    <3>2. /\ HasGpuNames(u) /\ SameFrame(g, u)
          /\ u.line_cycle = g.line_cycle + 1 /\ u.line = g.line /\ u.odd_frame = g.odd_frame
      BY <1>0, <3>1, AtFields
    <3>3. /\ HasGpuNames(v) /\ SameFrame(h, v)
          /\ v.line_cycle = g.line_cycle + 1 /\ v.line = h.line /\ v.odd_frame = h.odd_frame
      BY <1>1, <3>1, AtFields
    <3> QED BY <1>1, <3>2, <3>3
  <2> QED BY <2>1, <2>2
<1>6. /\ HasGpuNames(w) /\ w.product = p
      /\ w.line = u.line /\ w.line_cycle = u.line_cycle /\ w.odd_frame = u.odd_frame
      /\ w.mode = u.mode /\ w.interlaced = u.interlaced /\ w.divider = u.divider
      /\ w.x1 = u.x1 /\ w.x2 = u.x2 /\ w.y1 = u.y1 /\ w.y2 = u.y2
  BY <1>5, WithProductFields
<1> HIDE DEF w
<1>7. SameFrame(v, w)
  BY <1>1, <1>5, <1>6 DEF SameFrame
<1>8. v = w
  BY <1>5, <1>6, <1>7, SameFields2
<1> QED BY <1>8 DEF v, w, u, h

LEMMA ProductStaysApart ==
  ASSUME NEW g, OnScreen(g), NEW p \in 0 .. CpuClock - 1
  PROVE  \A n \in Nat : BeamSteps(WithProduct(g, p), n) = WithProduct(BeamSteps(g, n), p)
<1> DEFINE h == WithProduct(g, p)
           S == {n \in Nat : BeamSteps(h, n) = WithProduct(BeamSteps(g, n), p)}
<1>1. 0 \in S
  BY BeamGoesOn
<1>2. ASSUME NEW n \in Nat, n \in S PROVE n + 1 \in S
  <2>1. BeamSteps(g, n + 1) = BeamOne(BeamSteps(g, n))
    BY BeamGoesOn
  <2>2. BeamSteps(h, n + 1) = BeamOne(BeamSteps(h, n))
    BY BeamGoesOn
  <2>3. OnScreen(BeamSteps(g, n))
    BY BeamStays
  <2>4. BeamOne(WithProduct(BeamSteps(g, n), p)) = WithProduct(BeamOne(BeamSteps(g, n)), p)
    BY <2>3, ProductApart
  <2>5. BeamSteps(h, n) = WithProduct(BeamSteps(g, n), p)
    BY <1>2
  <2> QED BY <2>1, <2>2, <2>4, <2>5
<1>3. \A n \in Nat : n \in S
  <2> HIDE DEF S
  <2> QED BY <1>1, <1>2, OneMore
<1> QED BY <1>3

LEMMA ProductOver ==
  ASSUME NEW g, HasGpuNames(g), NEW p, NEW q
  PROVE  WithProduct(WithProduct(g, p), q) = WithProduct(g, q) /\ WithProduct(g, g.product) = g
  BY DEF WithProduct, HasGpuNames, GpuNames

\* A conversion of n CPU cycles.
Due(g, n) == g.product + (n * GpuClock[g.mode])

LEMMA ChargedIs ==
  ASSUME NEW g, OnScreen(g), NEW n \in Nat
  PROVE  /\ Due(g, n) \in Nat
         /\ GpuElapsed(g, n) = Due(g, n) \div CpuClock /\ GpuElapsed(g, n) \in Nat
         /\ Charged(g, n) = WithProduct(g, Due(g, n) % CpuClock)
         /\ Due(g, n) % CpuClock \in 0 .. CpuClock - 1
         /\ OnScreen(Charged(g, n))
<1>1. g.product \in 0 .. CpuClock - 1 /\ GpuClock[g.mode] \in Nat /\ CpuClock \in Nat \ {0}
  BY ClockRates DEF OnScreen, Framed
<1>2. Due(g, n) \in Nat
  <2>1. n * GpuClock[g.mode] \in Nat
    BY <1>1
  <2> QED BY <1>1, <2>1 DEF Due
<1>3. GpuElapsed(g, n) = Due(g, n) \div CpuClock
  BY DEF GpuElapsed, Due
<1>4. Charged(g, n) = WithProduct(g, Due(g, n) % CpuClock)
  BY DEF Charged, WithProduct, Due
<1>5. Due(g, n) \div CpuClock \in Nat /\ Due(g, n) % CpuClock \in 0 .. CpuClock - 1
  BY <1>1, <1>2, Division
<1>6. OnScreen(Charged(g, n))
  BY <1>4, <1>5, ProductOnScreen
<1> QED BY <1>2, <1>3, <1>4, <1>5, <1>6

LEMMA BeamAfterStays ==
  ASSUME NEW g, OnScreen(g), NEW n \in Nat
  PROVE  /\ OnScreen(BeamAfter(g, n))
         /\ BeamAfter(g, n) = WithProduct(BeamSteps(g, GpuElapsed(g, n)), Due(g, n) % CpuClock)
<1>1. /\ GpuElapsed(g, n) \in Nat /\ OnScreen(Charged(g, n))
      /\ Charged(g, n) = WithProduct(g, Due(g, n) % CpuClock)
      /\ Due(g, n) % CpuClock \in 0 .. CpuClock - 1
  BY ChargedIs
<1>2. OnScreen(BeamAfter(g, n))
  BY <1>1, BeamStays DEF BeamAfter
<1> QED BY <1>1, <1>2, ProductStaysApart DEF BeamAfter

LEMMA BeamAfterNothing ==
  ASSUME NEW g, OnScreen(g)
  PROVE  BeamAfter(g, 0) = g
<1>1. g.product \in 0 .. CpuClock - 1 /\ CpuClock \in Nat \ {0} /\ HasGpuNames(g)
  BY ClockRates DEF OnScreen, Framed
<1>2. Due(g, 0) = g.product
  <2>1. GpuClock[g.mode] \in Nat
    BY ClockRates DEF OnScreen, Framed
  <2>2. 0 * GpuClock[g.mode] = 0
    BY <2>1
  <2> QED BY <1>1, <2>2 DEF Due
<1>3. g.product \div CpuClock = 0 /\ g.product % CpuClock = g.product
  BY <1>1, DivisionOfLess
<1>4. GpuElapsed(g, 0) = 0 /\ Charged(g, 0) = WithProduct(g, g.product)
  BY <1>2, <1>3 DEF GpuElapsed, Charged, WithProduct, Due
<1>5. Charged(g, 0) = g
  BY <1>1, <1>4, ProductOver
<1> QED BY <1>4, <1>5, BeamGoesOn DEF BeamAfter

LEMMA BeamAfterAdds ==
  ASSUME NEW g, OnScreen(g), NEW m \in Nat, NEW n \in Nat
  PROVE  /\ BeamAfter(BeamAfter(g, m), n) = BeamAfter(g, m + n)
         /\ GpuElapsed(g, m + n) = GpuElapsed(g, m) + GpuElapsed(BeamAfter(g, m), n)
<1> DEFINE e == GpuElapsed(g, m)
           p == Due(g, m) % CpuClock
           h == BeamSteps(g, e)
           b == BeamAfter(g, m)
           f == GpuElapsed(b, n)
           q == Due(b, n) % CpuClock
<1>1. /\ Due(g, m) \in Nat /\ e = Due(g, m) \div CpuClock /\ e \in Nat /\ p \in 0 .. CpuClock - 1
  BY ChargedIs
<1>2. OnScreen(h) /\ SameFrame(g, h)
  BY <1>1, BeamStays
<1>3. b = WithProduct(h, p) /\ OnScreen(b)
  BY BeamAfterStays
<1>4. f \in Nat /\ f = Due(b, n) \div CpuClock /\ q \in 0 .. CpuClock - 1
  BY <1>3, ChargedIs
<1>5. b.product = p /\ b.mode = g.mode
  <2> HIDE DEF b, h, p
  <2>1. HasGpuNames(h)
    BY <1>2 DEF OnScreen, Framed
  <2> QED BY <1>2, <1>3, <2>1, WithProductFields DEF SameFrame
<1>6. Due(g, m + n) = Due(g, m) + (n * GpuClock[g.mode]) /\ n * GpuClock[g.mode] \in Nat
  <2>1. GpuClock[g.mode] \in Nat /\ g.product \in Nat
    BY ClockRates DEF OnScreen, Framed
  <2>2. (m + n) * GpuClock[g.mode] = (m * GpuClock[g.mode]) + (n * GpuClock[g.mode])
    BY <2>1
  <2>3. m * GpuClock[g.mode] \in Nat /\ n * GpuClock[g.mode] \in Nat
    BY <2>1
  <2> QED BY <2>1, <2>2, <2>3 DEF Due
<1>7. Due(b, n) = p + (n * GpuClock[g.mode])
  BY <1>5 DEF Due
<1>8. Due(g, m + n) \div CpuClock = e + f /\ Due(g, m + n) % CpuClock = q
  <2> DEFINE c == n * GpuClock[g.mode]
             a == Due(g, m)
  <2> HIDE DEF c, a, b
  <2>1. c \in Nat /\ a \in Nat /\ CpuClock \in Nat \ {0}
    BY <1>1, <1>6, ClockRates DEF c, a
  <2>2. (a + c) \div CpuClock = (a \div CpuClock) + (((a % CpuClock) + c) \div CpuClock)
    BY <2>1, DivisionAdds
  <2>3. (a + c) % CpuClock = ((a % CpuClock) + c) % CpuClock
    BY <2>1, DivisionAdds
  <2>4. Due(g, m + n) = a + c /\ Due(b, n) = (a % CpuClock) + c
    BY <1>6, <1>7 DEF a, c
  <2>5. e = a \div CpuClock
    BY <1>1 DEF a
  <2> QED BY <1>4, <2>2, <2>3, <2>4, <2>5
<1>9. GpuElapsed(g, m + n) = e + f
  BY <1>8, ChargedIs
<1>10. BeamAfter(g, m + n) = WithProduct(BeamSteps(g, e + f), q)
  BY <1>8, <1>9, BeamAfterStays
<1>11. BeamAfter(b, n) = WithProduct(BeamSteps(b, f), q)
  BY <1>3, BeamAfterStays
<1>12. BeamSteps(b, f) = WithProduct(BeamSteps(h, f), p)
  BY <1>1, <1>2, <1>3, <1>4, ProductStaysApart
<1>13. BeamSteps(g, e + f) = BeamSteps(h, f)
  <2> HIDE DEF e, f, b
  <2> QED BY <1>1, <1>4, BeamAdds
<1>14. HasGpuNames(BeamSteps(h, f))
  <2>1. OnScreen(BeamSteps(h, f))
    BY <1>2, <1>4, BeamStays
  <2> QED BY <2>1 DEF OnScreen, Framed
<1> HIDE DEF h, e, f, p, q
<1>15. WithProduct(WithProduct(BeamSteps(h, f), p), q) = WithProduct(BeamSteps(h, f), q)
  BY <1>14, ProductOver
<1>16. BeamAfter(b, n) = BeamAfter(g, m + n)
  BY <1>10, <1>11, <1>12, <1>13, <1>15, Zenon
<1> QED BY <1>9, <1>16 DEF e, f
-----------------------------------------------------------------------------
\* The walks.
LEMMA MinOfTwo ==
  ASSUME NEW a \in Int, NEW b \in Int
  PROVE  Min({a, b}) = IF a <= b THEN a ELSE b
<1> DEFINE m == IF a <= b THEN a ELSE b
<1>1. m \in {a, b} /\ \A y \in {a, b} : m =< y
  OBVIOUS
<1>2. \A x \in {a, b} : (\A y \in {a, b} : x =< y) => x = m
  OBVIOUS
<1> HIDE DEF m
<1>3. Min({a, b}) = CHOOSE x \in {a, b} : \A y \in {a, b} : x =< y
  BY DEF Min
<1>4. m = CHOOSE x \in {a, b} : \A y \in {a, b} : x =< y
  BY <1>1, <1>2
<1> QED BY <1>3, <1>4 DEF m

TmNames == {"gpu", "timers", "source", "sync", "sync_mode"}
HasTmNames(t) == t = [f \in TmNames |-> t[f]]
TmShape(t) ==
  /\ HasTmNames(t)
  /\ t.timers = [i \in Timer |-> t.timers[i]]
  /\ t.source \in [Timer -> BOOLEAN] /\ t.sync \in [Timer -> BOOLEAN]
  /\ t.sync_mode \in [Timer -> 0 .. 3]
TmOK(t) == TmShape(t) /\ OnScreen(t.gpu)

WalkNames == {"tm", "left", "dots", "retraces", "gpu0", "gpu1"}
HasWalkNames(w) == w = [f \in WalkNames |-> w[f]]
WalkOK(w) == HasWalkNames(w) /\ TmOK(w.tm) /\ w.left \in Nat

LEMMA WalkBegins ==
  ASSUME NEW t, TmOK(t), NEW n \in Nat, NEW w, w = Walk(t, n)
  PROVE  /\ WalkOK(w) /\ w.left = GpuElapsed(t.gpu, n)
         /\ w.tm.gpu = Charged(t.gpu, n)
         /\ w.tm.timers = t.timers /\ w.tm.source = t.source
         /\ w.tm.sync = t.sync /\ w.tm.sync_mode = t.sync_mode
         /\ w.dots = 0 /\ w.retraces = 0 /\ w.gpu0 = 0 /\ w.gpu1 = 0
<1>1. HasWalkNames(w)
  BY DEF Walk, HasWalkNames, WalkNames
<1>2. /\ w.tm = [t EXCEPT !.gpu = Charged(t.gpu, n)] /\ w.left = GpuElapsed(t.gpu, n)
      /\ w.dots = 0 /\ w.retraces = 0 /\ w.gpu0 = 0 /\ w.gpu1 = 0
  BY DEF Walk
<1>3. HasTmNames(w.tm) /\ w.tm.gpu = Charged(t.gpu, n) /\ w.tm.timers = t.timers
      /\ w.tm.source = t.source /\ w.tm.sync = t.sync /\ w.tm.sync_mode = t.sync_mode
  BY <1>2 DEF TmOK, TmShape, HasTmNames, TmNames
<1>4. GpuElapsed(t.gpu, n) \in Nat /\ OnScreen(Charged(t.gpu, n))
  BY ChargedIs DEF TmOK
<1>5. TmOK(w.tm)
  BY <1>3, <1>4 DEF TmOK, TmShape
<1> QED BY <1>1, <1>2, <1>3, <1>4, <1>5 DEF WalkOK

\* A step that goes n cycles on: the video clock is theirs, whatever was counted.
WentOn(w, v, n) ==
  /\ WalkOK(v) /\ n \in 1 .. w.left /\ v.left = w.left - n
  /\ v.tm.gpu = BeamSteps(w.tm.gpu, n)

LineCycles(w) == Min({CyclesInLine(w.tm.gpu) - w.tm.gpu.line_cycle, w.left})

LEMMA LineCyclesAre ==
  ASSUME NEW w, WalkOK(w), w.left # 0
  PROVE  LineCycles(w) \in 1 .. w.left /\ LineCycles(w) \in 0 .. CyclesInLine(w.tm.gpu) - w.tm.gpu.line_cycle
<1> DEFINE c == CyclesInLine(w.tm.gpu)
           l == w.tm.gpu.line_cycle
<1>1. c \in Nat \ {0} /\ l \in 0 .. c - 1 /\ w.left \in Nat \ {0}
  BY LineLengths DEF WalkOK, TmOK, OnScreen, Framed
<1>2. LineCycles(w) = Min({c - l, w.left})
  BY DEF LineCycles
<1> HIDE DEF c, l
<1>3. LineCycles(w) = IF c - l <= w.left THEN c - l ELSE w.left
  BY <1>1, <1>2, MinOfTwo
<1>4. LineCycles(w) \in 1 .. w.left /\ LineCycles(w) \in 0 .. c - l
  BY <1>1, <1>3
<1> QED BY <1>4 DEF c, l

LEMMA LineStep ==
  ASSUME NEW w, WalkOK(w), w.left # 0, NEW v, v = WalkLine(w)
  PROVE  /\ WentOn(w, v, LineCycles(w))
         /\ v.tm.timers = w.tm.timers /\ v.tm.source = w.tm.source
         /\ v.tm.sync = w.tm.sync /\ v.tm.sync_mode = w.tm.sync_mode
<1> DEFINE g == w.tm.gpu
           n == LineCycles(w)
           d == w.dots + Dots(g, g.line_cycle + n)
           r == IF g.line_cycle + n = CyclesInLine(g) THEN w.retraces + 1 ELSE w.retraces
           h == Within(g, n)
<1>1. n \in 1 .. w.left /\ n \in 0 .. CyclesInLine(g) - g.line_cycle
  BY LineCyclesAre
<1>2. v = [w EXCEPT !.left = w.left - n, !.dots = d, !.retraces = r, !.tm.gpu = h]
  BY Zenon DEF WalkLine, LineCycles, Within, At
<1>3. OnScreen(h) /\ h = BeamSteps(g, n)
  BY <1>1, WithinLine, WithinStays DEF WalkOK, TmOK
<1> HIDE DEF g, n, d, r, h
<1>4. /\ HasWalkNames(v) /\ v.left = w.left - n
      /\ v.tm = [w.tm EXCEPT !.gpu = h]
  BY <1>2 DEF WalkOK, HasWalkNames, WalkNames
<1>5. /\ HasTmNames(v.tm) /\ v.tm.gpu = h /\ v.tm.timers = w.tm.timers /\ v.tm.source = w.tm.source
      /\ v.tm.sync = w.tm.sync /\ v.tm.sync_mode = w.tm.sync_mode
  BY <1>4 DEF WalkOK, TmOK, TmShape, HasTmNames, TmNames
<1>6. TmOK(v.tm)
  BY <1>3, <1>5 DEF WalkOK, TmOK, TmShape
<1>7. w.left - n \in Nat
  BY <1>1 DEF WalkOK
<1>8. WalkOK(v)
  BY <1>4, <1>6, <1>7 DEF WalkOK
<1>9. WentOn(w, v, n)
  BY <1>1, <1>3, <1>4, <1>5, <1>8 DEF WentOn, g
<1> QED BY <1>5, <1>9 DEF n

\* Between the borders of a line.
Inside(g, x) == g.x1 < g.x2 /\ g.line_cycle < x /\ x < CyclesInLine(g)

LEMMA PartIs ==
  ASSUME NEW g, OnScreen(g), NEW p, p = PartOfLine(g)
  PROVE  /\ p.display \in BOOLEAN
         /\ p.display <=> ~Inside(g, g.x1) /\ Inside(g, g.x2)
         /\ p.until = IF Inside(g, g.x1) THEN g.x1
                      ELSE IF Inside(g, g.x2) THEN g.x2 ELSE CyclesInLine(g)
         /\ p.until \in g.line_cycle + 1 .. CyclesInLine(g)
<1>0. /\ CyclesInLine(g) \in Nat \ {0} /\ g.line_cycle \in 0 .. CyclesInLine(g) - 1
      /\ g.x1 \in Nat /\ g.x2 \in Nat
  BY LineLengths DEF OnScreen, Framed
<1>1. p = CASE Inside(g, g.x1) -> [display |-> FALSE, until |-> g.x1]
            [] ~Inside(g, g.x1) /\ Inside(g, g.x2) -> [display |-> TRUE, until |-> g.x2]
            [] OTHER -> [display |-> FALSE, until |-> CyclesInLine(g)]
  BY DEF PartOfLine, Inside
<1>2. CASE Inside(g, g.x1)
  <2>1. p = [display |-> FALSE, until |-> g.x1]
    BY <1>1, <1>2
  <2> QED BY <1>0, <1>2, <2>1 DEF Inside
<1>3. CASE ~Inside(g, g.x1) /\ Inside(g, g.x2)
  <2>1. p = [display |-> TRUE, until |-> g.x2]
    BY <1>1, <1>3
  <2> QED BY <1>0, <1>3, <2>1 DEF Inside
<1>4. CASE ~Inside(g, g.x1) /\ ~Inside(g, g.x2)
  <2>1. p = [display |-> FALSE, until |-> CyclesInLine(g)]
    BY <1>1, <1>4
  <2> QED BY <1>0, <1>4, <2>1
<1> QED BY <1>2, <1>3, <1>4

\* What a walk has counted for timer 0 or 1.
Counted(w, i) == IF i = 0 THEN <<w.dots, w.gpu0>> ELSE <<w.retraces, w.gpu1>>
Adds(i, c, g, n) ==
  IF i = 0 THEN <<c[1] + Dots(g, g.line_cycle + n), c[2] + n>>
  ELSE <<IF g.line_cycle + n = CyclesInLine(g) THEN c[1] + 1 ELSE c[1], c[2] + n>>
Pauses(t, i) == t.sync[i] = TRUE /\ t.sync_mode[i] = PauseDuringBlank
InBlank(i, g) == IF i = 0 THEN ~PartOfLine(g).display ELSE InVBlank(g)

\* A step keeps a timer that pauses during its blanking period as it is.
LeftAlone(w, v, i) == v.tm.timers[i] = w.tm.timers[i] /\ v.tm.sync[i] = w.tm.sync[i]
SameModes(w, v) == v.tm.source = w.tm.source /\ v.tm.sync_mode = w.tm.sync_mode

LEMMA WalkByIs ==
  ASSUME NEW w, WalkOK(w), NEW display \in BOOLEAN,
         NEW n \in 1 .. w.left, n \in 0 .. CyclesInLine(w.tm.gpu) - w.tm.gpu.line_cycle,
         NEW v, v = WalkBy(w, n, display)
  PROVE  /\ WentOn(w, v, n) /\ SameModes(w, v)
         /\ v.tm.gpu = Within(w.tm.gpu, n)
         /\ v.tm.timers = w.tm.timers /\ v.tm.sync = w.tm.sync
         /\ Pauses(w.tm, 0) =>
              Counted(v, 0) = IF display THEN Adds(0, Counted(w, 0), w.tm.gpu, n) ELSE Counted(w, 0)
         /\ Pauses(w.tm, 1) =>
              Counted(v, 1) = IF InVBlank(w.tm.gpu) THEN Counted(w, 1)
                              ELSE Adds(1, Counted(w, 1), w.tm.gpu, n)
<1> DEFINE g == w.tm.gpu
           run0 == ~Paused(~display, w.tm.sync[0], w.tm.sync_mode[0])
           run1 == ~Paused(InVBlank(g), w.tm.sync[1], w.tm.sync_mode[1])
           ends == g.line_cycle + n = CyclesInLine(g)
           d == IF run0 THEN w.dots + Dots(g, g.line_cycle + n) ELSE w.dots
           p == IF run0 THEN w.gpu0 + n ELSE w.gpu0
           q == IF run1 THEN w.gpu1 + n ELSE w.gpu1
           r == IF run1 /\ ends THEN w.retraces + 1 ELSE w.retraces
           h == Within(g, n)
<1>1. v = [w EXCEPT !.left = w.left - n, !.dots = d, !.gpu0 = p, !.gpu1 = q, !.retraces = r,
                    !.tm.gpu = h]
  BY Zenon DEF WalkBy, Within, At
<1>2. OnScreen(h) /\ h = BeamSteps(g, n)
  BY WithinLine, WithinStays DEF WalkOK, TmOK
<1>3. Pauses(w.tm, 0) => (run0 <=> display)
  BY DEF Pauses, Paused, PauseDuringBlank, PauseTillNextBlank, PauseOutsideBlank
<1>4. Pauses(w.tm, 1) => (run1 <=> ~InVBlank(g))
  BY DEF Pauses, Paused, PauseDuringBlank, PauseTillNextBlank, PauseOutsideBlank
<1> HIDE DEF g, run0, run1, d, p, q, r, h
<1>5. /\ HasWalkNames(v) /\ v.left = w.left - n /\ v.tm = [w.tm EXCEPT !.gpu = h]
      /\ v.dots = d /\ v.gpu0 = p /\ v.gpu1 = q /\ v.retraces = r
  BY <1>1 DEF WalkOK, HasWalkNames, WalkNames
<1>6. /\ HasTmNames(v.tm) /\ v.tm.gpu = h /\ v.tm.timers = w.tm.timers /\ v.tm.source = w.tm.source
      /\ v.tm.sync = w.tm.sync /\ v.tm.sync_mode = w.tm.sync_mode
  BY <1>5 DEF WalkOK, TmOK, TmShape, HasTmNames, TmNames
<1>7. TmOK(v.tm)
  BY <1>2, <1>6 DEF WalkOK, TmOK, TmShape
<1>8. w.left - n \in Nat
  BY DEF WalkOK
<1>9. WentOn(w, v, n)
  BY <1>2, <1>5, <1>6, <1>7, <1>8 DEF WentOn, WalkOK, g
<1>10. ASSUME Pauses(w.tm, 0)
       PROVE  Counted(v, 0) = IF display THEN Adds(0, Counted(w, 0), w.tm.gpu, n) ELSE Counted(w, 0)
  BY <1>3, <1>5, <1>10 DEF Counted, Adds, d, p, g
<1>11. ASSUME Pauses(w.tm, 1)
       PROVE  Counted(v, 1) = IF InVBlank(w.tm.gpu) THEN Counted(w, 1)
                              ELSE Adds(1, Counted(w, 1), w.tm.gpu, n)
  BY <1>4, <1>5, <1>11 DEF Counted, Adds, q, r, g
<1> QED BY <1>6, <1>9, <1>10, <1>11 DEF SameModes, h, g

\* The sync events leave a timer that pauses during its blanking period alone.
Bystander(w, v) ==
  /\ WalkOK(v) /\ SameModes(w, v) /\ v.left = w.left /\ v.tm.gpu = w.tm.gpu
  /\ \A i \in 0 .. 1 : Pauses(w.tm, i) => LeftAlone(w, v, i) /\ Counted(v, i) = Counted(w, i)

LEMMA HBlankSyncIs ==
  ASSUME NEW w, WalkOK(w), NEW v, v = HBlankSync(w)
  PROVE  Bystander(w, v)
<1>0. /\ HasWalkNames(w) /\ HasTmNames(w.tm) /\ w.tm.timers = [i \in Timer |-> w.tm.timers[i]]
      /\ w.tm.sync \in [Timer -> BOOLEAN] /\ w.tm.sync_mode \in [Timer -> 0 .. 3]
      /\ 0 \in Timer /\ 1 \in Timer
  BY DEF WalkOK, TmOK, TmShape, Timer
<1>1. CASE w.tm.sync_mode[0] \in {ResetAtBlank, PauseOutsideBlank}
  <2> DEFINE c == Restart(Clock(w.tm.timers[0], Clocks0(w)))
  <2>1. v = [w EXCEPT !.tm.timers[0] = c, !.dots = 0, !.gpu0 = 0]
    BY <1>1 DEF HBlankSync, ResetAtBlank, PauseOutsideBlank, PauseTillNextBlank, PauseDuringBlank
  <2> HIDE DEF c
  <2>2. /\ HasWalkNames(v) /\ v.left = w.left /\ v.retraces = w.retraces /\ v.gpu1 = w.gpu1
        /\ v.tm = [w.tm EXCEPT !.timers[0] = c]
    BY <1>0, <2>1 DEF HasWalkNames, WalkNames
  <2>3. /\ HasTmNames(v.tm) /\ v.tm.gpu = w.tm.gpu /\ v.tm.source = w.tm.source
        /\ v.tm.sync = w.tm.sync /\ v.tm.sync_mode = w.tm.sync_mode
        /\ v.tm.timers = [w.tm.timers EXCEPT ![0] = c]
    BY <1>0, <2>2 DEF HasTmNames, TmNames
  <2>4. v.tm.timers = [i \in Timer |-> v.tm.timers[i]] /\ v.tm.timers[1] = w.tm.timers[1]
    BY <1>0, <2>3
  <2>5. WalkOK(v)
    BY <2>2, <2>3, <2>4 DEF WalkOK, TmOK, TmShape
  <2>6. ~Pauses(w.tm, 0)
    BY <1>1 DEF Pauses, ResetAtBlank, PauseOutsideBlank, PauseDuringBlank
  <2>7. \A i \in 0 .. 1 : i # 0 => i = 1
    OBVIOUS
  <2> QED BY <2>2, <2>3, <2>4, <2>5, <2>6, <2>7 DEF Bystander, SameModes, LeftAlone, Counted
<1>2. CASE w.tm.sync_mode[0] = PauseTillNextBlank
  <2>1. v = [w EXCEPT !.tm.sync[0] = FALSE]
    BY <1>2 DEF HBlankSync, ResetAtBlank, PauseOutsideBlank, PauseTillNextBlank, PauseDuringBlank
  <2>2. /\ HasWalkNames(v) /\ v.left = w.left /\ v.retraces = w.retraces /\ v.gpu1 = w.gpu1
        /\ v.tm = [w.tm EXCEPT !.sync[0] = FALSE]
    BY <1>0, <2>1 DEF HasWalkNames, WalkNames
  <2>3. /\ HasTmNames(v.tm) /\ v.tm.gpu = w.tm.gpu /\ v.tm.source = w.tm.source
        /\ v.tm.timers = w.tm.timers /\ v.tm.sync_mode = w.tm.sync_mode
        /\ v.tm.sync = [w.tm.sync EXCEPT ![0] = FALSE]
    BY <1>0, <2>2 DEF HasTmNames, TmNames
  <2>4. v.tm.sync \in [Timer -> BOOLEAN] /\ v.tm.sync[1] = w.tm.sync[1]
    BY <1>0, <2>3
  <2>5. WalkOK(v)
    BY <2>2, <2>3, <2>4 DEF WalkOK, TmOK, TmShape
  <2>6. ~Pauses(w.tm, 0)
    BY <1>2 DEF Pauses, PauseTillNextBlank, PauseDuringBlank
  <2>7. \A i \in 0 .. 1 : i # 0 => i = 1
    OBVIOUS
  <2> QED BY <2>2, <2>3, <2>4, <2>5, <2>6, <2>7 DEF Bystander, SameModes, LeftAlone, Counted
<1>3. CASE w.tm.sync_mode[0] = PauseDuringBlank
  <2>1. v = w
    BY <1>3 DEF HBlankSync, ResetAtBlank, PauseOutsideBlank, PauseTillNextBlank, PauseDuringBlank
  <2> QED BY <2>1 DEF Bystander, SameModes, LeftAlone
<1> QED BY <1>0, <1>1, <1>2, <1>3 DEF ResetAtBlank, PauseOutsideBlank, PauseTillNextBlank, PauseDuringBlank

LEMMA VBlankSyncIs ==
  ASSUME NEW w, WalkOK(w), NEW v, v = VBlankSync(w)
  PROVE  Bystander(w, v)
<1>0. /\ HasWalkNames(w) /\ HasTmNames(w.tm) /\ w.tm.timers = [i \in Timer |-> w.tm.timers[i]]
      /\ w.tm.sync \in [Timer -> BOOLEAN] /\ w.tm.sync_mode \in [Timer -> 0 .. 3]
      /\ 0 \in Timer /\ 1 \in Timer
  BY DEF WalkOK, TmOK, TmShape, Timer
<1>1. CASE w.tm.sync_mode[1] \in {ResetAtBlank, PauseOutsideBlank}
  <2> DEFINE c == Restart(Clock(w.tm.timers[1], Clocks1(w)))
  <2>1. v = [w EXCEPT !.tm.timers[1] = c, !.retraces = 0, !.gpu1 = 0]
    BY <1>1 DEF VBlankSync, ResetAtBlank, PauseOutsideBlank, PauseTillNextBlank, PauseDuringBlank
  <2> HIDE DEF c
  <2>2. /\ HasWalkNames(v) /\ v.left = w.left /\ v.dots = w.dots /\ v.gpu0 = w.gpu0
        /\ v.tm = [w.tm EXCEPT !.timers[1] = c]
    BY <1>0, <2>1 DEF HasWalkNames, WalkNames
  <2>3. /\ HasTmNames(v.tm) /\ v.tm.gpu = w.tm.gpu /\ v.tm.source = w.tm.source
        /\ v.tm.sync = w.tm.sync /\ v.tm.sync_mode = w.tm.sync_mode
        /\ v.tm.timers = [w.tm.timers EXCEPT ![1] = c]
    BY <1>0, <2>2 DEF HasTmNames, TmNames
  <2>4. v.tm.timers = [i \in Timer |-> v.tm.timers[i]] /\ v.tm.timers[0] = w.tm.timers[0]
    BY <1>0, <2>3
  <2>5. WalkOK(v)
    BY <2>2, <2>3, <2>4 DEF WalkOK, TmOK, TmShape
  <2>6. ~Pauses(w.tm, 1)
    BY <1>1 DEF Pauses, ResetAtBlank, PauseOutsideBlank, PauseDuringBlank
  <2>7. \A i \in 0 .. 1 : i # 1 => i = 0
    OBVIOUS
  <2> QED BY <2>2, <2>3, <2>4, <2>5, <2>6, <2>7 DEF Bystander, SameModes, LeftAlone, Counted
<1>2. CASE w.tm.sync_mode[1] = PauseTillNextBlank
  <2>1. v = [w EXCEPT !.tm.sync[1] = FALSE]
    BY <1>2 DEF VBlankSync, ResetAtBlank, PauseOutsideBlank, PauseTillNextBlank, PauseDuringBlank
  <2>2. /\ HasWalkNames(v) /\ v.left = w.left /\ v.dots = w.dots /\ v.gpu0 = w.gpu0
        /\ v.tm = [w.tm EXCEPT !.sync[1] = FALSE]
    BY <1>0, <2>1 DEF HasWalkNames, WalkNames
  <2>3. /\ HasTmNames(v.tm) /\ v.tm.gpu = w.tm.gpu /\ v.tm.source = w.tm.source
        /\ v.tm.timers = w.tm.timers /\ v.tm.sync_mode = w.tm.sync_mode
        /\ v.tm.sync = [w.tm.sync EXCEPT ![1] = FALSE]
    BY <1>0, <2>2 DEF HasTmNames, TmNames
  <2>4. v.tm.sync \in [Timer -> BOOLEAN] /\ v.tm.sync[0] = w.tm.sync[0]
    BY <1>0, <2>3
  <2>5. WalkOK(v)
    BY <2>2, <2>3, <2>4 DEF WalkOK, TmOK, TmShape
  <2>6. ~Pauses(w.tm, 1)
    BY <1>2 DEF Pauses, PauseTillNextBlank, PauseDuringBlank
  <2>7. \A i \in 0 .. 1 : i # 1 => i = 0
    OBVIOUS
  <2> QED BY <2>2, <2>3, <2>4, <2>5, <2>6, <2>7 DEF Bystander, SameModes, LeftAlone, Counted
<1>3. CASE w.tm.sync_mode[1] = PauseDuringBlank
  <2>1. v = w
    BY <1>3 DEF VBlankSync, ResetAtBlank, PauseOutsideBlank, PauseTillNextBlank, PauseDuringBlank
  <2> QED BY <2>1 DEF Bystander, SameModes, LeftAlone
<1> QED BY <1>0, <1>1, <1>2, <1>3 DEF ResetAtBlank, PauseOutsideBlank, PauseTillNextBlank, PauseDuringBlank

PartCycles(w) == Min({PartOfLine(w.tm.gpu).until - w.tm.gpu.line_cycle, w.left})

LEMMA PartCyclesAre ==
  ASSUME NEW w, WalkOK(w), w.left # 0
  PROVE  /\ PartCycles(w) \in 1 .. w.left
         /\ PartCycles(w) \in 0 .. CyclesInLine(w.tm.gpu) - w.tm.gpu.line_cycle
         /\ PartCycles(w) = IF PartOfLine(w.tm.gpu).until - w.tm.gpu.line_cycle <= w.left
                            THEN PartOfLine(w.tm.gpu).until - w.tm.gpu.line_cycle ELSE w.left
<1> DEFINE c == CyclesInLine(w.tm.gpu)
           l == w.tm.gpu.line_cycle
           u == PartOfLine(w.tm.gpu).until
<1>1. c \in Nat \ {0} /\ l \in 0 .. c - 1 /\ w.left \in Nat \ {0}
  BY LineLengths DEF WalkOK, TmOK, OnScreen, Framed
<1>2. u \in l + 1 .. c
  BY PartIs DEF WalkOK, TmOK
<1>3. PartCycles(w) = Min({u - l, w.left})
  BY DEF PartCycles
<1> HIDE DEF c, l, u
<1>4. PartCycles(w) = IF u - l <= w.left THEN u - l ELSE w.left
  BY <1>1, <1>2, <1>3, MinOfTwo
<1>5. PartCycles(w) \in 1 .. w.left /\ PartCycles(w) \in 0 .. c - l
  BY <1>1, <1>2, <1>4
<1> QED BY <1>4, <1>5 DEF c, l, u

LEMMA PartStep ==
  ASSUME NEW w, WalkOK(w), w.left # 0, NEW v, v = WalkPart(w)
  PROVE  /\ WentOn(w, v, PartCycles(w)) /\ SameModes(w, v)
         /\ \A i \in 0 .. 1 : Pauses(w.tm, i) =>
              /\ LeftAlone(w, v, i)
              /\ Counted(v, i) = IF InBlank(i, w.tm.gpu) THEN Counted(w, i)
                                 ELSE Adds(i, Counted(w, i), w.tm.gpu, PartCycles(w))
<1> DEFINE n == PartCycles(w)
           p == PartOfLine(w.tm.gpu)
           b == WalkBy(w, n, p.display)
           hblank == p.display /\ w.tm.gpu.line_cycle + n = w.tm.gpu.x2
<1>1. n \in 1 .. w.left /\ n \in 0 .. CyclesInLine(w.tm.gpu) - w.tm.gpu.line_cycle
  BY PartCyclesAre
<1>2. p.display \in BOOLEAN
  BY PartIs DEF WalkOK, TmOK
<1>3. v = AtBorder(b, hblank)
  BY Zenon DEF WalkPart, WalkInPart, PartCycles
<1>4. /\ WentOn(w, b, n) /\ SameModes(w, b)
      /\ b.tm.timers = w.tm.timers /\ b.tm.sync = w.tm.sync
      /\ Pauses(w.tm, 0) =>
           Counted(b, 0) = IF p.display THEN Adds(0, Counted(w, 0), w.tm.gpu, n) ELSE Counted(w, 0)
      /\ Pauses(w.tm, 1) =>
           Counted(b, 1) = IF InVBlank(w.tm.gpu) THEN Counted(w, 1)
                           ELSE Adds(1, Counted(w, 1), w.tm.gpu, n)
  BY <1>1, <1>2, WalkByIs
<1> HIDE DEF n, b, hblank
<1>5. Bystander(b, v)
  <2>1. WalkOK(b)
    BY <1>4 DEF WentOn
  <2>2. v \in {b, HBlankSync(b), VBlankSync(b)}
    BY <1>3 DEF AtBorder
  <2>3. Bystander(b, b)
    BY <2>1 DEF Bystander, SameModes, LeftAlone
  <2> QED BY <2>1, <2>2, <2>3, HBlankSyncIs, VBlankSyncIs
<1>6. WentOn(w, v, n) /\ SameModes(w, v)
  BY <1>4, <1>5 DEF WentOn, Bystander, SameModes
<1>7. ASSUME NEW i \in 0 .. 1, Pauses(w.tm, i)
      PROVE  /\ LeftAlone(w, v, i)
             /\ Counted(v, i) = IF InBlank(i, w.tm.gpu) THEN Counted(w, i)
                                ELSE Adds(i, Counted(w, i), w.tm.gpu, n)
  <2>1. Pauses(b.tm, i)
    BY <1>4, <1>7 DEF Pauses, SameModes
  <2>2. LeftAlone(b, v, i) /\ Counted(v, i) = Counted(b, i)
    BY <1>5, <2>1 DEF Bystander
  <2>3. LeftAlone(w, v, i)
    BY <1>4, <2>2 DEF LeftAlone
  <2>4. Counted(b, i) = IF InBlank(i, w.tm.gpu) THEN Counted(w, i)
                        ELSE Adds(i, Counted(w, i), w.tm.gpu, n)
    <3>1. CASE i = 0
      BY <1>2, <1>4, <1>7, <3>1 DEF InBlank
    <3>2. CASE i = 1
      BY <1>4, <1>7, <3>2 DEF InBlank
    <3> QED BY <3>1, <3>2
  <2> QED BY <2>2, <2>3, <2>4
<1> QED BY <1>6, <1>7 DEF n

\* A walk ends, where the beam is after its cycles.
LEMMA EitherStep ==
  ASSUME NEW kind \in {"line", "part"}, NEW w, WalkOK(w)
  PROVE  /\ w.left = 0 => Step(kind, w) = w
         /\ w.left # 0 => /\ \E n \in 1 .. w.left : WentOn(w, Step(kind, w), n)
                          /\ SameModes(w, Step(kind, w))
                          /\ kind = "line" => /\ Step(kind, w).tm.timers = w.tm.timers
                                              /\ Step(kind, w).tm.sync = w.tm.sync
<1>1. CASE kind = "line"
  <2>1. Step(kind, w) = IF w.left = 0 THEN w ELSE WalkLine(w)
    BY <1>1 DEF Step
  <2>2. ASSUME w.left # 0
        PROVE  /\ WentOn(w, WalkLine(w), LineCycles(w)) /\ SameModes(w, WalkLine(w))
               /\ WalkLine(w).tm.timers = w.tm.timers /\ WalkLine(w).tm.sync = w.tm.sync
    BY <2>2, LineStep DEF SameModes
  <2>3. ASSUME w.left # 0 PROVE \E n \in 1 .. w.left : WentOn(w, WalkLine(w), n)
    <3>1. LineCycles(w) \in 1 .. w.left
      BY <2>3, LineCyclesAre
    <3> QED BY <2>2, <2>3, <3>1
  <2> QED BY <2>1, <2>2, <2>3
<1>2. CASE kind = "part"
  <2>1. Step(kind, w) = IF w.left = 0 THEN w ELSE WalkPart(w)
    BY <1>2 DEF Step
  <2>2. ASSUME w.left # 0
        PROVE  WentOn(w, WalkPart(w), PartCycles(w)) /\ SameModes(w, WalkPart(w))
    BY <2>2, PartStep
  <2>3. ASSUME w.left # 0 PROVE \E n \in 1 .. w.left : WentOn(w, WalkPart(w), n)
    <3>1. PartCycles(w) \in 1 .. w.left
      BY <2>3, PartCyclesAre
    <3> QED BY <2>2, <2>3, <3>1
  <2> QED BY <1>2, <2>1, <2>2, <2>3
<1> QED BY <1>1, <1>2

\* k steps from w.
Walked(kind, w, v) ==
  /\ WalkOK(v) /\ v.left <= w.left /\ SameModes(w, v)
  /\ v.tm.gpu = BeamSteps(w.tm.gpu, w.left - v.left)
  /\ kind = "line" => v.tm.timers = w.tm.timers /\ v.tm.sync = w.tm.sync

LEMMA WalkGoesOn ==
  ASSUME NEW kind \in {"line", "part"}, NEW w, WalkOK(w)
  PROVE  \A k \in Nat : /\ Walked(kind, w, Steps(kind, w, k))
                        /\ Steps(kind, w, k).left = 0 \/ Steps(kind, w, k).left + k <= w.left
<1> DEFINE S == {k \in Nat : /\ Walked(kind, w, Steps(kind, w, k))
                             /\ Steps(kind, w, k).left = 0 \/ Steps(kind, w, k).left + k <= w.left}
<1>0. w.left \in Nat
  BY DEF WalkOK
<1>1. 0 \in S
  <2>1. Steps(kind, w, 0) = w
    BY StepsGoOn
  <2>2. w.left - w.left = 0 /\ BeamSteps(w.tm.gpu, 0) = w.tm.gpu
    BY <1>0, BeamGoesOn
  <2>3. Walked(kind, w, w)
    BY <1>0, <2>2 DEF Walked, SameModes
  <2> QED BY <1>0, <2>1, <2>3
<1>2. ASSUME NEW k \in Nat, k \in S PROVE k + 1 \in S
  <2> DEFINE v == Steps(kind, w, k)
             u == Steps(kind, w, k + 1)
  <2>1. Walked(kind, w, v) /\ (v.left = 0 \/ v.left + k <= w.left)
    BY <1>2
  <2>2. u = Step(kind, v)
    BY StepsGoOn
  <2> HIDE DEF v, u
  <2>3. WalkOK(v) /\ v.left \in Nat
    BY <2>1 DEF Walked, WalkOK
  <2>4. CASE v.left = 0
    BY <2>1, <2>2, <2>3, <2>4, EitherStep DEF u
  <2>5. CASE v.left # 0
    <3>1. /\ \E n \in 1 .. v.left : WentOn(v, u, n)
          /\ SameModes(v, u)
          /\ kind = "line" => u.tm.timers = v.tm.timers /\ u.tm.sync = v.tm.sync
      BY <2>2, <2>3, <2>5, EitherStep
    <3>2. PICK n \in 1 .. v.left : WentOn(v, u, n)
      BY <3>1
    <3>3. WalkOK(u) /\ u.left = v.left - n /\ u.tm.gpu = BeamSteps(v.tm.gpu, n) /\ u.left \in Nat
      BY <3>2 DEF WentOn, WalkOK
    <3>4. v.left <= w.left /\ v.tm.gpu = BeamSteps(w.tm.gpu, w.left - v.left)
      BY <2>1 DEF Walked
    <3>5. w.left - v.left \in Nat /\ n \in Nat /\ (w.left - v.left) + n = w.left - u.left
      BY <1>0, <2>3, <3>3, <3>4
    <3>6. u.tm.gpu = BeamSteps(w.tm.gpu, w.left - u.left)
      <4>1. BeamSteps(w.tm.gpu, w.left - u.left) = BeamSteps(BeamSteps(w.tm.gpu, w.left - v.left), n)
        BY <3>5, BeamAdds
      <4> QED BY <3>3, <3>4, <4>1
    <3>7. SameModes(w, u) /\ (kind = "line" => u.tm.timers = w.tm.timers /\ u.tm.sync = w.tm.sync)
      BY <2>1, <3>1 DEF Walked, SameModes
    <3>8. Walked(kind, w, u)
      BY <1>0, <2>3, <3>3, <3>4, <3>6, <3>7 DEF Walked
    <3>9. u.left + (k + 1) <= w.left
      BY <1>0, <2>1, <2>3, <2>5, <3>3
    <3> QED BY <3>8, <3>9 DEF u
  <2> QED BY <2>4, <2>5
<1>3. \A k \in Nat : k \in S
  <2> HIDE DEF S
  <2> QED BY <1>1, <1>2, OneMore
<1> QED BY <1>3

LEMMA WalkEnds ==
  ASSUME NEW kind \in {"line", "part"}, NEW w, WalkOK(w), NEW v, v = Steps(kind, w, w.left)
  PROVE  /\ Walked(kind, w, v) /\ v.left = 0
         /\ v.tm.gpu = BeamSteps(w.tm.gpu, w.left)
<1>0. w.left \in Nat
  BY DEF WalkOK
<1>1. Walked(kind, w, v) /\ (v.left = 0 \/ v.left + w.left <= w.left)
  BY <1>0, WalkGoesOn
<1>2. v.left \in Nat
  BY <1>1 DEF Walked, WalkOK
<1>3. v.left = 0
  BY <1>0, <1>1, <1>2
<1>4. w.left - 0 = w.left
  BY <1>0
<1> QED BY <1>1, <1>3, <1>4 DEF Walked

\* The three timers clocked after a walk.
Clocked(t, a, b) == [t EXCEPT !.timers[0] = a, !.timers[1] = b]
Clocked2(t, c) == [t EXCEPT !.timers[2] = c]

LEMMA ClockedFields ==
  ASSUME NEW t, TmOK(t), NEW a, NEW b, NEW c, NEW r, r = Clocked2(Clocked(t, a, b), c)
  PROVE  /\ TmOK(r) /\ r.gpu = t.gpu /\ r.source = t.source /\ r.sync = t.sync
         /\ r.sync_mode = t.sync_mode
         /\ r.timers[0] = a /\ r.timers[1] = b /\ r.timers[2] = c
<1> DEFINE s == Clocked(t, a, b)
<1>0. /\ HasTmNames(t) /\ t.timers = [i \in Timer |-> t.timers[i]] /\ Timer = {0, 1, 2}
  BY DEF TmOK, TmShape, Timer
<1>1. /\ HasTmNames(s) /\ s.gpu = t.gpu /\ s.source = t.source /\ s.sync = t.sync
      /\ s.sync_mode = t.sync_mode
      /\ s.timers = [[t.timers EXCEPT ![0] = a] EXCEPT ![1] = b]
  BY <1>0 DEF Clocked, HasTmNames, TmNames
<1> HIDE DEF s
<1>2. r = [s EXCEPT !.timers[2] = c]
  BY DEF Clocked2, s
<1>3. /\ HasTmNames(r) /\ r.gpu = s.gpu /\ r.source = s.source /\ r.sync = s.sync
      /\ r.sync_mode = s.sync_mode
      /\ r.timers = [s.timers EXCEPT ![2] = c]
  BY <1>1, <1>2 DEF HasTmNames, TmNames
<1>4. r.timers = [i \in Timer |-> IF i = 0 THEN a ELSE IF i = 1 THEN b ELSE c]
  BY <1>0, <1>1, <1>3
<1>5. r.timers[0] = a /\ r.timers[1] = b /\ r.timers[2] = c /\ r.timers = [i \in Timer |-> r.timers[i]]
  BY <1>0, <1>4
<1>6. TmOK(r)
  BY <1>1, <1>3, <1>5 DEF TmOK, TmShape
<1> QED BY <1>1, <1>3, <1>5, <1>6

WalkKind(t) == IF t.sync[0] \/ t.sync[1] THEN "part" ELSE "line"
LastWalk(t, n) == Steps(WalkKind(t), Walk(t, n), GpuElapsed(t.gpu, n))
ClocksOf(t, n, i) ==
  CASE i = 0 -> IF WalkKind(t) = "part" THEN Clocks0(LastWalk(t, n))
                ELSE IF t.source[0] THEN LastWalk(t, n).dots ELSE n
    [] i = 1 -> IF WalkKind(t) = "part" THEN Clocks1(LastWalk(t, n))
                ELSE IF t.source[1] THEN LastWalk(t, n).retraces ELSE n
    [] i = 2 -> Clocks2(t, n)

LEMMA CatchUpIs ==
  ASSUME NEW t, TmOK(t), NEW n \in Nat, NEW u, u = CatchUp(t, n)
  PROVE  /\ TmOK(u) /\ u.gpu = BeamAfter(t.gpu, n)
         /\ u.source = t.source /\ u.sync_mode = t.sync_mode
         /\ u.sync = LastWalk(t, n).tm.sync
         /\ WalkKind(t) = "line" => u.sync = t.sync /\ LastWalk(t, n).tm.timers = t.timers
         /\ \A i \in Timer : u.timers[i] = Clock(LastWalk(t, n).tm.timers[i], ClocksOf(t, n, i))
<1> DEFINE w == Walk(t, n)
           kind == WalkKind(t)
           v == LastWalk(t, n)
<1>1. /\ WalkOK(w) /\ w.left = GpuElapsed(t.gpu, n)
      /\ w.tm.gpu = Charged(t.gpu, n)
      /\ w.tm.timers = t.timers /\ w.tm.source = t.source
      /\ w.tm.sync = t.sync /\ w.tm.sync_mode = t.sync_mode
  BY WalkBegins
<1>2. kind \in {"line", "part"} /\ v = Steps(kind, w, w.left)
  BY <1>1 DEF LastWalk, WalkKind
<1> HIDE DEF w, kind, v
<1>3. Walked(kind, w, v) /\ v.tm.gpu = BeamSteps(w.tm.gpu, w.left)
  BY <1>1, <1>2, WalkEnds
<1>4. /\ TmOK(v.tm) /\ v.tm.gpu = BeamAfter(t.gpu, n) /\ v.tm.source = t.source
      /\ v.tm.sync_mode = t.sync_mode
      /\ kind = "line" => v.tm.timers = t.timers /\ v.tm.sync = t.sync
  BY <1>1, <1>3 DEF Walked, WalkOK, SameModes, BeamAfter
<1> DEFINE a == Clock(v.tm.timers[0], ClocksOf(t, n, 0))
           b == Clock(v.tm.timers[1], ClocksOf(t, n, 1))
           c == Clock(v.tm.timers[2], ClocksOf(t, n, 2))
<1>5. u = Clocked2(Clocked(v.tm, a, b), c)
  <2> DEFINE video == IF t.sync[0] \/ t.sync[1] THEN CatchUpWithSync(t, n) ELSE CatchUpNoSync(t, n)
  <2>1. u = [video EXCEPT !.timers[2] = Clock(video.timers[2], Clocks2(t, n))]
    BY Zenon DEF CatchUp
  <2>2. video = Clocked(v.tm, a, b)
    <3>1. CASE kind = "part"
      <4>1. RunWalk(WalkPart, w) = v
        BY <1>2, <3>1, RepeatedSteps
      <4>2. video = ClockSynced(v)
        BY <3>1, <4>1 DEF kind, WalkKind, CatchUpWithSync, w
      <4>3. ClocksOf(t, n, 0) = Clocks0(v) /\ ClocksOf(t, n, 1) = Clocks1(v)
        BY <3>1 DEF ClocksOf, kind, v
      <4> QED BY <4>2, <4>3, Zenon DEF ClockSynced, Clocked
    <3>2. CASE kind = "line"
      <4>1. RunWalk(WalkLine, w) = v
        BY <1>2, <3>2, RepeatedSteps
      <4>2. video = ClockUnsynced(v, n)
        BY <3>2, <4>1 DEF kind, WalkKind, CatchUpNoSync, w
      <4>3. /\ ClocksOf(t, n, 0) = IF t.source[0] THEN v.dots ELSE n
            /\ ClocksOf(t, n, 1) = IF t.source[1] THEN v.retraces ELSE n
        BY <3>2 DEF ClocksOf, kind, v
      <4>4. v.tm.source = t.source
        BY <1>4
      <4> QED BY <4>2, <4>3, <4>4, Zenon DEF ClockUnsynced, Clocked
    <3> QED BY <1>2, <3>1, <3>2
  <2>3. video.timers[2] = v.tm.timers[2]
    <3>1. HasTmNames(v.tm) /\ v.tm.timers = [i \in Timer |-> v.tm.timers[i]] /\ Timer = {0, 1, 2}
      BY <1>4 DEF TmOK, TmShape, Timer
    <3> HIDE DEF a, b, video
    <3>2. video.timers = [[v.tm.timers EXCEPT ![0] = a] EXCEPT ![1] = b]
      BY <2>2, <3>1 DEF Clocked, HasTmNames, TmNames
    <3> QED BY <3>1, <3>2
  <2>4. ClocksOf(t, n, 2) = Clocks2(t, n)
    BY DEF ClocksOf
  <2> HIDE DEF video, a, b
  <2> QED BY <2>1, <2>2, <2>3, <2>4, Zenon DEF Clocked2
<1> HIDE DEF a, b, c
<1>6. /\ TmOK(u) /\ u.gpu = v.tm.gpu /\ u.source = v.tm.source /\ u.sync = v.tm.sync
      /\ u.sync_mode = v.tm.sync_mode
      /\ u.timers[0] = a /\ u.timers[1] = b /\ u.timers[2] = c
  <2>1. TmOK(v.tm)
    BY <1>4
  <2> QED BY <1>5, <2>1, ClockedFields
<1>7. \A i \in Timer : u.timers[i] = Clock(v.tm.timers[i], ClocksOf(t, n, i))
  <2>1. Timer = {0, 1, 2}
    BY DEF Timer
  <2> QED BY <1>6, <2>1 DEF a, b, c
<1> QED BY <1>4, <1>6, <1>7 DEF v, kind
-----------------------------------------------------------------------------
\* A timer that pauses.
LEMMA StepsEnd ==
  ASSUME NEW w, w.left = 0
  PROVE  \A k \in Nat : Steps("part", w, k) = w
<1> DEFINE S == {k \in Nat : Steps("part", w, k) = w}
<1>1. 0 \in S
  BY StepsGoOn
<1>2. ASSUME NEW k \in Nat, k \in S PROVE k + 1 \in S
  <2>1. Steps("part", w, k + 1) = Step("part", Steps("part", w, k))
    BY StepsGoOn
  <2>2. Step("part", w) = w
    BY DEF Step
  <2> QED BY <1>2, <2>1, <2>2
<1>3. \A k \in Nat : k \in S
  <2> HIDE DEF S
  <2> QED BY <1>1, <1>2, OneMore
<1> QED BY <1>3

LEMMA ProductUnseen ==
  ASSUME NEW g, OnScreen(g), NEW p \in 0 .. CpuClock - 1, NEW h, h = WithProduct(g, p)
  PROVE  /\ h.line_cycle = g.line_cycle /\ PartOfLine(h) = PartOfLine(g)
         /\ \A i : InBlank(i, h) = InBlank(i, g)
         /\ \A i, c, n : Adds(i, c, h, n) = Adds(i, c, g, n)
<1>1. /\ h.line = g.line /\ h.line_cycle = g.line_cycle /\ h.divider = g.divider
      /\ h.x1 = g.x1 /\ h.x2 = g.x2 /\ h.y1 = g.y1 /\ h.y2 = g.y2
  BY WithProductFields DEF OnScreen, Framed
<1>2. CyclesInLine(h) = CyclesInLine(g)
  BY ProductOnScreen
<1>3. PartOfLine(h) = PartOfLine(g)
  BY <1>1, <1>2, Zenon DEF PartOfLine
<1>4. InVBlank(h) = InVBlank(g)
  BY <1>1 DEF InVBlank
<1>5. \A x : Dots(h, x) = Dots(g, x)
  BY <1>1 DEF Dots
<1> QED BY <1>1, <1>2, <1>3, <1>4, <1>5 DEF InBlank, Adds

\* Short of its end, a part of a line is the same part.
LEMMA SamePart ==
  ASSUME NEW g, OnScreen(g), NEW m \in Nat, m < PartOfLine(g).until - g.line_cycle,
         NEW i \in 0 .. 1
  PROVE  InBlank(i, BeamSteps(g, m)) = InBlank(i, g)
<1> DEFINE h == BeamSteps(g, m)
           u == PartOfLine(g).until
           c == CyclesInLine(g)
           l == g.line_cycle
<1>0. /\ HasGpuNames(g) /\ c \in Nat \ {0} /\ l \in 0 .. c - 1 /\ g.x1 \in Nat /\ g.x2 \in Nat
  BY LineLengths DEF OnScreen, Framed
<1>1. /\ PartOfLine(g).display \in BOOLEAN
      /\ PartOfLine(g).display <=> ~Inside(g, g.x1) /\ Inside(g, g.x2)
      /\ u = IF Inside(g, g.x1) THEN g.x1 ELSE IF Inside(g, g.x2) THEN g.x2 ELSE c
      /\ u \in l + 1 .. c
  BY PartIs
<1>2. h = At(g, l + m)
  <2>1. m \in 0 .. c - l /\ l + m # c
    BY <1>0, <1>1
  <2> QED BY <2>1, WithinLine DEF Within
<1> HIDE DEF h, u
<1>3. /\ h.line_cycle = l + m /\ h.line = g.line /\ SameFrame(g, h) /\ HasGpuNames(h)
  BY <1>0, <1>2, AtFields
<1>4. CyclesInLine(h) = c /\ OnScreen(h)
  <2>1. l + m \in 0 .. c - 1
    BY <1>0, <1>1 DEF u
  <2> QED BY <1>2, <1>3, <2>1, AtStays, SameLines
<1>5. /\ PartOfLine(h).display \in BOOLEAN
      /\ PartOfLine(h).display <=> ~Inside(h, h.x1) /\ Inside(h, h.x2)
  BY <1>4, PartIs
<1> HIDE DEF c
<1>6. h.x1 = g.x1 /\ h.x2 = g.x2 /\ h.y1 = g.y1 /\ h.y2 = g.y2
  BY <1>3 DEF SameFrame
<1>7. m < u - l
  BY DEF u
<1> HIDE DEF l
<1>8. /\ Inside(g, g.x1) <=> g.x1 < g.x2 /\ l < g.x1 /\ g.x1 < c
      /\ Inside(g, g.x2) <=> g.x1 < g.x2 /\ l < g.x2 /\ g.x2 < c
      /\ Inside(h, h.x1) <=> g.x1 < g.x2 /\ l + m < g.x1 /\ g.x1 < c
      /\ Inside(h, h.x2) <=> g.x1 < g.x2 /\ l + m < g.x2 /\ g.x2 < c
  BY <1>3, <1>4, <1>6 DEF Inside, c, l
<1>9. PartOfLine(h).display = PartOfLine(g).display
  BY <1>0, <1>1, <1>5, <1>7, <1>8
<1>10. InVBlank(h) = InVBlank(g)
  BY <1>3, <1>6 DEF InVBlank
<1> QED BY <1>9, <1>10 DEF InBlank, h

\* Two catch-ups, one of which goes on for E cycles of a blanking period.
LEMMA StandsStill ==
  ASSUME NEW t, TmOK(t), NEW i \in 0 .. 1, Pauses(t, i), NEW B \in Nat, NEW n \in Nat,
         \A k \in 0 .. GpuElapsed(BeamAfter(t.gpu, B), n) :
           InBlank(i, BeamSteps(BeamAfter(t.gpu, B), k))
  PROVE  CatchUp(t, B + n).timers[i] = CatchUp(t, B).timers[i]
<1> DEFINE A == Walk(t, B)
           C == Walk(t, B + n)
           b == BeamAfter(t.gpu, B)
           E == GpuElapsed(b, n)
           x == A.tm.gpu
           y == C.tm.gpu
           a(k) == Steps("part", A, k)
           c(k) == Steps("part", C, k)
<1>1. /\ WalkOK(A) /\ A.left = GpuElapsed(t.gpu, B) /\ x = Charged(t.gpu, B)
      /\ A.tm.timers = t.timers /\ A.tm.source = t.source
      /\ A.tm.sync = t.sync /\ A.tm.sync_mode = t.sync_mode
      /\ A.dots = 0 /\ A.retraces = 0 /\ A.gpu0 = 0 /\ A.gpu1 = 0
  BY WalkBegins
<1>2. /\ WalkOK(C) /\ C.left = GpuElapsed(t.gpu, B + n) /\ y = Charged(t.gpu, B + n)
      /\ C.tm.timers = t.timers /\ C.tm.source = t.source
      /\ C.tm.sync = t.sync /\ C.tm.sync_mode = t.sync_mode
      /\ C.dots = 0 /\ C.retraces = 0 /\ C.gpu0 = 0 /\ C.gpu1 = 0
  <2>1. B + n \in Nat
    OBVIOUS
  <2> QED BY <2>1, WalkBegins
<1>3. OnScreen(t.gpu) /\ HasGpuNames(t.gpu) /\ OnScreen(b)
  BY BeamAfterStays DEF TmOK, OnScreen, Framed
<1>4. A.left \in Nat /\ C.left \in Nat /\ E \in Nat /\ C.left = A.left + E
  <2>1. GpuElapsed(t.gpu, B + n) = GpuElapsed(t.gpu, B) + E
    BY <1>3, BeamAfterAdds
  <2>2. A.left \in Nat /\ C.left \in Nat
    BY <1>1, <1>2 DEF WalkOK
  <2>3. E \in Nat
    BY <1>3, ChargedIs
  <2> QED BY <1>1, <1>2, <2>1, <2>2, <2>3
<1>5. b = BeamSteps(x, A.left)
  BY <1>1 DEF BeamAfter
<1>6. PICK q \in 0 .. CpuClock - 1 : y = WithProduct(x, q)
  <2> DEFINE p == Due(t.gpu, B) % CpuClock
             r == Due(t.gpu, B + n) % CpuClock
  <2>1. r \in 0 .. CpuClock - 1 /\ y = WithProduct(t.gpu, r) /\ x = WithProduct(t.gpu, p)
    <3>1. B + n \in Nat
      OBVIOUS
    <3> QED BY <1>1, <1>2, <1>3, <3>1, ChargedIs
  <2> HIDE DEF p, r, x, y
  <2>2. WithProduct(x, r) = y
    BY <1>3, <2>1, ProductOver
  <2> QED BY <2>1, <2>2
<1>7. OnScreen(x) /\ OnScreen(y)
  BY <1>1, <1>2 DEF WalkOK, TmOK
<1>8. \A k \in Nat : /\ Walked("part", A, a(k)) /\ (a(k).left = 0 \/ a(k).left + k <= A.left)
                     /\ Walked("part", C, c(k)) /\ (c(k).left = 0 \/ c(k).left + k <= C.left)
  BY <1>1, <1>2, WalkGoesOn
<1>9. \A k \in Nat : a(k + 1) = Step("part", a(k)) /\ c(k + 1) = Step("part", c(k))
  BY StepsGoOn
<1> HIDE DEF A, C, b, E
<1> DEFINE Paused1(w) == w.tm.timers[i] = t.timers[i] /\ Pauses(w.tm, i)
           S == {k \in Nat : /\ Paused1(a(k)) /\ Paused1(c(k))
                             /\ Counted(c(k), i) = Counted(a(k), i)
                             /\ \/ c(k).left = a(k).left + E
                                \/ a(k).left = 0 /\ c(k).left <= E}
<1>10. 0 \in S
  <2>1. a(0) = A /\ c(0) = C
    BY StepsGoOn
  <2>2. Paused1(A) /\ Paused1(C) /\ Counted(C, i) = Counted(A, i)
    BY <1>1, <1>2 DEF Pauses, Counted
  <2> QED BY <1>4, <2>1, <2>2
<1>11. ASSUME NEW k \in Nat, k \in S PROVE k + 1 \in S
  <2> DEFINE v == a(k)
             w == c(k)
             v1 == a(k + 1)
             w1 == c(k + 1)
             g == v.tm.gpu
             h == w.tm.gpu
  <2>1. /\ WalkOK(v) /\ v.left <= A.left /\ g = BeamSteps(x, A.left - v.left) /\ v.left \in Nat
        /\ WalkOK(w) /\ w.left <= C.left /\ h = BeamSteps(y, C.left - w.left) /\ w.left \in Nat
    BY <1>8 DEF Walked, WalkOK
  <2>2. v1 = Step("part", v) /\ w1 = Step("part", w)
    BY <1>9
  <2>3. /\ Paused1(v) /\ Paused1(w) /\ Counted(w, i) = Counted(v, i)
        /\ w.left = v.left + E \/ (v.left = 0 /\ w.left <= E)
    BY <1>11
  <2>4. SUFFICES /\ Paused1(v1) /\ Paused1(w1) /\ Counted(w1, i) = Counted(v1, i)
                 /\ w1.left = v1.left + E \/ (v1.left = 0 /\ w1.left <= E)
    OBVIOUS
  <2> HIDE DEF a, c, v, w, v1, w1, x, y
  <2>5. /\ v.left = 0 => v1 = v
        /\ v.left # 0 => /\ v1.left = v.left - PartCycles(v)
                         /\ Paused1(v1)
                         /\ Counted(v1, i) = IF InBlank(i, g) THEN Counted(v, i)
                                             ELSE Adds(i, Counted(v, i), g, PartCycles(v))
    <3>1. v1 = IF v.left = 0 THEN v ELSE WalkPart(v)
      BY <2>2 DEF Step
    <3>2. ASSUME v.left # 0
          PROVE  /\ WentOn(v, v1, PartCycles(v)) /\ SameModes(v, v1)
                 /\ LeftAlone(v, v1, i)
                 /\ Counted(v1, i) = IF InBlank(i, g) THEN Counted(v, i)
                                     ELSE Adds(i, Counted(v, i), g, PartCycles(v))
      BY <2>1, <2>3, <3>1, <3>2, PartStep
    <3> QED BY <2>3, <3>1, <3>2 DEF WentOn, SameModes, LeftAlone, Pauses
  <2>6. /\ w.left = 0 => w1 = w
        /\ w.left # 0 => /\ w1.left = w.left - PartCycles(w)
                         /\ Paused1(w1)
                         /\ Counted(w1, i) = IF InBlank(i, h) THEN Counted(w, i)
                                             ELSE Adds(i, Counted(w, i), h, PartCycles(w))
    <3>1. w1 = IF w.left = 0 THEN w ELSE WalkPart(w)
      BY <2>2 DEF Step
    <3>2. ASSUME w.left # 0
          PROVE  /\ WentOn(w, w1, PartCycles(w)) /\ SameModes(w, w1)
                 /\ LeftAlone(w, w1, i)
                 /\ Counted(w1, i) = IF InBlank(i, h) THEN Counted(w, i)
                                     ELSE Adds(i, Counted(w, i), h, PartCycles(w))
      BY <2>1, <2>3, <3>1, <3>2, PartStep
    <3> QED BY <2>3, <3>1, <3>2 DEF WentOn, SameModes, LeftAlone, Pauses
  <2>7. CASE v.left # 0
    <3>1. w.left = v.left + E /\ w.left # 0
      BY <1>4, <2>1, <2>3, <2>7
    <3>2. C.left - w.left = A.left - v.left /\ A.left - v.left \in Nat
      BY <1>4, <2>1, <3>1
    <3>3. h = WithProduct(g, q) /\ OnScreen(g)
      BY <1>6, <1>7, <2>1, <3>2, ProductStaysApart, BeamStays
    <3> DEFINE u == PartOfLine(g).until - g.line_cycle
    <3>4. /\ h.line_cycle = g.line_cycle /\ PartOfLine(h) = PartOfLine(g)
          /\ InBlank(i, h) = InBlank(i, g)
          /\ \A z, m : Adds(i, z, h, m) = Adds(i, z, g, m)
      BY <3>3, ProductUnseen
    <3>5. /\ PartCycles(v) = IF u <= v.left THEN u ELSE v.left
          /\ PartCycles(w) = IF u <= w.left THEN u ELSE w.left
      BY <2>1, <2>7, <3>1, <3>4, PartCyclesAre
    <3>6. u \in Nat
      <4>1. g.line_cycle \in Nat /\ CyclesInLine(g) \in Nat
        BY <3>3, LineLengths DEF OnScreen, Framed
      <4>2. PartOfLine(g).until \in g.line_cycle + 1 .. CyclesInLine(g)
        BY <3>3, PartIs
      <4> QED BY <4>1, <4>2
    <3>7. CASE u <= v.left
      <4>1. PartCycles(v) = u /\ PartCycles(w) = u
        <5> HIDE DEF u
        <5> QED BY <1>4, <2>1, <3>1, <3>5, <3>6, <3>7
      <4>2. Counted(w1, i) = Counted(v1, i)
        BY <2>3, <2>5, <2>6, <2>7, <3>1, <3>4, <4>1
      <4>3. w1.left = v1.left + E
        <5> HIDE DEF u
        <5> QED BY <1>4, <2>1, <2>5, <2>6, <2>7, <3>1, <3>6, <4>1
      <4> QED BY <2>5, <2>6, <2>7, <3>1, <4>2, <4>3
    <3>8. CASE ~(u <= v.left)
      <4>1. PartCycles(v) = v.left /\ PartCycles(w) >= v.left /\ PartCycles(w) \in Nat
        <5> HIDE DEF u
        <5> QED BY <1>4, <2>1, <3>1, <3>5, <3>6, <3>8
      <4>2. BeamSteps(g, v.left) = b
        <5> DEFINE m == A.left - v.left
                   l == v.left
                   s == A.left
        <5>1. s = m + l /\ m \in Nat /\ l \in Nat
          BY <1>4, <2>1, <3>2
        <5>2. g = BeamSteps(x, m)
          BY <2>1
        <5> HIDE DEF m, l, s
        <5>3. BeamSteps(x, s) = BeamSteps(BeamSteps(x, m), l)
          BY <5>1, BeamAdds
        <5> QED BY <1>5, <5>2, <5>3 DEF l, s
      <4>3. InBlank(i, b) = InBlank(i, g)
        <5>1. v.left < u
          <6> HIDE DEF u
          <6> QED BY <2>1, <3>6, <3>8
        <5>2. InBlank(i, BeamSteps(g, v.left)) = InBlank(i, g)
          BY <2>1, <3>3, <5>1, SamePart
        <5> QED BY <4>2, <5>2
      <4>4. InBlank(i, b)
        <5>1. 0 \in 0 .. E
          BY <1>4
        <5>2. BeamSteps(b, 0) = b
          BY BeamGoesOn
        <5> QED BY <5>1, <5>2 DEF b, E
      <4>5. Counted(w1, i) = Counted(v1, i)
        BY <2>3, <2>5, <2>6, <2>7, <3>1, <3>4, <4>3, <4>4
      <4>6. v1.left = 0 /\ w1.left <= E
        <5> HIDE DEF u
        <5> QED BY <1>4, <2>1, <2>5, <2>6, <2>7, <3>1, <4>1
      <4> QED BY <2>5, <2>6, <2>7, <3>1, <4>5, <4>6
    <3> QED BY <3>7, <3>8
  <2>8. CASE v.left = 0
    <3>1. w.left <= E
      BY <1>4, <2>1, <2>3, <2>8
    <3>2. CASE w.left = 0
      BY <1>4, <2>3, <2>5, <2>6, <2>8, <3>2
    <3>3. CASE w.left # 0
      <4>1. E - w.left \in 0 .. E /\ E - w.left \in Nat /\ C.left - w.left = A.left + (E - w.left)
        BY <1>4, <2>1, <3>1
      <4>2. BeamSteps(x, A.left + (E - w.left)) = BeamSteps(b, E - w.left)
        <5> DEFINE m == E - w.left
                   l == A.left
        <5>1. m \in Nat /\ l \in Nat
          BY <1>4, <4>1
        <5> HIDE DEF m, l
        <5>2. BeamSteps(x, l + m) = BeamSteps(BeamSteps(x, l), m)
          BY <5>1, BeamAdds
        <5> QED BY <1>5, <5>2 DEF m, l
      <4>3. h = WithProduct(BeamSteps(b, E - w.left), q) /\ OnScreen(BeamSteps(b, E - w.left))
        <5>1. A.left + (E - w.left) \in Nat
          BY <1>4, <4>1
        <5> QED BY <1>3, <1>6, <1>7, <2>1, <4>1, <4>2, <5>1, ProductStaysApart, BeamStays
      <4>4. InBlank(i, BeamSteps(b, E - w.left))
        BY <4>1 DEF b, E
      <4>5. InBlank(i, h)
        BY <4>3, <4>4, ProductUnseen
      <4>6. PartCycles(w) \in 1 .. w.left
        BY <2>1, <3>3, PartCyclesAre
      <4>7. w1.left <= E
        BY <1>4, <2>1, <2>6, <3>1, <3>3, <4>6
      <4> QED BY <2>3, <2>5, <2>6, <2>8, <3>3, <4>5, <4>7
    <3> QED BY <3>2, <3>3
  <2> QED BY <2>7, <2>8
<1>12. \A k \in Nat : k \in S
  <2> HIDE DEF S
  <2> QED BY <1>10, <1>11, OneMore
<1> DEFINE v == a(A.left)
           w == c(C.left)
<1>13. a(C.left) = v
  <2>1. v.left = 0
    <3>1. Walked("part", A, v) /\ (v.left = 0 \/ v.left + A.left <= A.left)
      BY <1>4, <1>8
    <3>2. v.left \in Nat
      BY <3>1 DEF Walked, WalkOK
    <3> QED BY <1>4, <3>1, <3>2
  <2>2. Steps("part", A, A.left + E) = Steps("part", v, E)
    <3> DEFINE m == A.left
    <3>1. m \in Nat
      BY <1>4
    <3> HIDE DEF m
    <3>2. Steps("part", A, m + E) = Steps("part", Steps("part", A, m), E)
      BY <1>4, <3>1, StepsAdd
    <3> QED BY <3>2 DEF m
  <2> QED BY <1>4, <2>1, <2>2, StepsEnd
<1>14. v.tm.timers[i] = t.timers[i] /\ w.tm.timers[i] = t.timers[i] /\ Counted(w, i) = Counted(v, i)
  <2>1. C.left \in S
    BY <1>4, <1>12
  <2> QED BY <1>13, <2>1
<1>15. /\ v.tm.source = t.source /\ w.tm.source = t.source
       /\ v.tm.gpu.mode = t.gpu.mode /\ w.tm.gpu.mode = t.gpu.mode
  <2>1. Walked("part", A, v) /\ Walked("part", C, w)
    BY <1>4, <1>8
  <2>2. A.left - v.left \in Nat /\ C.left - w.left \in Nat
    BY <1>4, <2>1 DEF Walked, WalkOK
  <2>3. SameFrame(x, v.tm.gpu) /\ SameFrame(y, w.tm.gpu)
    BY <1>7, <2>1, <2>2, BeamStays DEF Walked
  <2>4. x.mode = t.gpu.mode /\ y.mode = t.gpu.mode
    <3>1. B + n \in Nat
      OBVIOUS
    <3>2. x = WithProduct(t.gpu, Due(t.gpu, B) % CpuClock) /\ y = WithProduct(t.gpu, Due(t.gpu, B + n) % CpuClock)
      BY <1>1, <1>2, <1>3, <3>1, ChargedIs
    <3> QED BY <1>3, <3>2, WithProductFields
  <2> QED BY <1>1, <1>2, <2>1, <2>3, <2>4 DEF Walked, SameModes, SameFrame
<1>16. WalkKind(t) = "part"
  BY DEF WalkKind, Pauses
<1>17. LastWalk(t, B) = v /\ LastWalk(t, B + n) = w
  BY <1>1, <1>2, <1>16 DEF LastWalk, A, C
<1> HIDE DEF v, w, a, c
<1>18. ClocksOf(t, B, i) = ClocksOf(t, B + n, i)
  <2>1. CASE i = 0
    <3>1. ClocksOf(t, B, i) = Clocks0(v) /\ ClocksOf(t, B + n, i) = Clocks0(w)
      BY <1>16, <1>17, <2>1 DEF ClocksOf
    <3>2. v.dots = w.dots /\ v.gpu0 = w.gpu0
      BY <1>14, <2>1 DEF Counted
    <3> QED BY <1>15, <3>1, <3>2 DEF Clocks0
  <2>2. CASE i = 1
    <3>1. ClocksOf(t, B, i) = Clocks1(v) /\ ClocksOf(t, B + n, i) = Clocks1(w)
      BY <1>16, <1>17, <2>2 DEF ClocksOf
    <3>2. v.retraces = w.retraces /\ v.gpu1 = w.gpu1
      BY <1>14, <2>2 DEF Counted
    <3> QED BY <1>15, <3>1, <3>2 DEF Clocks1
  <2> QED BY <2>1, <2>2
<1>19. i \in Timer /\ B + n \in Nat
  BY DEF Timer
<1>20. CatchUp(t, B).timers[i] = Clock(v.tm.timers[i], ClocksOf(t, B, i))
  <2>1. \A j \in Timer : CatchUp(t, B).timers[j] = Clock(LastWalk(t, B).tm.timers[j], ClocksOf(t, B, j))
    BY CatchUpIs
  <2> QED BY <1>17, <1>19, <2>1
<1>21. CatchUp(t, B + n).timers[i] = Clock(w.tm.timers[i], ClocksOf(t, B + n, i))
  <2>1. \A j \in Timer :
          CatchUp(t, B + n).timers[j] = Clock(LastWalk(t, B + n).tm.timers[j], ClocksOf(t, B + n, j))
    BY <1>19, CatchUpIs
  <2> QED BY <1>17, <1>19, <2>1
<1> QED BY <1>14, <1>18, <1>20, <1>21
-----------------------------------------------------------------------------
\* The inductive invariant of the video clock, whatever the part: it is on the screen, and
\* the beam is where catching up now would take it.
BeamFollows == TmOK(tm) /\ behind \in Nat /\ beam = BeamAfter(tm.gpu, behind)

LEMMA BeamIsThere ==
  ASSUME BeamFollows
  PROVE  TmOK(Now) /\ Now.gpu = beam /\ OnScreen(beam) /\ LazyBeamIsExact
<1>1. TmOK(Now) /\ Now.gpu = BeamAfter(tm.gpu, behind)
  BY CatchUpIs DEF BeamFollows, Now
<1> QED BY <1>1 DEF BeamFollows, LazyBeamIsExact, TmOK

\* An access that catches up first leaves the beam where the timers are.
LEMMA AccessFollows ==
  ASSUME NEW t, TmOK(t), CaughtUp(t), beam' = t.gpu
  PROVE  BeamFollows'
<1>1. tm' = t /\ behind' = 0
  BY DEF CaughtUp
<1>2. BeamAfter(t.gpu, 0) = t.gpu
  BY BeamAfterNothing DEF TmOK
<1> QED BY <1>1, <1>2 DEF BeamFollows

LEMMA CatchUpFollows ==
  ASSUME BeamFollows, CaughtUp(Now), beam' = beam
  PROVE  BeamFollows'
  BY BeamIsThere, AccessFollows

WithTimer(t, i, a) == [t EXCEPT !.timers[i] = a]

LEMMA WithTimerFields ==
  ASSUME NEW t, TmOK(t), NEW i \in Timer, NEW a, NEW r, r = WithTimer(t, i, a)
  PROVE  /\ TmOK(r) /\ r.gpu = t.gpu /\ r.source = t.source /\ r.sync = t.sync
         /\ r.sync_mode = t.sync_mode
         /\ r.timers[i] = a
         /\ \A j \in Timer : j # i => r.timers[j] = t.timers[j]
<1>0. HasTmNames(t) /\ t.timers = [j \in Timer |-> t.timers[j]]
  BY DEF TmOK, TmShape
<1>1. r = [t EXCEPT !.timers[i] = a]
  BY DEF WithTimer
<1>2. /\ HasTmNames(r) /\ r.gpu = t.gpu /\ r.source = t.source /\ r.sync = t.sync
      /\ r.sync_mode = t.sync_mode
      /\ r.timers = [t.timers EXCEPT ![i] = a]
  BY <1>0, <1>1 DEF HasTmNames, TmNames
<1>3. /\ r.timers[i] = a /\ r.timers = [j \in Timer |-> r.timers[j]]
      /\ \A j \in Timer : j # i => r.timers[j] = t.timers[j]
  BY <1>0, <1>2
<1>4. TmOK(r)
  BY <1>2, <1>3 DEF TmOK, TmShape
<1> QED BY <1>2, <1>3, <1>4

\* A mode write.
Rewritten(t, w) ==
  [t EXCEPT !.timers[w.timer] = WriteMode(@, w.mode), !.sync[w.timer] = w.sync,
            !.sync_mode[w.timer] = w.sync_mode, !.source[w.timer] = w.source]

LEMMA ModeWriteFields ==
  ASSUME NEW w \in ModeWrites
  PROVE  /\ w.timer \in Timer /\ w.mode \in ModeValues /\ w.sync \in BOOLEAN
         /\ w.sync_mode \in 0 .. 3 /\ w.source \in BOOLEAN
  BY TimersAreValid DEF ClockAssumption

LEMMA RewrittenFields ==
  ASSUME NEW t, TmOK(t), NEW w \in ModeWrites, NEW r, r = Rewritten(t, w)
  PROVE  /\ TmOK(r) /\ r.gpu = t.gpu
         /\ r.timers[w.timer] = WriteMode(t.timers[w.timer], w.mode)
         /\ r.sync = [t.sync EXCEPT ![w.timer] = w.sync]
         /\ r.sync_mode = [t.sync_mode EXCEPT ![w.timer] = w.sync_mode]
         /\ r.source = [t.source EXCEPT ![w.timer] = w.source]
         /\ \A j \in Timer : j # w.timer => r.timers[j] = t.timers[j]
<1> DEFINE a == WriteMode(t.timers[w.timer], w.mode)
           i == w.timer
<1>0. /\ HasTmNames(t) /\ t.timers = [j \in Timer |-> t.timers[j]]
      /\ t.source \in [Timer -> BOOLEAN] /\ t.sync \in [Timer -> BOOLEAN]
      /\ t.sync_mode \in [Timer -> 0 .. 3]
  BY DEF TmOK, TmShape
<1>1. r = [t EXCEPT !.timers[i] = a, !.sync[i] = w.sync, !.sync_mode[i] = w.sync_mode,
                    !.source[i] = w.source]
  BY Zenon DEF Rewritten
<1>2. i \in Timer /\ w.sync \in BOOLEAN /\ w.sync_mode \in 0 .. 3 /\ w.source \in BOOLEAN
  BY ModeWriteFields
<1> HIDE DEF a, i
<1>3. /\ HasTmNames(r) /\ r.gpu = t.gpu
      /\ r.source = [t.source EXCEPT ![i] = w.source] /\ r.sync = [t.sync EXCEPT ![i] = w.sync]
      /\ r.sync_mode = [t.sync_mode EXCEPT ![i] = w.sync_mode]
      /\ r.timers = [t.timers EXCEPT ![i] = a]
  BY <1>0, <1>1 DEF HasTmNames, TmNames
<1>4. /\ r.timers[i] = a /\ r.timers = [j \in Timer |-> r.timers[j]]
      /\ \A j \in Timer : j # i => r.timers[j] = t.timers[j]
  BY <1>0, <1>2, <1>3
<1>5. r.sync \in [Timer -> BOOLEAN]
  BY <1>0, <1>2, <1>3
<1>6. r.sync_mode \in [Timer -> 0 .. 3]
  BY <1>0, <1>2, <1>3
<1>7. r.source \in [Timer -> BOOLEAN]
  BY <1>0, <1>2, <1>3
<1>8. TmOK(r)
  BY <1>3, <1>4, <1>5, <1>6, <1>7 DEF TmOK, TmShape
<1> QED BY <1>3, <1>4, <1>8 DEF i, a

WithGpu(t, g) == [t EXCEPT !.gpu = g]

LEMMA WithGpuFields ==
  ASSUME NEW t, TmOK(t), NEW g, OnScreen(g), NEW r, r = WithGpu(t, g)
  PROVE  /\ TmOK(r) /\ r.gpu = g /\ r.timers = t.timers /\ r.source = t.source /\ r.sync = t.sync
         /\ r.sync_mode = t.sync_mode
<1>0. HasTmNames(t)
  BY DEF TmOK, TmShape
<1>1. /\ HasTmNames(r) /\ r.gpu = g /\ r.timers = t.timers /\ r.source = t.source /\ r.sync = t.sync
      /\ r.sync_mode = t.sync_mode
  BY <1>0 DEF WithGpu, HasTmNames, TmNames
<1>2. TmOK(r)
  BY <1>1 DEF TmOK, TmShape
<1> QED BY <1>1, <1>2

\* A new range, and a new mode.
LEMMA RangeStays ==
  ASSUME NEW g, OnScreen(g), NEW a \in Nat, NEW b \in Nat
  PROVE  /\ OnScreen([g EXCEPT !.x1 = a, !.x2 = b])
         /\ OnScreen([g EXCEPT !.y1 = a, !.y2 = b])
<1>1. ASSUME NEW h, h = [g EXCEPT !.x1 = a, !.x2 = b] \/ h = [g EXCEPT !.y1 = a, !.y2 = b]
      PROVE  OnScreen(h)
  <2>1. /\ HasGpuNames(h) /\ h.product = g.product /\ h.line = g.line /\ h.line_cycle = g.line_cycle
        /\ h.odd_frame = g.odd_frame /\ h.divider = g.divider /\ h.mode = g.mode
        /\ h.interlaced = g.interlaced
    BY <1>1 DEF OnScreen, Framed, HasGpuNames, GpuNames
  <2>2. h.x1 \in Nat /\ h.x2 \in Nat /\ h.y1 \in Nat /\ h.y2 \in Nat
    BY <1>1 DEF OnScreen, Framed, HasGpuNames, GpuNames
  <2>3. LastLine(h) = LastLine(g)
    BY <2>1 DEF LastLine
  <2>4. CyclesInLine(h) = CyclesInLine(g)
    BY <2>1, <2>3 DEF CyclesInLine
  <2>5. Framed(h)
    BY <2>1, <2>2 DEF OnScreen, Framed
  <2> QED BY <2>1, <2>3, <2>4, <2>5 DEF OnScreen
<1> QED BY <1>1, Zenon

NewMode(g, d) == [g EXCEPT !.divider = d.divider, !.interlaced = d.interlaced, !.mode = d.mode]

LEMMA NewModeFields ==
  ASSUME NEW g, OnScreen(g), NEW d \in DisplayModes, NEW h, h = NewMode(g, d)
  PROVE  /\ Framed(h) /\ h.line = g.line /\ h.line_cycle = g.line_cycle
         /\ h.mode = d.mode /\ h.interlaced = d.interlaced /\ h.divider = d.divider
         /\ h.y1 = g.y1 /\ h.y2 = g.y2 /\ h.product = g.product
         /\ h.line \in Nat /\ h.line_cycle \in Nat
<1>1. d.divider \in Nat \ {0} /\ d.interlaced \in BOOLEAN /\ d.mode \in VideoModes
  BY TimersAreValid DEF ClockAssumption
<1>2. /\ HasGpuNames(h) /\ h.product = g.product /\ h.line = g.line /\ h.line_cycle = g.line_cycle
      /\ h.odd_frame = g.odd_frame /\ h.divider = d.divider /\ h.mode = d.mode
      /\ h.interlaced = d.interlaced
      /\ h.x1 = g.x1 /\ h.x2 = g.x2 /\ h.y1 = g.y1 /\ h.y2 = g.y2
  BY DEF NewMode, OnScreen, Framed, HasGpuNames, GpuNames
<1>3. Framed(h)
  BY <1>1, <1>2 DEF OnScreen, Framed
<1>4. g.line \in Nat /\ g.line_cycle \in Nat
  <2>1. CyclesInLine(g) \in Nat /\ LastLine(g) \in Nat
    BY LineLengths DEF OnScreen, Framed
  <2> QED BY <2>1 DEF OnScreen
<1> QED BY <1>2, <1>3, <1>4

LEMMA InModeStays ==
  ASSUME NEW g, OnScreen(g), NEW d \in DisplayModes
  PROVE  OnScreen(InMode(g, d)) /\ InMode(g, d).y1 = g.y1 /\ InMode(g, d).y2 = g.y2
<1> DEFINE h == NewMode(g, d)
<1>1. /\ Framed(h) /\ h.line \in Nat /\ h.line_cycle \in Nat /\ h.y1 = g.y1 /\ h.y2 = g.y2
  BY NewModeFields
<1>2. InMode(g, d) = IF h.line > LastLine(h) \/ h.line_cycle >= CyclesInLine(h) THEN NextLine(h) ELSE h
  BY Zenon DEF InMode, NewMode
<1> HIDE DEF h
<1>3. CASE h.line > LastLine(h) \/ h.line_cycle >= CyclesInLine(h)
  <2>1. InMode(g, d) = NextLine(h)
    BY <1>2, <1>3
  <2>2. HasGpuNames(h)
    BY <1>1 DEF Framed
  <2> QED BY <1>1, <2>1, <2>2, NextLineStays, NextLineFields DEF SameFrame
<1>4. CASE ~(h.line > LastLine(h) \/ h.line_cycle >= CyclesInLine(h))
  <2>1. InMode(g, d) = h
    BY <1>2, <1>4
  <2>2. CyclesInLine(h) \in Nat /\ LastLine(h) \in Nat
    BY <1>1, LineLengths DEF Framed
  <2>3. h.line \in 0 .. LastLine(h) /\ h.line_cycle \in 0 .. CyclesInLine(h) - 1
    BY <1>1, <1>4, <2>2
  <2> QED BY <1>1, <2>1, <2>3 DEF OnScreen
<1> QED BY <1>3, <1>4

LEMMA DividerStays ==
  ASSUME NEW g, OnScreen(g), NEW d \in DisplayModes, NEW h, h = [g EXCEPT !.divider = d.divider]
  PROVE  OnScreen(h) /\ SameFrame([h EXCEPT !.divider = g.divider], g) /\ h.y1 = g.y1 /\ h.y2 = g.y2
<1>1. d.divider \in Nat \ {0}
  BY TimersAreValid DEF ClockAssumption
<1>2. /\ HasGpuNames(h) /\ h.product = g.product /\ h.line = g.line /\ h.line_cycle = g.line_cycle
      /\ h.odd_frame = g.odd_frame /\ h.divider = d.divider /\ h.mode = g.mode
      /\ h.interlaced = g.interlaced
      /\ h.x1 = g.x1 /\ h.x2 = g.x2 /\ h.y1 = g.y1 /\ h.y2 = g.y2
  BY DEF OnScreen, Framed, HasGpuNames, GpuNames
<1>3. LastLine(h) = LastLine(g)
  BY <1>2 DEF LastLine
<1>4. CyclesInLine(h) = CyclesInLine(g)
  BY <1>2, <1>3 DEF CyclesInLine
<1>5. Framed(h)
  BY <1>1, <1>2 DEF OnScreen, Framed
<1>6. SameFrame([h EXCEPT !.divider = g.divider], g)
  BY <1>2 DEF SameFrame, HasGpuNames, GpuNames
<1> QED BY <1>2, <1>3, <1>4, <1>5, <1>6 DEF OnScreen

LEMMA NewGpuStays ==
  /\ OnScreen(NewGpu)
  /\ OnScreen([NewGpu EXCEPT !.mode = "Pal", !.x1 = 0, !.x2 = 0, !.y1 = 0, !.y2 = 0])
<1> DEFINE p == [NewGpu EXCEPT !.mode = "Pal", !.x1 = 0, !.x2 = 0, !.y1 = 0, !.y2 = 0]
<1>0. /\ InitGpu.x1 \in Nat /\ InitGpu.x2 \in Nat /\ InitGpu.y1 \in Nat /\ InitGpu.y2 \in Nat
      /\ InitGpu.divider \in Nat \ {0}
  BY TimersAreValid DEF ClockAssumption
<1>1. HasGpuNames(NewGpu) /\ HasGpuNames(p)
  BY DEF NewGpu, HasGpuNames, GpuNames
<1>2. CpuClock \in Nat \ {0}
  BY ClockRates
<1>3. /\ NewGpu.mode \in VideoModes /\ NewGpu.interlaced \in BOOLEAN /\ NewGpu.odd_frame \in BOOLEAN
      /\ NewGpu.x1 \in Nat /\ NewGpu.x2 \in Nat /\ NewGpu.y1 \in Nat /\ NewGpu.y2 \in Nat
      /\ NewGpu.divider \in Nat \ {0} /\ NewGpu.product = 0
      /\ NewGpu.line = 0 /\ NewGpu.line_cycle = 0
  BY <1>0 DEF NewGpu, VideoModes
<1>4. /\ p.mode \in VideoModes /\ p.interlaced \in BOOLEAN /\ p.odd_frame \in BOOLEAN
      /\ p.x1 \in Nat /\ p.x2 \in Nat /\ p.y1 \in Nat /\ p.y2 \in Nat
      /\ p.divider \in Nat \ {0} /\ p.product = 0
      /\ p.line = 0 /\ p.line_cycle = 0
  BY <1>0 DEF NewGpu, VideoModes
<1> HIDE DEF p
<1>5. ASSUME NEW g, HasGpuNames(g), g.mode \in VideoModes, g.interlaced \in BOOLEAN,
             g.odd_frame \in BOOLEAN, g.x1 \in Nat, g.x2 \in Nat, g.y1 \in Nat, g.y2 \in Nat,
             g.divider \in Nat \ {0}, g.product = 0, g.line = 0, g.line_cycle = 0
      PROVE  OnScreen(g)
  <2>1. 0 \in 0 .. CpuClock - 1
    BY <1>2
  <2>2. CyclesInLine(g) \in Nat \ {0} /\ LastLine(g) \in Nat
    BY <1>5, LineLengths
  <2> QED BY <1>5, <2>1, <2>2 DEF OnScreen, Framed
<1> QED BY <1>1, <1>3, <1>4, <1>5 DEF p

LEMMA InitFollows ==
  ASSUME MCInit
  PROVE  BeamFollows
<1>1. PICK g \in {NewGpu, [NewGpu EXCEPT !.mode = "Pal", !.x1 = 0, !.x2 = 0, !.y1 = 0, !.y2 = 0]},
           s \in [Timer -> BOOLEAN] :
        /\ tm = [gpu |-> g, timers |-> [i \in Timer |-> NewTimer],
                 source |-> [i \in Timer |-> FALSE], sync |-> s,
                 sync_mode |-> [i \in Timer |-> 0]]
        /\ behind = 0 /\ beam = g
  <2> DEFINE no == [i \in Timer |-> FALSE]
             only2 == [i \in Timer |-> i = 2]
             pal == [NewGpu EXCEPT !.mode = "Pal", !.x1 = 0, !.x2 = 0, !.y1 = 0, !.y2 = 0]
  <2>1. no \in [Timer -> BOOLEAN] /\ only2 \in [Timer -> BOOLEAN]
    OBVIOUS
  <2>2. CASE Init
    BY <2>1, <2>2, Zenon DEF Init
  <2>3. CASE InitCpu
    BY <2>1, <2>3, Zenon DEF InitCpu
  <2>4. CASE InitSynced
    BY <2>1, <2>4, Zenon DEF InitSynced
  <2> QED BY <2>2, <2>3, <2>4 DEF MCInit
<1>2. OnScreen(g)
  BY <1>1, NewGpuStays
<1>3. TmOK(tm) /\ tm.gpu = g
  <2>1. HasTmNames(tm)
    BY <1>1 DEF HasTmNames, TmNames
  <2>2. /\ tm.gpu = g /\ tm.timers = [i \in Timer |-> NewTimer] /\ tm.source = [i \in Timer |-> FALSE]
        /\ tm.sync = s /\ tm.sync_mode = [i \in Timer |-> 0]
    BY <1>1
  <2>3. tm.source \in [Timer -> BOOLEAN] /\ tm.sync_mode \in [Timer -> 0 .. 3]
    BY <2>2
  <2>4. tm.timers = [i \in Timer |-> tm.timers[i]]
    BY <2>2
  <2> QED BY <1>2, <2>1, <2>2, <2>3, <2>4 DEF TmOK, TmShape
<1> QED BY <1>1, <1>2, <1>3, BeamAfterNothing DEF BeamFollows

LEMMA RunsFollow ==
  ASSUME BeamFollows, Runs
  PROVE  BeamFollows'
<1>1. ASSUME NEW n \in 1 .. MaxAdvance, ExecuteInstruction(n) PROVE BeamFollows'
  <2>1. tm' = tm /\ behind' = behind + n /\ beam' = BeamAfter(beam, n)
    BY <1>1 DEF ExecuteInstruction
  <2>2. MaxAdvance \in Nat
    BY TimersAreValid DEF ClockAssumption
  <2>3. n \in Nat /\ behind \in Nat /\ behind + n \in Nat /\ OnScreen(tm.gpu)
    BY <2>2 DEF BeamFollows, TmOK
  <2>4. BeamAfter(BeamAfter(tm.gpu, behind), n) = BeamAfter(tm.gpu, behind + n)
    BY <2>3, BeamAfterAdds
  <2> QED BY <2>1, <2>3, <2>4 DEF BeamFollows
<1>2. CASE VBlankEvent
  <2>1. CASE RangeValid(tm.gpu)
    <3>1. CaughtUp(Now) /\ beam' = beam
      BY <1>2, <2>1 DEF VBlankEvent, Watched
    <3> QED BY <3>1, CatchUpFollows
  <2>2. CASE ~RangeValid(tm.gpu)
    <3>1. tm' = tm /\ behind' = behind /\ beam' = beam
      BY <1>2, <2>2 DEF VBlankEvent, Watched
    <3> QED BY <3>1 DEF BeamFollows
  <2> QED BY <2>1, <2>2
<1>3. ASSUME NEW i \in Timer, TimerEvent(i) PROVE BeamFollows'
  <2>1. CaughtUp(Now) /\ beam' = beam
    BY <1>3 DEF TimerEvent, Watched
  <2> QED BY <2>1, CatchUpFollows
<1>4. CASE ReadStatus
  <2>1. CaughtUp(Now) /\ beam' = beam
    BY <1>4 DEF ReadStatus, Watched
  <2> QED BY <2>1, CatchUpFollows
<1>5. CASE AcknowledgeVBlank
  <2>1. tm' = tm /\ behind' = behind /\ beam' = beam
    BY <1>5 DEF AcknowledgeVBlank, Watched
  <2> QED BY <2>1 DEF BeamFollows
<1> QED BY <1>1, <1>2, <1>3, <1>4, <1>5 DEF Runs

\* The mode writes of either part.
LEMMA ModeWriteFollows ==
  ASSUME BeamFollows, NEW w \in ModeWrites, WriteTimerMode(w)
  PROVE  BeamFollows'
<1> DEFINE t == Rewritten(Now, w)
<1>1. CaughtUp(t) /\ beam' = tm'.gpu
  BY Zenon DEF WriteTimerMode, WriteRegister, Followed, Rewritten
<1>2. tm' = t
  BY <1>1 DEF CaughtUp
<1>3. TmOK(Now)
  BY BeamIsThere
<1> HIDE DEF t
<1>4. TmOK(t)
  BY <1>3, RewrittenFields DEF t
<1> QED BY <1>1, <1>2, <1>4, AccessFollows

LEMMA TimerAccessFollows ==
  ASSUME BeamFollows, NEW i \in Timer, NEW a, CaughtUp(WithTimer(Now, i, a)), beam' = tm'.gpu
  PROVE  BeamFollows'
<1> DEFINE t == WithTimer(Now, i, a)
<1>1. CaughtUp(t) /\ tm' = t
  BY DEF CaughtUp
<1>2. TmOK(Now)
  BY BeamIsThere
<1>3. TmOK(t)
  BY <1>2, WithTimerFields
<1> HIDE DEF t
<1> QED BY <1>1, <1>3, AccessFollows

LEMMA CpuFollows ==
  ASSUME BeamFollows, CpuNext
  PROVE  BeamFollows'
<1>1. ASSUME NEW i \in ModeReads, ReadTimerMode(i) PROVE BeamFollows'
  <2>1. CaughtUp(WithTimer(Now, i, ReadMode(Now.timers[i]))) /\ beam' = tm'.gpu
    BY <1>1, Zenon DEF ReadTimerMode, WithTimer, Followed
  <2>2. i \in Timer
    BY TimersAreValid DEF ClockAssumption
  <2> QED BY <2>1, <2>2, TimerAccessFollows
<1>2. ASSUME NEW w \in CpuModes, WriteTimerMode(w) PROVE BeamFollows'
  <2>1. w \in ModeWrites
    BY DEF CpuModes
  <2> QED BY <1>2, <2>1, ModeWriteFollows
<1>3. ASSUME NEW w \in TargetWrites, WriteTimerTarget(w) PROVE BeamFollows'
  <2>1. CaughtUp(WithTimer(Now, w.timer, WriteTarget(Now.timers[w.timer], w.value))) /\ beam' = tm'.gpu
    BY <1>3, Zenon DEF WriteTimerTarget, WriteRegister, WithTimer, Followed
  <2>2. w.timer \in Timer
    BY TimersAreValid DEF ClockAssumption
  <2> QED BY <2>1, <2>2, TimerAccessFollows
<1>4. ASSUME NEW w \in CounterWrites, WriteTimerCounter(w) PROVE BeamFollows'
  <2>1. CaughtUp(WithTimer(Now, w.timer, WriteCounter(Now.timers[w.timer], w.value))) /\ beam' = tm'.gpu
    BY <1>4, Zenon DEF WriteTimerCounter, WriteRegister, WithTimer, Followed
  <2>2. w.timer \in Timer
    BY TimersAreValid DEF ClockAssumption
  <2> QED BY <2>1, <2>2, TimerAccessFollows
<1>5. ASSUME NEW i \in Timer, AcknowledgeTimer(i) PROVE BeamFollows'
  <2> DEFINE a == [tm.timers[i] EXCEPT !.istat = FALSE]
  <2>1. tm' = WithTimer(tm, i, a) /\ behind' = behind /\ beam' = beam
    BY <1>5, Zenon DEF AcknowledgeTimer, WithTimer
  <2> HIDE DEF a
  <2>2. TmOK(tm)
    BY DEF BeamFollows
  <2>3. TmOK(tm') /\ tm'.gpu = tm.gpu
    BY <2>1, <2>2, WithTimerFields
  <2> QED BY <2>1, <2>3 DEF BeamFollows
<1> QED BY <1>1, <1>2, <1>3, <1>4, <1>5 DEF CpuNext

\* An access that replaces the video clock.
LEMMA GpuAccessFollows ==
  ASSUME BeamFollows, NEW g, OnScreen(g), CaughtUp(WithGpu(Now, g)), beam' = tm'.gpu
  PROVE  BeamFollows'
<1> DEFINE t == WithGpu(Now, g)
<1>1. CaughtUp(t) /\ tm' = t
  BY DEF CaughtUp
<1>2. TmOK(Now)
  BY BeamIsThere
<1>3. TmOK(t)
  BY <1>2, WithGpuFields
<1> HIDE DEF t
<1> QED BY <1>1, <1>3, AccessFollows

LEMMA VideoFollows ==
  ASSUME BeamFollows, VideoNext
  PROVE  BeamFollows'
<1>0. TmOK(Now) /\ OnScreen(Now.gpu) /\ HasTmNames(Now)
  BY BeamIsThere DEF TmOK, TmShape
<1>1. ASSUME NEW x \in HorizontalRanges, WriteHorizontalRange(x) PROVE BeamFollows'
  <2> DEFINE g == [Now.gpu EXCEPT !.x1 = x.x1, !.x2 = x.x2]
  <2>1. [Now EXCEPT !.gpu.x1 = x.x1, !.gpu.x2 = x.x2] = WithGpu(Now, g)
    BY <1>0 DEF WithGpu, HasTmNames, TmNames
  <2>2. CaughtUp(WithGpu(Now, g)) /\ beam' = tm'.gpu
    BY <1>1, <2>1, Zenon DEF WriteHorizontalRange, Followed
  <2>3. x.x1 \in Nat /\ x.x2 \in Nat
    BY TimersAreValid DEF ClockAssumption
  <2>4. OnScreen(g)
    BY <1>0, <2>3, RangeStays
  <2> HIDE DEF g
  <2> QED BY <2>2, <2>4, GpuAccessFollows
<1>2. ASSUME NEW y \in VerticalRanges, WriteVerticalRange(y) PROVE BeamFollows'
  <2> DEFINE g == [Now.gpu EXCEPT !.y1 = y.y1, !.y2 = y.y2]
  <2>1. [Now EXCEPT !.gpu.y1 = y.y1, !.gpu.y2 = y.y2] = WithGpu(Now, g)
    BY <1>0 DEF WithGpu, HasTmNames, TmNames
  <2>2. CaughtUp(WithGpu(Now, g)) /\ beam' = tm'.gpu
    BY <1>2, <2>1, Zenon DEF WriteVerticalRange, Followed
  <2>3. y.y1 \in Nat /\ y.y2 \in Nat
    BY TimersAreValid DEF ClockAssumption
  <2>4. OnScreen(g)
    BY <1>0, <2>3, RangeStays
  <2> HIDE DEF g
  <2> QED BY <2>2, <2>4, GpuAccessFollows
<1>3. ASSUME NEW d \in DisplayModes, WriteDisplayMode(d) PROVE BeamFollows'
  <2> DEFINE same == d.interlaced = tm.gpu.interlaced /\ d.mode = tm.gpu.mode
             h == [Now.gpu EXCEPT !.divider = d.divider]
             m == InMode(Now.gpu, d)
             g == IF same THEN h ELSE m
  <2>1. CaughtUp(WithGpu(Now, g)) /\ beam' = tm'.gpu
    BY <1>3, Zenon DEF WriteDisplayMode, WithGpu, Followed
  <2>2. OnScreen(h)
    BY <1>0, DividerStays
  <2>3. OnScreen(m)
    BY <1>0, InModeStays
  <2>4. OnScreen(g)
    BY <2>2, <2>3
  <2> HIDE DEF g
  <2> QED BY <2>1, <2>4, GpuAccessFollows
<1> QED BY <1>1, <1>2, <1>3 DEF VideoNext

LEMMA BeamFollowsStep ==
  BeamFollows /\ [MCNext]_mc_vars => BeamFollows'
<1>1. ASSUME BeamFollows, UNCHANGED vars PROVE BeamFollows'
  BY <1>1 DEF vars, BeamFollows
<1>2. ASSUME BeamFollows, MCNext PROVE BeamFollows'
  <2>1. CASE UNCHANGED vars
    BY <1>1, <1>2, <2>1
  <2>2. CASE Runs
    BY <1>2, <2>2, RunsFollow
  <2>3. CASE VideoNext
    BY <1>2, <2>3, VideoFollows
  <2>4. CASE CpuNext
    BY <1>2, <2>4, CpuFollows
  <2>5. CASE SyncedNext
    <3>1. PICK w \in SyncedModes : WriteTimerMode(w)
      BY <2>5 DEF SyncedNext
    <3>2. w \in ModeWrites
      BY DEF SyncedModes
    <3> QED BY <1>2, <3>1, <3>2, ModeWriteFollows
  <2> QED BY <1>2, <2>1, <2>2, <2>3, <2>4, <2>5 DEF MCNext, In
<1>3. UNCHANGED mc_vars => UNCHANGED vars
  BY DEF mc_vars
<1> QED BY <1>1, <1>2, <1>3

\* The video clock is where one GPU cycle after another takes it, whatever the host does:
\* catch_up loses no part of a GPU cycle, whichever of the two walks it takes.
THEOREM VideoClockCountsOneByOne == MCSpec => []LazyBeamIsExact
<1>1. MCInit => BeamFollows
  BY InitFollows
<1>2. BeamFollows /\ [MCNext]_mc_vars => BeamFollows'
  BY BeamFollowsStep
<1>3. BeamFollows => LazyBeamIsExact
  BY BeamIsThere
<1> QED BY <1>1, <1>2, <1>3, PTL DEF MCSpec

LEMMA FollowedStandsStill ==
  ASSUME BeamFollows
  PROVE  SyncedTimersStandStill
<1> SUFFICES ASSUME NEW i \in 0 .. 1, NEW n \in 1 .. MaxAdvance,
                    \A k \in 0 .. GpuElapsed(beam, n) : Stands(i, BeamSteps(beam, k))
             PROVE  CatchUp(tm, behind + n).timers[i] = Now.timers[i]
  BY DEF SyncedTimersStandStill
<1>1. n \in Nat /\ behind \in Nat /\ TmOK(tm) /\ beam = BeamAfter(tm.gpu, behind) /\ OnScreen(beam)
  <2>1. MaxAdvance \in Nat
    BY TimersAreValid DEF ClockAssumption
  <2> QED BY <2>1, BeamIsThere DEF BeamFollows
<1>2. 0 \in 0 .. GpuElapsed(beam, n)
  <2>1. GpuElapsed(beam, n) \in Nat
    BY <1>1, ChargedIs
  <2> QED BY <2>1
<1>3. Pauses(tm, i)
  <2>1. tm.sync \in [Timer -> BOOLEAN] /\ i \in Timer
    BY <1>1 DEF TmOK, TmShape, Timer
  <2> QED BY <1>2, <2>1 DEF Stands, Pauses
<1>4. \A k \in 0 .. GpuElapsed(BeamAfter(tm.gpu, behind), n) :
        InBlank(i, BeamSteps(BeamAfter(tm.gpu, behind), k))
  BY <1>1 DEF Stands, InBlank
<1>5. CatchUp(tm, behind + n).timers[i] = CatchUp(tm, behind).timers[i]
  BY <1>1, <1>3, <1>4, StandsStill
<1> QED BY <1>5 DEF Now

\* A timer that pauses during its blanking period does not move while the beam is in it:
\* catch_up_gpu_with_sync goes from border to border and clocks it only between them.
THEOREM SyncedTimersAlwaysStandStill == MCSpec => []SyncedStandStill
<1>1. MCInit => BeamFollows
  BY InitFollows
<1>2. BeamFollows /\ [MCNext]_mc_vars => BeamFollows'
  BY BeamFollowsStep
<1>3. BeamFollows => SyncedStandStill
  BY FollowedStandsStill DEF SyncedStandStill
<1> QED BY <1>1, <1>2, <1>3, PTL DEF MCSpec
-----------------------------------------------------------------------------
\* Timers whose interrupt does not both repeat and toggle: clock counts exactly what
\* counting one by one does.
Plain(t) == t \in SystemTimers /\ ~Toggles(t)

LEMMA PlainIsRegular ==
  ASSUME NEW t, Plain(t)
  PROVE  Regular(t) /\ t \in SystemTimers /\ ~TogglesAtTarget(t) /\ ~TogglesAtMax(t)
  BY DEF Plain, Regular, TogglesAtTarget, TogglesAtMax

LEMMA ClosedFields ==
  ASSUME NEW t \in SystemTimers, NEW n, NEW u, u = Closed(t, n)
  PROVE  /\ HasTimerNames(u)
         /\ u.counter = CountAt(t, n) /\ u.target = t.target
         /\ u.reset_at_target = t.reset_at_target
         /\ u.irq_at_target = t.irq_at_target /\ u.irq_at_max = t.irq_at_max
         /\ u.repeat = t.repeat /\ u.toggle = t.toggle /\ u.irq = IrqAfter(t, IrqsBy(t, n))
         /\ u.irq_since_mode_write = SinceAfter(t, IrqsBy(t, n))
         /\ u.reached_target = (t.reached_target \/ TargetBy(t, n))
         /\ u.reached_max = (t.reached_max \/ MaxBy(t, n))
         /\ u.istat = IstatAfter(t, IrqsBy(t, n))
<1> DEFINE c == CountAt(t, n)
           rt == t.reached_target \/ TargetBy(t, n)
           rm == t.reached_max \/ MaxBy(t, n)
           i == IrqAfter(t, IrqsBy(t, n))
           s == SinceAfter(t, IrqsBy(t, n))
           b == IstatAfter(t, IrqsBy(t, n))
<1>1. u = Made(t, c, rt, rm, i, s, b)
  BY Zenon DEF Closed, After
<1> HIDE DEF c, rt, rm, i, s, b
<1>2. /\ HasTimerNames(u)
      /\ u.counter = c /\ u.target = t.target /\ u.reset_at_target = t.reset_at_target
      /\ u.irq_at_target = t.irq_at_target /\ u.irq_at_max = t.irq_at_max
      /\ u.repeat = t.repeat /\ u.toggle = t.toggle /\ u.irq = i
      /\ u.irq_since_mode_write = s /\ u.reached_target = rt /\ u.reached_max = rm
      /\ u.istat = b
  BY <1>1, MadeFields
<1> QED BY <1>2, Zenon DEF c, rt, rm, i, s, b

LEMMA PlainClock ==
  ASSUME NEW t, Plain(t)
  PROVE  /\ Clock(t, 0) = t
         /\ \A n \in Nat : Plain(Clock(t, n)) /\ Clock(t, n) = Count(t, n)
         /\ \A n \in Nat \ {0} : Clock(t, n) = Closed(t, n)
<1>0. Regular(t) /\ t \in SystemTimers /\ ~TogglesAtTarget(t) /\ ~TogglesAtMax(t) /\ ~Toggles(t)
  BY PlainIsRegular DEF Plain
<1>1. Clock(t, 0) = t
  BY DEF Clock
<1>2. ASSUME NEW n \in Nat \ {0} PROVE Clock(t, n) = Closed(t, n)
  <2>1. CASE ResetsAtTarget(t)
    <3>1. Clock(t, n) = ResetAtTargetPulse(t, n)
      BY <1>0, <2>1 DEF Clock
    <3> QED BY <1>0, <2>1, <3>1, ResetAtTargetPulseIs
  <2>2. CASE ~ResetsAtTarget(t)
    <3>1. Clock(t, n) = ResetAtMaxPulse(t, n)
      BY <1>0, <2>2 DEF Clock
    <3> QED BY <1>0, <2>2, <3>1, ResetAtMaxPulseIs
  <2> QED BY <2>1, <2>2
<1>3. ASSUME NEW n \in Nat PROVE Plain(Clock(t, n)) /\ Clock(t, n) = Count(t, n)
  <2>1. CASE n = 0
    <3>1. Count(t, 0) = t
      BY RepeatedSteps, StepsGoOn
    <3> QED BY <1>1, <2>1, <3>1
  <2>2. CASE n # 0
    <3>1. n \in Nat \ {0}
      BY <2>2
    <3>2. Clock(t, n) = Closed(t, n) /\ Count(t, n) = Closed(t, n)
      BY <1>0, <1>2, <3>1, CountIsClosed
    <3>3. Closed(t, n) \in SystemTimers
      BY <1>0, <3>1, ClosedIsTimer
    <3>4. Closed(t, n).repeat = t.repeat /\ Closed(t, n).toggle = t.toggle
      BY <1>0, ClosedFields
    <3>5. ~Toggles(Closed(t, n))
      BY <1>0, <3>4 DEF Toggles
    <3> QED BY <3>2, <3>3, <3>5 DEF Plain
  <2> QED BY <2>1, <2>2
<1> QED BY <1>1, <1>2, <1>3

LEMMA PlainAdds ==
  ASSUME NEW t, Plain(t), NEW m \in Nat, NEW n \in Nat, NEW s, s = m + n
  PROVE  Clock(Clock(t, m), n) = Clock(t, s)
<1> DEFINE u == Clock(t, m)
<1>1. Plain(u) /\ u = Count(t, m)
  BY PlainClock
<1> HIDE DEF u
<1>2. Clock(u, n) = Count(u, n)
  BY <1>1, PlainClock
<1>3. s \in Nat /\ Clock(t, s) = Count(t, s)
  BY PlainClock
<1>4. Steps("count", t, m + n) = Steps("count", Steps("count", t, m), n)
  BY StepsAdd
<1> QED BY <1>1, <1>2, <1>3, <1>4, RepeatedSteps DEF u

\* Whether a counter raises its bit of I_STAT within n clocks.
Raises(t, n) == Clock(Cleared(t), n).istat = TRUE

LEMMA PlainCleared ==
  ASSUME NEW t, Plain(t)
  PROVE  Plain(Cleared(t))
<1>1. t \in SystemTimers /\ ~(t.repeat /\ t.toggle)
  BY DEF Plain, Toggles
<1>2. Cleared(t) \in SystemTimers /\ Cleared(t).repeat = t.repeat /\ Cleared(t).toggle = t.toggle
  BY <1>1, ClearedFields
<1> QED BY <1>1, <1>2 DEF Plain, Toggles

LEMMA RaisesIs ==
  ASSUME NEW t, Plain(t), NEW n \in Nat
  PROVE  Raises(t, n) <=> n > 0 /\ ~Spent(t) /\ HitBy(t, n) /\ (~t.toggle \/ ~t.irq)
<1> DEFINE b == Cleared(t)
<1>0. t \in SystemTimers /\ ~(t.repeat /\ t.toggle)
  BY DEF Plain, Toggles
<1>1. /\ b \in SystemTimers /\ b.istat = FALSE /\ b.irq = t.irq /\ b.toggle = t.toggle
      /\ b.repeat = t.repeat
      /\ Plain(b) /\ Regular(b)
      /\ Spent(b) <=> Spent(t)
      /\ HitBy(b, n) <=> HitBy(t, n)
  BY <1>0, PlainCleared, PlainIsRegular, ClearedFields, ClearedIsLike
<1> HIDE DEF b
<1>2. CASE n = 0
  <2>1. Clock(b, 0) = b
    BY <1>1, PlainClock
  <2> QED BY <1>1, <1>2, <2>1 DEF Raises, b
<1>3. CASE n # 0
  <2>0. n \in Nat \ {0} /\ n > 0
    BY <1>3
  <2>1. Clock(b, n) = Closed(b, n)
    BY <1>1, <2>0, PlainClock
  <2>2. Closed(b, n).istat = IstatAfter(b, IrqsBy(b, n))
    BY <1>1, ClosedFields
  <2>3. IrqsBy(b, n) \in Nat /\ (IrqsBy(b, n) > 0 <=> HitBy(b, n))
    BY <1>1, <2>0, IrqsByHit
  <2>4. ~Toggles(b)
    BY <1>1 DEF Plain
  <2>5. IstatAfter(b, IrqsBy(b, n)) <=> ~Spent(t) /\ HitBy(t, n) /\ (~t.toggle \/ ~t.irq)
    BY <1>1, <2>3, <2>4 DEF IstatAfter, Fires
  <2>6. IstatAfter(b, IrqsBy(b, n)) \in BOOLEAN
    BY <1>1, InterruptTypes
  <2> QED BY <2>0, <2>1, <2>2, <2>5, <2>6 DEF Raises, b
<1> QED BY <1>2, <1>3

\* Timers that raise their interrupts at the same clocks.
SameIrqs(u, v) ==
  /\ u.counter = v.counter /\ u.target = v.target /\ u.reset_at_target = v.reset_at_target
  /\ u.irq_at_target = v.irq_at_target /\ u.irq_at_max = v.irq_at_max
  /\ u.repeat = v.repeat /\ u.toggle = v.toggle
  /\ u.irq = v.irq /\ u.irq_since_mode_write = v.irq_since_mode_write

LEMMA SameRaises ==
  ASSUME NEW u, Plain(u), NEW v, Plain(v), SameIrqs(u, v), NEW n \in Nat
  PROVE  Raises(u, n) <=> Raises(v, n)
<1>1. /\ ResetsAtTarget(u) = ResetsAtTarget(v)
      /\ ToTarget(u) = ToTarget(v) /\ ToMax(u) = ToMax(v)
  BY Zenon DEF SameIrqs, ResetsAtTarget, ToTarget, ToMax, ClocksUntilTarget, ClocksUntilMax
<1>2. Spent(u) <=> Spent(v)
  BY Zenon DEF SameIrqs, Spent
<1>3. HitBy(u, n) <=> HitBy(v, n)
  BY <1>1, Zenon DEF SameIrqs, HitBy, TargetBy, MaxBy
<1>4. u.toggle = v.toggle /\ u.irq = v.irq
  BY DEF SameIrqs
<1> QED BY <1>2, <1>3, <1>4, RaisesIs

\* Clearing I_STAT before counting or afterwards.
LEMMA ClearedLater ==
  ASSUME NEW t, Plain(t), NEW n \in Nat
  PROVE  Cleared(Clock(t, n)) = Cleared(Clock(Cleared(t), n))
<1> DEFINE b == Cleared(t)
<1>0. t \in SystemTimers /\ ~(t.repeat /\ t.toggle)
  BY DEF Plain, Toggles
<1>1. /\ b \in SystemTimers /\ Plain(b)
      /\ b.counter = t.counter /\ b.target = t.target
      /\ b.reset_at_target = t.reset_at_target /\ b.irq_at_target = t.irq_at_target
      /\ b.irq_at_max = t.irq_at_max /\ b.repeat = t.repeat /\ b.toggle = t.toggle
      /\ b.irq = t.irq /\ b.irq_since_mode_write = t.irq_since_mode_write
  BY <1>0, PlainCleared, ClearedFields
<1>2. HasTimerNames(t) /\ HasTimerNames(b)
  BY <1>0, <1>1, LikeItself DEF Like
<1>3. b.reached_target = t.reached_target /\ b.reached_max = t.reached_max
  BY <1>2 DEF Cleared, HasTimerNames, TimerNames
<1> HIDE DEF b
<1>4. CASE n = 0
  <2>1. Clock(t, 0) = t /\ Clock(b, 0) = b
    BY <1>1, PlainClock
  <2>2. Cleared(t) = Cleared(b)
    <3>1. HasTimerNames(Cleared(b)) /\ Cleared(b).istat = FALSE
      BY <1>2 DEF Cleared, HasTimerNames, TimerNames
    <3>2. b = Cleared(b)
      <4>1. b.istat = FALSE
        BY <1>0, ClearedFields DEF b
      <4> QED BY <1>2, <4>1 DEF Cleared, HasTimerNames, TimerNames
    <3> QED BY <3>2 DEF b
  <2> QED BY <1>4, <2>1, <2>2 DEF b
<1>5. CASE n # 0
  <2>0. n \in Nat \ {0}
    BY <1>5
  <2> DEFINE u == Closed(t, n)
             v == Closed(b, n)
  <2>1. Clock(t, n) = u /\ Clock(b, n) = v
    BY <1>1, <2>0, PlainClock
  <2>2. /\ HasTimerNames(u)
        /\ u.counter = CountAt(t, n) /\ u.target = t.target
        /\ u.reset_at_target = t.reset_at_target
        /\ u.irq_at_target = t.irq_at_target /\ u.irq_at_max = t.irq_at_max
        /\ u.repeat = t.repeat /\ u.toggle = t.toggle /\ u.irq = IrqAfter(t, IrqsBy(t, n))
        /\ u.irq_since_mode_write = SinceAfter(t, IrqsBy(t, n))
        /\ u.reached_target = (t.reached_target \/ TargetBy(t, n))
        /\ u.reached_max = (t.reached_max \/ MaxBy(t, n))
    BY <1>0, ClosedFields
  <2>3. /\ HasTimerNames(v)
        /\ v.counter = CountAt(b, n) /\ v.target = b.target
        /\ v.reset_at_target = b.reset_at_target
        /\ v.irq_at_target = b.irq_at_target /\ v.irq_at_max = b.irq_at_max
        /\ v.repeat = b.repeat /\ v.toggle = b.toggle /\ v.irq = IrqAfter(b, IrqsBy(b, n))
        /\ v.irq_since_mode_write = SinceAfter(b, IrqsBy(b, n))
        /\ v.reached_target = (b.reached_target \/ TargetBy(b, n))
        /\ v.reached_max = (b.reached_max \/ MaxBy(b, n))
    BY <1>1, ClosedFields
  <2>4. /\ Toggles(b) = Toggles(t) /\ ResetsAtTarget(b) = ResetsAtTarget(t)
        /\ ToTarget(b) = ToTarget(t) /\ ToMax(b) = ToMax(t) /\ AtOrAbove(b) = AtOrAbove(t)
    BY <1>1, Zenon DEF Toggles, ResetsAtTarget, ToTarget, ToMax, ClocksUntilTarget, ClocksUntilMax,
       AtOrAbove
  <2>5. CountAt(b, n) = CountAt(t, n) /\ TargetBy(b, n) = TargetBy(t, n) /\ MaxBy(b, n) = MaxBy(t, n)
    BY <1>1, <2>4, Zenon DEF CountAt, Elapsed, Period, TargetBy, MaxBy
  <2>6. IrqsBy(b, n) = IrqsBy(t, n)
    <3>1. HitBy(b, n) <=> HitBy(t, n)
      BY <1>1, <2>5, Zenon DEF HitBy
    <3>2. ~TogglesAtTarget(b) /\ ~TogglesAtMax(b) /\ ~TogglesAtTarget(t) /\ ~TogglesAtMax(t)
      BY <1>1, PlainIsRegular
    <3> QED BY <3>1, <3>2, Zenon DEF IrqsBy
  <2> DEFINE k == IrqsBy(t, n)
  <2>7. IrqAfter(b, k) = IrqAfter(t, k) /\ SinceAfter(b, k) = SinceAfter(t, k)
    <3>1. Fires(b, k) <=> Fires(t, k)
      BY <1>1, Zenon DEF Fires, Spent
    <3>2. Flips(b, k) = Flips(t, k)
      BY <1>1, <2>4, Zenon DEF Flips
    <3> QED BY <1>1, <3>1, <3>2 DEF IrqAfter, SinceAfter
  <2> HIDE DEF u, v, k
  <2>8. \A f \in TimerNames \ {"istat"} : u[f] = v[f]
    <3>1. /\ u.counter = v.counter /\ u.target = v.target
          /\ u.reset_at_target = v.reset_at_target
          /\ u.irq_at_target = v.irq_at_target /\ u.irq_at_max = v.irq_at_max
          /\ u.repeat = v.repeat /\ u.toggle = v.toggle
          /\ u.reached_target = v.reached_target /\ u.reached_max = v.reached_max
      BY <1>1, <1>3, <2>2, <2>3, <2>5, Zenon
    <3>2. u.irq = v.irq /\ u.irq_since_mode_write = v.irq_since_mode_write
      BY <2>2, <2>3, <2>6, <2>7, Zenon DEF k
    <3> QED BY <3>1, <3>2 DEF TimerNames
  <2>9. Cleared(u) = Cleared(v)
    <3>1. /\ Cleared(u) = [f \in TimerNames |-> IF f = "istat" THEN FALSE ELSE u[f]]
          /\ Cleared(v) = [f \in TimerNames |-> IF f = "istat" THEN FALSE ELSE v[f]]
      BY <2>2, <2>3 DEF Cleared, HasTimerNames, TimerNames
    <3>2. \A f \in TimerNames : (IF f = "istat" THEN FALSE ELSE u[f]) = (IF f = "istat" THEN FALSE ELSE v[f])
      BY <2>8
    <3> QED BY <3>1, <3>2
  <2> QED BY <2>1, <2>9 DEF b
<1> QED BY <1>4, <1>5

-----------------------------------------------------------------------------
\* Timers 0 and 1 neither synchronized nor counting dots or lines: each timer is clocked by
\* CPU cycles alone.
ClocksFrom(t, p, n, i) ==
  IF i # 2 THEN n ELSE IF Stopped2(t) THEN 0 ELSE IF t.source[2] THEN (p + n) \div SlowDivider ELSE n

CpuTimers(t) ==
  /\ TmOK(t) /\ \A i \in Timer : Plain(t.timers[i])
  /\ t.sync[0] = FALSE /\ t.sync[1] = FALSE /\ t.source[0] = FALSE /\ t.source[1] = FALSE

LEMMA ClocksAreNumber ==
  ASSUME NEW t, NEW p \in 0 .. SlowDivider - 1, NEW n \in Nat, NEW i
  PROVE  ClocksFrom(t, p, n, i) \in Nat
<1>1. SlowDivider \in Nat \ {0} /\ p + n \in Nat
  BY ClockRates
<1>2. (p + n) \div SlowDivider \in Nat
  <2> DEFINE m == p + n
  <2> HIDE DEF m
  <2> QED BY <1>1, Division DEF m
<1> QED BY <1>1, <1>2 DEF ClocksFrom

LEMMA ClocksFromAdd ==
  ASSUME NEW t, NEW p \in 0 .. SlowDivider - 1, NEW m \in Nat, NEW n \in Nat, NEW i,
         NEW q, q = (p + m) % SlowDivider, NEW s, s = m + n
  PROVE  /\ q \in 0 .. SlowDivider - 1
         /\ ClocksFrom(t, p, s, i) = ClocksFrom(t, p, m, i) + ClocksFrom(t, q, n, i)
<1> DEFINE a == p + m
<1>1. SlowDivider \in Nat \ {0} /\ a \in Nat /\ p + s = a + n
  BY ClockRates
<1>2. q \in 0 .. SlowDivider - 1 /\ q = a % SlowDivider
  <2> HIDE DEF a
  <2>1. a % SlowDivider \in 0 .. SlowDivider - 1
    BY <1>1, Division
  <2> QED BY <2>1 DEF a
<1>3. (a + n) \div SlowDivider = (a \div SlowDivider) + ((q + n) \div SlowDivider)
  <2> HIDE DEF a
  <2>1. (a + n) \div SlowDivider = (a \div SlowDivider) + (((a % SlowDivider) + n) \div SlowDivider)
    BY <1>1, DivisionAdds
  <2>2. a % SlowDivider = q
    BY <1>2
  <2> QED BY <2>1, <2>2, Zenon
<1>4. (p + s) \div SlowDivider = (a \div SlowDivider) + ((q + n) \div SlowDivider)
  <2> HIDE DEF a
  <2> QED BY <1>1, <1>3
<1>5. CASE i # 2
  BY <1>2, <1>5 DEF ClocksFrom
<1>6. CASE i = 2 /\ Stopped2(t)
  BY <1>2, <1>6 DEF ClocksFrom
<1>7. CASE i = 2 /\ ~Stopped2(t) /\ t.source[2]
  <2>1. ClocksFrom(t, p, s, i) = (p + s) \div SlowDivider
    BY <1>7 DEF ClocksFrom
  <2>2. ClocksFrom(t, p, m, i) = a \div SlowDivider
    BY <1>7 DEF ClocksFrom
  <2>3. ClocksFrom(t, q, n, i) = (q + n) \div SlowDivider
    BY <1>7 DEF ClocksFrom
  <2> QED BY <1>2, <1>4, <2>1, <2>2, <2>3
<1>8. CASE i = 2 /\ ~Stopped2(t) /\ ~t.source[2]
  BY <1>2, <1>8 DEF ClocksFrom
<1> QED BY <1>5, <1>6, <1>7, <1>8

LEMMA ClocksSame ==
  ASSUME NEW t, NEW u, u.source = t.source, u.sync = t.sync, u.sync_mode = t.sync_mode,
         NEW p, NEW n, NEW i
  PROVE  ClocksFrom(u, p, n, i) = ClocksFrom(t, p, n, i)
  BY DEF ClocksFrom, Stopped2

\* The divided clock ticks at every SlowDivider-th cycle.
LEMMA DividedCount ==
  ASSUME NEW x, NEW c \in 0 .. SlowDivider - 1
  PROVE  \A n \in Nat : SlowCount(x, c, n) = Count(x, (c + n) \div SlowDivider)
<1> DEFINE s == [timer |-> x, cycle |-> c]
           Ticked(n) == [timer |-> Count(x, (c + n) \div SlowDivider), cycle |-> (c + n) % SlowDivider]
           S == {n \in Nat : Steps("slow", s, n) = Ticked(n)}
<1>0. SlowDivider \in Nat \ {0} /\ c \in Nat
  BY ClockRates
<1>1. 0 \in S
  <2>1. c \div SlowDivider = 0 /\ c % SlowDivider = c /\ c + 0 = c
    BY <1>0, DivisionOfLess
  <2>2. Count(x, 0) = x
    BY RepeatedSteps, StepsGoOn
  <2>3. Steps("slow", s, 0) = s
    BY StepsGoOn
  <2> QED BY <2>1, <2>2, <2>3
<1>2. ASSUME NEW n \in Nat, n \in S PROVE n + 1 \in S
  <2> DEFINE m == c + n
             d == m \div SlowDivider
             r == m % SlowDivider
  <2>1. m \in Nat /\ c + (n + 1) = m + 1
    BY <1>0
  <2>2. d \in Nat /\ r \in 0 .. SlowDivider - 1
    <3> HIDE DEF m
    <3> QED BY <1>0, <2>1, Division
  <2>3. /\ (m + 1) % SlowDivider = IF r = SlowDivider - 1 THEN 0 ELSE r + 1
        /\ (m + 1) \div SlowDivider = IF r = SlowDivider - 1 THEN d + 1 ELSE d
    <3> HIDE DEF m
    <3> QED BY <1>0, <2>1, DivisionGoesOn
  <2>4. Steps("slow", s, n) = [timer |-> Count(x, d), cycle |-> r]
    BY <1>2
  <2>5. Steps("slow", s, n + 1) = SlowOne([timer |-> Count(x, d), cycle |-> r])
    <3>1. Steps("slow", s, n + 1) = Step("slow", Steps("slow", s, n))
      BY StepsGoOn
    <3> HIDE DEF s, d, r
    <3> QED BY <2>4, <3>1 DEF Step
  <2>6. Count(x, d + 1) = CountOne(Count(x, d))
    <3>1. Steps("count", x, d + 1) = Step("count", Steps("count", x, d))
      BY <2>2, StepsGoOn
    <3> HIDE DEF d
    <3> QED BY <3>1, RepeatedSteps DEF Step
  <2>7. Ticked(n + 1) = [timer |-> Count(x, (m + 1) \div SlowDivider), cycle |-> (m + 1) % SlowDivider]
    <3> HIDE DEF m
    <3> QED BY <2>1
  <2> HIDE DEF s, m, d, r
  <2>8. CASE r = SlowDivider - 1
    <3>1. r + 1 = SlowDivider
      BY <1>0, <2>8
    <3>2. SlowOne([timer |-> Count(x, d), cycle |-> r]) = [timer |-> Count(x, d + 1), cycle |-> 0]
      BY <2>6, <3>1 DEF SlowOne
    <3> HIDE DEF Ticked
    <3> QED BY <2>3, <2>5, <2>7, <2>8, <3>2
  <2>9. CASE r # SlowDivider - 1
    <3>1. r + 1 # SlowDivider
      BY <1>0, <2>2, <2>9
    <3>2. SlowOne([timer |-> Count(x, d), cycle |-> r]) = [timer |-> Count(x, d), cycle |-> r + 1]
      BY <3>1 DEF SlowOne
    <3> HIDE DEF Ticked
    <3> QED BY <2>3, <2>5, <2>7, <2>9, <3>2
  <2> QED BY <2>8, <2>9
<1> HIDE DEF S
<1>3. \A n \in Nat : n \in S
  BY <1>1, <1>2, OneMore
<1>4. ASSUME NEW n \in Nat PROVE SlowCount(x, c, n) = Count(x, (c + n) \div SlowDivider)
  <2>1. Steps("slow", s, n) = Ticked(n)
    BY <1>3 DEF S
  <2>2. SlowCount(x, c, n) = Steps("slow", s, n).timer
    BY RepeatedSteps
  <2> QED BY <2>1, <2>2
<1> QED BY <1>4

\* A timer taken from one CPU cycle to the next counts what a catch-up clocks it by.
LEMMA OneByOneIs ==
  ASSUME NEW t, CpuTimers(t), NEW i \in Timer, NEW x, Plain(x), NEW c \in 0 .. SlowDivider - 1,
         NEW n \in Nat
  PROVE  OneByOne(t, i, x, c, n) = Clock(x, ClocksFrom(t, c, n, i))
<1>0. ClocksFrom(t, c, n, i) \in Nat
  BY ClocksAreNumber
<1>1. \A k \in Nat : Clock(x, k) = Count(x, k)
  BY PlainClock
<1>2. CASE i = 2 /\ Stopped2(t)
  BY <1>2, PlainClock DEF OneByOne, ClocksFrom
<1>3. CASE i = 2 /\ ~Stopped2(t) /\ t.source[2]
  <2>1. OneByOne(t, i, x, c, n) = SlowCount(x, c, n)
    BY <1>3 DEF OneByOne
  <2>2. ClocksFrom(t, c, n, i) = (c + n) \div SlowDivider
    BY <1>3 DEF ClocksFrom
  <2>3. SlowCount(x, c, n) = Count(x, (c + n) \div SlowDivider)
    BY DividedCount
  <2> QED BY <1>0, <1>1, <2>1, <2>2, <2>3
<1>4. CASE ~(i = 2 /\ (Stopped2(t) \/ t.source[2]))
  <2>1. OneByOne(t, i, x, c, n) = Count(x, n)
    BY <1>4 DEF OneByOne
  <2>2. ClocksFrom(t, c, n, i) = n
    BY <1>4 DEF ClocksFrom
  <2> QED BY <1>1, <2>1, <2>2
<1> QED BY <1>2, <1>3, <1>4

\* No cycle, no clock.
LEMMA NoClocks ==
  ASSUME NEW t, NEW q \in 0 .. SlowDivider - 1, NEW i
  PROVE  ClocksFrom(t, q, 0, i) = 0
<1>1. q \div SlowDivider = 0 /\ q + 0 = q
  BY ClockRates, DivisionOfLess
<1> QED BY <1>1 DEF ClocksFrom

LEMMA CpuCatchUp ==
  ASSUME NEW t, CpuTimers(t), phase \in 0 .. SlowDivider - 1, NEW n \in Nat, NEW u, u = CatchUp(t, n)
  PROVE  /\ CpuTimers(u) /\ u.source = t.source /\ u.sync = t.sync /\ u.sync_mode = t.sync_mode
         /\ \A i \in Timer : u.timers[i] = Clock(t.timers[i], ClocksFrom(t, phase, n, i))
<1>0. TmOK(t)
  BY DEF CpuTimers
<1>1. WalkKind(t) = "line"
  BY DEF WalkKind, CpuTimers
<1>2. /\ TmOK(u) /\ u.source = t.source /\ u.sync_mode = t.sync_mode
      /\ u.sync = t.sync /\ LastWalk(t, n).tm.timers = t.timers
      /\ \A i \in Timer : u.timers[i] = Clock(t.timers[i], ClocksOf(t, n, i))
  BY <1>0, <1>1, CatchUpIs
<1>3. ASSUME NEW i \in Timer PROVE ClocksOf(t, n, i) = ClocksFrom(t, phase, n, i)
  <2>1. i \in {0, 1, 2} /\ WalkKind(t) # "part"
    BY <1>1 DEF Timer
  <2>2. t.source[0] = FALSE /\ t.source[1] = FALSE
    BY DEF CpuTimers
  <2>3. CASE i = 0
    BY <2>1, <2>2, <2>3 DEF ClocksOf, ClocksFrom
  <2>4. CASE i = 1
    BY <2>1, <2>2, <2>4 DEF ClocksOf, ClocksFrom
  <2>5. CASE i = 2
    BY <2>5 DEF ClocksOf, ClocksFrom, Clocks2, Slow
  <2> QED BY <2>1, <2>3, <2>4, <2>5
<1>4. ASSUME NEW i \in Timer
      PROVE  u.timers[i] = Clock(t.timers[i], ClocksFrom(t, phase, n, i)) /\ Plain(u.timers[i])
  <2> DEFINE c == ClocksFrom(t, phase, n, i)
             a == t.timers[i]
  <2>1. c \in Nat
    BY ClocksAreNumber
  <2>2. u.timers[i] = Clock(a, c)
    BY <1>2, <1>3
  <2>3. Plain(a)
    BY DEF CpuTimers
  <2> HIDE DEF c, a
  <2>4. Plain(Clock(a, c))
    BY <2>1, <2>3, PlainClock
  <2> QED BY <2>2, <2>4 DEF a, c
<1> QED BY <1>2, <1>4 DEF CpuTimers

\* Of the cycles ahead none raises an interrupt before its event.
OnTime(event, t, p, b) ==
  \A n \in Nat, i \in Timer :
    Raises(t.timers[i], ClocksFrom(t, p, b + n, i)) => event[i] \in Nat /\ event[i] <= n

LEMMA LaterOnTime ==
  ASSUME NEW event \in [Timer -> Nat \union {NoEvent}], NEW t, NEW p, NEW b \in Nat, NEW m \in Nat,
         OnTime(event, t, p, b),
         NEW later, later = [i \in Timer |-> Sooner(event[i], m)]
  PROVE  OnTime(later, t, p, b + m) /\ later \in [Timer -> Nat \union {NoEvent}]
<1>0. NoEvent \notin Nat
  BY TimersAreValid DEF ClockAssumption
<1>1. ASSUME NEW i \in Timer PROVE later[i] \in Nat \union {NoEvent}
  BY <1>0 DEF Sooner
<1>2. ASSUME NEW n \in Nat, NEW i \in Timer, Raises(t.timers[i], ClocksFrom(t, p, (b + m) + n, i))
      PROVE  later[i] \in Nat /\ later[i] <= n
  <2>1. (b + m) + n = b + (m + n) /\ m + n \in Nat
    OBVIOUS
  <2>2. event[i] \in Nat /\ event[i] <= m + n
    BY <1>2, <2>1 DEF OnTime
  <2>3. later[i] = IF event[i] < m THEN 0 ELSE event[i] - m
    BY <1>0, <2>2 DEF Sooner
  <2> QED BY <2>2, <2>3
<1>3. later = [i \in Timer |-> later[i]]
  OBVIOUS
<1> QED BY <1>1, <1>2, <1>3 DEF OnTime

\* After a catch-up the same events are on time.
LEMMA CaughtUpOnTime ==
  ASSUME NEW t, CpuTimers(t), NEW p \in 0 .. SlowDivider - 1, NEW b \in Nat, NEW event,
         OnTime(event, t, p, b),
         NEW u, CpuTimers(u), u.source = t.source, u.sync = t.sync, u.sync_mode = t.sync_mode,
         \A i \in Timer : SameIrqs(u.timers[i], Clock(t.timers[i], ClocksFrom(t, p, b, i))),
         NEW q, q = (p + b) % SlowDivider
  PROVE  OnTime(event, u, q, 0)
<1> SUFFICES ASSUME NEW n \in Nat, NEW i \in Timer, Raises(u.timers[i], ClocksFrom(u, q, 0 + n, i))
             PROVE  event[i] \in Nat /\ event[i] <= n
  BY DEF OnTime
<1> DEFINE a == t.timers[i]
           d == u.timers[i]
           cb == ClocksFrom(t, p, b, i)
           cn == ClocksFrom(t, q, n, i)
           cs == ClocksFrom(t, p, b + n, i)
           x == Clock(a, cb)
           y == Clock(Cleared(a), cb)
<1>1. Plain(a) /\ Plain(d) /\ SameIrqs(d, x)
  BY DEF CpuTimers
<1>2. cs = cb + cn /\ q \in 0 .. SlowDivider - 1
  BY ClocksFromAdd
<1>3. cb \in Nat /\ cn \in Nat /\ cs \in Nat
  BY <1>2, ClocksAreNumber
<1>4. Raises(d, cn)
  <2>1. ClocksFrom(u, q, n, i) = cn
    BY ClocksSame
  <2>2. 0 + n = n
    OBVIOUS
  <2> QED BY <2>1, <2>2
<1> HIDE DEF a, d, cb, cn, cs
<1>5. Plain(Cleared(a)) /\ Plain(x) /\ Plain(y) /\ Cleared(x) = Cleared(y)
  <2>1. Plain(Cleared(a))
    BY <1>1, PlainCleared
  <2> QED BY <1>1, <1>3, <2>1, PlainClock, ClearedLater
<1> HIDE DEF x, y
<1>6. Raises(x, cn)
  BY <1>1, <1>3, <1>4, <1>5, SameRaises
<1>7. Raises(y, cn)
  BY <1>5, <1>6 DEF Raises
<1>8. Clock(y, cn).istat = TRUE
  <2>1. CASE cn = 0
    <3>1. ~(cn > 0)
      BY <1>3, <2>1
    <3> QED BY <1>3, <1>5, <1>7, <3>1, RaisesIs
  <2>2. CASE cn # 0
    <3>0. cn \in Nat \ {0} /\ y \in SystemTimers /\ Regular(y) /\ ~Toggles(y)
      BY <1>3, <1>5, <2>2, PlainIsRegular DEF Plain
    <3>1. Clock(y, cn) = Closed(y, cn)
      BY <1>5, <3>0, PlainClock
    <3>2. Closed(y, cn).istat = IstatAfter(y, IrqsBy(y, cn))
      BY <3>0, ClosedFields
    <3>3. IrqsBy(y, cn) \in Nat /\ (IrqsBy(y, cn) > 0 <=> HitBy(y, cn))
      BY <3>0, IrqsByHit
    <3>4. ~Spent(y) /\ HitBy(y, cn) /\ (~y.toggle \/ ~y.irq)
      BY <1>3, <1>5, <1>7, RaisesIs
    <3>5. IstatAfter(y, IrqsBy(y, cn)) = TRUE
      BY <3>0, <3>3, <3>4 DEF IstatAfter, Fires
    <3> QED BY <3>1, <3>2, <3>5
  <2> QED BY <2>1, <2>2
<1>9. Clock(y, cn) = Clock(Cleared(a), cs)
  <2>1. Clock(Clock(Cleared(a), cb), cn) = Clock(Cleared(a), cs)
    BY <1>2, <1>3, <1>5, PlainAdds
  <2> QED BY <2>1 DEF y
<1>10. Raises(a, cs)
  BY <1>8, <1>9 DEF Raises
<1> QED BY <1>10 DEF OnTime, a, cs

LEMMA CatchUpOnTime ==
  ASSUME NEW t, CpuTimers(t), phase \in 0 .. SlowDivider - 1, NEW b \in Nat, NEW event,
         OnTime(event, t, phase, b),
         NEW q, q = (phase + b) % SlowDivider,
         NEW u, CpuTimers(u), u.source = t.source, u.sync = t.sync, u.sync_mode = t.sync_mode,
         \A i \in Timer : SameIrqs(u.timers[i], CatchUp(t, b).timers[i])
  PROVE  OnTime(event, u, q, 0)
<1>1. \A i \in Timer : CatchUp(t, b).timers[i] = Clock(t.timers[i], ClocksFrom(t, phase, b, i))
  BY CpuCatchUp
<1> QED BY <1>1, CaughtUpOnTime

\* Events scheduled now.
LEMMA ScheduledOnTime ==
  ASSUME NEW t, CpuTimers(t), phase \in 0 .. SlowDivider - 1, behind \in Nat,
         NEW q, q = (phase + behind) % SlowDivider
  PROVE  /\ TimerEvents(t) \in [Timer -> Nat \union {NoEvent}]
         /\ OnTime(TimerEvents(t), t, q, 0) /\ q \in 0 .. SlowDivider - 1
<1>0. /\ NoEvent \notin Nat /\ SlowDivider \in Nat \ {0} /\ q \in 0 .. SlowDivider - 1
      /\ t.source[0] = FALSE /\ t.source[1] = FALSE
  <2>1. phase + behind \in Nat /\ SlowDivider \in Nat \ {0}
    BY ClockRates
  <2> DEFINE m == phase + behind
  <2>2. m % SlowDivider \in 0 .. SlowDivider - 1
    <3> HIDE DEF m
    <3> QED BY <2>1, Division DEF m
  <2> QED BY <2>1, <2>2, TimersAreValid DEF ClockAssumption, CpuTimers
<1>1. ASSUME NEW i \in Timer
      PROVE  /\ TimerEvents(t)[i] \in Nat \union {NoEvent}
             /\ \A n \in Nat : Raises(t.timers[i], ClocksFrom(t, q, 0 + n, i)) =>
                                 TimerEvents(t)[i] \in Nat /\ TimerEvents(t)[i] <= n
  <2> DEFINE a == t.timers[i]
             k == ClocksUntilIrq(a)
             e == TimerEvents(t)[i]
  <2>1. Plain(a) /\ a \in SystemTimers
    BY DEF CpuTimers, Plain
  <2>2. e = IF k = NoIrq THEN NoEvent ELSE CyclesUntilIrq(t, i, k)
    BY DEF TimerEvents
  <2>3. i \in {0, 1, 2}
    BY DEF Timer
  <2>4. CyclesUntilIrq(t, i, k) = IF i = 2 /\ t.source[2] THEN (k * SlowDivider) - q ELSE k
    BY <1>0, <2>3 DEF CyclesUntilIrq
  <2> HIDE DEF a, k, e
  <2>5. /\ k = NoIrq => Spent(a) \/ (\A n \in Nat \ {0} : ~HitBy(a, n))
        /\ k # NoIrq => k \in Nat \ {0} /\ ~Spent(a) /\ \A n \in Nat \ {0} : HitBy(a, n) <=> n >= k
    BY <2>1, UntilIrq DEF k
  <2>6. e \in Nat \union {NoEvent}
    <3>1. CASE k = NoIrq
      BY <2>2, <3>1
    <3>2. CASE k # NoIrq
      <4>1. k * SlowDivider >= SlowDivider /\ k * SlowDivider \in Nat
        BY <1>0, <2>5, <3>2
      <4>2. (k * SlowDivider) - q \in Nat
        BY <1>0, <4>1
      <4> QED BY <2>2, <2>4, <2>5, <3>2, <4>2
    <3> QED BY <3>1, <3>2
  <2>7. ASSUME NEW n \in Nat, Raises(a, ClocksFrom(t, q, 0 + n, i)) PROVE e \in Nat /\ e <= n
    <3> DEFINE m == ClocksFrom(t, q, n, i)
    <3>1. 0 + n = n /\ m \in Nat
      BY <1>0, ClocksAreNumber
    <3>2. Raises(a, m)
      BY <2>7, <3>1
    <3> HIDE DEF m
    <3>3. m > 0 /\ ~Spent(a) /\ HitBy(a, m)
      BY <2>1, <3>1, <3>2, RaisesIs
    <3>4. m \in Nat \ {0}
      BY <3>1, <3>3
    <3>5. k # NoIrq /\ k \in Nat \ {0} /\ m >= k
      BY <2>5, <3>3, <3>4
    <3>6. e = IF i = 2 /\ t.source[2] THEN (k * SlowDivider) - q ELSE k
      BY <2>2, <2>4, <3>5
    <3>7. CASE i = 2 /\ t.source[2]
      <4>1. ~Stopped2(t)
        BY <3>3, <3>7 DEF m, ClocksFrom
      <4>2. m = (q + n) \div SlowDivider
        BY <3>7, <4>1 DEF m, ClocksFrom
      <4> DEFINE x == q + n
                 r == x % SlowDivider
      <4>3. x \in Nat
        BY <1>0
      <4>4. r \in 0 .. SlowDivider - 1 /\ x = SlowDivider * (x \div SlowDivider) + r
        <5> HIDE DEF x
        <5> QED BY <1>0, <4>3, Division
      <4>5. x = SlowDivider * m + r
        BY <4>2, <4>4
      <4>6. SlowDivider * m >= SlowDivider * k
        BY <1>0, <3>4, <3>5
      <4>7. SlowDivider * k = k * SlowDivider /\ SlowDivider * k \in Nat /\ SlowDivider * m \in Nat
        BY <1>0, <3>4, <3>5
      <4> HIDE DEF r
      <4>8. (k * SlowDivider) - q <= n
        BY <1>0, <4>4, <4>5, <4>6, <4>7
      <4>9. k * SlowDivider >= SlowDivider
        BY <1>0, <3>5
      <4> QED BY <1>0, <3>6, <3>7, <4>7, <4>8, <4>9
    <3>8. CASE ~(i = 2 /\ t.source[2])
      <4>1. m = n
        BY <3>3, <3>8 DEF m, ClocksFrom
      <4> QED BY <3>5, <3>6, <3>8, <4>1
    <3> QED BY <3>7, <3>8
  <2> QED BY <2>6, <2>7 DEF e, a
<1>2. TimerEvents(t) = [i \in Timer |-> TimerEvents(t)[i]]
  BY DEF TimerEvents
<1>3. OnTime(TimerEvents(t), t, q, 0)
  <2> HIDE DEF TimerEvents
  <2> QED BY <1>1, Zenon DEF OnTime
<1> QED BY <1>0, <1>1, <1>2, <1>3

-----------------------------------------------------------------------------
\* The inductive invariant of timers clocked by CPU cycles: the histories have counted, one by
\* one, the cycles the timers still have to make up for, from the same remainder.
OneByOneFollows ==
  /\ one_by_one = [i \in Timer |-> one_by_one[i]]
  /\ cycle = (phase + behind) % SlowDivider
  /\ \A i \in Timer : one_by_one[i] = Clock(tm.timers[i], ClocksFrom(tm, phase, behind, i))
EventsOnTime ==
  /\ irq_event \in [Timer -> Nat \union {NoEvent}] /\ OnTime(irq_event, tm, phase, behind)
CpuOK ==
  /\ BeamFollows /\ CpuTimers(tm) /\ phase \in 0 .. SlowDivider - 1
  /\ EventsOnTime /\ OneByOneFollows

LEMMA CpuTimersCount ==
  ASSUME NEW t, CpuTimers(t), NEW i \in Timer
  PROVE  CountsCpuCycles(t, i)
  BY DEF CpuTimers, CountsCpuCycles, Timer

LEMMA NowIs ==
  ASSUME CpuOK
  PROVE  /\ CpuTimers(Now) /\ Now.source = tm.source /\ Now.sync = tm.sync
         /\ Now.sync_mode = tm.sync_mode
         /\ \A i \in Timer : one_by_one[i] = Now.timers[i]
<1>1. /\ CpuTimers(Now) /\ Now.source = tm.source /\ Now.sync = tm.sync
      /\ Now.sync_mode = tm.sync_mode
      /\ \A i \in Timer : Now.timers[i] = Clock(tm.timers[i], ClocksFrom(tm, phase, behind, i))
  BY CpuCatchUp DEF CpuOK, BeamFollows, Now
<1>2. \A i \in Timer : one_by_one[i] = Clock(tm.timers[i], ClocksFrom(tm, phase, behind, i))
  BY DEF CpuOK, OneByOneFollows
<1> QED BY <1>1, <1>2

\* The invariant implies the property.
LEMMA CpuExact ==
  ASSUME CpuOK
  PROVE  UnsyncedTimersCountCpuCycles /\ TimerIrqsAreOnTime
<1>1. UnsyncedTimersCountCpuCycles
  BY NowIs DEF UnsyncedTimersCountCpuCycles
<1>2. ASSUME NEW n \in 0 .. SlowDivider * Span, NEW i \in IrqsAfter(n)
      PROVE  irq_event[i] # NoEvent /\ irq_event[i] <= n
  <2> DEFINE x == Cleared(tm.timers[i])
             c == ClocksFrom(tm, phase, behind + n, i)
  <2>0. n \in Nat /\ behind \in Nat /\ behind + n \in Nat /\ NoEvent \notin Nat
    <3>1. SlowDivider * Span \in Nat
      BY ClockRates, TimerWidth DEF Span
    <3> QED BY <3>1, TimersAreValid DEF CpuOK, BeamFollows, ClockAssumption
  <2>1. i \in Timer /\ OneByOne(tm, i, x, phase, behind + n).istat
    BY Zenon DEF IrqsAfter, Cleared
  <2>2. Plain(x) /\ c \in Nat
    BY <2>0, <2>1, PlainCleared, ClocksAreNumber DEF CpuOK, CpuTimers
  <2>3. OneByOne(tm, i, x, phase, behind + n) = Clock(x, c)
    <3> HIDE DEF x
    <3> QED BY <2>0, <2>1, <2>2, OneByOneIs DEF CpuOK
  <2>4. Raises(tm.timers[i], c)
    <3> HIDE DEF c
    <3>1. Plain(Clock(x, c))
      BY <2>2, PlainClock
    <3>2. Clock(x, c).istat \in BOOLEAN
      BY <3>1, TimerFields DEF Plain
    <3> QED BY <2>1, <2>3, <3>2 DEF Raises
  <2>5. irq_event[i] \in Nat /\ irq_event[i] <= n
    BY <2>0, <2>1, <2>4 DEF CpuOK, EventsOnTime, OnTime
  <2> QED BY <2>0, <2>5
<1>3. TimerIrqsAreOnTime
  BY <1>2 DEF TimerIrqsAreOnTime
<1> QED BY <1>1, <1>3

LEMMA SameIrqsItself ==
  ASSUME NEW u
  PROVE  SameIrqs(u, u)
  BY DEF SameIrqs

\* A catch-up to t after which the events are the same.
LEMMA CpuCaughtUp ==
  ASSUME CpuOK, BeamFollows', NEW t, CaughtUp(t), CpuTimers(t), t.source = tm.source,
         t.sync = tm.sync, t.sync_mode = tm.sync_mode,
         \A i \in Timer : SameIrqs(t.timers[i], Now.timers[i]),
         irq_event' = irq_event
  PROVE  CpuTimers(tm') /\ phase' \in 0 .. SlowDivider - 1 /\ EventsOnTime'
<1>1. tm' = t /\ behind' = 0 /\ phase' = (phase + behind) % SlowDivider
  BY DEF CaughtUp
<1>2. OnTime(irq_event, t, phase', 0)
  BY <1>1, CatchUpOnTime DEF CpuOK, EventsOnTime, BeamFollows, Now
<1>3. phase' \in 0 .. SlowDivider - 1
  BY <1>1, ScheduledOnTime DEF CpuOK, BeamFollows
<1> QED BY <1>1, <1>2, <1>3 DEF CpuOK, EventsOnTime

\* A catch-up to t after which they are scheduled anew.
LEMMA CpuScheduled ==
  ASSUME CpuOK, NEW t, CaughtUp(t), CpuTimers(t), irq_event' = TimerEvents(t)
  PROVE  CpuTimers(tm') /\ phase' \in 0 .. SlowDivider - 1 /\ EventsOnTime'
<1>1. tm' = t /\ behind' = 0 /\ phase' = (phase + behind) % SlowDivider
  BY DEF CaughtUp
<1>2. /\ TimerEvents(t) \in [Timer -> Nat \union {NoEvent}]
      /\ OnTime(TimerEvents(t), t, phase', 0) /\ phase' \in 0 .. SlowDivider - 1
  BY <1>1, ScheduledOnTime DEF CpuOK, BeamFollows
<1> QED BY <1>1, <1>2 DEF EventsOnTime

\* What the timers that count clock by clock do: after a catch-up nothing is left to count.
LEMMA NothingLeft ==
  ASSUME NEW t, CpuTimers(t), CaughtUp(t), CpuOK, cycle' = cycle, NEW i \in Timer
  PROVE  /\ cycle' = (phase' + behind') % SlowDivider
         /\ Clock(t.timers[i], ClocksFrom(t, phase', behind', i)) = t.timers[i]
<1>1. behind' = 0 /\ phase' = (phase + behind) % SlowDivider /\ cycle = (phase + behind) % SlowDivider
  BY DEF CaughtUp, CpuOK, OneByOneFollows
<1>2. phase' \in 0 .. SlowDivider - 1
  BY <1>1, ScheduledOnTime DEF CpuOK, BeamFollows
<1>3. (phase' + 0) % SlowDivider = phase'
  <2>1. ASSUME NEW q \in 0 .. SlowDivider - 1 PROVE (q + 0) % SlowDivider = q
    <3>1. q + 0 = q /\ q % SlowDivider = q
      BY ClockRates, DivisionOfLess
    <3> QED BY <3>1
  <2> QED BY <1>2, <2>1
<1>4. ClocksFrom(t, phase', 0, i) = 0
  BY <1>2, NoClocks
<1>5. Clock(t.timers[i], 0) = t.timers[i]
  BY PlainClock DEF CpuTimers
<1> QED BY <1>1, <1>3, <1>4, <1>5

LEMMA WatchedFollows ==
  ASSUME CpuOK, CaughtUp(Now), Watched
  PROVE  OneByOneFollows'
<1>1. tm' = Now /\ one_by_one' = one_by_one /\ cycle' = cycle
  BY DEF CaughtUp, Watched
<1>2. CpuTimers(Now) /\ \A i \in Timer : one_by_one[i] = Now.timers[i]
  BY NowIs
<1>3. ASSUME NEW i \in Timer
      PROVE  /\ cycle' = (phase' + behind') % SlowDivider
             /\ one_by_one[i] = Clock(Now.timers[i], ClocksFrom(Now, phase', behind', i))
  BY <1>1, <1>2, NothingLeft
<1>4. 0 \in Timer
  BY DEF Timer
<1> QED BY <1>1, <1>3, <1>4 DEF CpuOK, OneByOneFollows

LEMMA FollowedFollows ==
  ASSUME CpuOK, NEW t, CpuTimers(t), CaughtUp(t), Followed
  PROVE  OneByOneFollows'
<1>1. tm' = t /\ one_by_one' = t.timers /\ cycle' = cycle
  BY DEF CaughtUp, Followed
<1>2. t.timers = [i \in Timer |-> t.timers[i]] /\ 0 \in Timer
  BY DEF CpuTimers, TmOK, TmShape, Timer
<1>3. ASSUME NEW i \in Timer
      PROVE  /\ cycle' = (phase' + behind') % SlowDivider
             /\ Clock(t.timers[i], ClocksFrom(t, phase', behind', i)) = t.timers[i]
  BY <1>1, NothingLeft
<1> QED BY <1>1, <1>2, <1>3 DEF OneByOneFollows

LEMMA CpuNowReads ==
  ASSUME CpuOK, BeamFollows', CaughtUp(Now), irq_event' = irq_event, Watched
  PROVE  CpuOK'
<1>1. \A i \in Timer : SameIrqs(Now.timers[i], Now.timers[i])
  BY SameIrqsItself
<1>2. CpuTimers(tm') /\ phase' \in 0 .. SlowDivider - 1 /\ EventsOnTime'
  BY <1>1, NowIs, CpuCaughtUp
<1> QED BY <1>2, WatchedFollows DEF CpuOK

LEMMA CpuUntouched ==
  ASSUME CpuOK, BeamFollows', UNCHANGED <<tm, behind, phase, irq_event, one_by_one, cycle>>
  PROVE  CpuOK'
  BY DEF CpuOK, EventsOnTime, OneByOneFollows

LEMMA CpuRunsOn ==
  ASSUME CpuOK, BeamFollows', Runs
  PROVE  CpuOK'
<1>1. ASSUME NEW n \in 1 .. MaxAdvance, ExecuteInstruction(n) PROVE CpuOK'
  <2>0. n \in Nat /\ behind \in Nat
    <3>1. MaxAdvance \in Nat
      BY TimersAreValid DEF ClockAssumption
    <3> QED BY <3>1 DEF CpuOK, BeamFollows
  <2>1. /\ tm' = tm /\ behind' = behind + n /\ phase' = phase
        /\ irq_event' = [i \in Timer |-> Sooner(irq_event[i], n)]
        /\ cycle' = (cycle + n) % SlowDivider
        /\ one_by_one' = [i \in Timer |->
             IF CountsCpuCycles(tm, i) THEN OneByOne(tm, i, one_by_one[i], cycle, n)
             ELSE one_by_one[i]]
    BY <1>1, Zenon DEF ExecuteInstruction
  <2>2. OnTime(irq_event', tm, phase, behind + n) /\ irq_event' \in [Timer -> Nat \union {NoEvent}]
    BY <2>0, <2>1, LaterOnTime DEF CpuOK, EventsOnTime
  <2>3. EventsOnTime'
    BY <2>1, <2>2 DEF EventsOnTime
  <2>4. ASSUME NEW i \in Timer
        PROVE  one_by_one'[i] = Clock(tm.timers[i], ClocksFrom(tm, phase, behind + n, i))
    <3> DEFINE a == tm.timers[i]
               c == ClocksFrom(tm, phase, behind, i)
               d == ClocksFrom(tm, cycle, n, i)
               x == Clock(a, c)
    <3>1. CpuTimers(tm) /\ phase \in 0 .. SlowDivider - 1 /\ cycle = (phase + behind) % SlowDivider
      BY DEF CpuOK, OneByOneFollows
    <3>2. CountsCpuCycles(tm, i) /\ one_by_one[i] = x
      BY <3>1, CpuTimersCount DEF CpuOK, OneByOneFollows
    <3>3. one_by_one'[i] = OneByOne(tm, i, x, cycle, n)
      BY <2>1, <3>2
    <3>4. cycle \in 0 .. SlowDivider - 1 /\ ClocksFrom(tm, phase, behind + n, i) = c + d
      BY <2>0, <3>1, ClocksFromAdd
    <3>5. c \in Nat /\ d \in Nat
      BY <2>0, <3>1, <3>4, ClocksAreNumber
    <3>6. Plain(a)
      BY <3>1 DEF CpuTimers
    <3>7. Plain(x)
      BY <3>5, <3>6, PlainClock
    <3>8. OneByOne(tm, i, x, cycle, n) = Clock(x, d)
      <4> HIDE DEF x
      <4> QED BY <2>0, <3>1, <3>4, <3>7, OneByOneIs
    <3>9. Clock(x, d) = Clock(a, c + d)
      BY <3>5, <3>6, PlainAdds
    <3> QED BY <3>3, <3>4, <3>8, <3>9
  <2>5. one_by_one' = [i \in Timer |-> one_by_one'[i]]
    BY <2>1
  <2>6. cycle' = (phase + (behind + n)) % SlowDivider
    <3> DEFINE m == phase + behind
    <3>1. m \in Nat /\ phase + (behind + n) = m + n /\ cycle = m % SlowDivider
      BY <2>0 DEF CpuOK, OneByOneFollows
    <3> HIDE DEF m
    <3>2. (m + n) % SlowDivider = ((m % SlowDivider) + n) % SlowDivider
      BY <2>0, <3>1, ClockRates, DivisionAdds
    <3> QED BY <2>1, <3>1, <3>2
  <2>7. OneByOneFollows'
    BY <2>1, <2>4, <2>5, <2>6 DEF OneByOneFollows
  <2> QED BY <2>1, <2>3, <2>7 DEF CpuOK
<1>2. CASE VBlankEvent
  <2>1. CASE RangeValid(tm.gpu)
    <3>1. CaughtUp(Now) /\ irq_event' = irq_event /\ Watched
      BY <1>2, <2>1 DEF VBlankEvent
    <3> QED BY <3>1, CpuNowReads
  <2>2. CASE ~RangeValid(tm.gpu)
    <3>1. UNCHANGED <<tm, behind, phase, irq_event, one_by_one, cycle>>
      BY <1>2, <2>2 DEF VBlankEvent, Watched
    <3> QED BY <3>1, CpuUntouched
  <2> QED BY <2>1, <2>2
<1>3. ASSUME NEW i \in Timer, TimerEvent(i) PROVE CpuOK'
  <2>1. CaughtUp(Now) /\ irq_event' = TimerEvents(tm') /\ Watched
    BY <1>3 DEF TimerEvent
  <2>2. irq_event' = TimerEvents(Now)
    BY <2>1 DEF CaughtUp
  <2>3. CpuTimers(tm') /\ phase' \in 0 .. SlowDivider - 1 /\ EventsOnTime'
    BY <2>1, <2>2, NowIs, CpuScheduled
  <2> QED BY <2>1, <2>3, WatchedFollows DEF CpuOK
<1>4. CASE ReadStatus
  <2>1. CaughtUp(Now) /\ irq_event' = irq_event /\ Watched
    BY <1>4 DEF ReadStatus
  <2> QED BY <2>1, CpuNowReads
<1>5. CASE AcknowledgeVBlank
  <2>1. UNCHANGED <<tm, behind, phase, irq_event, one_by_one, cycle>>
    BY <1>5 DEF AcknowledgeVBlank, Watched
  <2> QED BY <2>1, CpuUntouched
<1> QED BY <1>1, <1>2, <1>3, <1>4, <1>5 DEF Runs

\* The registers of a timer.
LEMMA RegisterFields ==
  ASSUME NEW a, Plain(a)
  PROVE  /\ \A v \in Counts : Plain(WriteTarget(a, v)) /\ Plain(WriteCounter(a, v))
         /\ \A m \in ModeValues : ~(m.repeat /\ m.toggle) => Plain(WriteMode(a, m))
         /\ Plain(ReadMode(a)) /\ SameIrqs(ReadMode(a), a)
<1>0. a \in SystemTimers /\ ~(a.repeat /\ a.toggle) /\ HasTimerNames(a)
  BY LikeItself DEF Plain, Toggles, Like
<1>1. ASSUME NEW v \in Counts PROVE Plain(WriteTarget(a, v)) /\ Plain(WriteCounter(a, v))
  <2>1. WriteTarget(a, v) \in SystemTimers /\ WriteCounter(a, v) \in SystemTimers
    BY <1>0 DEF WriteTarget, WriteCounter, SystemTimers
  <2>2. /\ WriteTarget(a, v).repeat = a.repeat /\ WriteTarget(a, v).toggle = a.toggle
        /\ WriteCounter(a, v).repeat = a.repeat /\ WriteCounter(a, v).toggle = a.toggle
    BY <1>0 DEF WriteTarget, WriteCounter, HasTimerNames, TimerNames
  <2> QED BY <1>0, <2>1, <2>2 DEF Plain, Toggles
<1>2. ASSUME NEW m \in ModeValues, ~(m.repeat /\ m.toggle) PROVE Plain(WriteMode(a, m))
  <2> DEFINE u == WriteMode(a, m)
             i == a.irq /\ ~m.set_irq /\ m.toggle
  <2>1. /\ m.reset_at_target \in BOOLEAN /\ m.irq_at_target \in BOOLEAN /\ m.irq_at_max \in BOOLEAN
        /\ m.repeat \in BOOLEAN /\ m.toggle \in BOOLEAN /\ i \in BOOLEAN
    BY DEF ModeValues
  <2>2. u = [a EXCEPT !.reset_at_target = m.reset_at_target, !.irq_at_target = m.irq_at_target,
                      !.irq_at_max = m.irq_at_max, !.repeat = m.repeat, !.toggle = m.toggle,
                      !.irq = i, !.counter = 0, !.irq_since_mode_write = FALSE]
    BY Zenon DEF WriteMode
  <2>3. 0 \in 0 .. MaxCount
    BY TimerWidth
  <2>4. HasTimerNames(u)
    BY <1>0, <2>2 DEF HasTimerNames
  <2>5. /\ u.counter = 0 /\ u.target = a.target /\ u.reset_at_target = m.reset_at_target
        /\ u.irq_at_target = m.irq_at_target /\ u.irq_at_max = m.irq_at_max
        /\ u.repeat = m.repeat /\ u.toggle = m.toggle /\ u.irq = i
        /\ u.irq_since_mode_write = FALSE /\ u.reached_target = a.reached_target
        /\ u.reached_max = a.reached_max /\ u.istat = a.istat
    BY <1>0, <2>2 DEF HasTimerNames, TimerNames
  <2> HIDE DEF u, i
  <2>6. u \in SystemTimers
    BY <1>0, <2>1, <2>3, <2>4, <2>5, TimerFields, TimerIs
  <2> QED BY <1>2, <2>5, <2>6 DEF Plain, Toggles, u
<1>3. Plain(ReadMode(a)) /\ SameIrqs(ReadMode(a), a)
  <2> DEFINE u == ReadMode(a)
  <2>1. u \in SystemTimers
    BY <1>0 DEF ReadMode, SystemTimers
  <2>2. SameIrqs(u, a)
    BY <1>0 DEF ReadMode, SameIrqs, HasTimerNames, TimerNames
  <2> QED BY <1>0, <2>1, <2>2 DEF Plain, Toggles, SameIrqs
<1> QED BY <1>1, <1>2, <1>3

LEMMA WithTimerCpu ==
  ASSUME CpuOK, NEW i \in Timer, NEW a, Plain(a), NEW t, t = WithTimer(Now, i, a)
  PROVE  /\ CpuTimers(t) /\ t.source = tm.source /\ t.sync = tm.sync /\ t.sync_mode = tm.sync_mode
         /\ t.timers[i] = a
         /\ \A j \in Timer : j # i => t.timers[j] = Now.timers[j]
<1>1. /\ CpuTimers(Now) /\ Now.source = tm.source /\ Now.sync = tm.sync
      /\ Now.sync_mode = tm.sync_mode
  BY NowIs
<1>2. TmOK(Now)
  BY <1>1 DEF CpuTimers
<1>3. /\ TmOK(t) /\ t.gpu = Now.gpu /\ t.source = Now.source /\ t.sync = Now.sync
      /\ t.sync_mode = Now.sync_mode
      /\ t.timers[i] = a
      /\ \A j \in Timer : j # i => t.timers[j] = Now.timers[j]
  BY <1>2, WithTimerFields
<1>4. \A j \in Timer : Plain(t.timers[j])
  BY <1>1, <1>3 DEF CpuTimers
<1> QED BY <1>1, <1>3, <1>4 DEF CpuTimers

LEMMA CpuWrites ==
  ASSUME CpuOK, BeamFollows', NEW t, CpuTimers(t), WriteRegister(t)
  PROVE  CpuOK'
<1>1. CaughtUp(t) /\ irq_event' = TimerEvents(t) /\ Followed
  BY DEF WriteRegister
<1>2. CpuTimers(tm') /\ phase' \in 0 .. SlowDivider - 1 /\ EventsOnTime'
  BY <1>1, CpuScheduled
<1>3. OneByOneFollows'
  BY <1>1, FollowedFollows
<1> QED BY <1>2, <1>3 DEF CpuOK

\* The mode of timer 2.
LEMMA RewrittenCpu ==
  ASSUME NEW t, CpuTimers(t), NEW w, w \in CpuModes, NEW r, r = Rewritten(t, w)
  PROVE  CpuTimers(r)
<1>0. w \in ModeWrites /\ w.timer = 2 /\ ~(w.mode.repeat /\ w.mode.toggle)
  BY DEF CpuModes
<1>1. w.mode \in ModeValues /\ w.timer \in Timer
  BY <1>0, ModeWriteFields
<1>2. TmOK(t) /\ \A i \in Timer : Plain(t.timers[i])
  BY DEF CpuTimers
<1>3. /\ TmOK(r) /\ r.gpu = t.gpu
      /\ r.timers[w.timer] = WriteMode(t.timers[w.timer], w.mode)
      /\ r.sync = [t.sync EXCEPT ![w.timer] = w.sync]
      /\ r.sync_mode = [t.sync_mode EXCEPT ![w.timer] = w.sync_mode]
      /\ r.source = [t.source EXCEPT ![w.timer] = w.source]
      /\ \A j \in Timer : j # w.timer => r.timers[j] = t.timers[j]
  BY <1>0, <1>2, RewrittenFields
<1>4. Plain(WriteMode(t.timers[w.timer], w.mode))
  BY <1>0, <1>1, <1>2, RegisterFields
<1>5. \A j \in Timer : Plain(r.timers[j])
  BY <1>2, <1>3, <1>4
<1>6. /\ t.sync \in [Timer -> BOOLEAN] /\ t.source \in [Timer -> BOOLEAN] /\ 0 \in Timer /\ 1 \in Timer
      /\ t.sync[0] = FALSE /\ t.sync[1] = FALSE /\ t.source[0] = FALSE /\ t.source[1] = FALSE
  BY <1>2 DEF CpuTimers, TmOK, TmShape, Timer
<1>7. r.sync[0] = FALSE /\ r.sync[1] = FALSE /\ r.source[0] = FALSE /\ r.source[1] = FALSE
  BY <1>0, <1>3, <1>6
<1> QED BY <1>3, <1>5, <1>7 DEF CpuTimers

LEMMA CpuAccesses ==
  ASSUME CpuOK, BeamFollows', CpuNext
  PROVE  CpuOK'
<1>0. /\ CpuTimers(Now) /\ Now.source = tm.source /\ Now.sync = tm.sync
      /\ Now.sync_mode = tm.sync_mode
      /\ TmOK(Now) /\ \A i \in Timer : Plain(Now.timers[i])
  BY NowIs DEF CpuTimers
<1>1. ASSUME NEW i \in ModeReads, ReadTimerMode(i) PROVE CpuOK'
  <2>0. i \in Timer
    BY TimersAreValid DEF ClockAssumption
  <2> DEFINE a == ReadMode(Now.timers[i])
             t == WithTimer(Now, i, a)
  <2>1. CaughtUp(t) /\ irq_event' = irq_event /\ Followed
    BY <1>1, Zenon DEF ReadTimerMode, WithTimer
  <2>2. Plain(a) /\ SameIrqs(a, Now.timers[i])
    BY <1>0, <2>0, RegisterFields
  <2> HIDE DEF a
  <2>3. /\ CpuTimers(t) /\ t.source = tm.source /\ t.sync = tm.sync /\ t.sync_mode = tm.sync_mode
        /\ t.timers[i] = a
        /\ \A j \in Timer : j # i => t.timers[j] = Now.timers[j]
    BY <2>0, <2>2, WithTimerCpu
  <2> HIDE DEF t
  <2>4. \A j \in Timer : SameIrqs(t.timers[j], Now.timers[j])
    BY <2>2, <2>3, SameIrqsItself
  <2>5. CpuTimers(tm') /\ phase' \in 0 .. SlowDivider - 1 /\ EventsOnTime'
    BY <2>1, <2>3, <2>4, CpuCaughtUp
  <2>6. OneByOneFollows'
    BY <2>1, <2>3, FollowedFollows
  <2> QED BY <2>5, <2>6 DEF CpuOK
<1>2. ASSUME NEW w \in CpuModes, WriteTimerMode(w) PROVE CpuOK'
  <2> DEFINE t == Rewritten(Now, w)
  <2>1. WriteRegister(t)
    BY <1>2, Zenon DEF WriteTimerMode, Rewritten
  <2>a. t = Rewritten(Now, w)
    OBVIOUS
  <2> HIDE DEF t
  <2>2. CpuTimers(t)
    BY <1>0, <1>2, <2>a, RewrittenCpu
  <2> QED BY <2>1, <2>2, CpuWrites
<1>3. ASSUME NEW w \in TargetWrites, WriteTimerTarget(w) PROVE CpuOK'
  <2>0. w.timer \in Timer /\ w.value \in Counts
    BY TimersAreValid DEF ClockAssumption
  <2> DEFINE a == WriteTarget(Now.timers[w.timer], w.value)
             i == w.timer
             t == WithTimer(Now, i, a)
  <2>1. WriteRegister(t)
    BY <1>3, Zenon DEF WriteTimerTarget, WithTimer
  <2>2. Plain(a) /\ i \in Timer
    BY <1>0, <2>0, RegisterFields
  <2> HIDE DEF a, i
  <2>3. CpuTimers(t)
    BY <2>2, WithTimerCpu
  <2> HIDE DEF t
  <2> QED BY <2>1, <2>3, CpuWrites
<1>4. ASSUME NEW w \in CounterWrites, WriteTimerCounter(w) PROVE CpuOK'
  <2>0. w.timer \in Timer /\ w.value \in Counts
    BY TimersAreValid DEF ClockAssumption
  <2> DEFINE a == WriteCounter(Now.timers[w.timer], w.value)
             i == w.timer
             t == WithTimer(Now, i, a)
  <2>1. WriteRegister(t)
    BY <1>4, Zenon DEF WriteTimerCounter, WithTimer
  <2>2. Plain(a) /\ i \in Timer
    BY <1>0, <2>0, RegisterFields
  <2> HIDE DEF a, i
  <2>3. CpuTimers(t)
    BY <2>2, WithTimerCpu
  <2> HIDE DEF t
  <2> QED BY <2>1, <2>3, CpuWrites
<1>5. ASSUME NEW i \in Timer, AcknowledgeTimer(i) PROVE CpuOK'
  <2> DEFINE a == tm.timers[i]
             t == WithTimer(tm, i, Cleared(a))
             c == ClocksFrom(tm, phase, behind, i)
  <2>1. /\ tm' = t /\ UNCHANGED <<behind, phase, irq_event, cycle>> /\ irq_event[i] # 0
        /\ one_by_one' = [one_by_one EXCEPT ![i] = Cleared(one_by_one[i])]
    BY <1>5, Zenon DEF AcknowledgeTimer, CpuRuns, WithTimer, Cleared
  <2>2. /\ CpuTimers(tm) /\ TmOK(tm) /\ Plain(a) /\ Plain(Cleared(a)) /\ behind \in Nat
        /\ phase \in 0 .. SlowDivider - 1
    BY PlainCleared DEF CpuOK, CpuTimers, BeamFollows
  <2> HIDE DEF a
  <2>3. /\ TmOK(t) /\ t.gpu = tm.gpu /\ t.source = tm.source /\ t.sync = tm.sync
        /\ t.sync_mode = tm.sync_mode
        /\ t.timers[i] = Cleared(a)
        /\ \A j \in Timer : j # i => t.timers[j] = tm.timers[j]
    BY <2>2, WithTimerFields
  <2> HIDE DEF t
  <2>4. CpuTimers(t)
    BY <2>2, <2>3 DEF CpuTimers
  <2>5. SameIrqs(Cleared(a), a)
    BY <2>2, ClearedFields DEF SameIrqs, Plain
  <2>6. \A j \in Timer : SameIrqs(t.timers[j], tm.timers[j])
    BY <2>3, <2>5, SameIrqsItself DEF a
  <2>7. EventsOnTime'
    <3> SUFFICES ASSUME NEW n \in Nat, NEW j \in Timer, Raises(t.timers[j], ClocksFrom(t, phase, behind + n, j))
                 PROVE  irq_event[j] \in Nat /\ irq_event[j] <= n
      BY <2>1 DEF EventsOnTime, OnTime, CpuOK
    <3> DEFINE d == ClocksFrom(tm, phase, behind + n, j)
    <3>1. d = ClocksFrom(t, phase, behind + n, j) /\ d \in Nat
      <4>1. behind + n \in Nat
        BY <2>2
      <4> QED BY <2>2, <2>3, <4>1, ClocksSame, ClocksAreNumber
    <3>2. Raises(t.timers[j], d)
      BY <3>1
    <3>3. Plain(t.timers[j]) /\ Plain(tm.timers[j]) /\ SameIrqs(t.timers[j], tm.timers[j])
      BY <2>2, <2>4, <2>6 DEF CpuTimers
    <3> HIDE DEF d
    <3>4. Raises(tm.timers[j], d)
      BY <3>1, <3>2, <3>3, SameRaises
    <3> QED BY <3>4 DEF CpuOK, EventsOnTime, OnTime, d
  <2>8. ~Raises(a, c)
    <3>1. SUFFICES ASSUME Raises(a, c) PROVE FALSE
      OBVIOUS
    <3>2. behind + 0 = behind
      BY <2>2
    <3>3. irq_event[i] \in Nat /\ irq_event[i] <= 0
      BY <3>1, <3>2 DEF CpuOK, EventsOnTime, OnTime, a
    <3> QED BY <2>1, <3>3
  <2>9. Cleared(one_by_one[i]) = Clock(Cleared(a), c)
    <3>1. c \in Nat
      BY <2>2, ClocksAreNumber
    <3>2. one_by_one[i] = Clock(a, c)
      BY DEF CpuOK, OneByOneFollows, a
    <3> DEFINE y == Clock(Cleared(a), c)
    <3> HIDE DEF c
    <3>3. Cleared(Clock(a, c)) = Cleared(y)
      BY <2>2, <3>1, ClearedLater
    <3>4. Plain(y)
      BY <2>2, <3>1, PlainClock
    <3>5. y.istat # TRUE
      BY <2>8 DEF Raises
    <3> HIDE DEF y
    <3>6. y.istat = FALSE /\ HasTimerNames(y)
      BY <3>4, <3>5, TimerFields, LikeItself DEF Plain, Like
    <3>7. Cleared(y) = y
      BY <3>6 DEF Cleared, HasTimerNames, TimerNames
    <3> QED BY <3>2, <3>3, <3>7 DEF y
  <2>10. OneByOneFollows'
    <3>1. one_by_one = [j \in Timer |-> one_by_one[j]]
      BY DEF CpuOK, OneByOneFollows
    <3>2. one_by_one' = [j \in Timer |-> one_by_one'[j]]
      BY <2>1, <3>1
    <3>3. ASSUME NEW j \in Timer
          PROVE  one_by_one'[j] = Clock(t.timers[j], ClocksFrom(t, phase, behind, j))
      <4>1. ClocksFrom(t, phase, behind, j) = ClocksFrom(tm, phase, behind, j)
        BY <2>3, ClocksSame
      <4>2. CASE j = i
        <5>1. one_by_one'[i] = Cleared(one_by_one[i])
          BY <2>1, <3>1
        <5> QED BY <2>3, <2>9, <4>1, <4>2, <5>1
      <4>3. CASE j # i
        <5>1. one_by_one'[j] = one_by_one[j]
          BY <2>1, <3>1, <4>3
        <5>2. one_by_one[j] = Clock(tm.timers[j], ClocksFrom(tm, phase, behind, j))
          BY DEF CpuOK, OneByOneFollows
        <5> QED BY <2>3, <4>1, <4>3, <5>1, <5>2
      <4> QED BY <4>2, <4>3
    <3>4. cycle' = (phase' + behind') % SlowDivider
      BY <2>1 DEF CpuOK, OneByOneFollows
    <3> QED BY <2>1, <3>2, <3>3, <3>4 DEF OneByOneFollows
  <2> QED BY <2>1, <2>2, <2>4, <2>7, <2>10 DEF CpuOK
<1> QED BY <1>1, <1>2, <1>3, <1>4, <1>5 DEF CpuNext

CpuInv == BeamFollows /\ (part = "cpu" => CpuOK)

LEMMA CpuBegins ==
  ASSUME MCInit
  PROVE  CpuInv
<1>1. BeamFollows
  BY InitFollows
<1>2. ASSUME part = "cpu" PROVE CpuOK
  <2>1. InitCpu
    BY <1>2 DEF MCInit
  <2>2. /\ tm.timers = [i \in Timer |-> NewTimer] /\ tm.source = [i \in Timer |-> FALSE]
        /\ tm.sync = [i \in Timer |-> FALSE] /\ behind = 0 /\ phase = 0
        /\ irq_event = [i \in Timer |-> NoEvent] /\ one_by_one = tm.timers /\ cycle = 0
    BY <2>1 DEF InitCpu
  <2>3. Plain(NewTimer) /\ ~NewTimer.irq_at_target /\ ~NewTimer.irq_at_max
    <3>1. NewTimer \in SystemTimers
      BY TimerWidth DEF NewTimer, SystemTimers, Counts
    <3>2. ~NewTimer.toggle /\ ~NewTimer.irq_at_target /\ ~NewTimer.irq_at_max
      BY DEF NewTimer
    <3> QED BY <3>1, <3>2 DEF Plain, Toggles
  <2>4. CpuTimers(tm)
    <3>1. 0 \in Timer /\ 1 \in Timer
      BY DEF Timer
    <3> QED BY <1>1, <2>2, <2>3, <3>1 DEF CpuTimers, BeamFollows
  <2>5. phase \in 0 .. SlowDivider - 1
    BY <2>2, ClockRates
  <2>6. EventsOnTime
    <3>1. ASSUME NEW n \in Nat, NEW i \in Timer PROVE ~Raises(tm.timers[i], ClocksFrom(tm, phase, behind + n, i))
      <4> DEFINE c == ClocksFrom(tm, phase, behind + n, i)
      <4>1. c \in Nat
        <5>1. behind + n \in Nat
          BY <2>2
        <5> QED BY <2>5, <5>1, ClocksAreNumber
      <4> HIDE DEF c
      <4>2. ~HitBy(NewTimer, c)
        BY <2>3 DEF HitBy
      <4>3. tm.timers[i] = NewTimer
        BY <2>2
      <4> QED BY <2>3, <4>1, <4>2, <4>3, RaisesIs DEF c
    <3>2. irq_event \in [Timer -> Nat \union {NoEvent}]
      BY <2>2
    <3> QED BY <3>1, <3>2 DEF EventsOnTime, OnTime
  <2>7. OneByOneFollows
    <3>1. Clock(NewTimer, 0) = NewTimer
      BY <2>3, PlainClock
    <3>2. \A i \in Timer : ClocksFrom(tm, phase, behind, i) = 0
      BY <2>2, <2>5, NoClocks
    <3>3. 0 % SlowDivider = 0 /\ phase + behind = 0
      <4>1. 0 \in 0 .. SlowDivider - 1
        BY ClockRates
      <4> QED BY <2>2, <4>1, ClockRates, DivisionOfLess
    <3> QED BY <2>2, <3>1, <3>2, <3>3 DEF OneByOneFollows
  <2> QED BY <1>1, <2>4, <2>5, <2>6, <2>7 DEF CpuOK
<1> QED BY <1>1, <1>2 DEF CpuInv

LEMMA CpuStep ==
  CpuInv /\ [MCNext]_mc_vars => CpuInv'
<1> SUFFICES ASSUME CpuInv, [MCNext]_mc_vars PROVE CpuInv'
  OBVIOUS
<1>1. BeamFollows'
  BY BeamFollowsStep DEF CpuInv
<1>2. ASSUME part' = "cpu" PROVE CpuOK'
  <2>1. CASE UNCHANGED mc_vars
    <3>1. part = "cpu" /\ UNCHANGED <<tm, behind, phase, irq_event, one_by_one, cycle>>
      BY <1>2, <2>1 DEF mc_vars, vars
    <3> QED BY <1>1, <3>1, CpuUntouched DEF CpuInv
  <2>2. CASE MCNext
    <3>1. part = "cpu" /\ (Runs \/ CpuNext)
      BY <1>2, <2>2 DEF MCNext, In
    <3>2. CpuOK
      BY <3>1 DEF CpuInv
    <3> QED BY <1>1, <3>1, <3>2, CpuRunsOn, CpuAccesses
  <2> QED BY <2>1, <2>2
<1> QED BY <1>1, <1>2 DEF CpuInv

\* A timer that counts CPU cycles counts each of them once, and timer 2 with the divided clock
\* each SlowDivider-th of the machine's, with no remainder lost or counted twice wherever the
\* cycles are cut into catch-ups; and the event schedule_timer_events asked for never comes
\* after the interrupt that counting one by one would raise, however far ahead that is.
THEOREM CpuTimerIsAlwaysExact == MCSpec => []CpuTimerIsExact
<1>1. MCInit => CpuInv
  BY CpuBegins
<1>2. CpuInv /\ [MCNext]_mc_vars => CpuInv'
  BY CpuStep
<1>3. CpuInv => CpuTimerIsExact
  BY CpuExact DEF CpuInv, CpuTimerIsExact
<1> QED BY <1>1, <1>2, <1>3, PTL DEF MCSpec
-----------------------------------------------------------------------------
\* Numbers of lines and their lengths.
OddOnes(g, S) == {y \in S : g.mode = "Ntsc" /\ y % 2 = 1}
Extra(g, y) == IF g.mode = "Ntsc" THEN y % 2 ELSE 0

LEMMA LinesAtIs ==
  ASSUME NEW g, NEW S
  PROVE  LinesAt(g, S) = (Cardinality(S) * CyclesPerLine[g.mode]) + Cardinality(OddOnes(g, S))
BY DEF LinesAt, OddOnes

LEMMA NoLines ==
  ASSUME NEW g, g.mode \in VideoModes
  PROVE  LinesAt(g, {}) = 0
<1>1. OddOnes(g, {}) = {}
  BY DEF OddOnes
<1>2. CyclesPerLine[g.mode] \in Nat /\ 0 * CyclesPerLine[g.mode] = 0
  BY ClockRates
<1>3. LinesAt(g, {}) = (Cardinality({}) * CyclesPerLine[g.mode]) + Cardinality(OddOnes(g, {}))
  BY LinesAtIs
<1>4. Cardinality({}) = 0
  BY FS_EmptySet
<1>5. LinesAt(g, {}) = (0 * CyclesPerLine[g.mode]) + 0
  BY <1>1, <1>3, <1>4, Zenon
<1> QED BY <1>2, <1>5

\* The first of several lines.
LEMMA FirstLine ==
  ASSUME NEW g, g.mode \in VideoModes, NEW a \in Nat, NEW b \in Int, a <= b
  PROVE  LinesAt(g, a .. b) = (CyclesPerLine[g.mode] + Extra(g, a)) + LinesAt(g, a + 1 .. b)
<1> DEFINE L == CyclesPerLine[g.mode]
           S == a .. b
           T == a + 1 .. b
<1>1. L \in Nat
  BY ClockRates
<1>2. /\ IsFiniteSet(S) /\ Cardinality(S) = (b - a) + 1
      /\ IsFiniteSet(T) /\ Cardinality(T) = b - a
  BY FS_Interval
<1>3. S = T \union {a} /\ a \notin T
  OBVIOUS
<1>4. OddOnes(g, T) \subseteq T
  BY DEF OddOnes
<1>5. IsFiniteSet(OddOnes(g, T)) /\ Cardinality(OddOnes(g, T)) \in Nat
  BY <1>2, <1>4, FS_Subset, FS_CardinalityType
<1>6. Cardinality(OddOnes(g, S)) = Cardinality(OddOnes(g, T)) + Extra(g, a)
  <2>1. CASE g.mode = "Ntsc" /\ a % 2 = 1
    <3>1. OddOnes(g, S) = OddOnes(g, T) \union {a}
      BY <1>3, <2>1 DEF OddOnes
    <3>2. a \notin OddOnes(g, T)
      BY <1>3, <1>4
    <3>3. Extra(g, a) = 1
      BY <2>1 DEF Extra
    <3> HIDE DEF S, T
    <3> QED BY <1>5, <3>1, <3>2, <3>3, FS_AddElement
  <2>2. CASE ~(g.mode = "Ntsc" /\ a % 2 = 1)
    <3>1. OddOnes(g, S) = OddOnes(g, T)
      BY <1>3, <2>2 DEF OddOnes
    <3>2. Extra(g, a) = 0
      <4>1. a % 2 \in 0 .. 1
        OBVIOUS
      <4> QED BY <2>2, <4>1 DEF Extra
    <3> QED BY <1>5, <3>1, <3>2
  <2> QED BY <2>1, <2>2
<1>7. Cardinality(S) * L = (Cardinality(T) * L) + L /\ Cardinality(T) * L \in Nat
  <2>1. b - a \in Nat
    OBVIOUS
  <2>2. ((b - a) + 1) * L = ((b - a) * L) + L /\ (b - a) * L \in Nat
    BY <1>1, <2>1
  <2> QED BY <1>2, <2>2
<1>8. Extra(g, a) \in Nat
  BY DEF Extra
<1>9. LinesAt(g, S) = (Cardinality(S) * L) + Cardinality(OddOnes(g, S))
  BY LinesAtIs
<1>10. LinesAt(g, T) = (Cardinality(T) * L) + Cardinality(OddOnes(g, T))
  BY LinesAtIs
<1> DEFINE cs == Cardinality(S) * L
           ct == Cardinality(T) * L
<1> HIDE DEF cs, ct, S, T, L
<1>11. LinesAt(g, S) = (L + Extra(g, a)) + LinesAt(g, T)
  BY <1>1, <1>5, <1>6, <1>7, <1>8, <1>9, <1>10 DEF cs, ct
<1> QED BY <1>11 DEF S, T, L

LEMMA LinesTogether ==
  ASSUME NEW g, g.mode \in VideoModes, NEW a \in Nat, NEW b \in Int, a <= b + 1
  PROVE  /\ LinesAt(g, a .. b) \in Nat
         /\ LinesAt(g, a .. b) <= ((b - a) + 1) * (CyclesPerLine[g.mode] + 1)
<1> DEFINE L == CyclesPerLine[g.mode]
           S == a .. b
           c == Cardinality(S)
           o == Cardinality(OddOnes(g, S))
<1>1. L \in Nat
  BY ClockRates
<1>2. IsFiniteSet(S) /\ c = (b - a) + 1 /\ c \in Nat
  <2>1. IsFiniteSet(a .. b) /\ Cardinality(a .. b) = IF a > b THEN 0 ELSE b - a + 1
    BY FS_Interval
  <2> QED BY <2>1
<1>3. OddOnes(g, S) \subseteq S
  BY DEF OddOnes
<1>4. o \in Nat /\ o <= c
  BY <1>2, <1>3, FS_Subset, FS_CardinalityType
<1>5. LinesAt(g, S) = (c * L) + o
  BY LinesAtIs
<1> HIDE DEF c, o, S, L
<1>6. c * (L + 1) = (c * L) + c /\ c * L \in Nat
  BY <1>1, <1>2
<1>7. LinesAt(g, S) \in Nat /\ LinesAt(g, S) <= c * (L + 1)
  BY <1>1, <1>2, <1>4, <1>5, <1>6
<1>8. c * (L + 1) = ((b - a) + 1) * (L + 1)
  BY <1>2
<1> QED BY <1>7, <1>8 DEF S, L
-----------------------------------------------------------------------------
\* How far the beam is from the next start of line Y2.
InFrame(g) == RangeValid(g) /\ g.y2 <= LastLine(g)
Distance(g) == (CyclesInLine(g) - g.line_cycle) + LinesToVBlank(g)

LEMMA FrameIs ==
  /\ MaxAdvance \in Nat \ {0}
  /\ \A m \in VideoModes :
       /\ CpuClock <= GpuClock[m]
       /\ (MaxAdvance * GpuClock[m]) + CpuClock <= CpuClock * (CyclesPerLine[m] \div 2)
       /\ CyclesPerLine[m] \div 2 \in Nat /\ CyclesPerLine[m] \div 2 <= CyclesPerLine[m]
       /\ LinesPerFrame[m][TRUE] <= LinesPerFrame[m][FALSE]
  /\ \A i \in BOOLEAN : LinesPerFrame["Ntsc"][i] % 2 = 1
<1>1. ASSUME NEW m \in VideoModes
      PROVE  CyclesPerLine[m] \div 2 \in Nat /\ CyclesPerLine[m] \div 2 <= CyclesPerLine[m]
  <2>1. CyclesPerLine[m] \in Nat
    BY ClockRates
  <2> QED BY <2>1
<1> QED BY <1>1, TimersAreValid, FramesAreValid DEF FrameAssumption, ClockAssumption

LEMMA OnScreenIs ==
  ASSUME NEW g, OnScreen(g)
  PROVE  /\ HasGpuNames(g) /\ Framed(g)
         /\ g.mode \in VideoModes /\ g.interlaced \in BOOLEAN
         /\ g.y1 \in Nat /\ g.y2 \in Nat /\ g.product \in 0 .. CpuClock - 1
         /\ LastLine(g) \in Nat /\ g.line \in 0 .. LastLine(g)
         /\ CyclesInLine(g) \in Nat \ {0} /\ g.line_cycle \in 0 .. CyclesInLine(g) - 1
<1>1. Framed(g) /\ g.line \in 0 .. LastLine(g) /\ g.line_cycle \in 0 .. CyclesInLine(g) - 1
  BY DEF OnScreen
<1>2. LinesPerFrame[g.mode][g.interlaced] \in Nat \ {0}
  BY <1>1, ClockRates DEF Framed
<1>3. LastLine(g) \in Nat
  BY <1>2 DEF LastLine
<1>4. g.line \in Nat
  BY <1>1, <1>3
<1>5. CyclesInLine(g) \in Nat \ {0}
  BY <1>1, <1>4, LineLengths DEF Framed
<1> QED BY <1>1, <1>3, <1>5 DEF Framed

\* The last line of an NTSC frame is an even one.
LEMMA LastIsEven ==
  ASSUME NEW g, OnScreen(g)
  PROVE  Extra(g, LastLine(g)) = 0
<1>1. CASE g.mode = "Ntsc"
  <2> DEFINE n == LinesPerFrame[g.mode][g.interlaced]
  <2>1. n % 2 = 1 /\ n \in Nat \ {0}
    BY <1>1, OnScreenIs, FrameIs, ClockRates
  <2> HIDE DEF n
  <2>2. (n - 1) % 2 = 0
    BY <2>1
  <2> QED BY <1>1, <2>2 DEF Extra, LastLine, n
<1>2. CASE g.mode # "Ntsc"
  BY <1>2 DEF Extra
<1> QED BY <1>1, <1>2

LEMMA LengthIs ==
  ASSUME NEW g, OnScreen(g)
  PROVE  /\ g.line # LastLine(g) => CyclesInLine(g) = CyclesPerLine[g.mode] + Extra(g, g.line)
         /\ g.line = LastLine(g) =>
              CyclesInLine(g) = IF g.interlaced THEN CyclesPerLine[g.mode] \div 2
                                ELSE CyclesPerLine[g.mode]
         /\ CyclesPerLine[g.mode] \div 2 <= CyclesInLine(g)
         /\ CyclesInLine(g) <= CyclesPerLine[g.mode] + 1
<1>1. /\ CyclesPerLine[g.mode] \in Nat /\ CyclesPerLine[g.mode] \div 2 \in Nat
      /\ CyclesPerLine[g.mode] \div 2 <= CyclesPerLine[g.mode]
  BY OnScreenIs, ClockRates, FrameIs
<1>2. g.line \in Nat /\ g.line % 2 \in 0 .. 1
  <2>1. g.line \in Nat
    BY OnScreenIs
  <2> QED BY <2>1
<1>3. Extra(g, LastLine(g)) = 0
  BY LastIsEven
<1>4. Extra(g, g.line) \in 0 .. 1
  BY <1>2 DEF Extra
<1>5. CyclesInLine(g) = (IF g.interlaced /\ g.line = LastLine(g) THEN CyclesPerLine[g.mode] \div 2
                         ELSE CyclesPerLine[g.mode]) + Extra(g, g.line)
  BY Zenon DEF CyclesInLine, Extra
<1> QED BY <1>1, <1>3, <1>4, <1>5

\* At the end of a line: either the next one is Y2, or it brings the beam nearer by its length.
LEMMA RestOfFrame ==
  ASSUME NEW g, OnScreen(g), InFrame(g), NEW h, h = NextLine(g)
  PROVE  /\ LinesToVBlank(g) \in Nat
         /\ \/ h.line = g.y2 /\ LinesToVBlank(g) = 0
            \/ h.line # g.y2 /\ LinesToVBlank(g) = CyclesInLine(h) + LinesToVBlank(h)
<1> DEFINE n == g.line
           y == g.y2
           z == LastLine(g)
           L == CyclesPerLine[g.mode]
           last == IF g.interlaced THEN L \div 2 ELSE L
<1>1. /\ n \in 0 .. z /\ y \in Nat \ {0} /\ z \in Nat /\ y <= z
      /\ g.mode \in VideoModes /\ g.interlaced \in BOOLEAN /\ HasGpuNames(g) /\ Framed(g)
  BY OnScreenIs DEF InFrame, RangeValid
<1>2. L \in Nat /\ last \in Nat
  BY <1>1, ClockRates, FrameIs
<1>3. SameFrame(g, h) /\ h.line = IF n >= z THEN 0 ELSE n + 1
  BY <1>1, NextLineFields
<1>4. OnScreen(h) /\ LastLine(h) = z
  BY <1>1, <1>3, NextLineStays, SameLines
<1>5. \A S : LinesAt(h, S) = LinesAt(g, S)
  <2>1. h.mode = g.mode
    BY <1>3 DEF SameFrame
  <2> QED BY <2>1, Zenon DEF LinesAt
<1>6. h.mode = g.mode /\ h.interlaced = g.interlaced /\ h.y2 = y
  BY <1>3 DEF SameFrame
<1>7. \A k : Extra(h, k) = Extra(g, k)
  BY <1>6 DEF Extra
<1>8. /\ h.line # z => CyclesInLine(h) = L + Extra(g, h.line)
      /\ h.line = z => CyclesInLine(h) = last
  BY <1>4, <1>6, <1>7, LengthIs
<1>9. LinesToVBlank(g) =
        IF n < y THEN LinesAt(g, n + 1 .. y - 1)
        ELSE LinesAt(g, 0 .. y - 1) + (IF n = z THEN 0 ELSE last + LinesAt(g, n + 1 .. z - 1))
  BY Zenon DEF LinesToVBlank
<1>10. LinesToVBlank(h) =
         IF h.line < y THEN LinesAt(g, h.line + 1 .. y - 1)
         ELSE LinesAt(g, 0 .. y - 1) + (IF h.line = z THEN 0 ELSE last + LinesAt(g, h.line + 1 .. z - 1))
  <2>1. LinesToVBlank(h) =
          IF h.line < h.y2 THEN LinesAt(h, h.line + 1 .. h.y2 - 1)
          ELSE LinesAt(h, 0 .. h.y2 - 1)
               + (IF h.line = LastLine(h) THEN 0
                  ELSE (IF h.interlaced THEN CyclesPerLine[h.mode] \div 2 ELSE CyclesPerLine[h.mode])
                       + LinesAt(h, h.line + 1 .. LastLine(h) - 1))
    BY Zenon DEF LinesToVBlank
  <2> QED BY <1>4, <1>5, <1>6, <2>1
<1>11. LinesAt(g, 0 .. y - 1) \in Nat
  <2>1. y - 1 \in Int /\ 0 <= (y - 1) + 1 /\ 0 \in Nat
    BY <1>1
  <2> QED BY <1>1, <2>1, LinesTogether
<1>12. n < y => LinesAt(g, n + 1 .. y - 1) \in Nat
  <2>1. SUFFICES ASSUME n < y PROVE LinesAt(g, n + 1 .. y - 1) \in Nat
    OBVIOUS
  <2>2. n + 1 \in Nat /\ y - 1 \in Int /\ n + 1 <= (y - 1) + 1
    BY <1>1, <2>1
  <2> QED BY <1>1, <2>2, LinesTogether
<1>13. n < z => LinesAt(g, n + 1 .. z - 1) \in Nat
  <2>1. SUFFICES ASSUME n < z PROVE LinesAt(g, n + 1 .. z - 1) \in Nat
    OBVIOUS
  <2>2. n + 1 \in Nat /\ z - 1 \in Int /\ n + 1 <= (z - 1) + 1
    BY <1>1, <2>1
  <2> QED BY <1>1, <2>2, LinesTogether
<1>14. \A a \in Nat, b \in Int :
         a <= b => LinesAt(g, a .. b) = (L + Extra(g, a)) + LinesAt(g, a + 1 .. b)
  BY <1>1, FirstLine
<1>15. \A a \in Nat, b \in Int : b < a => LinesAt(g, a .. b) = 0
  <2>1. \A a \in Nat, b \in Int : b < a => a .. b = {}
    OBVIOUS
  <2> QED BY <1>1, <2>1, NoLines
<1> HIDE DEF n, y, z, L, last
<1>16. LinesToVBlank(g) \in Nat
  <2>1. CASE n < y
    BY <1>9, <1>12, <2>1
  <2>2. CASE ~(n < y) /\ n = z
    BY <1>9, <1>11, <2>2
  <2>3. CASE ~(n < y) /\ n # z
    <3>1. n < z
      BY <1>1, <2>3
    <3> QED BY <1>2, <1>9, <1>11, <1>13, <2>3, <3>1
  <2> QED BY <2>1, <2>2, <2>3
<1>17. CASE n < y
  <2>1. h.line = n + 1 /\ n + 1 \in Nat /\ y - 1 \in Int /\ h.line <= y
    BY <1>1, <1>3, <1>17
  <2>2. CASE h.line = y
    <3>1. LinesAt(g, n + 1 .. y - 1) = 0
      BY <1>1, <1>15, <2>1, <2>2
    <3> QED BY <1>9, <1>16, <1>17, <2>2, <3>1 DEF y
  <2>3. CASE h.line # y
    <3>1. n + 1 <= y - 1 /\ h.line < y /\ h.line # z
      BY <1>1, <2>1, <2>3
    <3>2. LinesAt(g, n + 1 .. y - 1) = (L + Extra(g, n + 1)) + LinesAt(g, (n + 1) + 1 .. y - 1)
      BY <1>14, <2>1, <3>1
    <3>3. LinesToVBlank(h) = LinesAt(g, (n + 1) + 1 .. y - 1) /\ CyclesInLine(h) = L + Extra(g, n + 1)
      BY <1>8, <1>10, <2>1, <3>1
    <3>4. LinesToVBlank(g) = CyclesInLine(h) + LinesToVBlank(h)
      BY <1>9, <1>17, <3>2, <3>3
    <3> QED BY <1>16, <2>3, <3>4 DEF y
  <2> QED BY <2>2, <2>3
<1>18. CASE ~(n < y) /\ n = z
  <2>1. h.line = 0 /\ 0 < y /\ 0 # z /\ 0 \in Nat /\ y - 1 \in Int /\ 0 <= y - 1 /\ h.line # y
    BY <1>1, <1>3, <1>18
  <2>2. LinesAt(g, 0 .. y - 1) = (L + Extra(g, 0)) + LinesAt(g, 0 + 1 .. y - 1)
    BY <1>14, <2>1
  <2>3. LinesToVBlank(h) = LinesAt(g, 0 + 1 .. y - 1) /\ CyclesInLine(h) = L + Extra(g, 0)
    BY <1>8, <1>10, <2>1
  <2>4. LinesToVBlank(g) = LinesAt(g, 0 .. y - 1)
    BY <1>9, <1>11, <1>18
  <2>5. LinesToVBlank(g) = CyclesInLine(h) + LinesToVBlank(h)
    BY <2>2, <2>3, <2>4
  <2> QED BY <1>16, <2>1, <2>5 DEF y
<1>19. CASE ~(n < y) /\ n # z
  <2>1. h.line = n + 1 /\ n < z /\ n + 1 \in Nat /\ z - 1 \in Int /\ ~(h.line < y) /\ h.line # y
    BY <1>1, <1>3, <1>19
  <2>2. LinesToVBlank(g) = LinesAt(g, 0 .. y - 1) + (last + LinesAt(g, n + 1 .. z - 1))
    BY <1>9, <1>19
  <2>3. CASE n + 1 = z
    <3>1. LinesAt(g, n + 1 .. z - 1) = 0
      BY <1>15, <2>1, <2>3
    <3>2. LinesToVBlank(h) = LinesAt(g, 0 .. y - 1) + 0 /\ CyclesInLine(h) = last
      BY <1>8, <1>10, <2>1, <2>3
    <3>3. LinesToVBlank(g) = CyclesInLine(h) + LinesToVBlank(h)
      BY <1>2, <1>11, <2>2, <3>1, <3>2
    <3> QED BY <1>16, <2>1, <3>3 DEF y
  <2>4. CASE n + 1 # z
    <3>1. n + 1 <= z - 1 /\ h.line # z
      BY <1>1, <2>1, <2>4
    <3>2. LinesAt(g, n + 1 .. z - 1) = (L + Extra(g, n + 1)) + LinesAt(g, (n + 1) + 1 .. z - 1)
      BY <1>14, <2>1, <3>1
    <3>3. LinesToVBlank(h) = LinesAt(g, 0 .. y - 1) + (last + LinesAt(g, (n + 1) + 1 .. z - 1))
      BY <1>10, <2>1, <3>1
    <3>4. CyclesInLine(h) = L + Extra(g, n + 1)
      BY <1>8, <2>1, <3>1
    <3>5. LinesAt(g, (n + 1) + 1 .. z - 1) \in Nat
      <4>1. (n + 1) + 1 \in Nat /\ (n + 1) + 1 <= (z - 1) + 1
        BY <1>1, <2>1, <3>1
      <4> QED BY <1>1, <2>1, <4>1, LinesTogether
    <3>6. Extra(g, n + 1) \in Nat
      BY <2>1 DEF Extra
    <3>7. LinesToVBlank(g) = CyclesInLine(h) + LinesToVBlank(h)
      BY <1>2, <1>11, <2>2, <3>2, <3>3, <3>4, <3>5, <3>6
    <3> QED BY <1>16, <2>1, <3>7 DEF y
  <2> QED BY <2>3, <2>4
<1> QED BY <1>17, <1>18, <1>19

\* The distance: at most a frame, and at least a line from Y2 to Y2.
LEMMA DistanceIs ==
  ASSUME NEW g, OnScreen(g), InFrame(g)
  PROVE  /\ Distance(g) \in Nat \ {0}
         /\ g.line = g.y2 => Distance(g) > CyclesPerLine[g.mode]
         /\ Distance(g) <= (LinesPerFrame[g.mode][FALSE] + 1) * (CyclesPerLine[g.mode] + 1)
<1> DEFINE n == g.line
           y == g.y2
           z == LastLine(g)
           L == CyclesPerLine[g.mode]
           last == IF g.interlaced THEN L \div 2 ELSE L
           rest == CyclesInLine(g) - g.line_cycle
           u == L + 1
<1>1. /\ n \in 0 .. z /\ y \in Nat \ {0} /\ z \in Nat /\ y <= z
      /\ g.mode \in VideoModes /\ g.interlaced \in BOOLEAN
  BY OnScreenIs DEF InFrame, RangeValid
<1>2. L \in Nat /\ last \in Nat /\ last <= u
  BY <1>1, ClockRates, FrameIs
<1>3. rest \in Nat \ {0} /\ rest <= u
  <2>1. CyclesInLine(g) \in Nat /\ g.line_cycle \in 0 .. CyclesInLine(g) - 1
    BY OnScreenIs
  <2>2. CyclesInLine(g) <= u
    BY LengthIs
  <2> QED BY <1>2, <2>1, <2>2
<1>4. LinesToVBlank(g) =
        IF n < y THEN LinesAt(g, n + 1 .. y - 1)
        ELSE LinesAt(g, 0 .. y - 1) + (IF n = z THEN 0 ELSE last + LinesAt(g, n + 1 .. z - 1))
  BY Zenon DEF LinesToVBlank
<1>5. LinesToVBlank(g) \in Nat
  BY RestOfFrame
<1>6. \A a \in Nat, b \in Int :
        a <= b + 1 => LinesAt(g, a .. b) \in Nat /\ LinesAt(g, a .. b) <= ((b - a) + 1) * u
  BY <1>1, LinesTogether
<1>7. L <= LinesAt(g, 0 .. y - 1) /\ LinesAt(g, 0 .. y - 1) \in Nat /\ LinesAt(g, 0 .. y - 1) <= y * u
  <2>1. 0 \in Nat /\ y - 1 \in Int /\ 0 <= y - 1 /\ 0 <= (y - 1) + 1 /\ ((y - 1) - 0) + 1 = y
    BY <1>1
  <2>2. LinesAt(g, 0 .. y - 1) = (L + Extra(g, 0)) + LinesAt(g, 0 + 1 .. y - 1)
    BY <1>1, <2>1, FirstLine
  <2>3. 0 + 1 \in Nat /\ 0 + 1 <= (y - 1) + 1
    BY <1>1
  <2>4. LinesAt(g, 0 + 1 .. y - 1) \in Nat
    BY <1>6, <2>1, <2>3
  <2>5. Extra(g, 0) \in Nat
    BY DEF Extra
  <2>6. LinesAt(g, 0 .. y - 1) \in Nat /\ LinesAt(g, 0 .. y - 1) <= (((y - 1) - 0) + 1) * u
    BY <1>6, <2>1
  <2> QED BY <1>2, <2>1, <2>2, <2>4, <2>5, <2>6
<1>8. Distance(g) = rest + LinesToVBlank(g)
  BY DEF Distance
<1> HIDE DEF n, y, z, L, last, rest
<1>9. u \in Nat
  BY <1>2
<1> HIDE DEF u
<1>10. Distance(g) \in Nat \ {0}
  BY <1>3, <1>5, <1>8
<1>11. g.line = g.y2 => Distance(g) > L
  <2>1. SUFFICES ASSUME n = y PROVE Distance(g) > L
    BY DEF n, y
  <2>2. n # z => LinesAt(g, n + 1 .. z - 1) \in Nat
    <3>1. SUFFICES ASSUME n # z PROVE LinesAt(g, n + 1 .. z - 1) \in Nat
      OBVIOUS
    <3>2. n + 1 \in Nat /\ z - 1 \in Int /\ n + 1 <= (z - 1) + 1
      BY <1>1, <3>1
    <3> QED BY <1>6, <3>2
  <2>3. LinesToVBlank(g) >= L
    BY <1>1, <1>2, <1>4, <1>7, <2>1, <2>2
  <2> QED BY <1>2, <1>3, <1>5, <1>8, <2>3
<1>12. LinesToVBlank(g) <= z * u
  <2>1. CASE n < y
    <3>1. n + 1 \in Nat /\ y - 1 \in Int /\ n + 1 <= (y - 1) + 1 /\ ((y - 1) - (n + 1)) + 1 <= z
          /\ ((y - 1) - (n + 1)) + 1 \in Nat
      BY <1>1, <2>1
    <3>2. LinesAt(g, n + 1 .. y - 1) <= (((y - 1) - (n + 1)) + 1) * u
      BY <1>6, <3>1
    <3> DEFINE m == ((y - 1) - (n + 1)) + 1
    <3>3. m \in Nat /\ m <= z
      BY <3>1
    <3> HIDE DEF m
    <3>4. m * u <= z * u /\ m * u \in Nat /\ z * u \in Nat
      BY <1>1, <1>9, <3>3
    <3>5. LinesAt(g, n + 1 .. y - 1) <= m * u
      BY <3>2 DEF m
    <3>6. LinesToVBlank(g) = LinesAt(g, n + 1 .. y - 1)
      BY <1>4, <2>1
    <3> QED BY <1>5, <3>4, <3>5, <3>6
  <2>2. CASE ~(n < y) /\ n = z
    <3>1. y * u <= z * u /\ y * u \in Nat /\ z * u \in Nat
      BY <1>1, <1>9
    <3> QED BY <1>4, <1>5, <1>7, <2>2, <3>1
  <2>3. CASE ~(n < y) /\ n # z
    <3> DEFINE m == ((z - 1) - (n + 1)) + 1
    <3>1. n + 1 \in Nat /\ z - 1 \in Int /\ n + 1 <= (z - 1) + 1
      BY <1>1, <2>3
    <3>2. LinesAt(g, n + 1 .. z - 1) <= m * u /\ LinesAt(g, n + 1 .. z - 1) \in Nat
      BY <1>6, <3>1
    <3>3. m \in Nat /\ (y + m) + 1 <= z
      BY <1>1, <2>3
    <3> HIDE DEF m
    <3>4. ((y + m) + 1) * u <= z * u
      BY <1>1, <1>9, <3>3
    <3>5. ((y + m) + 1) * u = ((y * u) + (m * u)) + u
      BY <1>1, <1>9, <3>3
    <3>6. y * u \in Nat /\ m * u \in Nat /\ z * u \in Nat
      BY <1>1, <1>9, <3>3
    <3>7. LinesToVBlank(g) = LinesAt(g, 0 .. y - 1) + (last + LinesAt(g, n + 1 .. z - 1))
      BY <1>4, <2>3
    <3> QED BY <1>2, <1>7, <1>9, <3>2, <3>4, <3>5, <3>6, <3>7
  <2> QED BY <2>1, <2>2, <2>3
<1>13. Distance(g) <= (LinesPerFrame[g.mode][FALSE] + 1) * u
  <2> DEFINE a == LinesPerFrame[g.mode][TRUE]
             b == LinesPerFrame[g.mode][FALSE]
             f == b + 1
  <2>1. f \in Nat /\ z + 1 <= f
    <3>1. a <= b
      BY <1>1, FrameIs
    <3>2. a \in Nat /\ b \in Nat
      BY <1>1, ClockRates
    <3>3. z = LinesPerFrame[g.mode][g.interlaced] - 1
      BY DEF z, LastLine
    <3>4. g.interlaced = TRUE \/ g.interlaced = FALSE
      BY <1>1
    <3>5. z = a - 1 \/ z = b - 1
      BY <3>3, <3>4, Zenon
    <3> HIDE DEF a, b
    <3> QED BY <1>1, <3>1, <3>2, <3>5
  <2> HIDE DEF f, b
  <2>2. (z + 1) * u <= f * u /\ (z + 1) * u = (z * u) + u /\ z * u \in Nat /\ f * u \in Nat
    BY <1>1, <1>9, <2>1
  <2>3. Distance(g) <= f * u
    BY <1>3, <1>5, <1>8, <1>9, <1>12, <2>2
  <2> QED BY <2>3 DEF f, b
<1> QED BY <1>10, <1>11, <1>13 DEF L, u

\* One GPU cycle.
LEMMA DistanceStep ==
  ASSUME NEW g, OnScreen(g), InFrame(g), NEW h, h = BeamOne(g)
  PROVE  /\ OnScreen(h) /\ SameFrame(g, h) /\ InFrame(h)
         /\ Distance(g) = 1 => h.line = g.y2 /\ h.line_cycle = 0
         /\ Distance(g) # 1 => Distance(h) = Distance(g) - 1 /\ (h.line = g.y2 => g.line = g.y2)
<1>1. /\ CyclesInLine(g) \in Nat \ {0} /\ g.line_cycle \in 0 .. CyclesInLine(g) - 1
      /\ HasGpuNames(g) /\ Framed(g) /\ g.line \in Nat
  <2>1. LastLine(g) \in Nat /\ g.line \in 0 .. LastLine(g)
    BY OnScreenIs
  <2> QED BY <2>1, OnScreenIs
<1>2. LinesToVBlank(g) \in Nat
  BY RestOfFrame
<1>3. ASSUME OnScreen(h), SameFrame(g, h) PROVE InFrame(h)
  <2>1. LastLine(h) = LastLine(g)
    BY <1>3, SameLines
  <2> QED BY <1>3, <2>1 DEF InFrame, RangeValid, SameFrame
<1>4. CASE g.line_cycle + 1 = CyclesInLine(g)
  <2>1. h = NextLine(g)
    BY <1>4 DEF BeamOne
  <2>2. OnScreen(h) /\ SameFrame(g, h) /\ h.line_cycle = 0
    BY <1>1, <2>1, NextLineStays, NextLineFields
  <2>3. Distance(g) = 1 + LinesToVBlank(g)
    BY <1>1, <1>4 DEF Distance
  <2>4. CyclesInLine(h) \in Nat \ {0}
    BY <2>2, OnScreenIs
  <2>5. Distance(h) = CyclesInLine(h) + LinesToVBlank(h)
    BY <2>2, <2>4 DEF Distance
  <2>6. LinesToVBlank(h) \in Nat
    BY <1>3, <2>2, RestOfFrame
  <2>7. \/ h.line = g.y2 /\ LinesToVBlank(g) = 0
        \/ h.line # g.y2 /\ LinesToVBlank(g) = CyclesInLine(h) + LinesToVBlank(h)
    BY <2>1, RestOfFrame
  <2> QED BY <1>2, <1>3, <2>2, <2>3, <2>4, <2>5, <2>6, <2>7
<1>5. CASE g.line_cycle + 1 # CyclesInLine(g)
  <2>1. h = At(g, g.line_cycle + 1) /\ g.line_cycle + 1 \in 0 .. CyclesInLine(g) - 1
    BY <1>1, <1>5 DEF BeamOne, At
  <2>2. OnScreen(h) /\ SameFrame(g, h) /\ h.line_cycle = g.line_cycle + 1 /\ h.line = g.line
    BY <1>1, <2>1, AtStays, AtFields
  <2>3. LastLine(h) = LastLine(g) /\ CyclesInLine(h) = CyclesInLine(g)
    BY <2>2, SameLines
  <2>4. LinesToVBlank(h) = LinesToVBlank(g)
    <3>1. h.mode = g.mode /\ h.interlaced = g.interlaced /\ h.y2 = g.y2
      BY <2>2 DEF SameFrame
    <3>2. \A S : LinesAt(h, S) = LinesAt(g, S)
      BY <3>1, Zenon DEF LinesAt
    <3> QED BY <2>2, <2>3, <3>1, <3>2, Zenon DEF LinesToVBlank
  <2>5. Distance(h) = Distance(g) - 1 /\ Distance(g) # 1
    BY <1>1, <1>2, <2>1, <2>2, <2>3, <2>4 DEF Distance
  <2> QED BY <1>3, <2>2, <2>5
<1> QED BY <1>4, <1>5

\* Until it arrives, the beam is on Y2 only if it has been there from the start.
OnY2(g, n) == BeamSteps(g, n).line = g.y2

LEMMA Approach ==
  ASSUME NEW g, OnScreen(g), InFrame(g)
  PROVE  \A n \in Nat : n < Distance(g) =>
           /\ InFrame(BeamSteps(g, n)) /\ Distance(BeamSteps(g, n)) = Distance(g) - n
           /\ OnY2(g, n) => \A k \in 0 .. n : OnY2(g, k)
<1> DEFINE D == Distance(g)
           Good(n) == /\ InFrame(BeamSteps(g, n)) /\ Distance(BeamSteps(g, n)) = D - n
                      /\ OnY2(g, n) => \A k \in 0 .. n : OnY2(g, k)
           S == {n \in Nat : n < D => Good(n)}
<1>0. D \in Nat \ {0}
  BY DistanceIs
<1>1. 0 \in S
  <2>1. BeamSteps(g, 0) = g
    BY BeamGoesOn
  <2>2. \A k \in 0 .. 0 : k = 0
    OBVIOUS
  <2>3. D = D - 0
    BY <1>0
  <2>4. Good(0)
    BY <2>1, <2>2, <2>3
  <2> QED BY <2>4
<1>2. ASSUME NEW n \in Nat, n \in S PROVE n + 1 \in S
  <2>1. SUFFICES ASSUME n + 1 < D PROVE Good(n + 1)
    OBVIOUS
  <2> DEFINE h == BeamSteps(g, n)
             p == BeamSteps(g, n + 1)
  <2>2. Good(n) /\ n < D
    BY <1>0, <1>2, <2>1
  <2>3. OnScreen(h) /\ SameFrame(g, h)
    BY BeamStays
  <2>4. p = BeamOne(h)
    BY BeamGoesOn
  <2>5. InFrame(h) /\ Distance(h) = D - n /\ (h.line = g.y2 => \A k \in 0 .. n : OnY2(g, k))
    BY <2>2 DEF OnY2
  <2>6. h.y2 = g.y2
    BY <2>3 DEF SameFrame
  <2>7. Distance(h) # 1
    BY <1>0, <2>1, <2>5
  <2> HIDE DEF h, p
  <2>8. InFrame(p) /\ Distance(p) = Distance(h) - 1 /\ (p.line = h.y2 => h.line = h.y2)
    BY <2>3, <2>4, <2>5, <2>7, DistanceStep
  <2>9. Distance(p) = D - (n + 1)
    BY <1>0, <2>5, <2>8
  <2>10. ASSUME OnY2(g, n + 1) PROVE \A k \in 0 .. n + 1 : OnY2(g, k)
    <3>1. p.line = g.y2
      BY <2>10 DEF OnY2, p
    <3>2. \A k \in 0 .. n : OnY2(g, k)
      BY <2>5, <2>6, <2>8, <3>1
    <3>3. \A k \in 0 .. n + 1 : k \in 0 .. n \/ k = n + 1
      OBVIOUS
    <3> QED BY <2>10, <3>2, <3>3
  <2> QED BY <2>8, <2>9, <2>10 DEF p
<1>3. \A n \in Nat : n \in S
  <2> HIDE DEF S
  <2> QED BY <1>1, <1>2, OneMore
<1> QED BY <1>3

\* It arrives at the start of Y2, and stays on it to its end.
LEMMA Arrival ==
  ASSUME NEW g, OnScreen(g), InFrame(g), NEW k \in Nat, k < CyclesPerLine[g.mode] \div 2,
         NEW n, n = Distance(g) + k
  PROVE  OnY2(g, n) /\ BeamSteps(g, n).line_cycle = k
<1> DEFINE D == Distance(g)
           before == BeamSteps(g, D - 1)
           there == BeamSteps(g, D)
<1>1. D \in Nat \ {0} /\ D - 1 \in Nat /\ D - 1 < D /\ (D - 1) + 1 = D
  <2>1. D \in Nat \ {0}
    BY DistanceIs
  <2> HIDE DEF D
  <2> QED BY <2>1
<1>2. InFrame(before) /\ Distance(before) = D - (D - 1)
  BY <1>1, Approach
<1>3. OnScreen(before) /\ SameFrame(g, before) /\ OnScreen(there) /\ SameFrame(g, there)
  BY <1>1, BeamStays
<1>4. there = BeamOne(before)
  BY <1>1, BeamGoesOn
<1> HIDE DEF before
<1>5. there.line = g.y2 /\ there.line_cycle = 0
  <2>1. Distance(before) = 1 /\ before.y2 = g.y2
    BY <1>1, <1>2, <1>3 DEF SameFrame
  <2> HIDE DEF there
  <2> QED BY <1>2, <1>3, <1>4, <2>1, DistanceStep
<1>6. BeamSteps(g, n) = BeamSteps(there, k)
  BY <1>1, BeamAdds
<1> HIDE DEF there
<1>7. /\ CyclesInLine(there) \in Nat /\ k < CyclesInLine(there)
      /\ k \in 0 .. CyclesInLine(there) - there.line_cycle
  <2>1. CyclesPerLine[g.mode] \div 2 <= CyclesInLine(there) /\ CyclesInLine(there) \in Nat
    <3>1. there.mode = g.mode
      BY <1>3 DEF SameFrame
    <3> QED BY <1>3, <3>1, LengthIs, OnScreenIs
  <2>2. CyclesPerLine[g.mode] \div 2 \in Nat
    BY OnScreenIs, FrameIs
  <2> QED BY <1>5, <2>1, <2>2
<1>8. BeamSteps(there, k) = At(there, k)
  <2>1. BeamSteps(there, k) = Within(there, k)
    BY <1>3, <1>7, WithinLine
  <2>2. there.line_cycle + k = k /\ k # CyclesInLine(there)
    BY <1>5, <1>7
  <2> QED BY <2>1, <2>2 DEF Within
<1>9. BeamSteps(there, k).line = there.line /\ BeamSteps(there, k).line_cycle = k
  BY <1>3, <1>8, OnScreenIs, AtFields
<1> QED BY <1>5, <1>6, <1>9 DEF OnY2

\* It is not on Y2 shortly before.
LEMMA NotYet ==
  ASSUME NEW g, OnScreen(g), InFrame(g), NEW n \in Nat, n < Distance(g),
         Distance(g) - n <= CyclesPerLine[g.mode]
  PROVE  ~OnY2(g, n)
<1> DEFINE h == BeamSteps(g, n)
<1>1. InFrame(h) /\ Distance(h) = Distance(g) - n
  BY Approach
<1>2. OnScreen(h) /\ h.mode = g.mode /\ h.y2 = g.y2
  BY BeamStays DEF SameFrame
<1>3. h.line = h.y2 => Distance(h) > CyclesPerLine[h.mode]
  BY <1>1, <1>2, DistanceIs
<1>4. CyclesPerLine[g.mode] \in Nat /\ Distance(g) \in Nat
  BY OnScreenIs, ClockRates, DistanceIs
<1> HIDE DEF h
<1> QED BY <1>1, <1>2, <1>3, <1>4 DEF OnY2, h

-----------------------------------------------------------------------------
\* CPU cycles until the start of Y2: what is ahead of them, and what n of them cover.
Ahead(g) == (Distance(g) * CpuClock) - g.product
Taken(g, n) == n * GpuClock[g.mode]

LEMMA Cancel ==
  ASSUME NEW P \in Nat \ {0}, NEW a \in Int, NEW b \in Int
  PROVE  /\ P * a < P * b => a < b
         /\ P * a <= P * b => a <= b
         /\ a < b => (P * a) + P <= P * b
<1>1. ASSUME b <= a PROVE P * b <= P * a
  BY <1>1
<1>2. ASSUME a < b PROVE (P * a) + P <= P * b
  <2>1. P * (a + 1) <= P * b
    BY <1>2
  <2>2. P * (a + 1) = (P * a) + P
    OBVIOUS
  <2> QED BY <2>1, <2>2
<1>3. P * a \in Int /\ P * b \in Int
  OBVIOUS
<1> QED BY <1>1, <1>2, <1>3

LEMMA RemainderIs ==
  ASSUME NEW g, OnScreen(g), NEW n \in Nat
  PROVE  /\ GpuElapsed(g, n) \in Nat /\ Taken(g, n) \in Nat
         /\ BeamAfter(g, n).product = (g.product + Taken(g, n)) - (CpuClock * GpuElapsed(g, n))
         /\ BeamAfter(g, n).product \in 0 .. CpuClock - 1
<1> DEFINE A == Due(g, n)
           r == A % CpuClock
           p == g.product
           C == CpuClock
           e == GpuElapsed(g, n)
           c == Taken(g, n)
<1>1. p \in 0 .. C - 1 /\ C \in Nat \ {0} /\ c \in Nat
  <2>1. g.mode \in VideoModes /\ p \in 0 .. C - 1
    BY OnScreenIs
  <2>2. C \in Nat \ {0} /\ GpuClock[g.mode] \in Nat
    BY <2>1, ClockRates
  <2> QED BY <2>1, <2>2 DEF Taken
<1>2. e \in Nat /\ A \in Nat /\ e = A \div C /\ r \in 0 .. C - 1
  BY ChargedIs
<1>3. A = p + c
  BY DEF Due, Taken
<1>4. A = (C * e) + r
  BY <1>1, <1>2, <1>3, Division
<1>5. BeamAfter(g, n).product = r
  <2>1. HasGpuNames(BeamSteps(g, e))
    BY <1>2, BeamStays, OnScreenIs
  <2>2. BeamAfter(g, n) = WithProduct(BeamSteps(g, e), r)
    BY BeamAfterStays
  <2> HIDE DEF r
  <2> QED BY <2>1, <2>2, WithProductFields
<1> DEFINE ce == C * e
<1> HIDE DEF A, C, p, r, e, c
<1>6. ce \in Nat /\ A = ce + r
  BY <1>1, <1>2, <1>4
<1> HIDE DEF ce
<1>7. r = (p + c) - ce
  BY <1>1, <1>2, <1>3, <1>6 DEF C
<1>8. BeamAfter(g, n).product = (p + c) - (C * e)
  BY <1>5, <1>7, Zenon DEF ce
<1>9. BeamAfter(g, n).product \in 0 .. C - 1
  BY <1>2, <1>5, Zenon
<1> QED BY <1>1, <1>2, <1>8, <1>9 DEF e, c, C, p

LEMMA Covered ==
  ASSUME NEW g, OnScreen(g), InFrame(g), NEW n \in Nat
  PROVE  /\ Ahead(g) \in Nat \ {0} /\ Distance(g) \in Nat \ {0}
         /\ CpuClock * Distance(g) = Ahead(g) + g.product
         /\ (GpuElapsed(g, n) < Distance(g)) = (Taken(g, n) < Ahead(g))
         /\ CpuClock * (Distance(g) - GpuElapsed(g, n))
              = (Ahead(g) - Taken(g, n)) + BeamAfter(g, n).product
<1> DEFINE p == g.product
           G == GpuClock[g.mode]
           C == CpuClock
           c == Taken(g, n)
           e == GpuElapsed(g, n)
           A == Ahead(g)
           D == Distance(g)
           r == BeamAfter(g, n).product
<1>1. p \in 0 .. C - 1 /\ C \in Nat \ {0}
  BY OnScreenIs, ClockRates
<1>2. D \in Nat \ {0}
  BY DistanceIs
<1>3. e \in Nat /\ c \in Nat /\ r \in 0 .. C - 1 /\ r = (p + c) - (C * e)
  BY RemainderIs
<1> HIDE DEF c, e, r, D
<1>4. A = (C * D) - p /\ C * D \in Nat /\ C * D >= C
  <2>1. D * C = C * D /\ C * D \in Nat /\ C * D >= C
    BY <1>1, <1>2
  <2> QED BY <2>1 DEF Ahead, D
<1>5. C * e \in Nat /\ C * (D - e) = (C * D) - (C * e)
  BY <1>1, <1>2, <1>3
<1>6. e < D => (C * e) + C <= C * D
  BY <1>1, <1>2, <1>3, Cancel
<1>7. C * e < C * D => e < D
  BY <1>1, <1>2, <1>3, Cancel
<1> DEFINE ce == C * e
           cd == C * D
           cde == C * (D - e)
<1>8. /\ A = cd - p /\ cd \in Nat /\ cd >= C /\ ce \in Nat /\ cde = cd - ce
      /\ r = (p + c) - ce
      /\ e < D => ce + C <= cd
      /\ ce < cd => e < D
  BY <1>3, <1>4, <1>5, <1>6, <1>7
<1> HIDE DEF ce, cd, cde, p, C, A
<1>9. A \in Nat \ {0} /\ cd = A + p
  BY <1>1, <1>8 DEF C
<1>10. e < D => c < A
  BY <1>1, <1>3, <1>8, <1>9 DEF C
<1>11. c < A => e < D
  BY <1>1, <1>3, <1>8, <1>9 DEF C
<1>12. cde = (A - c) + r
  BY <1>1, <1>3, <1>8, <1>9 DEF C
<1>13. C * D = A + p /\ C * (D - e) = (A - c) + r
  BY <1>9, <1>12 DEF cd, cde
<1>14. (e < D) = (c < A)
  BY <1>10, <1>11
<1> QED BY <1>2, <1>9, <1>13, <1>14 DEF C, D, e, A, c, r, p

\* The beam after n CPU cycles, but for the remainder.
LEMMA BeamAfterIs ==
  ASSUME NEW g, OnScreen(g), NEW n \in Nat, NEW b, b = BeamAfter(g, n)
  PROVE  /\ OnScreen(b) /\ OnScreen(BeamSteps(g, GpuElapsed(g, n)))
         /\ b.line = BeamSteps(g, GpuElapsed(g, n)).line
         /\ b.line_cycle = BeamSteps(g, GpuElapsed(g, n)).line_cycle
         /\ b.mode = g.mode /\ b.interlaced = g.interlaced
         /\ b.y1 = g.y1 /\ b.y2 = g.y2
         /\ LastLine(b) = LastLine(g)
         /\ InFrame(g) <=> InFrame(b)
         /\ Distance(b) = Distance(BeamSteps(g, GpuElapsed(g, n)))
<1> DEFINE r == Due(g, n) % CpuClock
           s == BeamSteps(g, GpuElapsed(g, n))
<1>1. OnScreen(s) /\ SameFrame(g, s) /\ HasGpuNames(s)
  BY ChargedIs, BeamStays, OnScreenIs
<1>2. b = WithProduct(s, r) /\ OnScreen(b)
  BY BeamAfterStays
<1> HIDE DEF r, s
<1>3. /\ b.line = s.line /\ b.line_cycle = s.line_cycle
      /\ b.mode = s.mode /\ b.interlaced = s.interlaced /\ b.y1 = s.y1 /\ b.y2 = s.y2
  BY <1>1, <1>2, WithProductFields
<1>4. LastLine(b) = LastLine(s)
  BY <1>3 DEF LastLine
<1>5. CyclesInLine(b) = CyclesInLine(s)
  BY <1>3, <1>4 DEF CyclesInLine
<1>6. \A S : LinesAt(b, S) = LinesAt(s, S)
  BY <1>3, Zenon DEF LinesAt
<1>7. LinesToVBlank(b) = LinesToVBlank(s)
  BY <1>3, <1>4, <1>6, Zenon DEF LinesToVBlank
<1>8. Distance(b) = Distance(s)
  BY <1>3, <1>5, <1>7, Zenon DEF Distance
<1>9. b.mode = g.mode /\ b.interlaced = g.interlaced /\ b.y1 = g.y1 /\ b.y2 = g.y2
  BY <1>1, <1>3 DEF SameFrame
<1>10. LastLine(b) = LastLine(g)
  BY <1>9 DEF LastLine
<1>11. InFrame(g) <=> InFrame(b)
  BY <1>9, <1>10, Zenon DEF InFrame, RangeValid
<1> QED BY <1>1, <1>2, <1>3, <1>8, <1>9, <1>10, <1>11 DEF s

\* The steps of n CPU cycles, and of one.
LEMMA GoesBy ==
  ASSUME NEW g, OnScreen(g), InFrame(g), NEW n \in Nat \ {0}, NEW k, k = n - 1
  PROVE  /\ GpuElapsed(g, k) \in Nat /\ GpuElapsed(g, k) <= GpuElapsed(g, n)
         /\ CpuClock * (GpuElapsed(g, n) - GpuElapsed(g, k)) < GpuClock[g.mode] + CpuClock
<1> DEFINE p == g.product
           G == GpuClock[g.mode]
           C == CpuClock
           e == GpuElapsed(g, n)
           d == GpuElapsed(g, k)
           c == Taken(g, n)
           b == Taken(g, k)
           q == BeamAfter(g, n).product
           r == BeamAfter(g, k).product
<1>0. k \in Nat /\ C \in Nat \ {0} /\ G \in Nat /\ p \in 0 .. C - 1
  BY OnScreenIs, ClockRates
<1>1. e \in Nat /\ c \in Nat /\ q = (p + c) - (C * e) /\ q \in 0 .. C - 1
  BY RemainderIs
<1>2. d \in Nat /\ b \in Nat /\ r = (p + b) - (C * d) /\ r \in 0 .. C - 1
  BY <1>0, RemainderIs
<1>3. c = b + G
  BY <1>0 DEF Taken
<1> HIDE DEF e, d, c, b, q, r, G, p
<1>4. C * e \in Nat /\ C * d \in Nat /\ C * (e - d) = (C * e) - (C * d)
  BY <1>0, <1>1, <1>2
<1> DEFINE ce == C * e
           cd == C * d
<1> HIDE DEF ce, cd
<1>5. ce - cd = (G + r) - q /\ ce \in Nat /\ cd \in Nat
  <2>1. q = (p + c) - ce /\ r = (p + b) - cd /\ ce \in Nat /\ cd \in Nat
    BY <1>1, <1>2, <1>4 DEF ce, cd
  <2> HIDE DEF C
  <2> QED BY <1>0, <1>1, <1>2, <1>3, <2>1 DEF C
<1>6. ce - cd < G + C /\ cd < ce + C
  BY <1>0, <1>1, <1>2, <1>5
<1>7. d <= e
  <2>1. e < d => ce + C <= cd
    BY <1>0, <1>1, <1>2, Cancel DEF ce, cd
  <2> QED BY <1>0, <1>1, <1>2, <1>5, <1>6, <2>1
<1>8. C * (e - d) < G + C
  BY <1>4, <1>6 DEF ce, cd
<1> QED BY <1>2, <1>7, <1>8 DEF e, d, G, C

\* The event waited for: it comes with the start of Y2, or a CPU cycle after it.
Awaited(g, v) ==
  /\ v \in Nat
  /\ Ahead(g) < v * GpuClock[g.mode]
  /\ (v - 1) * GpuClock[g.mode] <= (Ahead(g) + CpuClock) - 1
Arrived(g, v) == g.line = g.y2 /\ (v = 0 \/ (v = 1 /\ g.line_cycle = 0))

LEMMA ScheduledIsAwaited ==
  ASSUME NEW g, OnScreen(g), InFrame(g)
  PROVE  Awaited(g, NextVBlank(g))
<1> DEFINE G == GpuClock[g.mode]
           C == CpuClock
           D == Distance(g)
           m == D * C
           v == NextVBlank(g)
<1>1. G \in Nat \ {0} /\ C \in Nat \ {0} /\ g.product \in 0 .. C - 1 /\ D \in Nat
  BY OnScreenIs, ClockRates, DistanceIs
<1>2. m \in Nat
  BY <1>1
<1>3. v = (m \div G) + 1
  BY DEF NextVBlank, InFrame, GpuToCpu, Distance
<1>4. m \div G \in Nat /\ m % G \in 0 .. G - 1 /\ m = (G * (m \div G)) + (m % G)
  BY <1>1, <1>2, Division
<1>5. Ahead(g) = m - g.product
  BY DEF Ahead
<1> DEFINE q == m \div G
           r == m % G
<1> HIDE DEF G, C, D, v, q, r, m
<1>6. q \in Nat /\ r \in 0 .. G - 1 /\ m = (G * q) + r /\ v = q + 1
  BY <1>3, <1>4 DEF q, r
<1>7. v * G = (G * q) + G /\ (v - 1) * G = G * q /\ G * q \in Nat
  BY <1>1, <1>6
<1> DEFINE gq == G * q
           vg == v * G
           wg == (v - 1) * G
<1>8. vg = gq + G /\ wg = gq /\ gq \in Nat /\ m = gq + r
  BY <1>6, <1>7
<1> HIDE DEF gq, vg, wg
<1>9. Ahead(g) < vg /\ wg <= (Ahead(g) + C) - 1
  BY <1>1, <1>5, <1>6, <1>8
<1>10. v \in Nat
  BY <1>6
<1> QED BY <1>9, <1>10 DEF Awaited, vg, wg, v, G, C

\* n CPU cycles bring the event nearer by n, and when they bring the beam to Y2, it is due at
\* once or, if the beam is only just there, a cycle later.
LEMMA AwaitedGoesOn ==
  ASSUME NEW g, OnScreen(g), InFrame(g), NEW n \in 1 .. MaxAdvance, NEW v, v # 0,
         Awaited(g, v) \/ Arrived(g, v), NEW h, h = BeamAfter(g, n)
  PROVE  Awaited(h, Sooner(v, n)) \/ Arrived(h, Sooner(v, n))
<1> DEFINE G == GpuClock[g.mode]
           C == CpuClock
           D == Distance(g)
           A == Ahead(g)
           e == GpuElapsed(g, n)
           c == Taken(g, n)
           p == h.product
           half == CyclesPerLine[g.mode] \div 2
<1>0. n \in Nat \ {0} /\ n <= MaxAdvance
  BY FrameIs
<1>1. /\ e \in Nat /\ c \in Nat /\ A \in Nat \ {0} /\ D \in Nat \ {0}
      /\ h.line = BeamSteps(g, e).line /\ h.line_cycle = BeamSteps(g, e).line_cycle
      /\ p = (g.product + c) - (C * e) /\ p \in 0 .. C - 1
      /\ C * D = A + g.product
      /\ (e < D) = (c < A)
      /\ C * (D - e) = (A - c) + p
  <2>1. e \in Nat /\ c \in Nat /\ p = (g.product + c) - (C * e) /\ p \in 0 .. C - 1
    BY <1>0, RemainderIs
  <2>2. h.line = BeamSteps(g, e).line /\ h.line_cycle = BeamSteps(g, e).line_cycle
    BY <1>0, BeamAfterIs
  <2>3. /\ A \in Nat \ {0} /\ D \in Nat \ {0}
        /\ C * D = A + g.product /\ (e < D) = (c < A) /\ C * (D - e) = (A - c) + p
    BY <1>0, Covered
  <2> QED BY <2>1, <2>2, <2>3
<1>2. G \in Nat \ {0} /\ C \in Nat \ {0} /\ C <= G /\ g.product \in 0 .. C - 1 /\ half \in Nat
      /\ (MaxAdvance * G) + C <= C * half
  BY OnScreenIs, ClockRates, FrameIs
<1>3. /\ OnScreen(h) /\ InFrame(h) /\ h.mode = g.mode /\ h.y2 = g.y2
      /\ Distance(h) = Distance(BeamSteps(g, e))
  BY <1>0, BeamAfterIs
<1>6. v \in Nat /\ Sooner(v, n) = IF v < n THEN 0 ELSE v - n
  <2>1. v \in Nat
    BY DEF Awaited, Arrived
  <2>2. v # NoEvent
    BY <2>1, TimersAreValid DEF ClockAssumption
  <2> QED BY <2>1, <2>2 DEF Sooner
<1>7. c + C <= C * half
  <2>1. c <= MaxAdvance * G /\ MaxAdvance * G \in Nat /\ C * half \in Nat
    BY <1>0, <1>2, FrameIs DEF Taken
  <2> DEFINE a == MaxAdvance * G
             b == C * half
  <2>2. c <= a /\ a \in Nat /\ b \in Nat /\ a + C <= b
    BY <1>2, <2>1
  <2> HIDE DEF a, b, c
  <2>3. c + C <= b
    BY <1>1, <1>2, <2>2
  <2> QED BY <2>3 DEF b
<1> HIDE DEF G, C, D, A, e, c, p, half
<1>8. CASE Awaited(g, v)
  <2>1. A < v * G /\ (v - 1) * G <= (A + C) - 1
    BY <1>8 DEF Awaited, A, G, C
  <2>2. v * G \in Nat /\ (v - 1) * G = (v * G) - G
    BY <1>2, <1>6
  <2> DEFINE vg == v * G
  <2>3. vg \in Nat /\ A < vg /\ vg - G <= (A + C) - 1
    BY <2>1, <2>2
  <2>4. CASE c < A
    <3>1. e < D
      BY <1>1, <2>4
    <3>2. D = Distance(g) /\ OnScreen(BeamSteps(g, e)) /\ Distance(BeamSteps(g, e)) = D - e
      BY <1>1, <3>1, Approach, BeamStays DEF D
    <3>3. Distance(h) = D - e
      BY <1>3, <3>2
    <3>4. Ahead(h) = A - c
      <4>1. Ahead(h) = ((D - e) * C) - p
        BY <3>3 DEF Ahead, C, p
      <4>2. (D - e) * C = C * (D - e)
        BY <1>1, <1>2
      <4> QED BY <1>1, <1>2, <4>1, <4>2
    <3>5. n < v
      <4>1. n * G < v * G
        BY <1>1, <2>3, <2>4 DEF c, Taken, G
      <4>2. G * n < G * v
        BY <1>0, <1>2, <1>6, <4>1
      <4> QED BY <1>0, <1>2, <1>6, <4>2, Cancel
    <3>6. Sooner(v, n) = v - n /\ v - n \in Nat
      BY <1>0, <1>6, <3>5
    <3>7. (v - n) * G = vg - c /\ ((v - n) - 1) * G = (vg - c) - G
      BY <1>0, <1>2, <1>6 DEF c, Taken, G
    <3> HIDE DEF vg
    <3>8. A - c < vg - c /\ (vg - c) - G <= ((A - c) + C) - 1
      BY <1>1, <1>2, <2>3
    <3>9. Awaited(h, v - n)
      BY <1>3, <3>4, <3>6, <3>7, <3>8 DEF Awaited, G, C
    <3> QED BY <3>6, <3>9
  <2>5. CASE ~(c < A)
    <3>1. D <= e
      BY <1>1, <2>5
    <3> DEFINE k == e - D
    <3>2. k \in Nat /\ e = D + k
      BY <1>1, <3>1
    <3>3. C * k = (c - A) - p /\ C * k = (C * e) - (C * D)
      <4>1. C * k = 0 - (C * (D - e)) /\ C * k = (C * e) - (C * D)
        BY <1>1, <1>2
      <4> HIDE DEF k
      <4> QED BY <1>1, <1>2, <4>1
    <3> HIDE DEF k
    <3>4. k < half
      <4>1. C * k < C * half
        <5> DEFINE a == C * k
                   b == C * half
        <5>1. a = (c - A) - p /\ c + C <= b /\ b \in Int
          BY <1>2, <1>7, <3>3
        <5> HIDE DEF a, b
        <5>2. a < b
          BY <1>1, <1>2, <5>1
        <5> QED BY <5>2 DEF a, b
      <4> QED BY <1>2, <3>2, <4>1, Cancel
    <3>5. OnY2(g, e) /\ BeamSteps(g, e).line_cycle = k
      BY <3>2, <3>4, Arrival DEF half, D
    <3>6. h.line = h.y2 /\ h.line_cycle = k
      BY <1>1, <1>3, <3>5 DEF OnY2
    <3>7. v <= n + 1
      <4>1. (v - 1) * G < (n + 1) * G
        <5>1. (n + 1) * G = c + G
          BY <1>0, <1>2 DEF c, Taken, G
        <5>2. (v - 1) * G = vg - G
          BY <2>2
        <5> HIDE DEF vg
        <5> QED BY <1>1, <1>2, <2>3, <2>5, <5>1, <5>2
      <4>2. G * (v - 1) < G * (n + 1)
        BY <1>0, <1>2, <1>6, <4>1
      <4>3. v - 1 < n + 1
        BY <1>0, <1>2, <1>6, <4>2, Cancel
      <4> QED BY <1>0, <1>6, <4>3
    <3>8. v = n + 1 => k = 0
      <4>1. SUFFICES ASSUME v = n + 1 PROVE k = 0
        OBVIOUS
      <4>2. vg = c + G
        BY <1>0, <1>2, <4>1 DEF c, Taken, G
      <4> HIDE DEF vg
      <4>3. c <= (A + C) - 1
        BY <1>1, <1>2, <2>3, <4>2
      <4>4. C * k < C * 1
        <5> DEFINE a == C * k
        <5>1. a = (c - A) - p
          BY <3>3
        <5> HIDE DEF a
        <5>2. a < C
          BY <1>1, <1>2, <4>3, <5>1
        <5> QED BY <1>2, <5>2 DEF a
      <4>5. k < 1
        BY <1>2, <3>2, <4>4, Cancel
      <4> QED BY <3>2, <4>5
    <3>9. Sooner(v, n) = 0 \/ (Sooner(v, n) = 1 /\ k = 0)
      BY <1>0, <1>6, <3>7, <3>8
    <3> QED BY <3>6, <3>9 DEF Arrived
  <2> QED BY <2>4, <2>5
<1>9. CASE Arrived(g, v)
  <2>1. v = 1 /\ g.line = g.y2 /\ g.line_cycle = 0
    BY <1>9 DEF Arrived
  <2>2. Sooner(v, n) = 0
    BY <1>0, <1>6, <2>1
  <2>3. e < half
    <3>1. C * e < C * half
      <4> DEFINE a == C * e
                 b == C * half
      <4>1. p = (g.product + c) - a /\ a \in Int /\ b \in Int /\ c + C <= b
        BY <1>1, <1>2, <1>7
      <4> HIDE DEF a, b
      <4>2. a < b
        BY <1>1, <1>2, <4>1
      <4> QED BY <4>2 DEF a, b
    <3> QED BY <1>1, <1>2, <3>1, Cancel
  <2>4. half <= CyclesInLine(g) /\ CyclesInLine(g) \in Nat /\ HasGpuNames(g)
    BY LengthIs, OnScreenIs DEF half
  <2>5. e \in 0 .. CyclesInLine(g) - g.line_cycle /\ g.line_cycle + e # CyclesInLine(g)
    BY <1>1, <1>2, <2>1, <2>3, <2>4
  <2>6. BeamSteps(g, e) = At(g, g.line_cycle + e)
    BY <2>5, WithinLine DEF Within
  <2>7. h.line = g.line
    BY <1>1, <2>4, <2>6, AtFields
  <2> QED BY <1>3, <2>1, <2>2, <2>7 DEF Arrived
<1> QED BY <1>8, <1>9

\* What the run checks of VBlank, from the invariant.
LEMMA AwaitedIsOnTime ==
  ASSUME OnScreen(beam), InFrame(beam) => Awaited(beam, vblank) \/ Arrived(beam, vblank)
  PROVE  VBlankOnTime
<1> DEFINE g == beam
           v == vblank
           G == GpuClock[g.mode]
           C == CpuClock
           A == Ahead(g)
           D == Distance(g)
           E(n) == GpuElapsed(g, n)
<1>1. SUFFICES ASSUME InFrame(g)
               PROVE  \/ v # NoEvent /\ v <= 1 /\ g.line = g.y2
                      \/ \E n \in 1 .. FrameCycles :
                           /\ EntersY2(n)
                           /\ \A k \in 1 .. n - 1 : ~EntersY2(k)
                           /\ v \in {n, n + 1}
  BY DEF VBlankOnTime, InFrame
<1>2. CASE Arrived(g, v)
  <2>1. v \in 0 .. 1 /\ g.line = g.y2
    BY <1>2 DEF Arrived
  <2>2. v # NoEvent
    BY <2>1, TimersAreValid DEF ClockAssumption
  <2> QED BY <2>1, <2>2
<1>3. CASE Awaited(g, v)
  <2>1. /\ G \in Nat \ {0} /\ C \in Nat \ {0} /\ C <= G /\ g.product \in 0 .. C - 1
        /\ CyclesPerLine[g.mode] \div 2 \in Nat
        /\ CyclesPerLine[g.mode] \div 2 <= CyclesPerLine[g.mode] /\ CyclesPerLine[g.mode] \in Nat
        /\ (MaxAdvance * G) + C <= C * (CyclesPerLine[g.mode] \div 2)
        /\ MaxAdvance \in Nat \ {0}
    BY OnScreenIs, ClockRates, FrameIs
  <2>2. D \in Nat \ {0} /\ A \in Nat \ {0} /\ C * D = A + g.product
    <3>1. 0 \in Nat
      OBVIOUS
    <3> QED BY <1>1, <3>1, Covered
  <2>3. v \in Nat /\ A < v * G /\ (v - 1) * G <= (A + C) - 1
    BY <1>3 DEF Awaited
  \* Entering Y2, in GPU cycles.
  <2>4. ASSUME NEW n \in Nat
        PROVE  /\ E(n) \in Nat /\ (E(n) < D) = (Taken(g, n) < A)
               /\ BeamAfter(g, n).line = BeamSteps(g, E(n)).line
               /\ Taken(g, n) = n * G /\ n * G \in Nat
    <3>1. E(n) \in Nat
      BY <2>4, RemainderIs
    <3>2. BeamAfter(g, n).line = BeamSteps(g, E(n)).line
      BY <2>4, BeamAfterIs
    <3>3. Taken(g, n) = n * G /\ n * G \in Nat
      BY <2>1, <2>4 DEF Taken
    <3>4. (E(n) < D) = (Taken(g, n) < A)
      BY <1>1, <2>4, Covered
    <3> QED BY <3>1, <3>2, <3>3, <3>4
  <2> DEFINE n == ((A - 1) \div G) + 1
             r == (A - 1) % G
  <2>5. n - 1 \in Nat /\ r \in 0 .. G - 1 /\ A - 1 = (G * (n - 1)) + r
    <3>1. A - 1 \in Nat
      BY <2>2
    <3> DEFINE q == (A - 1) \div G
    <3>2. q \in Nat /\ r \in 0 .. G - 1 /\ A - 1 = (G * q) + r
      BY <2>1, <3>1, Division
    <3> HIDE DEF q, r
    <3>3. n - 1 = q
      BY <3>2 DEF q
    <3> QED BY <3>2, <3>3
  <2>6. n \in Nat \ {0}
    <3> DEFINE q == (A - 1) \div G
    <3>1. n = q + 1 /\ n - 1 = q /\ q \in Nat
      <4>1. A - 1 \in Nat
        BY <2>2
      <4>2. q \in Nat
        BY <2>1, <4>1, Division
      <4> HIDE DEF q
      <4> QED BY <4>2 DEF q
    <3> HIDE DEF n, q
    <3> QED BY <3>1
  <2> HIDE DEF g, v, G, C, A, D, E, n, r
  <2>7. (n - 1) * G < A /\ A <= n * G /\ n * G = ((n - 1) * G) + G /\ (n - 1) * G \in Nat
    <3>1. (n - 1) * G = G * (n - 1) /\ n * G = (G * (n - 1)) + G /\ G * (n - 1) \in Nat
      BY <2>1, <2>5, <2>6
    <3> DEFINE m == G * (n - 1)
    <3>2. A - 1 = m + r /\ m \in Nat
      BY <2>5, <3>1
    <3> HIDE DEF m
    <3>3. m < A /\ A <= m + G
      BY <2>1, <2>2, <2>5, <3>2
    <3> QED BY <3>1, <3>3 DEF m
  \* Before n cycles the beam is not there, after them it is.
  <2>8. E(n - 1) \in Nat /\ E(n - 1) < D
    BY <2>4, <2>5, <2>7
  <2>9. E(n) \in Nat /\ D <= E(n)
    <3>1. E(n) \in Nat /\ (E(n) < D) = (Taken(g, n) < A) /\ Taken(g, n) = n * G /\ n * G \in Nat
      BY <2>4, <2>6
    <3>2. ~(n * G < A)
      <4> DEFINE a == n * G
      <4>1. a \in Nat /\ A <= a
        BY <2>7, <3>1
      <4> HIDE DEF a
      <4>2. ~(a < A)
        BY <2>2, <4>1
      <4> QED BY <4>2 DEF a
    <3>3. ~(E(n) < D)
      BY <3>1, <3>2
    <3> QED BY <2>2, <3>1, <3>3
  <2>10. /\ E(n) - D < CyclesPerLine[g.mode] \div 2
         /\ D - E(n - 1) <= CyclesPerLine[g.mode]
    <3> DEFINE half == CyclesPerLine[g.mode] \div 2
               d == E(n) - E(n - 1)
    <3>1. E(n - 1) <= E(n) /\ C * d < G + C
      BY <1>1, <2>6, GoesBy DEF E, G, C, g
    <3>2. G + C <= C * half
      <4>1. G <= MaxAdvance * G
        BY <2>1
      <4> DEFINE a == MaxAdvance * G
                 b == C * half
      <4>2. G <= a /\ a + C <= b /\ a \in Nat /\ b \in Nat
        BY <2>1, <4>1
      <4> HIDE DEF a, b
      <4>3. G + C <= b
        BY <2>1, <4>2
      <4> QED BY <4>3 DEF b
    <3>3. d \in Int /\ half \in Nat
      BY <2>1, <2>8, <2>9
    <3> HIDE DEF d
    <3>4. C * d < C * half
      <4>1. C * d \in Int /\ C * half \in Int
        BY <2>1, <3>3
      <4> QED BY <2>1, <3>1, <3>2, <4>1
    <3>5. d < half
      BY <2>1, <3>3, <3>4, Cancel
    <3> QED BY <2>1, <2>2, <2>8, <2>9, <3>5 DEF d
  <2>11. OnY2(g, E(n))
    <3> DEFINE k == E(n) - D
    <3>1. k \in Nat /\ E(n) = Distance(g) + k /\ k < CyclesPerLine[g.mode] \div 2
      BY <2>2, <2>9, <2>10 DEF D
    <3> HIDE DEF k
    <3> QED BY <1>1, <3>1, Arrival DEF g
  <2>12. ~OnY2(g, E(n - 1))
    BY <1>1, <2>8, <2>10, NotYet DEF g, D
  <2>13. \A m \in Nat : BeamAfter(beam, m).line = beam.y2 <=> OnY2(g, E(m))
    BY <2>4 DEF OnY2, g
  <2>14. EntersY2(n)
    BY <2>5, <2>6, <2>11, <2>12, <2>13 DEF EntersY2
  <2>15. ASSUME NEW k \in 1 .. n - 1 PROVE ~EntersY2(k)
    <3>1. k \in Nat \ {0} /\ k - 1 \in Nat /\ k <= n - 1
      BY <2>5, <2>15
    <3>2. E(k) \in Nat /\ E(k - 1) \in Nat /\ E(k - 1) <= E(k)
      BY <1>1, <2>4, <3>1, GoesBy DEF E, g
    <3>3. E(k) < D
      <4>1. k * G <= (n - 1) * G /\ k * G \in Nat
        BY <2>1, <2>5, <3>1
      <4>2. k * G < A
        <5> DEFINE a == k * G
                   b == (n - 1) * G
        <5>1. a <= b /\ b < A /\ a \in Nat /\ b \in Nat
          BY <2>7, <4>1
        <5> HIDE DEF a, b
        <5>2. a < A
          BY <2>2, <5>1
        <5> QED BY <5>2 DEF a
      <4> QED BY <2>4, <3>1, <4>2
    <3>4. OnY2(g, E(k)) => OnY2(g, E(k - 1))
      <4>1. E(k - 1) \in 0 .. E(k)
        BY <3>2
      <4> QED BY <1>1, <3>2, <3>3, <4>1, Approach DEF g, D
    <3> QED BY <2>13, <3>1, <3>4 DEF EntersY2
  <2>16. n \in 1 .. FrameCycles
    <3>1. D <= FrameCycles /\ FrameCycles \in Nat
      <4>1. D <= (LinesPerFrame[g.mode][FALSE] + 1) * (CyclesPerLine[g.mode] + 1)
        BY <1>1, DistanceIs DEF D, g
      <4>2. FrameCycles = (LinesPerFrame[g.mode][FALSE] + 1) * (CyclesPerLine[g.mode] + 1)
        BY DEF FrameCycles, g
      <4>3. LinesPerFrame[g.mode][FALSE] \in Nat
        BY OnScreenIs, ClockRates DEF g
      <4> DEFINE a == LinesPerFrame[g.mode][FALSE]
                 b == CyclesPerLine[g.mode]
      <4>4. a \in Nat /\ b \in Nat
        BY <2>1, <4>3
      <4> HIDE DEF a, b
      <4>5. (a + 1) * (b + 1) \in Nat
        BY <4>4
      <4> QED BY <4>1, <4>2, <4>5 DEF a, b
    <3>2. (n - 1) * G < D * G
      <4>1. C * D <= D * G /\ C * D \in Nat /\ D * G \in Nat
        BY <2>1, <2>2
      <4> DEFINE a == (n - 1) * G
                 b == C * D
                 c == D * G
      <4>2. a < A /\ b = A + g.product /\ b <= c /\ a \in Nat /\ b \in Nat /\ c \in Nat
        BY <2>2, <2>7, <4>1
      <4> HIDE DEF a, b, c
      <4>3. a < c
        BY <2>1, <2>2, <4>2
      <4> QED BY <4>3 DEF a, c
    <3>3. G * (n - 1) < G * D
      BY <2>1, <2>2, <2>5, <3>2
    <3>4. n - 1 < D
      BY <2>1, <2>2, <2>5, <3>3, Cancel
    <3> QED BY <2>2, <2>6, <3>1, <3>4
  <2>17. v \in {n, n + 1}
    <3>1. G * (n - 1) < G * v
      <4> DEFINE a == (n - 1) * G
                 b == v * G
      <4>1. a < A /\ A < b /\ a \in Nat /\ b \in Nat
        BY <2>1, <2>3, <2>7
      <4> HIDE DEF a, b
      <4>2. a < b
        BY <2>2, <4>1
      <4>3. a = G * (n - 1) /\ b = G * v
        BY <2>1, <2>3, <2>5 DEF a, b
      <4> QED BY <4>2, <4>3
    <3>2. n - 1 < v
      BY <2>1, <2>3, <2>5, <3>1, Cancel
    <3>3. G * (v - 1) < G * (n + 1)
      <4> DEFINE a == n * G
                 b == (v - 1) * G
      <4>1. A <= a /\ b <= (A + C) - 1 /\ a \in Nat /\ b \in Int
        BY <2>1, <2>3, <2>6, <2>7
      <4> HIDE DEF a, b
      <4>2. b < a + G
        BY <2>1, <2>2, <4>1
      <4>3. G * (n + 1) = a + G /\ G * (v - 1) = b
        BY <2>1, <2>3, <2>6 DEF a, b
      <4> QED BY <4>2, <4>3
    <3>4. v - 1 < n + 1
      BY <2>1, <2>3, <2>6, <3>3, Cancel
    <3> QED BY <2>3, <2>6, <3>2, <3>4
  <2> QED BY <2>14, <2>15, <2>16, <2>17
<1> QED BY <1>1, <1>2, <1>3

-----------------------------------------------------------------------------
\* The inductive invariant of the scheduled VBlank, where the host is that of "video": the
\* ranges are those it writes, and while the range is valid and within the frame, the event
\* is awaited or at hand.
KnownRange(g) == \E y \in VerticalRanges \union {InitGpu} : g.y1 = y.y1 /\ g.y2 = y.y2
VBlankDue(g, v) == InFrame(g) => Awaited(g, v) \/ Arrived(g, v)
VBlankKept == KnownRange(beam) /\ VBlankDue(beam, vblank)
VBlankIsKept == BeamFollows /\ (part = "video" => VBlankKept)

\* The event depends on the position, the mode and Y2 only.
LEMMA SameDistance ==
  ASSUME NEW g, NEW h, h.line = g.line, h.line_cycle = g.line_cycle, h.mode = g.mode,
         h.interlaced = g.interlaced, h.y2 = g.y2, h.product = g.product, NEW v
  PROVE  /\ VBlankDue(g, v) /\ RangeValid(g) => VBlankDue(h, v)
         /\ ~RangeValid(h) => VBlankDue(h, v)
<1>1. LastLine(h) = LastLine(g)
  BY DEF LastLine
<1>2. CyclesInLine(h) = CyclesInLine(g)
  BY <1>1 DEF CyclesInLine
<1>3. \A S : LinesAt(h, S) = LinesAt(g, S)
  BY Zenon DEF LinesAt
<1>4. LinesToVBlank(h) = LinesToVBlank(g)
  BY <1>1, <1>3, Zenon DEF LinesToVBlank
<1>5. Distance(h) = Distance(g)
  BY <1>2, <1>4, Zenon DEF Distance
<1>6. Ahead(h) = Ahead(g)
  BY <1>5, Zenon DEF Ahead
<1>7. Awaited(g, v) <=> Awaited(h, v)
  BY <1>6, Zenon DEF Awaited
<1>8. Arrived(g, v) <=> Arrived(h, v)
  BY Zenon DEF Arrived
<1>9. InFrame(h) => g.y2 <= LastLine(g) /\ RangeValid(h)
  BY <1>1 DEF InFrame
<1> QED BY <1>7, <1>8, <1>9 DEF VBlankDue, InFrame

LEMMA ScheduledIsDue ==
  ASSUME NEW g, OnScreen(g)
  PROVE  VBlankDue(g, NextVBlank(g))
  BY ScheduledIsAwaited DEF VBlankDue

LEMMA InitIsKept ==
  ASSUME MCInit, part = "video"
  PROVE  VBlankKept
<1>1. Init
  BY DEF MCInit
<1>2. vblank = NextVBlank(NewGpu) /\ beam = NewGpu
  BY <1>1 DEF Init
<1>3. NewGpu.y1 = InitGpu.y1 /\ NewGpu.y2 = InitGpu.y2
  BY DEF NewGpu
<1>4. KnownRange(beam)
  BY <1>2, <1>3 DEF KnownRange
<1>5. OnScreen(NewGpu)
  BY NewGpuStays
<1> QED BY <1>2, <1>4, <1>5, ScheduledIsDue DEF VBlankKept

LEMMA RangesAreTheBeams ==
  ASSUME BeamFollows
  PROVE  /\ OnScreen(beam) /\ Now.gpu = beam
         /\ tm.gpu.y1 = beam.y1 /\ tm.gpu.y2 = beam.y2
         /\ tm.gpu.mode = beam.mode /\ tm.gpu.interlaced = beam.interlaced
<1>1. OnScreen(tm.gpu) /\ behind \in Nat /\ beam = BeamAfter(tm.gpu, behind)
  BY DEF BeamFollows, TmOK
<1> QED BY <1>1, BeamIsThere, BeamAfterIs

LEMMA RunsKeepVBlank ==
  ASSUME BeamFollows, VBlankKept, Runs
  PROVE  VBlankKept'
<1>0. OnScreen(beam) /\ Now.gpu = beam
  BY RangesAreTheBeams
<1>1. ASSUME NEW n \in 1 .. MaxAdvance, ExecuteInstruction(n) PROVE VBlankKept'
  <2>1. vblank # 0 /\ vblank' = Sooner(vblank, n) /\ beam' = BeamAfter(beam, n)
    BY <1>1 DEF ExecuteInstruction, CpuRuns
  <2>2. n \in Nat
    BY FrameIs
  <2>3. beam'.y1 = beam.y1 /\ beam'.y2 = beam.y2 /\ (InFrame(beam) <=> InFrame(beam'))
    <3> DEFINE b == BeamAfter(beam, n)
    <3>1. b = BeamAfter(beam, n)
      OBVIOUS
    <3> HIDE DEF b
    <3>2. b.y1 = beam.y1 /\ b.y2 = beam.y2 /\ (InFrame(beam) <=> InFrame(b))
      BY <1>0, <2>2, <3>1, BeamAfterIs
    <3>3. beam' = b
      BY <2>1, <3>1
    <3> QED BY <3>2, <3>3
  <2>4. KnownRange(beam')
    BY <2>3 DEF VBlankKept, KnownRange
  <2>5. ASSUME InFrame(beam')
        PROVE  Awaited(beam', Sooner(vblank, n)) \/ Arrived(beam', Sooner(vblank, n))
    <3>1. InFrame(beam) /\ (Awaited(beam, vblank) \/ Arrived(beam, vblank))
      BY <2>3, <2>5 DEF VBlankKept, VBlankDue
    <3> QED BY <1>0, <2>1, <3>1, AwaitedGoesOn
  <2> QED BY <2>1, <2>4, <2>5 DEF VBlankKept, VBlankDue
<1>2. CASE VBlankEvent
  <2>1. beam' = beam
    BY <1>2 DEF VBlankEvent, Watched
  <2>2. CASE RangeValid(tm.gpu)
    <3>1. tm' = Now /\ vblank' = NextVBlank(tm'.gpu)
      BY <1>2, <2>2 DEF VBlankEvent, CaughtUp
    <3>2. VBlankDue(beam, NextVBlank(beam))
      BY <1>0, ScheduledIsDue
    <3> QED BY <1>0, <2>1, <3>1, <3>2 DEF VBlankKept
  <2>3. CASE ~RangeValid(tm.gpu)
    <3>1. ~InFrame(beam)
      BY <2>3, RangesAreTheBeams DEF InFrame, RangeValid
    <3> QED BY <2>1, <3>1 DEF VBlankKept, VBlankDue
  <2> QED BY <2>2, <2>3
<1>3. ASSUME beam' = beam, vblank' = vblank PROVE VBlankKept'
  BY <1>3 DEF VBlankKept
<1>4. ASSUME NEW i \in Timer, TimerEvent(i) PROVE VBlankKept'
  BY <1>3, <1>4 DEF TimerEvent, Watched
<1>5. CASE ReadStatus
  BY <1>3, <1>5 DEF ReadStatus, Watched
<1>6. CASE AcknowledgeVBlank
  BY <1>3, <1>6 DEF AcknowledgeVBlank, Watched
<1> QED BY <1>1, <1>2, <1>4, <1>5, <1>6 DEF Runs

\* Writes of ranges and modes.
LEMMA WritesKeepVBlank ==
  ASSUME RangesKeepValidity, BeamFollows, VBlankKept, VideoNext
  PROVE  VBlankKept'
<1>0. /\ OnScreen(beam) /\ HasGpuNames(beam) /\ Now.gpu = beam
      /\ HasTmNames(Now) /\ tm.gpu.y2 = beam.y2
  BY RangesAreTheBeams, BeamIsThere, OnScreenIs DEF TmOK, TmShape
<1>1. ASSUME NEW t, CaughtUp(t), Followed PROVE tm' = t /\ beam' = t.gpu
  BY <1>1 DEF CaughtUp, Followed
<1>2. ASSUME NEW x \in HorizontalRanges, WriteHorizontalRange(x) PROVE VBlankKept'
  <2> DEFINE h == [beam EXCEPT !.x1 = x.x1, !.x2 = x.x2]
  <2>1. [Now EXCEPT !.gpu.x1 = x.x1, !.gpu.x2 = x.x2].gpu = h
    BY <1>0 DEF HasTmNames, TmNames
  <2>2. beam' = h /\ vblank' = vblank
    BY <1>1, <1>2, <2>1 DEF WriteHorizontalRange
  <2>3. /\ h.line = beam.line /\ h.line_cycle = beam.line_cycle /\ h.mode = beam.mode
        /\ h.interlaced = beam.interlaced /\ h.product = beam.product
        /\ h.y1 = beam.y1 /\ h.y2 = beam.y2
    BY <1>0 DEF HasGpuNames, GpuNames
  <2> HIDE DEF h
  <2>4. VBlankDue(h, vblank)
    <3>1. RangeValid(beam) <=> RangeValid(h)
      BY <2>3 DEF RangeValid
    <3> QED BY <2>3, <3>1, SameDistance DEF VBlankKept
  <2>5. KnownRange(h)
    BY <2>3 DEF VBlankKept, KnownRange
  <2> QED BY <2>2, <2>4, <2>5 DEF VBlankKept
<1>3. ASSUME NEW y \in VerticalRanges, WriteVerticalRange(y) PROVE VBlankKept'
  <2> DEFINE h == [beam EXCEPT !.y1 = y.y1, !.y2 = y.y2]
             t == [Now EXCEPT !.gpu.y1 = y.y1, !.gpu.y2 = y.y2]
  <2>1. t.gpu = h
    BY <1>0 DEF HasTmNames, TmNames
  <2>2. /\ CaughtUp(t) /\ Followed
        /\ vblank' = IF y.y2 # tm.gpu.y2 THEN NextVBlank(tm'.gpu) ELSE vblank
    BY <1>3, Zenon DEF WriteVerticalRange
  <2> HIDE DEF t
  <2>3. beam' = h /\ vblank' = IF y.y2 # beam.y2 THEN NextVBlank(h) ELSE vblank
    BY <1>0, <1>1, <2>1, <2>2
  <2>4. /\ h.line = beam.line /\ h.line_cycle = beam.line_cycle /\ h.mode = beam.mode
        /\ h.interlaced = beam.interlaced /\ h.product = beam.product
        /\ h.y1 = y.y1 /\ h.y2 = y.y2
    BY <1>0 DEF HasGpuNames, GpuNames
  <2>5. OnScreen(h)
    <3>1. y.y1 \in Nat /\ y.y2 \in Nat
      BY TimersAreValid DEF ClockAssumption
    <3> QED BY <1>0, <3>1, RangeStays
  <2> HIDE DEF h
  <2>6. KnownRange(h)
    BY <2>4 DEF KnownRange
  <2>7. CASE y.y2 # beam.y2
    BY <2>3, <2>5, <2>6, <2>7, ScheduledIsDue DEF VBlankKept
  <2>8. CASE y.y2 = beam.y2
    <3>1. PICK z \in VerticalRanges \union {InitGpu} : beam.y1 = z.y1 /\ beam.y2 = z.y2
      BY DEF VBlankKept, KnownRange
    <3>2. y.y1 < y.y2 <=> z.y1 < z.y2
      BY <2>8, <3>1 DEF RangesKeepValidity
    <3>3. RangeValid(h) => RangeValid(beam)
      BY <2>4, <3>1, <3>2 DEF RangeValid
    <3>4. VBlankDue(h, vblank)
      BY <2>4, <2>8, <3>3, SameDistance DEF VBlankKept
    <3> QED BY <2>3, <2>6, <2>8, <3>4 DEF VBlankKept
  <2> QED BY <2>7, <2>8
<1>4. ASSUME NEW d \in DisplayModes, WriteDisplayMode(d) PROVE VBlankKept'
  <2> DEFINE same == d.interlaced = tm.gpu.interlaced /\ d.mode = tm.gpu.mode
             h == [beam EXCEPT !.divider = d.divider]
             m == InMode(beam, d)
             g == IF same THEN h ELSE m
             t == WithGpu(Now, IF same THEN [Now.gpu EXCEPT !.divider = d.divider]
                               ELSE InMode(Now.gpu, d))
  <2>1. CaughtUp(t) /\ Followed /\ vblank' = IF same THEN vblank ELSE NextVBlank(tm'.gpu)
    BY <1>4, Zenon DEF WriteDisplayMode, WithGpu
  <2>2. t = WithGpu(Now, g)
    BY <1>0, Zenon
  <2>3. t.gpu = g
    <3> HIDE DEF g, t
    <3> QED BY <1>0, <2>2 DEF WithGpu, HasTmNames, TmNames
  <2> HIDE DEF t
  <2>4. beam' = g /\ vblank' = IF same THEN vblank ELSE NextVBlank(g)
    <3> HIDE DEF g, same
    <3> QED BY <1>1, <2>1, <2>3
  <2>5. CASE same
    <3>1. /\ h.line = beam.line /\ h.line_cycle = beam.line_cycle /\ h.mode = beam.mode
          /\ h.interlaced = beam.interlaced /\ h.product = beam.product
          /\ h.y1 = beam.y1 /\ h.y2 = beam.y2
      BY <1>0 DEF HasGpuNames, GpuNames
    <3>2. beam' = h /\ vblank' = vblank
      BY <2>4, <2>5
    <3> HIDE DEF h
    <3>3. RangeValid(beam) <=> RangeValid(h)
      BY <3>1 DEF RangeValid
    <3>4. VBlankDue(h, vblank)
      BY <3>1, <3>3, SameDistance DEF VBlankKept
    <3>5. KnownRange(h)
      BY <3>1 DEF VBlankKept, KnownRange
    <3> QED BY <3>2, <3>4, <3>5 DEF VBlankKept
  <2>6. CASE ~same
    <3>1. OnScreen(m) /\ m.y1 = beam.y1 /\ m.y2 = beam.y2
      BY <1>0, InModeStays
    <3>2. beam' = m /\ vblank' = NextVBlank(m)
      BY <2>4, <2>6
    <3> HIDE DEF m
    <3>3. KnownRange(m)
      BY <3>1 DEF VBlankKept, KnownRange
    <3> QED BY <3>1, <3>2, <3>3, ScheduledIsDue DEF VBlankKept
  <2> QED BY <2>5, <2>6
<1> QED BY <1>2, <1>3, <1>4 DEF VideoNext

LEMMA VBlankIsKeptStep ==
  ASSUME RangesKeepValidity, VBlankIsKept, [MCNext]_mc_vars
  PROVE  VBlankIsKept'
<1>1. BeamFollows'
  BY BeamFollowsStep DEF VBlankIsKept
<1>2. ASSUME part' = "video" PROVE VBlankKept'
  <2>1. part = "video"
    BY <1>2 DEF MCNext, In, mc_vars
  <2>2. BeamFollows /\ VBlankKept
    BY <2>1 DEF VBlankIsKept
  <2>3. CASE UNCHANGED mc_vars
    BY <2>2, <2>3 DEF mc_vars, vars, VBlankKept
  <2>4. CASE Runs
    BY <2>2, <2>4, RunsKeepVBlank
  <2>5. CASE VideoNext
    BY <2>2, <2>5, WritesKeepVBlank
  <2> QED BY <2>1, <2>3, <2>4, <2>5 DEF MCNext, In
<1> QED BY <1>1, <1>2 DEF VBlankIsKept

\* The video clock takes every GPU cycle and VBlank is scheduled for the moment the beam next
\* enters line Y2, at most one CPU cycle late, for frames of any size: as long as no vertical
\* range is replaced by one with the same Y2 that is valid where it was not, which the source
\* overlooks.
THEOREM VideoClockIsAlwaysExact ==
  ASSUME RangesKeepValidity
  PROVE  MCSpec => []VideoClockIsExact
<1>1. MCInit => VBlankIsKept
  BY InitFollows, InitIsKept DEF VBlankIsKept
<1>2. VBlankIsKept /\ [MCNext]_mc_vars => VBlankIsKept'
  BY VBlankIsKeptStep
<1>3. VBlankIsKept => VideoClockIsExact
  BY BeamIsThere, AwaitedIsOnTime DEF VBlankIsKept, VBlankKept, VBlankDue, VideoClockIsExact
<1> QED BY <1>1, <1>2, <1>3, PTL DEF MCSpec

=============================================================================
