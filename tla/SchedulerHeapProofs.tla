------------------------- MODULE SchedulerHeapProofs -------------------------
(***************************************************************************)
(* Proofs about SchedulerHeap for every set of event types and times and   *)
(* every capacity that can hold one event of each type.                    *)
(***************************************************************************)
EXTENDS SchedulerHeap, FiniteSetTheorems, WellFoundedInduction, TLAPS

\* The arithmetic of the array layout: the parent of a slot is the unique lower
\* slot it is a child of.
LEMMA ParentChild ==
  ASSUME NEW i \in Nat, i # 0
  PROVE  /\ Parent(i) \in Nat
         /\ Parent(i) < i
         /\ i = 2 * Parent(i) + 1 \/ i = 2 * Parent(i) + 2
  BY SMT DEF Parent

LEMMA ChildParent ==
  ASSUME NEW i \in Nat
  PROVE  Parent(2 * i + 1) = i /\ Parent(2 * i + 2) = i
  BY SMT DEF Parent

\* A swap exchanges two slots and leaves the others.
LEMMA SwapValues ==
  ASSUME NEW S, NEW T, NEW h \in [S -> T], NEW i \in S, NEW j \in S
  PROVE  /\ Swap(h, i, j) \in [S -> T]
         /\ Swap(h, i, j)[i] = h[j]
         /\ Swap(h, i, j)[j] = h[i]
         /\ \A k \in S : k # i /\ k # j => Swap(h, i, j)[k] = h[k]
  BY DEF Swap

\* The child reheapify_up swaps with is in use, and no child in use is earlier.
LEMMA ChildIsEarliest ==
  ASSUME TypeOK, SinksBelow
  PROVE  /\ Child \in Used
         /\ Child \in {2 * sift + 1, 2 * sift + 2}
         /\ heap[Child].time < heap[sift].time
         /\ \A j \in {2 * sift + 1, 2 * sift + 2} : j < len => heap[Child].time <= heap[j].time
<1> DEFINE j1 == 2 * sift + 1
           j2 == 2 * sift + 2
<1>1. sift \in Nat /\ len \in Nat
  BY ConstantAssumption DEF TypeOK, Slots
<1>2. \A j \in Used : heap[j].time \in Nat
  BY ConstantAssumption DEF TypeOK, Event
<1>3. /\ j1 < len => j1 \in Used
      /\ j2 < len => j2 \in Used /\ j1 \in Used
  BY <1>1 DEF Used
<1>4. \/ j1 < len /\ heap[j1].time < heap[sift].time
      \/ j2 < len /\ heap[j2].time < heap[sift].time
  BY DEF SinksBelow
<1>5. sift \in Used
  BY <1>1, <1>4 DEF Used
<1>6. CASE j2 < len /\ heap[j2].time < heap[j1].time
  <2>1. Child = j2
    BY <1>6 DEF Child
  <2> HIDE DEF j1, j2
  <2>2. heap[j2].time < heap[sift].time
    BY <1>2, <1>3, <1>4, <1>5, <1>6
  <2>3. QED
    BY <1>2, <1>3, <1>6, <2>1, <2>2 DEF j1, j2
<1>7. CASE ~(j2 < len /\ heap[j2].time < heap[j1].time)
  <2>1. Child = j1
    BY <1>7 DEF Child
  <2> HIDE DEF j1, j2
  <2>2. j1 \in Used
    BY <1>3, <1>4, <1>1 DEF j1, j2, Used
  <2>3. heap[j1].time < heap[sift].time
    BY <1>2, <1>3, <1>4, <1>5, <1>7, <2>2
  <2>4. j2 < len => heap[j1].time <= heap[j2].time
    BY <1>2, <1>3, <1>7
  <2>5. QED
    BY <1>2, <2>1, <2>2, <2>3, <2>4 DEF j1, j2
<1>8. QED
  BY <1>6, <1>7
-----------------------------------------------------------------------------
\* The inductive invariant: the types alone are not inductive, because a loop at an
\* index out of use would swap a stale slot into use.
IInv == TypeOK /\ SiftOrder

LEMMA InitIInv == Init => IInv
  BY ConstantAssumption
     DEF Init, IInv, TypeOK, SiftOrder, OrderedExcept, OrderedAcross, Idle, SiftsDown,
         SiftsUp, Used, Slots, Event, DefaultEvent

\* What every step's proof starts from.
LEMMA Facts ==
  ASSUME IInv
  PROVE  /\ Capacity \in Nat /\ Capacity > 0
         /\ len \in Nat /\ len <= Capacity /\ sift \in Nat /\ sift < Capacity
         /\ Used \subseteq Slots
         /\ \A i \in Used : i \in Nat /\ heap[i] \in Event /\ heap[i].time \in Nat
         /\ \A e \in Event : e.time \in Nat /\ e.time \in Times /\ e.type \in EventTypes
         /\ heap \in [Slots -> Event \union {DefaultEvent}]
         /\ DefaultEvent \notin Event
<1>1. /\ Capacity \in Nat /\ Capacity > 0
      /\ len \in Nat /\ len <= Capacity /\ sift \in Nat /\ sift < Capacity
      /\ Used \subseteq Slots
      /\ heap \in [Slots -> Event \union {DefaultEvent}]
  BY ConstantAssumption DEF IInv, TypeOK, Used, Slots
<1>2. \A e \in Event : e.time \in Nat /\ e.time \in Times /\ e.type \in EventTypes
  BY ConstantAssumption DEF Event
<1>3. DefaultEvent \notin Event
  BY ConstantAssumption DEF Event, DefaultEvent
<1>4. \A i \in Used : i \in Nat /\ heap[i] \in Event
  BY <1>1 DEF IInv, TypeOK, Used
<1>5. QED
  BY <1>1, <1>2, <1>3, <1>4

LEMMA SwapUsed ==
  ASSUME IInv, NEW i \in Used, NEW j \in Used, heap' = Swap(heap, i, j)
  PROVE  /\ heap' \in [Slots -> Event \union {DefaultEvent}]
         /\ heap'[i] = heap[j]
         /\ heap'[j] = heap[i]
         /\ \A k \in Used : k # i /\ k # j => heap'[k] = heap[k]
<1>1. i \in Slots /\ j \in Slots /\ heap \in [Slots -> Event \union {DefaultEvent}]
  BY Facts
<1>2. /\ heap' \in [Slots -> Event \union {DefaultEvent}]
      /\ heap'[i] = heap[j]
      /\ heap'[j] = heap[i]
      /\ \A k \in Slots : k # i /\ k # j => heap'[k] = heap[k]
  BY <1>1 DEF Swap
<1>3. QED
  BY <1>2, Facts

\* A slot in use other than the root has its parent in use.
LEMMA ParentInUse ==
  ASSUME IInv, NEW j \in Used \ {0}
  PROVE  Parent(j) \in Used /\ Parent(j) < j /\ j \in Nat
<1>1. j \in Nat /\ j # 0 /\ j < len /\ len \in Nat
  BY Facts DEF Used
<1>2. Parent(j) \in Nat /\ Parent(j) < j
  BY <1>1, ParentChild
<1>3. QED
  BY <1>1, <1>2 DEF Used

LEMMA StepPush ==
  ASSUME IInv, NEW new \in Event, Push(new)
  PROVE  IInv'
<1>1. /\ len < Capacity /\ len' = len + 1 /\ sift' = len /\ op' = "down" /\ now' = now
      /\ heap' = [heap EXCEPT ![len] = new] /\ Idle
  BY DEF Push
<1>2. Used' = Used \union {len}
  BY <1>1, Facts DEF Used
<1>3. heap'[len] = new /\ \A i \in Used : heap'[i] = heap[i]
  BY <1>1, Facts DEF Used, Slots
<1>4. TypeOK'
  BY <1>1, <1>2, <1>3, Facts DEF TypeOK, IInv, Slots, Ops
<1>5. OrderedExcept({sift})'
  BY <1>1, <1>2, <1>3, Facts, ParentChild DEF OrderedExcept, IInv, SiftOrder, Used
<1>6. OrderedAcross(sift)'
  <2>1. \A j \in Used' \ {0} : Parent(j) # len
    BY <1>2, Facts, ParentChild DEF Used
  <2>2. QED
    BY <2>1, <1>1 DEF OrderedAcross
<1>7. SiftOrder'
  BY <1>1, <1>5, <1>6, Facts DEF SiftOrder, Idle, SiftsDown, SiftsUp
<1>8. QED
  BY <1>4, <1>7 DEF IInv

LEMMA StepUpdate ==
  ASSUME IInv, NEW new \in Event, Update(new)
  PROVE  IInv'
<1>1. PICK i \in Used : /\ Holds(i, new.type)
                        /\ heap' = [heap EXCEPT ![i] = new]
                        /\ op' = IF new.time < heap[i].time THEN "down" ELSE "up"
                        /\ sift' = i
  BY DEF Update
<1>2. len' = len /\ now' = now /\ Used' = Used /\ Idle
  BY DEF Update, Used
<1>3. heap'[i] = new /\ \A k \in Used : k # i => heap'[k] = heap[k]
  BY <1>1, Facts
<1>4. TypeOK'
  BY <1>1, <1>2, <1>3, Facts DEF TypeOK, IInv, Ops
<1>5. OrderedExcept({})
  BY <1>2 DEF IInv, SiftOrder
<1>6. i < len /\ i \in Nat
  BY <1>1, Facts DEF Used
<1>7. OrderedAcross(i)'
  <2>1. ASSUME i # 0, NEW j \in Used \ {0}, Parent(j) = i
        PROVE  heap'[Parent(i)].time <= heap'[j].time
    <3>1. heap[Parent(i)].time <= heap[i].time /\ heap[i].time <= heap[j].time
      BY <1>1, <1>5, <2>1 DEF OrderedExcept
    <3>2. Parent(i) \in Used /\ Parent(i) # i /\ j # i
      BY <1>6, <2>1, ParentChild, Facts DEF Used
    <3>3. QED
      BY <1>3, <3>1, <3>2, Facts
  <2>2. QED
    BY <2>1, <1>2 DEF OrderedAcross
<1>8. CASE new.time < heap[i].time
  <2>1. OrderedExcept({i})'
    <3>1. ASSUME NEW j \in Used \ {0}, j # i
          PROVE  heap'[Parent(j)].time <= heap'[j].time
      <4>1. Parent(j) \in Used /\ heap[Parent(j)].time <= heap[j].time /\ j \in Used
        BY <1>5, <3>1, ParentChild, Facts DEF OrderedExcept, Used
      <4>2. QED
        BY <1>3, <1>8, <3>1, <4>1, Facts
    <3>2. QED
      BY <3>1, <1>2 DEF OrderedExcept
  <2>2. QED
    BY <1>1, <1>2, <1>4, <1>6, <1>7, <1>8, <2>1 DEF IInv, SiftOrder, Idle, SiftsDown, SiftsUp
<1>9. CASE ~(new.time < heap[i].time)
  <2>1. OrderedExcept({2 * i + 1, 2 * i + 2})'
    <3>1. ASSUME NEW j \in Used \ {0}, j \notin {2 * i + 1, 2 * i + 2}
          PROVE  heap'[Parent(j)].time <= heap'[j].time
      <4>1. Parent(j) \in Used /\ heap[Parent(j)].time <= heap[j].time /\ j \in Used
        BY <1>5, <3>1, ParentChild, Facts DEF OrderedExcept, Used
      <4>2. Parent(j) # i
        BY <3>1, ParentChild, Facts
      <4>3. QED
        BY <1>3, <1>9, <3>1, <4>1, <4>2, Facts
    <3>2. QED
      BY <3>1, <1>2 DEF OrderedExcept
  <2>2. op' = "up" /\ sift' = i /\ i <= len'
    BY <1>1, <1>2, <1>6, <1>9, Facts
  <2>3. SiftOrder'
    BY <1>7, <2>1, <2>2 DEF SiftOrder, Idle, SiftsDown, SiftsUp
  <2>4. QED
    BY <1>4, <2>3 DEF IInv
<1>10. QED
  BY <1>8, <1>9

LEMMA LowerTimeUpdates ==
  ASSUME NEW new \in Event, LowerTime(new)
  PROVE  Update(new)
<1>1. PICK i \in Used : /\ Holds(i, new.type)
                        /\ new.time < heap[i].time
                        /\ heap' = [heap EXCEPT ![i] = new]
                        /\ sift' = i
  BY DEF LowerTime
<1>2. op' = (IF new.time < heap[i].time THEN "down" ELSE "up")
  BY <1>1 DEF LowerTime
<1>3. QED
  BY <1>1, <1>2 DEF LowerTime, Update

LEMMA StepLowerTime ==
  ASSUME IInv, NEW new \in Event, LowerTime(new)
  PROVE  IInv'
  BY LowerTimeUpdates, StepUpdate

\* What remove_one and pop have in common: the last event takes slot i, and the
\* loop that follows is the one its order with the removed event calls for.
LEMMA Unseat ==
  ASSUME IInv, Idle, NEW i \in Used,
         heap' = Swap(heap, i, len - 1), len' = len - 1, now' = now, sift' = i,
         \/ op' = "down_then_reset" /\ heap[len - 1].time < heap[i].time
         \/ op' = "up_then_reset" /\ (i = 0 \/ ~(heap[len - 1].time < heap[i].time))
  PROVE  IInv'
<1> DEFINE l == len - 1
<1>1. /\ i \in Nat /\ l \in Nat /\ i <= l /\ len' = l /\ i \in Slots /\ l \in Slots
      /\ Used = Used' \union {l} /\ l \notin Used' /\ l \in Used
  BY Facts DEF Used, Slots
<1>2. /\ heap' \in [Slots -> Event \union {DefaultEvent}]
      /\ heap'[i] = heap[l]
      /\ \A k \in Used' : k # i => heap'[k] = heap[k]
  BY <1>1, SwapUsed
<1>3. TypeOK'
  <2>1. \A k \in Used' : heap'[k] \in Event
    BY <1>1, <1>2, Facts
  <2>2. now' \in Times \union {0} /\ len' \in 0 .. Capacity /\ op' \in Ops /\ sift' \in Slots
    BY <1>1, Facts DEF TypeOK, IInv, Ops
  <2>3. QED
    BY <1>2, <2>1, <2>2 DEF TypeOK
<1>t. \A k \in Used : heap[k].time \in Nat
  BY Facts
<1>4. \A j \in Used \ {0} : heap[Parent(j)].time <= heap[j].time
  BY DEF IInv, SiftOrder, OrderedExcept
<1>5. \A j \in Used' \ {0} : Parent(j) \in Used' /\ Parent(j) < j /\ j \in Used
  BY <1>1, ParentChild DEF Used
<1>6. OrderedAcross(i)'
  <2>1. ASSUME i # 0, NEW j \in Used' \ {0}, Parent(j) = i
        PROVE  heap'[Parent(i)].time <= heap'[j].time
    <3>1. i < j /\ i \in Used'
      BY <1>1, <1>5, <2>1
    <3>2. Parent(i) \in Used' /\ Parent(i) # i
      BY <1>1, <1>5, <2>1, <3>1
    <3>3. heap[Parent(i)].time <= heap[i].time /\ heap[i].time <= heap[j].time
      BY <1>1, <1>4, <2>1, <3>1
    <3>4. heap'[Parent(i)] = heap[Parent(i)] /\ heap'[j] = heap[j]
      BY <1>2, <3>1, <3>2, <2>1
    <3>5. heap[Parent(i)].time <= heap[j].time
      <4>1. Parent(i) \in Used /\ j \in Used
        BY <1>1, <3>2
      <4>2. QED
        BY <1>t, <3>3, <4>1
    <3>6. QED
      BY <3>4, <3>5
  <2>2. QED
    BY <2>1 DEF OrderedAcross
<1>7. ASSUME NEW j \in Used' \ {0}, j # i, Parent(j) # i
      PROVE  heap'[Parent(j)].time <= heap'[j].time
  BY <1>2, <1>4, <1>5, <1>7
<1>8. CASE heap[l].time < heap[i].time /\ op' = "down_then_reset"
  <2>1. i # l
    BY <1>8, <1>1, Facts
  <2>2. OrderedExcept({i})'
    <3>1. ASSUME NEW j \in Used' \ {0}, j # i
          PROVE  heap'[Parent(j)].time <= heap'[j].time
      <4>1. CASE Parent(j) = i
        <5>1. heap[i].time <= heap[j].time
          BY <1>4, <1>5, <4>1
        <5>2. QED
          BY <1>1, <1>2, <1>5, <1>8, <3>1, <4>1, <5>1, Facts
      <4>2. QED
        BY <1>7, <3>1, <4>1
    <3>2. QED
      BY <3>1 DEF OrderedExcept
  <2>3. QED
    BY <1>1, <1>3, <1>6, <1>8, <2>1, <2>2 DEF IInv, SiftOrder, Idle, SiftsDown, SiftsUp
<1>9. CASE op' = "up_then_reset" /\ (i = 0 \/ ~(heap[l].time < heap[i].time))
  <2>1. OrderedExcept({2 * i + 1, 2 * i + 2})'
    <3>1. ASSUME NEW j \in Used' \ {0}, j \notin {2 * i + 1, 2 * i + 2}
          PROVE  heap'[Parent(j)].time <= heap'[j].time
      <4>1. Parent(j) # i
        BY <1>1, <3>1, ParentChild DEF Used
      <4>2. CASE j = i
        <5>1. heap[Parent(i)].time <= heap[i].time
          BY <1>1, <1>4, <3>1, <4>2
        <5>2. heap'[Parent(i)] = heap[Parent(i)] /\ heap'[i] = heap[l] /\ i # 0
          <6>1. Parent(i) \in Used' /\ Parent(i) # i /\ i \in Used' /\ i # 0
            BY <1>1, <1>5, <3>1, <4>2, Facts
          <6>2. QED
            BY <1>2, <6>1
        <5>3. heap[Parent(i)].time <= heap[l].time
          <6>1. Parent(i) \in Used /\ i # 0
            BY <1>1, <1>5, <3>1, <4>2
          <6>2. heap[i].time <= heap[l].time
            BY <1>1, <1>t, <1>9, <6>1
          <6>3. heap[Parent(i)].time \in Nat
            BY <1>t, <6>1
          <6>4. heap[i].time \in Nat
            BY <1>t
          <6>5. l \in Used
            BY <1>1
          <6>6. heap[l].time \in Nat
            BY <1>t, <6>5
          <6>7. QED
            BY <5>1, <6>2, <6>3, <6>4, <6>6
        <5>4. QED
          BY <4>2, <5>2, <5>3
      <4>3. QED
        BY <1>7, <3>1, <4>1, <4>2
    <3>2. QED
      BY <3>1 DEF OrderedExcept
  <2>2. QED
    BY <1>1, <1>3, <1>6, <1>9, <2>1 DEF IInv, SiftOrder, Idle, SiftsDown, SiftsUp
<1>10. QED
  BY <1>8, <1>9

LEMMA StepRemove ==
  ASSUME IInv, NEW type \in EventTypes, Remove(type)
  PROVE  IInv'
<1>1. PICK i \in Used : /\ Holds(i, type)
                        /\ heap' = Swap(heap, i, len - 1)
                        /\ op' = IF heap[len - 1].time < heap[i].time
                                 THEN "down_then_reset" ELSE "up_then_reset"
                        /\ sift' = i
  BY DEF Remove
<1>2. Idle /\ len' = len - 1 /\ now' = now
  BY DEF Remove
<1>3. QED
  BY <1>1, <1>2, Unseat

LEMMA StepPopReady ==
  ASSUME IInv, PopReady
  PROVE  IInv'
<1>1. 0 \in Used
  BY Facts DEF PopReady, Used
<1>2. QED
  BY <1>1, Unseat DEF PopReady

LEMMA StepReheapifyDown ==
  ASSUME IInv, ReheapifyDown
  PROVE  IInv'
<1> DEFINE p == Parent(sift)
<1>1. /\ len' = len /\ now' = now /\ op' = op /\ Used' = Used /\ sift' = p
      /\ SiftsDown /\ sift # 0 /\ heap[sift].time < heap[p].time
  BY DEF ReheapifyDown, RisesAbove, Used
<1>2. /\ sift < len /\ OrderedExcept({sift}) /\ OrderedAcross(sift)
      /\ sift \in Used /\ p \in Used /\ p < sift
  BY <1>1, ParentChild, Facts DEF IInv, SiftOrder, Used
<1>p. p \in Nat /\ sift \in Nat /\ p = Parent(sift)
  BY <1>2, Facts
<1>3. /\ heap' \in [Slots -> Event \union {DefaultEvent}]
      /\ heap'[sift] = heap[p] /\ heap'[p] = heap[sift]
      /\ \A k \in Used : k # sift /\ k # p => heap'[k] = heap[k]
  BY <1>2, SwapUsed DEF ReheapifyDown
<1>4. TypeOK'
  <2>1. \A k \in Used' : heap'[k] \in Event
    BY <1>1, <1>2, <1>3, Facts
  <2>2. QED
    BY <1>1, <1>2, <1>3, <2>1, Facts DEF TypeOK, IInv
<1>5. \A k \in Used : heap[k].time \in Nat
  BY Facts
<1>6. \A j \in Used \ {0} : Parent(j) \in Used /\ Parent(j) < j /\ j \in Nat
  BY ParentInUse
<1>7. \A j \in Used \ {0} : j # sift => heap[Parent(j)].time <= heap[j].time
  BY <1>2 DEF OrderedExcept
<1>8. \A j \in Used \ {0} : Parent(j) = sift => heap[p].time <= heap[j].time
  BY <1>1, <1>2 DEF OrderedAcross
<1>9. OrderedExcept({sift})'
  <2>1. ASSUME NEW j \in Used \ {0}, j # p
        PROVE  heap'[Parent(j)].time <= heap'[j].time
    <3>1. CASE j = sift
      BY <1>1, <1>2, <1>3, <1>5, <3>1
    <3>2. CASE j # sift /\ Parent(j) = p
      <4>1. heap[p].time <= heap[j].time
        BY <1>7, <3>2
      <4>2. QED
        BY <1>1, <1>2, <1>3, <1>5, <2>1, <3>2, <4>1
    <3>3. CASE j # sift /\ Parent(j) = sift
      BY <1>3, <1>8, <2>1, <3>3
    <3>4. CASE j # sift /\ Parent(j) # p /\ Parent(j) # sift
      BY <1>3, <1>6, <1>7, <2>1, <3>4
    <3>5. QED
      BY <3>1, <3>2, <3>3, <3>4
  <2>2. QED
    BY <1>1, <2>1 DEF OrderedExcept
<1>10. OrderedAcross(sift)'
  <2>1. ASSUME p # 0, NEW j \in Used \ {0}, Parent(j) = p
        PROVE  heap'[Parent(p)].time <= heap'[j].time
    <3>1. /\ Parent(p) \in Used /\ Parent(p) # p /\ Parent(p) # sift /\ j # p
      <4> HIDE DEF p
      <4>1. p \in Used \ {0}
        BY <1>2, <2>1
      <4>2. Parent(p) \in Used /\ Parent(p) < p /\ Parent(p) \in Nat
        BY <1>6, <4>1, Facts
      <4>3. j \in Nat /\ p < j
        BY <1>6, <2>1
      <4>4. QED
        BY <1>2, <1>p, <4>2, <4>3
    <3>2. heap[Parent(p)].time <= heap[p].time
      <4> HIDE DEF p
      <4>1. p \in Used \ {0} /\ p # sift
        BY <1>2, <1>p, <2>1
      <4>2. QED
        BY <1>7, <4>1
    <3>3. CASE j = sift
      BY <1>3, <3>1, <3>2, <3>3
    <3>4. CASE j # sift
      <4>1. heap[p].time <= heap[j].time
        BY <1>7, <2>1, <3>4
      <4>2. QED
        BY <1>2, <1>3, <1>5, <2>1, <3>1, <3>2, <3>4, <4>1
    <3>5. QED
      BY <3>3, <3>4
  <2>2. QED
    BY <1>1, <2>1 DEF OrderedAcross
<1>11. SiftOrder'
  <2>1. sift' < len'
    BY <1>1, <1>2, Facts DEF Used
  <2>2. QED
    BY <1>1, <1>9, <1>10, <2>1 DEF SiftOrder, Idle, SiftsDown, SiftsUp
<1>12. QED
  BY <1>4, <1>11 DEF IInv

LEMMA StepReheapifyUp ==
  ASSUME IInv, ReheapifyUp
  PROVE  IInv'
<1> DEFINE c == Child
<1>1. /\ len' = len /\ now' = now /\ op' = op /\ Used' = Used /\ sift' = c
      /\ SiftsUp /\ SinksBelow
  BY DEF ReheapifyUp, Used
<1>2. /\ c \in Used /\ c \in {2 * sift + 1, 2 * sift + 2}
      /\ heap[c].time < heap[sift].time
      /\ \A j \in {2 * sift + 1, 2 * sift + 2} : j < len => heap[c].time <= heap[j].time
  BY <1>1, ChildIsEarliest DEF IInv
<1>3. /\ sift \in Used /\ sift < c /\ Parent(c) = sift /\ c # 0
      /\ OrderedExcept({2 * sift + 1, 2 * sift + 2}) /\ OrderedAcross(sift)
  BY <1>1, <1>2, ChildParent, Facts DEF IInv, SiftOrder, Used
<1> HIDE DEF c
<1>4. /\ heap' \in [Slots -> Event \union {DefaultEvent}]
      /\ heap'[sift] = heap[c] /\ heap'[c] = heap[sift]
      /\ \A k \in Used : k # sift /\ k # c => heap'[k] = heap[k]
  BY <1>2, <1>3, SwapUsed DEF ReheapifyUp, c
<1>5. TypeOK'
  <2>1. \A k \in Used' : heap'[k] \in Event
    BY <1>1, <1>2, <1>3, <1>4, Facts
  <2>2. QED
    BY <1>1, <1>2, <1>4, <2>1, Facts DEF TypeOK, IInv
<1>6. \A k \in Used : heap[k].time \in Nat
  BY Facts
<1>7. \A j \in Used \ {0} : Parent(j) \in Used /\ Parent(j) < j /\ j \in Nat
  BY ParentInUse
<1>8. \A j \in Used \ {0} : Parent(j) # sift => heap[Parent(j)].time <= heap[j].time
  <2>1. TAKE j \in Used \ {0}
  <2>2. HAVE Parent(j) # sift
  <2>3. j \notin {2 * sift + 1, 2 * sift + 2}
    BY <2>2, ChildParent, Facts
  <2>4. QED
    BY <1>3, <2>3 DEF OrderedExcept
<1>9. \A j \in Used \ {0} : Parent(j) = sift => heap[c].time <= heap[j].time
  <2>1. TAKE j \in Used \ {0}
  <2>2. HAVE Parent(j) = sift
  <2>3. j < len /\ j \in {2 * sift + 1, 2 * sift + 2}
    BY <2>2, ParentChild, Facts DEF Used
  <2>4. QED
    BY <1>2, <2>3
<1>10. OrderedExcept({2 * sift + 1, 2 * sift + 2})'
  <2>1. ASSUME NEW j \in Used \ {0}, Parent(j) # c
        PROVE  heap'[Parent(j)].time <= heap'[j].time
    <3>1. CASE j = c
      BY <1>2, <1>3, <1>4, <1>6, <3>1
    <3>2. CASE j # c /\ Parent(j) = sift
      <4>1. j # sift
        BY <1>7, <2>1, <3>2, <1>3, Facts
      <4>2. QED
        BY <1>4, <1>9, <2>1, <3>2, <4>1
    <3>3. CASE j = sift
      <4>1. Parent(sift) \in Used /\ Parent(sift) < sift /\ sift # 0
        BY <1>3, <1>7, <2>1, <3>3
      <4>2. heap[Parent(sift)].time <= heap[c].time
        BY <1>2, <1>3, <4>1 DEF OrderedAcross
      <4>3. Parent(sift) # sift /\ Parent(sift) # c
        BY <1>3, <4>1, Facts
      <4>4. QED
        BY <1>3, <1>4, <2>1, <3>3, <4>1, <4>2, <4>3
    <3>4. CASE j # c /\ j # sift /\ Parent(j) # sift
      BY <1>4, <1>7, <1>8, <2>1, <3>4
    <3>5. QED
      BY <3>1, <3>2, <3>3, <3>4
  <2>2. ASSUME NEW j \in Used \ {0}, j \notin {2 * c + 1, 2 * c + 2}
        PROVE  Parent(j) # c
    BY <2>2, ParentChild, Facts DEF Used
  <2>3. QED
    BY <1>1, <2>1, <2>2 DEF OrderedExcept
<1>11. OrderedAcross(sift)'
  <2>1. ASSUME NEW j \in Used \ {0}, Parent(j) = c
        PROVE  heap'[Parent(c)].time <= heap'[j].time
    <3>1. j # c /\ j # sift /\ c # sift
      BY <1>2, <1>3, <1>7, <2>1, Facts
    <3>2. heap[c].time <= heap[j].time
      BY <1>8, <2>1, <3>1
    <3>3. QED
      BY <1>3, <1>4, <2>1, <3>1, <3>2
  <2>2. QED
    BY <1>1, <2>1 DEF OrderedAcross
<1>12. SiftOrder'
  <2>1. sift' <= len'
    BY <1>1, <1>2, Facts DEF Used
  <2>2. QED
    BY <1>1, <1>10, <1>11, <2>1 DEF SiftOrder, Idle, SiftsDown, SiftsUp
<1>13. QED
  BY <1>5, <1>12 DEF IInv

LEMMA StepReturn ==
  ASSUME IInv, Return
  PROVE  IInv'
<1>1. /\ len' = len /\ now' = now /\ op' = "none" /\ Used' = Used /\ sift' = 0
      /\ heap' = IF Resets /\ len = 0 THEN [heap EXCEPT ![0] = DefaultEvent] ELSE heap
  BY DEF Return, Used
<1>2. /\ \A k \in Used : heap'[k] = heap[k]
      /\ heap' \in [Slots -> Event \union {DefaultEvent}]
  <2>1. CASE len = 0
    BY <1>1, <2>1, Facts DEF Used, Slots
  <2>2. CASE len # 0
    BY <1>1, <2>2, Facts
  <2>3. QED
    BY <2>1, <2>2
<1>3. TypeOK'
  <2>1. \A k \in Used' : heap'[k] \in Event
    BY <1>1, <1>2, Facts
  <2>2. 0 \in Slots
    BY Facts DEF Slots
  <2>3. QED
    BY <1>1, <1>2, <2>1, <2>2 DEF TypeOK, IInv
<1>4. OrderedExcept({})
  <2>1. ASSUME NEW j \in Used \ {0}
        PROVE  heap[Parent(j)].time <= heap[j].time
    <3>1. /\ Parent(j) \in Used /\ Parent(j) < j /\ j \in Nat
          /\ heap[j].time \in Nat /\ heap[Parent(j)].time \in Nat
      BY ParentInUse, Facts
    <3>2. CASE SiftsDown /\ ~RisesAbove
      <4>1. CASE j = sift
        BY <3>1, <3>2, <4>1 DEF RisesAbove
      <4>2. CASE j # sift
        BY <3>2, <4>2 DEF IInv, SiftOrder, OrderedExcept
      <4>3. QED
        BY <4>1, <4>2
    <3>3. CASE SiftsUp /\ ~SinksBelow
      <4>1. CASE j \in {2 * sift + 1, 2 * sift + 2}
        <5>1. Parent(j) = sift /\ j < len
          BY <4>1, ChildParent, Facts DEF Used
        <5>2. QED
          BY <3>1, <3>3, <4>1, <5>1 DEF SinksBelow
      <4>2. CASE j \notin {2 * sift + 1, 2 * sift + 2}
        BY <3>3, <4>2 DEF IInv, SiftOrder, OrderedExcept
      <4>3. QED
        BY <4>1, <4>2
    <3>4. QED
      BY <3>2, <3>3 DEF Return
  <2>2. QED
    BY <2>1 DEF OrderedExcept
<1>5. OrderedExcept({})'
  BY <1>1, <1>2, <1>4, ParentInUse DEF OrderedExcept
<1>6. SiftOrder'
  BY <1>1, <1>5 DEF SiftOrder, Idle, SiftsDown, SiftsUp
<1>7. QED
  BY <1>3, <1>6 DEF IInv

LEMMA StepAdvanceTo ==
  ASSUME IInv, NEW t \in Times, AdvanceTo(t)
  PROVE  IInv'
<1>1. UNCHANGED <<heap, len, op, sift>> /\ now' = t
  BY DEF AdvanceTo
<1>2. TypeOK'
  BY <1>1 DEF IInv, TypeOK, Used
<1>3. SiftOrder'
  BY <1>1 DEF IInv, SiftOrder, OrderedExcept, OrderedAcross, Idle, SiftsDown, SiftsUp, Used
<1>4. QED
  BY <1>2, <1>3 DEF IInv

LEMMA StepStutter ==
  ASSUME IInv, UNCHANGED vars
  PROVE  IInv'
  BY DEF vars, IInv, TypeOK, SiftOrder, OrderedExcept, OrderedAcross, Idle, SiftsDown,
         SiftsUp, Used

LEMMA StepIInv == IInv /\ [Next]_vars => IInv'
<1> SUFFICES ASSUME IInv, [Next]_vars PROVE IInv'
  OBVIOUS
<1>1. CASE \E t \in Times : AdvanceTo(t)
  BY <1>1, StepAdvanceTo
<1>2. CASE \E new \in Event : Push(new)
  BY <1>2, StepPush
<1>3. CASE \E new \in Event : Update(new)
  BY <1>3, StepUpdate
<1>4. CASE \E new \in Event : LowerTime(new)
  BY <1>4, StepLowerTime
<1>5. CASE \E type \in EventTypes : Remove(type)
  BY <1>5, StepRemove
<1>6. CASE PopReady
  BY <1>6, StepPopReady
<1>7. CASE Sifting
  BY <1>7, StepReheapifyDown, StepReheapifyUp, StepReturn DEF Sifting
<1>8. CASE UNCHANGED vars
  BY <1>8, StepStutter
<1>9. QED
  BY <1>1, <1>2, <1>3, <1>4, <1>5, <1>6, <1>7, <1>8 DEF Next

\* The array always keeps the partial order the running sifting loop relies on, and the
\* whole heap order between two calls.
THEOREM HeapIsOrdered == Spec => [](TypeOK /\ SiftOrder)
<1>1. Spec => []IInv
  BY InitIInv, StepIInv, PTL DEF Spec
<1>2. QED
  BY <1>1, PTL DEF IInv

-----------------------------------------------------------------------------
\* Heap order puts an earliest event at the root, by taking the lowest slot that holds
\* an event earlier than the root's: its parent would hold one too.
LEMMA RootIsEarliest ==
  ASSUME IInv, OrderedExcept({})
  PROVE  \A i \in Used : heap[0].time <= heap[i].time
<1> DEFINE Earlier == {i \in Used : heap[i].time < heap[0].time}
<1>1. SUFFICES ASSUME Earlier # {} PROVE FALSE
  <2>1. \A i \in Used : 0 \in Used
    BY Facts DEF Used
  <2>2. QED
    BY <2>1, Facts, <1>1
<1>2. Earlier \subseteq Nat
  BY Facts
<1>3. PICK i \in Earlier : \A j \in Earlier : ~(<<j, i>> \in OpToRel(<, Nat))
  BY <1>1, <1>2, NatLessThanWellFounded, WFMin
<1>4. i \in Used /\ i # 0 /\ 0 \in Used
  <2>0. i \in Used /\ heap[i].time < heap[0].time
    BY <1>3
  <2>1. 0 \in Used
    BY <2>0, Facts DEF Used
  <2>2. heap[0].time \in Nat
    BY <2>1, Facts
  <2>3. QED
    BY <2>0, <2>1, <2>2
<1>5. Parent(i) \in Used /\ Parent(i) < i /\ i \in Nat /\ Parent(i) \in Nat
  BY <1>4, ParentInUse, Facts
<1>6. heap[Parent(i)].time <= heap[i].time
  BY <1>4 DEF OrderedExcept
<1>7. Parent(i) \in Earlier
  <2>1. heap[0].time \in Nat /\ heap[i].time \in Nat /\ heap[Parent(i)].time \in Nat
    BY <1>4, <1>5, Facts
  <2>2. heap[i].time < heap[0].time
    BY <1>3
  <2>3. heap[Parent(i)].time < heap[0].time
    BY <1>6, <2>1, <2>2
  <2>4. QED
    BY <1>5, <2>3
<1>8. QED
  BY <1>3, <1>5, <1>7 DEF OpToRel

\* Slot 0 of an empty heap is the sentinel again once the call that emptied it returns.
EmptyRoot ==
  /\ op = "up" => len # 0
  /\ Idle /\ len = 0 => heap[0] = DefaultEvent

LEMMA StepEmptyRoot ==
  ASSUME IInv, EmptyRoot, [Next]_vars
  PROVE  EmptyRoot'
<1>1. CASE \E t \in Times : AdvanceTo(t)
  BY <1>1 DEF EmptyRoot, AdvanceTo, Idle
<1>2. CASE \E new \in Event : Push(new)
  BY <1>2, Facts DEF EmptyRoot, Push, Idle
<1>3. CASE \E new \in Event : Update(new) \/ LowerTime(new)
  BY <1>3, Facts DEF EmptyRoot, Update, LowerTime, Idle, Used
<1>4. CASE \E type \in EventTypes : Remove(type)
  BY <1>4 DEF EmptyRoot, Remove, Idle
<1>5. CASE PopReady
  BY <1>5 DEF EmptyRoot, PopReady, Idle
<1>6. CASE ReheapifyDown \/ ReheapifyUp
  BY <1>6 DEF EmptyRoot, ReheapifyDown, ReheapifyUp, Idle, SiftsDown, SiftsUp
<1>7. CASE Return
  <2>1. CASE len = 0
    <3>1. Resets
      BY <2>1, <1>7, Facts
         DEF EmptyRoot, Return, Resets, SiftsDown, SiftsUp, IInv, SiftOrder
    <3>2. QED
      BY <1>7, <2>1, <3>1, Facts DEF EmptyRoot, Return, Slots
  <2>2. CASE len # 0
    BY <1>7, <2>2 DEF EmptyRoot, Return
  <2>3. QED
    BY <2>1, <2>2
<1>8. CASE UNCHANGED vars
  BY <1>8 DEF EmptyRoot, vars, Idle
<1>9. QED
  BY <1>1, <1>2, <1>3, <1>4, <1>5, <1>6, <1>7, <1>8 DEF Next, Sifting

LEMMA AlwaysIInv == Spec => [](IInv /\ EmptyRoot)
<1>1. Init => IInv /\ EmptyRoot
  <2>1. Init => EmptyRoot
    BY ConstantAssumption DEF Init, EmptyRoot, Idle, Slots
  <2>2. QED
    BY <2>1, InitIInv
<1>2. IInv /\ EmptyRoot /\ [Next]_vars => (IInv /\ EmptyRoot)'
  BY StepIInv, StepEmptyRoot
<1>3. QED
  BY <1>1, <1>2, PTL DEF Spec

\* is_event_ready may look at slot 0 without testing len: it holds an earliest pending
\* event, and an event that is never due when there is none.
THEOREM PeekIsAlwaysEarliest == Spec => []PeekIsEarliest
<1>1. IInv /\ EmptyRoot => PeekIsEarliest
  BY RootIsEarliest DEF EmptyRoot, PeekIsEarliest, Peek, DefaultEvent, IInv, SiftOrder
<1>2. QED
  BY <1>1, AlwaysIInv, PTL

-----------------------------------------------------------------------------
\* A sifting step permutes the events in use.
LEMMA SiftingPermutes ==
  ASSUME IInv, Sifting
  PROVE  /\ Used' = Used /\ now' = now
         /\ \/ \E i, j \in Used : heap' = Swap(heap, i, j)
            \/ \A k \in Used : heap'[k] = heap[k]
<1>1. CASE ReheapifyDown
  <2>1. sift \in Used /\ Parent(sift) \in Used
    BY <1>1, ParentInUse, Facts
       DEF ReheapifyDown, RisesAbove, IInv, SiftOrder, Used
  <2>2. QED
    BY <1>1, <2>1 DEF ReheapifyDown, Used
<1>2. CASE ReheapifyUp
  <2>1. Child \in Used
    BY <1>2, ChildIsEarliest DEF ReheapifyUp, IInv
  <2>2. sift \in Used
    BY <1>2, <2>1, ChildIsEarliest, Facts DEF ReheapifyUp, IInv, Used
  <2>3. QED
    BY <1>2, <2>1, <2>2 DEF ReheapifyUp, Used
<1>3. CASE Return
  <2>1. CASE len = 0
    BY <1>3, <2>1, Facts DEF Return, Used
  <2>2. CASE len # 0
    BY <1>3, <2>2 DEF Return, Used
  <2>3. QED
    BY <2>1, <2>2
<1>4. QED
  BY <1>1, <1>2, <1>3 DEF Sifting

\* No operation leaves two events of one type in use.
LEMMA StepOneEventPerType ==
  ASSUME IInv, OneEventPerType, [Next]_vars
  PROVE  OneEventPerType'
<1>1. ASSUME NEW i \in Used, NEW j \in Used, heap' = Swap(heap, i, j), Used' \subseteq Used
      PROVE  OneEventPerType'
  BY <1>1, SwapUsed DEF OneEventPerType
<1>2. ASSUME NEW new \in Event, Push(new)
      PROVE  OneEventPerType'
  <2>1. /\ Used' = Used \union {len} /\ len \notin Used
        /\ heap'[len] = new /\ \A k \in Used : heap'[k] = heap[k]
    BY <1>2, Facts DEF Push, Used, Slots
  <2>2. Absent(new.type)
    BY <1>2 DEF Push
  <2>3. QED
    BY <2>1, <2>2 DEF OneEventPerType, Absent
<1>3. ASSUME NEW new \in Event, Update(new)
      PROVE  OneEventPerType'
  <2>1. PICK i \in Used : Holds(i, new.type) /\ heap' = [heap EXCEPT ![i] = new]
    BY <1>3 DEF Update
  <2>2. /\ Used' = Used /\ heap'[i] = new /\ heap[i].type = new.type
        /\ \A k \in Used : k # i => heap'[k] = heap[k]
    BY <1>3, <2>1, Facts DEF Update, Used, Holds
  <2>3. QED
    BY <2>2 DEF OneEventPerType
<1>4. ASSUME NEW type \in EventTypes, Remove(type)
      PROVE  OneEventPerType'
  <2>1. PICK i \in Used : heap' = Swap(heap, i, len - 1)
    BY <1>4 DEF Remove
  <2>2. len - 1 \in Used /\ Used' \subseteq Used
    BY <1>4, <2>1, Facts DEF Remove, Used
  <2>3. QED
    BY <1>1, <2>1, <2>2
<1>5. ASSUME PopReady
      PROVE  OneEventPerType'
  <2>1. 0 \in Used /\ len - 1 \in Used /\ Used' \subseteq Used
    BY <1>5, Facts DEF PopReady, Used
  <2>2. QED
    BY <1>1, <1>5, <2>1 DEF PopReady
<1>6. ASSUME Sifting
      PROVE  OneEventPerType'
  <2>1. CASE \E i, j \in Used : heap' = Swap(heap, i, j)
    BY <1>1, <1>6, <2>1, SiftingPermutes
  <2>2. CASE \A k \in Used : heap'[k] = heap[k]
    BY <1>6, <2>2, SiftingPermutes DEF OneEventPerType
  <2>3. QED
    BY <1>6, <2>1, <2>2, SiftingPermutes
<1>7. ASSUME NEW new \in Event, LowerTime(new)
      PROVE  OneEventPerType'
  BY <1>3, <1>7, LowerTimeUpdates
<1>8. CASE (\E t \in Times : AdvanceTo(t)) \/ UNCHANGED vars
  BY <1>8 DEF OneEventPerType, AdvanceTo, vars, Used
<1>9. QED
  BY <1>2, <1>3, <1>4, <1>5, <1>6, <1>7, <1>8 DEF Next

\* The scheduler holds at most one event of a type.
THEOREM AtMostOneEventPerType == Spec => []OneEventPerType
<1>1. Init => OneEventPerType
  BY DEF Init, OneEventPerType, Used
<1>2. IInv /\ OneEventPerType /\ [Next]_vars => OneEventPerType'
  BY StepOneEventPerType
<1>3. QED
  BY <1>1, <1>2, AlwaysIInv, PTL DEF Spec

\* With a slot for every event type, an absent type finds a free one.
LEMMA RoomForAbsent ==
  ASSUME IInv, OneEventPerType
  PROVE  PushHasRoom
<1> SUFFICES ASSUME NEW type \in EventTypes, Absent(type)
             PROVE  len < Capacity
  BY DEF PushHasRoom
<1> DEFINE f == [i \in Used |-> heap[i].type]
           Others == EventTypes \ {type}
<1>1. IsFiniteSet(Others) /\ Cardinality(Others) = Cardinality(EventTypes) - 1
  BY CapacityAssumption, FS_RemoveElement
<1>2. f \in Injection(Used, Others)
  <2>1. \A i \in Used : heap[i].type \in Others
    BY Facts DEF Absent
  <2>2. \A i, j \in Used : f[i] = f[j] => i = j
    BY DEF OneEventPerType
  <2>3. QED
    BY <2>1, <2>2 DEF Injection, IsInjective
<1>3. Cardinality(Used) <= Cardinality(Others)
  BY <1>1, <1>2, FS_Injection
<1>4. Cardinality(Used) = len
  <2>1. 0 \in Int /\ len - 1 \in Int
    BY Facts
  <2>2. Cardinality(0 .. len - 1) = IF 0 > len - 1 THEN 0 ELSE len - 1 - 0 + 1
    BY <2>1, FS_Interval
  <2>3. QED
    BY <2>2, Facts DEF Used
<1>5. Cardinality(EventTypes) \in Nat
  BY CapacityAssumption, FS_CardinalityType
<1>6. QED
  BY <1>1, <1>3, <1>4, <1>5, CapacityAssumption, Facts

\* The assertion at the head of push cannot fail.
THEOREM PushAlwaysHasRoom == Spec => []PushHasRoom
  BY AlwaysIInv, AtMostOneEventPerType, RoomForAbsent, PTL

-----------------------------------------------------------------------------
\* The refinement of EventQueue.  Its events are those of the slots in use.
LEMMA SwapKeepsPending ==
  ASSUME IInv, NEW i \in Used, NEW j \in Used, heap' = Swap(heap, i, j)
  PROVE  {heap'[k] : k \in Used} = Pending
  BY SwapUsed DEF Pending

\* Two pending events of one type are the same event.
LEMMA PendingOfType ==
  ASSUME IInv, OneEventPerType, NEW i \in Used
  PROVE  Queue!OfType(heap[i].type) = {heap[i]}
  BY DEF OneEventPerType, Pending, Queue!OfType

LEMMA PushRefines ==
  ASSUME IInv, NEW new \in Event, Push(new)
  PROVE  Queue!UpdateOrPush(new)
<1>1. /\ Used' = Used \union {len} /\ len \notin Used /\ now' = now
      /\ heap'[len] = new /\ \A k \in Used : heap'[k] = heap[k]
  BY Facts DEF Push, Used, Slots
<1>2. Queue!OfType(new.type) = {}
  BY DEF Push, Absent, Pending, Queue!OfType
<1>3. Pending' = Pending \union {new}
  BY <1>1 DEF Pending
<1>4. QED
  BY <1>1, <1>2, <1>3 DEF Queue!UpdateOrPush

LEMMA UpdateRefines ==
  ASSUME IInv, OneEventPerType, NEW new \in Event, Update(new)
  PROVE  Queue!UpdateOrPush(new)
<1>1. PICK i \in Used : Holds(i, new.type) /\ heap' = [heap EXCEPT ![i] = new]
  BY DEF Update
<1>2. /\ Used' = Used /\ now' = now /\ heap'[i] = new /\ heap[i].type = new.type
      /\ \A k \in Used : k # i => heap'[k] = heap[k]
  BY <1>1, Facts DEF Update, Used, Holds
<1>3. \A k \in Used : k # i => heap[k] # heap[i]
  BY DEF OneEventPerType
<1>4. Pending' = (Pending \ {heap[i]}) \union {new}
  BY <1>2, <1>3 DEF Pending
<1>5. QED
  BY <1>2, <1>4, PendingOfType DEF Queue!UpdateOrPush

\* Taking the event of slot i out of use.
LEMMA UnseatPending ==
  ASSUME IInv, OneEventPerType, NEW i \in Used, heap' = Swap(heap, i, len - 1), len' = len - 1
  PROVE  Pending' = Pending \ {heap[i]}
<1>1. len - 1 \in Used /\ Used = Used' \union {len - 1} /\ len - 1 \notin Used'
  BY Facts DEF Used
<1>2. heap'[len - 1] = heap[i]
  BY <1>1, SwapUsed
<1>3. {heap'[k] : k \in Used} = Pending
  BY <1>1, SwapKeepsPending
<1>4. \A k \in Used' : heap'[k] # heap'[len - 1]
  <2>1. \A k \in Used : k # i /\ k # len - 1 => heap'[k] = heap[k]
    BY <1>1, SwapUsed
  <2>2. heap'[i] = heap[len - 1]
    BY <1>1, SwapUsed
  <2>3. \A k, m \in Used : k # m => heap[k] # heap[m]
    BY DEF OneEventPerType
  <2>4. QED
    BY <1>1, <1>2, <2>1, <2>2, <2>3
<1>5. QED
  BY <1>1, <1>2, <1>3, <1>4 DEF Pending

LEMMA RemoveRefines ==
  ASSUME IInv, OneEventPerType, NEW type \in EventTypes, Remove(type)
  PROVE  Queue!Remove(type)
<1>1. PICK i \in Used : Holds(i, type) /\ heap' = Swap(heap, i, len - 1)
  BY DEF Remove
<1>2. Pending' = Pending \ {heap[i]} /\ heap[i].type = type /\ now' = now
  BY <1>1, UnseatPending DEF Remove, Holds
<1>3. QED
  BY <1>2, PendingOfType DEF Queue!Remove

LEMMA PopRefines ==
  ASSUME IInv, OneEventPerType, PopReady
  PROVE  Queue!PopReady(heap[0])
<1>1. 0 \in Used /\ now' = now /\ heap[0].time <= now
  BY Facts DEF PopReady, Used, IsEventReady, Peek, IInv, TypeOK
<1>2. Pending' = Pending \ {heap[0]}
  BY <1>1, UnseatPending DEF PopReady
<1>3. \A i \in Used : heap[0].time <= heap[i].time
  BY RootIsEarliest DEF PopReady, IInv, SiftOrder
<1>4. QED
  BY <1>1, <1>2, <1>3 DEF Queue!PopReady, Pending

LEMMA SiftingRefines ==
  ASSUME IInv, Sifting
  PROVE  UNCHANGED <<now, Pending>>
<1>1. CASE \E i, j \in Used : heap' = Swap(heap, i, j)
  BY <1>1, SiftingPermutes, SwapKeepsPending DEF Pending
<1>2. CASE \A k \in Used : heap'[k] = heap[k]
  BY <1>2, SiftingPermutes DEF Pending
<1>3. QED
  BY <1>1, <1>2, SiftingPermutes

LEMMA StepRefines ==
  ASSUME IInv, OneEventPerType, [Next]_vars
  PROVE  [Queue!Next]_(Queue!vars)
<1>1. CASE \E t \in Times : AdvanceTo(t)
  BY <1>1 DEF AdvanceTo, Queue!AdvanceTo, Queue!Next, Pending, Used
<1>2. CASE \E new \in Event : Push(new) \/ Update(new) \/ LowerTime(new)
  BY <1>2, PushRefines, UpdateRefines, LowerTimeUpdates
     DEF Queue!Next, Event, Queue!Event
<1>3. CASE \E type \in EventTypes : Remove(type)
  BY <1>3, RemoveRefines DEF Queue!Next
<1>4. CASE PopReady
  <2>1. heap[0] \in Pending
    BY <1>4, Facts DEF PopReady, Used, Pending
  <2>2. QED
    BY <1>4, <2>1, PopRefines DEF Queue!Next
<1>5. CASE Sifting
  BY <1>5, SiftingRefines DEF Queue!vars
<1>6. CASE UNCHANGED vars
  BY <1>6 DEF vars, Queue!vars, Pending, Used
<1>7. QED
  BY <1>1, <1>2, <1>3, <1>4, <1>5, <1>6 DEF Next

\* The array heap implements the event queue: what pop_ready_event returns is always one
\* of the earliest pending events, and every other call does to the set of pending events
\* what its name says.
THEOREM HeapImplementsQueue == Spec => ImplementsQueue
<1>1. Init => Queue!Init
  BY DEF Init, Queue!Init, Pending, Used
<1>2. QED
  BY <1>1, StepRefines, AlwaysIInv, AtMostOneEventPerType, PTL
     DEF Spec, ImplementsQueue, Queue!Spec
=============================================================================
