---------------------------- MODULE SchedulerHeap ----------------------------
(***************************************************************************)
(* ps1-core/src/scheduler.rs over the binary heap of scheduler/heap.rs.    *)
(*                                                                         *)
(* The heap is an array of Capacity slots of which the first len are in    *)
(* use; a slot that is not in use keeps whatever it held last.  Every      *)
(* operation edits the array and then runs one of the two sifting loops.   *)
(* The loops are modelled one iteration per step (variable sift), because  *)
(* their termination and the order they restore are what is in question.   *)
(* The names are the source's, where reheapify_down moves an event towards *)
(* the root (index 0) and reheapify_up moves one towards the leaves.       *)
(***************************************************************************)
EXTENDS Integers, FiniteSets

CONSTANTS
  EventTypes,  \* SchedulerEventType
  Times,       \* the CPU cycle numbers events may be scheduled at
  Capacity,    \* CAPACITY, 20 in the source
  Never,       \* u64::MAX, the time of the event in an empty heap's root
  DefaultType  \* VBlank, the type of that event

ASSUME ConstantAssumption ==
  /\ Times \subseteq Nat
  /\ Capacity \in Nat \ {0}
  /\ Never \in Nat
  /\ \A t \in Times : t < Never
  /\ DefaultType \in EventTypes

\* Ten event types and twenty slots in the source.
ASSUME CapacityAssumption ==
  /\ IsFiniteSet(EventTypes)
  /\ Cardinality(EventTypes) <= Capacity

VARIABLES
  now,    \* Scheduler.cpu_cycle_counter
  heap,   \* the CAPACITY slots of UpdateableMinHeap.heap
  len,    \* UpdateableMinHeap.len
  op,     \* the method running: "none" between two calls
  sift    \* the index i of the sifting loop that is running

vars == <<now, heap, len, op, sift>>

Slots == 0 .. Capacity - 1
Event == [type: EventTypes, time: Times]

\* SchedulerEvent::default
DefaultEvent == [type |-> DefaultType, time |-> Never]

\* The operations, by the loop each ends with.  "pop" and "remove" reset the
\* root of a heap they leave empty.
Ops == {"down", "up", "up_then_reset", "down_then_reset"}
SiftsDown == op \in {"down", "down_then_reset"}
SiftsUp == op \in {"up", "up_then_reset"}
Resets == op \in {"up_then_reset", "down_then_reset"}
Idle == op = "none"

Parent(i) == (i - 1) \div 2

\* The slots that hold events.
Used == 0 .. len - 1

\* <[T]>::swap
Swap(h, i, j) == [h EXCEPT ![i] = h[j], ![j] = h[i]]

\* The slot of the pending event of a type: iter().position(pred) in every caller.
Holds(i, type) == i \in Used /\ heap[i].type = type
Absent(type) == \A i \in Used : heap[i].type # type

Init ==
  /\ now = 0
  /\ heap = [i \in Slots |-> DefaultEvent]
  /\ len = 0
  /\ op = "none"
  /\ sift = 0
-----------------------------------------------------------------------------
\* increment_cpu_cycles
AdvanceTo(t) ==
  /\ Idle
  /\ now < t
  /\ now' = t
  /\ UNCHANGED <<heap, len, op, sift>>

\* Mutants are plausible bugs; each replaces the definition that follows it.
PushAlways(new) ==
  /\ Idle
  /\ len < Capacity
  /\ heap' = [heap EXCEPT ![len] = new]
  /\ len' = len + 1
  /\ op' = "down"
  /\ sift' = len
  /\ UNCHANGED now

\* push.  The assertion at its head is the guard; PushHasRoom says it never fails.
Push(new) ==
  /\ Idle
  /\ Absent(new.type)
  /\ len < Capacity
  /\ heap' = [heap EXCEPT ![len] = new]
  /\ len' = len + 1
  /\ op' = "down"
  /\ sift' = len
  /\ UNCHANGED now

\* The branch of update_or_push that finds an event of the same type.
Update(new) ==
  /\ Idle
  /\ \E i \in Used :
       /\ Holds(i, new.type)
       /\ heap' = [heap EXCEPT ![i] = new]
       /\ op' = IF new.time < heap[i].time THEN "down" ELSE "up"
       /\ sift' = i
  /\ UNCHANGED <<now, len>>

LowerTimeOfAny(new) ==
  /\ Idle
  /\ \E i \in Used :
       /\ new.time < heap[i].time
       /\ heap' = [heap EXCEPT ![i] = new]
       /\ sift' = i
  /\ op' = "down"
  /\ UNCHANGED <<now, len>>

\* The branch of min_or_push that finds a later event of the same type; with an
\* earlier one the call changes nothing.
LowerTime(new) ==
  /\ Idle
  /\ \E i \in Used :
       /\ Holds(i, new.type)
       /\ new.time < heap[i].time
       /\ heap' = [heap EXCEPT ![i] = new]
       /\ sift' = i
  /\ op' = "down"
  /\ UNCHANGED <<now, len>>

\* remove_one.  The last event takes the place of the removed one and may
\* belong on either side of it.
Remove(type) ==
  /\ Idle
  /\ len' = len - 1
  /\ \E i \in Used :
       /\ Holds(i, type)
       /\ heap' = Swap(heap, i, len - 1)
       /\ op' = IF heap[len - 1].time < heap[i].time
                THEN "down_then_reset" ELSE "up_then_reset"
       /\ sift' = i
  /\ UNCHANGED now

\* peek, and is_event_ready
Peek == heap[0]
IsEventReady == now >= Peek.time

PopReadyPastEnd ==
  /\ Idle
  /\ IsEventReady
  /\ len # 0
  /\ len' = len - 1
  /\ heap' = Swap(heap, 0, len)
  /\ op' = "up_then_reset"
  /\ sift' = 0
  /\ UNCHANGED now

\* pop_ready_event and pop.  The event returned is the one swapped out of use.
PopReady ==
  /\ Idle
  /\ IsEventReady
  /\ len # 0
  /\ len' = len - 1
  /\ heap' = Swap(heap, 0, len - 1)
  /\ op' = "up_then_reset"
  /\ sift' = 0
  /\ UNCHANGED now
-----------------------------------------------------------------------------
\* One iteration of reheapify_down that does not break.
RisesAbove == sift # 0 /\ heap[sift].time < heap[Parent(sift)].time

ReheapifyDown ==
  /\ SiftsDown
  /\ RisesAbove
  /\ heap' = Swap(heap, sift, Parent(sift))
  /\ sift' = Parent(sift)
  /\ UNCHANGED <<now, len, op>>

ChildFirst == 2 * sift + 1

\* The child reheapify_up compares with and swaps with: the second only when it
\* exists and is strictly earlier than the first.
Child ==
  LET j1 == 2 * sift + 1
      j2 == 2 * sift + 2
  IN IF j2 < len /\ heap[j2].time < heap[j1].time THEN j2 ELSE j1

\* The loop goes on while some child in use is strictly earlier.
SinksBelow ==
  \E j \in {2 * sift + 1, 2 * sift + 2} : j < len /\ heap[j].time < heap[sift].time

ReheapifyUp ==
  /\ SiftsUp
  /\ SinksBelow
  /\ heap' = Swap(heap, sift, Child)
  /\ sift' = Child
  /\ UNCHANGED <<now, len, op>>

ReturnWithoutReset ==
  /\ \/ SiftsDown /\ ~RisesAbove
     \/ SiftsUp /\ ~SinksBelow
  /\ op' = "none"
  /\ sift' = 0
  /\ UNCHANGED <<now, len, heap>>

\* The loop breaks and the method returns.
Return ==
  /\ \/ SiftsDown /\ ~RisesAbove
     \/ SiftsUp /\ ~SinksBelow
  /\ heap' = IF Resets /\ len = 0 THEN [heap EXCEPT ![0] = DefaultEvent] ELSE heap
  /\ op' = "none"
  /\ sift' = 0
  /\ UNCHANGED <<now, len>>

Sifting == ReheapifyDown \/ ReheapifyUp \/ Return

Next ==
  \/ \E t \in Times : AdvanceTo(t)
  \/ \E new \in Event : Push(new) \/ Update(new) \/ LowerTime(new)
  \/ \E type \in EventTypes : Remove(type)
  \/ PopReady
  \/ Sifting

Spec == Init /\ [][Next]_vars
-----------------------------------------------------------------------------
TypeOK ==
  /\ now \in Times \union {0}
  /\ heap \in [Slots -> Event \union {DefaultEvent}]
  /\ len \in 0 .. Capacity
  /\ op \in Ops \union {"none"}
  /\ sift \in Slots
  /\ \A i \in Used : heap[i] \in Event

\* The scheduler never holds two events of one type, whatever mixture of
\* update_or_push, min_or_push, remove and pop produced it.
OneEventPerType ==
  \A i, j \in Used : heap[i].type = heap[j].type => i = j

\* Between two calls every event is due at or after its parent in the array.  A
\* sifting loop leaves at most the event at its index out of place, and the events
\* around that index are in order with each other, so the loop can stop anywhere
\* its test says so.
OrderedExcept(S) == \A i \in Used \ {0} : i \notin S => heap[Parent(i)].time <= heap[i].time

OrderedAcross(i) ==
  i # 0 => \A j \in Used \ {0} : Parent(j) = i => heap[Parent(i)].time <= heap[j].time

SiftOrder ==
  /\ Idle => OrderedExcept({})
  /\ SiftsDown => sift < len /\ OrderedExcept({sift}) /\ OrderedAcross(sift)
  /\ SiftsUp =>
       /\ sift <= len
       /\ OrderedExcept({2 * sift + 1, 2 * sift + 2})
       /\ OrderedAcross(sift)

\* is_event_ready looks at slot 0 without testing len: between two calls that slot
\* holds an earliest pending event, or the never-due sentinel when there is none.
PeekIsEarliest ==
  Idle => IF len = 0 THEN Peek.time = Never
          ELSE \A i \in Used : Peek.time <= heap[i].time

\* The assertion in push never fails: an event is only pushed when none of its
\* type is pending, so there is always a free slot.
PushHasRoom ==
  \A type \in EventTypes : Absent(type) => len < Capacity

\* The heap implements EventQueue: the pending events are those of the slots in
\* use, sifting only permutes them, and the event popped is an earliest one.
Pending == {heap[i] : i \in Used}

Queue == INSTANCE EventQueue WITH events <- Pending

ImplementsQueue == Queue!Spec
=============================================================================
