----------------------------- MODULE EventQueue -----------------------------
(***************************************************************************)
(* What the scheduler of ps1-core promises the rest of the emulator, with  *)
(* no mention of how it is stored: at most one pending event per type,     *)
(* each with the CPU cycle it is due at, and popping always yields one of  *)
(* the earliest.  SchedulerHeap implements this specification with the     *)
(* array heap of scheduler/heap.rs; MainLoop is written on top of it.      *)
(***************************************************************************)
EXTENDS Naturals

CONSTANTS
  EventTypes,  \* SchedulerEventType
  Times        \* the CPU cycle numbers events may be scheduled at

VARIABLES
  now,         \* cpu_cycle_counter
  events       \* the pending events

vars == <<now, events>>

\* A pending SchedulerEvent.
Event == [type: EventTypes, time: Times]

\* The pending events of one type: none, or exactly one.
OfType(type) == {e \in events : e.type = type}

Init ==
  /\ now = 0
  /\ events = {}

\* increment_cpu_cycles
AdvanceTo(t) ==
  /\ now < t
  /\ now' = t
  /\ UNCHANGED events

\* update_or_push_event: the event replaces the pending one of its type.
UpdateOrPush(new) ==
  /\ events' = (events \ OfType(new.type)) \union {new}
  /\ UNCHANGED now

\* min_or_push_event: the earlier of the event and the pending one of its type.
MinOrPush(new) ==
  /\ events' = IF \A e \in OfType(new.type) : new.time < e.time
               THEN (events \ OfType(new.type)) \union {new}
               ELSE events
  /\ UNCHANGED now

\* remove_event
Remove(type) ==
  /\ events' = events \ OfType(type)
  /\ UNCHANGED now

\* pop_ready_event: one of the earliest events, when its time has come.
PopReady(e) ==
  /\ e \in events
  /\ \A f \in events : e.time <= f.time
  /\ e.time <= now
  /\ events' = events \ {e}
  /\ UNCHANGED now

Next ==
  \/ \E t \in Times : AdvanceTo(t)
  \/ \E new \in Event : UpdateOrPush(new) \/ MinOrPush(new)
  \/ \E type \in EventTypes : Remove(type)
  \/ \E e \in events : PopReady(e)

Spec == Init /\ [][Next]_vars
=============================================================================
