----------------------------- MODULE BuildQueue -----------------------------
(***************************************************************************)
(* BuildQueue (src/src/buildqueue.hpp): at most Concurrency pieces of work *)
(* hold a slot; the others wait in three lines.  Work may give its slot    *)
(* back through its Lease and take one again, ahead of new work, and       *)
(* whoever waited resumes later on the Handoff scheduler.                  *)
(*                                                                         *)
(* Threads interleave at the queue's mutex.  A SlotOperation (one wait for *)
(* a slot, first or reacquired) goes through slot[w]:                      *)
(*   "none"     no such operation is under way                             *)
(*   "armed"    start() registered the stop callback, lock not yet taken   *)
(*   "queued"   in a line, or handed a slot and about to resume (q.given)  *)
(*   "stopped"  taken off the queue by a stop, about to resume stopped     *)
(* and stopped_early[w] is its m_stopped_early.  held[w] is the Lease's    *)
(* m_held.                                                                 *)
(***************************************************************************)
EXTENDS SlotLines, FiniteSets

CONSTANTS Work,          \* pieces of work, each scheduled at most once
          Concurrency,   \* the slots the queue is created with
          HandoffStops   \* whether Handoff may shut down while work waits

ASSUME WorkAssumption == IsFiniteSet(Work)
ASSUME TicketedAssumption == Ticketed \subseteq Work
ASSUME ConcurrencyAssumption == Concurrency \in Nat \ {0}
ASSUME HandoffStopsAssumption == HandoffStops \in BOOLEAN

VARIABLES q,              \* what m_mutex guards, see SlotLines
          work,           \* how far each piece of work is
          slot,           \* its SlotOperation
          stopped_early,  \* the operation's m_stopped_early
          held,           \* Lease::m_held
          handoff         \* whether Handoff still runs what it is given

vars == <<q, work, slot, stopped_early, held, handoff>>

WorkState == {"idle", "scheduled", "working", "ended"}
SlotState == {"none", "armed", "queued", "stopped"}

Init == /\ q = EmptyLines(Concurrency)
        /\ work = [w \in Work |-> "idle"]
        /\ slot = [w \in Work |-> "none"]
        /\ stopped_early = [w \in Work |-> FALSE]
        /\ held = [w \in Work |-> FALSE]
        /\ handoff = TRUE

(* Whether w's SlotOperation takes back a slot rather than a first one.    *)
Reacquires(w) == work[w] = "working"

----------------------------------------------------------------------------
(* The completions of a SlotOperation.                                     *)

complete_given(w) ==
    /\ held' = [held EXCEPT ![w] = TRUE]
    /\ work' = [work EXCEPT ![w] = "working"]
    /\ slot' = [slot EXCEPT ![w] = "none"]

(* New work completes stopped and is over; a lease taking its slot back    *)
(* goes on without one.                                                    *)
complete_stopped(w) ==
    /\ work' = [work EXCEPT ![w] = IF Reacquires(w) THEN @ ELSE "ended"]
    /\ slot' = [slot EXCEPT ![w] = "none"]
    /\ UNCHANGED held

----------------------------------------------------------------------------
(* start() up to its lock.                                                 *)

Arm(w) == /\ slot' = [slot EXCEPT ![w] = "armed"]
          /\ stopped_early' = [stopped_early EXCEPT ![w] = FALSE]
          /\ UNCHANGED <<q, held, handoff>>

schedule_leased(w) == /\ work[w] = "idle"
                      /\ work' = [work EXCEPT ![w] = "scheduled"]
                      /\ Arm(w)

reacquire(w) == /\ work[w] = "working"
                /\ ~held[w]
                /\ slot[w] = "none"
                /\ UNCHANGED work
                /\ Arm(w)

(* The locked block of start() and the completion that follows it.         *)
StartStopped(w) == /\ slot[w] = "armed"
                   /\ stopped_early[w]
                   /\ complete_stopped(w)
                   /\ UNCHANGED <<q, stopped_early, handoff>>

try_take(w) == /\ slot[w] = "armed"
               /\ ~stopped_early[w]
               /\ q.free > 0
               /\ q' = [q EXCEPT !.free = @ - 1]
               /\ complete_given(w)
               /\ UNCHANGED <<stopped_early, handoff>>

StartQueued(w) == /\ slot[w] = "armed"
                  /\ ~stopped_early[w]
                  /\ q.free = 0
                  /\ q' = enqueue(q, w, Reacquires(w))
                  /\ slot' = [slot EXCEPT ![w] = "queued"]
                  /\ UNCHANGED <<work, stopped_early, held, handoff>>

(* Mutant: the waiter is resumed stopped and stays in its line.            *)
on_stop_in_line(w) ==
    /\ slot[w] \in {"armed", "queued"}
    /\ ~stopped_early[w]
    /\ IF Queued(q, w, Reacquires(w))
       THEN slot' = [slot EXCEPT ![w] = "stopped"] /\ UNCHANGED stopped_early
       ELSE /\ stopped_early' = [stopped_early EXCEPT ![w] = TRUE]
            /\ UNCHANGED slot
    /\ UNCHANGED <<q, work, held, handoff>>

(* A stop is requested while the operation's callback is registered.       *)
on_stop(w) ==
    /\ slot[w] \in {"armed", "queued"}
    /\ ~stopped_early[w]
    /\ \/ /\ Queued(q, w, Reacquires(w))
          /\ q' = dequeue(q, w, Reacquires(w))
          /\ slot' = [slot EXCEPT ![w] = "stopped"]
          /\ UNCHANGED stopped_early
       \/ /\ ~Queued(q, w, Reacquires(w))
          /\ stopped_early' = [stopped_early EXCEPT ![w] = TRUE]
          /\ UNCHANGED <<q, slot>>
    /\ UNCHANGED <<work, held, handoff>>

----------------------------------------------------------------------------
(* Resume on Handoff, or the answer of a Handoff that is shutting down.    *)

ResumeGiven(w) == /\ handoff
                  /\ w \in q.given
                  /\ q' = [q EXCEPT !.given = @ \ {w}]
                  /\ complete_given(w)
                  /\ UNCHANGED <<stopped_early, handoff>>

(* Mutant: the slot that cannot be used is not passed on.                  *)
ResumeLosingSlot(w) == /\ ~handoff
                       /\ w \in q.given
                       /\ q' = [q EXCEPT !.given = @ \ {w}]
                       /\ complete_stopped(w)
                       /\ UNCHANGED <<stopped_early, handoff>>

ResumeGivenAtShutdown(w) == /\ ~handoff
                            /\ w \in q.given
                            /\ q' = release([q EXCEPT !.given = @ \ {w}])
                            /\ complete_stopped(w)
                            /\ UNCHANGED <<stopped_early, handoff>>

ResumeStopped(w) == /\ slot[w] = "stopped"
                    /\ complete_stopped(w)
                    /\ UNCHANGED <<q, stopped_early, handoff>>

ShutDownHandoff == /\ HandoffStops
                   /\ handoff
                   /\ handoff' = FALSE
                   /\ UNCHANGED <<q, work, slot, stopped_early, held>>

----------------------------------------------------------------------------
(* Mutant: a lease that holds no slot gives one back.                      *)
ReleaseTwice(w) == /\ work[w] = "working"
                   /\ slot[w] = "none"
                   /\ held' = [held EXCEPT ![w] = FALSE]
                   /\ q' = release(q)
                   /\ UNCHANGED <<work, slot, stopped_early, handoff>>

(* Lease::release, by the work while it waits on something.                *)
ReleaseLease(w) == /\ held[w]
                   /\ held' = [held EXCEPT ![w] = FALSE]
                   /\ q' = release(q)
                   /\ UNCHANGED <<work, slot, stopped_early, handoff>>

(* The work completes: the lease gives back its slot if it holds one.  No  *)
(* reacquire() may be under way then.                                      *)
Finish(w) == /\ work[w] = "working"
             /\ slot[w] = "none"
             /\ work' = [work EXCEPT ![w] = "ended"]
             /\ held' = [held EXCEPT ![w] = FALSE]
             /\ q' = IF held[w] THEN release(q) ELSE q
             /\ UNCHANGED <<slot, stopped_early, handoff>>

Promote(t) == /\ t \notin q.hurry
              /\ q' = promote(q, t)
              /\ UNCHANGED <<work, slot, stopped_early, held, handoff>>

----------------------------------------------------------------------------

Start(w) == StartStopped(w) \/ try_take(w) \/ StartQueued(w)

Resume(w) == ResumeGiven(w) \/ ResumeGivenAtShutdown(w) \/ ResumeStopped(w)

Next == \/ \E w \in Work : \/ schedule_leased(w) \/ reacquire(w)
                           \/ Start(w) \/ on_stop(w) \/ Resume(w)
                           \/ ReleaseLease(w) \/ Finish(w)
        \/ \E t \in Ticketed : Promote(t)
        \/ ShutDownHandoff

Spec == Init /\ [][Next]_vars

(* start() runs to its end and Handoff runs what it is given.              *)
Progress == \A w \in Work : WF_vars(Start(w)) /\ WF_vars(Resume(w))

(* Work that holds a slot gives it back sooner or later, for a while or    *)
(* for good: it waits on other builds or its process ends.                 *)
SlotsComeBack == \A w \in Work : WF_vars(held[w] /\ (ReleaseLease(w) \/ Finish(w)))

(* Work that started ends sooner or later; only ScheduledEnds assumes it.  *)
WorkEnds == \A w \in Work : SF_vars(Finish(w))

FairSpec == Spec /\ Progress /\ SlotsComeBack

----------------------------------------------------------------------------
(* Properties.                                                             *)

Owners == {w \in Work : held[w]} \cup q.given

(* The queue's counts, lines and tickets stay well formed: m_free never    *)
(* falls below zero, and only tickets are promoted or point at a waiter.   *)
TypeOK == /\ q \in LinesOver(Work)
          /\ work \in [Work -> WorkState]
          /\ slot \in [Work -> SlotState]
          /\ stopped_early \in [Work -> BOOLEAN]
          /\ held \in [Work -> BOOLEAN]
          /\ handoff \in BOOLEAN

(* No slot is lost or made up, whichever way a stop, a hand-over, a        *)
(* shutdown of Handoff and the end of the work race: the free slots and    *)
(* the slots owned, by a lease or by a waiter about to resume, always add  *)
(* up to the queue's concurrency.                                          *)
SlotsConserved == q.free + Cardinality(Owners) = Concurrency

(* No slot lies idle while work is in line for one.                        *)
NoIdleSlot == q.free > 0 =>
                q.reacquiring = <<>> /\ q.promoted = <<>> /\ q.waiting = <<>>

(* Exactly the operations that wait are in line or handed a slot, each in  *)
(* one place and once: leases in m_reacquiring, new work in the others, so *)
(* that on_stop's dequeue finds it and release() never pops one twice.     *)
InOnePlace ==
    /\ IsInjective(q.reacquiring)
    /\ IsInjective(q.promoted)
    /\ IsInjective(q.waiting)
    /\ ToSet(q.promoted) \cap ToSet(q.waiting) = {}
    /\ ToSet(q.reacquiring) \cup ToSet(q.promoted) \cup ToSet(q.waiting)
            = {w \in Work : slot[w] = "queued"} \ q.given
    /\ \A w \in q.given : slot[w] = "queued"
    /\ \A w \in ToSet(q.reacquiring) : work[w] = "working"
    /\ \A w \in ToSet(q.promoted) \cup ToSet(q.waiting) : work[w] = "scheduled"

(* A ticket points at its waiter exactly while that waits for its first    *)
(* slot, and a promoted ticket's waiter never stays behind in m_waiting,   *)
(* whether it was promoted before it queued, while it waited or after.     *)
TicketsFollowWaiters ==
    /\ q.inLine = Ticketed \cap (ToSet(q.promoted) \cup ToSet(q.waiting))
    /\ ToSet(q.promoted) = q.inLine \cap q.hurry

(* A lease that waits to take its slot back never holds one, and one that  *)
(* holds a slot belongs to work under way.                                 *)
HeldByWorking == \A w \in Work :
                    held[w] => work[w] = "working" /\ slot[w] = "none"

(* A lease taking its slot back is answered however much new work is in    *)
(* line and however often other leases come and go.                        *)
ReacquireAnswered ==
    \A w \in Work : slot[w] = "queued" /\ Reacquires(w) ~> slot[w] = "none"

(* If work that has started ends sooner or later, all work that is         *)
(* scheduled does, with a slot or stopped: no waiter is left behind.       *)
ScheduledEnds ==
    WorkEnds => \A w \in Work : work[w] = "scheduled" ~> work[w] = "ended"

(* The work that owns a slot, as SlotPool sees it.                         *)
Pool == INSTANCE SlotPool WITH owners <- Owners

(* The queue keeps SlotPool's promises: never more owners than slots, and  *)
(* each step moves at most one slot, taken, given back or passed on.       *)
ImplementsSlotPool == Pool!Spec

=============================================================================
