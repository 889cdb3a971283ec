-------------------------- MODULE BuildQueueProofs --------------------------
(***************************************************************************)
(* The safety of BuildQueue for any finite amount of work, any concurrency *)
(* and lines of any length.                                                *)
(*                                                                         *)
(* None of the properties is inductive by itself: that slots add up rests  *)
(* on whoever is handed one holding none yet, which rests on where each    *)
(* waiter is, which rests on the state of its SlotOperation.  Inv puts     *)
(* these together, with the lines seen as sets (SlotLinesProofs).          *)
(***************************************************************************)
EXTENDS BuildQueue, SlotLinesProofs

InLine == Reacquirers(q) \cup NewWork(q)

(* Exactly the queued operations are in line or handed a slot.             *)
Placed ==
    /\ InLine \cup q.given = {w \in Work : slot[w] = "queued"}
    /\ \A w \in Reacquirers(q) : work[w] = "working"
    /\ \A w \in NewWork(q) : work[w] = "scheduled"

(* Only work that is not over waits for a slot.                            *)
Busy == \A w \in Work : slot[w] # "none" => work[w] \in {"scheduled", "working"}

(* NoIdleSlot, with the lines as sets.                                     *)
NoIdle == q.free > 0 => InLine = {}

Inv == /\ TypeOK
       /\ Sound(q, Work)
       /\ Placed
       /\ HeldByWorking
       /\ Busy
       /\ NoIdle
       /\ SlotsConserved

Holders == {w \in Work : held[w]}

----------------------------------------------------------------------------

(* A line is empty exactly if nobody is in it.                             *)
LEMMA EmptyLine ==
    ASSUME NEW S, NEW s \in Seq(S)
    PROVE  s = <<>> <=> ToSet(s) = {}
BY DEF ToSet

----------------------------------------------------------------------------
(* Each action preserves Inv, and does to the owners of slots what         *)
(* SlotPool allows.                                                        *)

PoolStep == [Pool!Next]_Owners

(* SlotPool counts owners the same way.                                    *)
LEMMA PoolCardinality ==
    ASSUME NEW S
    PROVE  Pool!Cardinality(S) = Cardinality(S)
BY DEF Pool!Cardinality, Cardinality

(* Facts every step starts from.                                           *)
LEMMA Basics ==
    ASSUME Inv
    PROVE  /\ q.free \in Nat /\ q.given \in SUBSET Work
           /\ InLine \in SUBSET Work
           /\ Owners \in SUBSET Work /\ Cardinality(Owners) \in Nat
           /\ Owners = Holders \cup q.given
           /\ Holders \cap (InLine \cup q.given) = {}
           /\ q.given \cap InLine = {}
           /\ Concurrency \in Nat
<1>1. q.free \in Nat /\ q.given \in SUBSET Work
  BY DEF Inv, TypeOK, LinesOver
<1>2. InLine \in SUBSET Work
  BY DEF Inv, Placed
<1>3. Owners = Holders \cup q.given /\ Owners \in SUBSET Work
  BY <1>1 DEF Owners, Holders
<1>4. Cardinality(Owners) \in Nat
  BY <1>3, Counting, WorkAssumption
<1>5. Holders \cap (InLine \cup q.given) = {}
  BY <1>1, <1>2 DEF Inv, Placed, HeldByWorking, Holders
<1>6. q.given \cap InLine = {}
  BY DEF Inv, Sound, InLine
<1> QED BY <1>1, <1>2, <1>3, <1>4, <1>5, <1>6, ConcurrencyAssumption

(* A SlotOperation that starts waits in no line yet.                       *)
LEMMA ArmInv ==
    ASSUME Inv, NEW w \in Work, schedule_leased(w) \/ reacquire(w)
    PROVE  Inv' /\ PoolStep
<1>1. /\ slot' = [slot EXCEPT ![w] = "armed"]
      /\ q' = q /\ held' = held
      /\ ~held[w] /\ slot[w] = "none"
      /\ work' \in [Work -> WorkState]
      /\ work'[w] \in {"scheduled", "working"}
      /\ \A v \in Work : v # w => work'[v] = work[v]
  BY DEF schedule_leased, reacquire, Arm, Inv, TypeOK, Busy, HeldByWorking, WorkState
<1>2. TypeOK'
  BY <1>1 DEF schedule_leased, reacquire, Arm, Inv, TypeOK, SlotState
<1>3. Sound(q, Work)'
  BY <1>1 DEF Inv
<1>4. w \notin InLine \cup q.given /\ Reacquirers(q)' = Reacquirers(q)
      /\ NewWork(q)' = NewWork(q) /\ InLine' = InLine
  BY <1>1 DEF Inv, Placed, InLine
<1>5. Placed'
  <2>1. {v \in Work : slot'[v] = "queued"} = {v \in Work : slot[v] = "queued"}
    BY <1>1 DEF Inv, TypeOK
  <2>2. Reacquirers(q) \subseteq Work /\ NewWork(q) \subseteq Work
    BY Basics DEF InLine
  <2> QED BY <1>1, <1>4, <2>1, <2>2 DEF Inv, Placed, InLine
<1>6. HeldByWorking' /\ Busy'
  BY <1>1 DEF Inv, TypeOK, HeldByWorking, Busy
<1>7. NoIdle'
  BY <1>1, <1>4 DEF Inv, NoIdle
<1>8. Owners' = Owners
  BY <1>1 DEF Owners
<1>9. SlotsConserved'
  BY <1>1, <1>8 DEF Inv, SlotsConserved
<1> QED BY <1>2, <1>3, <1>5, <1>6, <1>7, <1>8, <1>9 DEF Inv, PoolStep

(* A SlotOperation completes stopped, before it queued or out of line.     *)
LEMMA StoppedInv ==
    ASSUME Inv, NEW w \in Work, StartStopped(w) \/ ResumeStopped(w)
    PROVE  Inv' /\ PoolStep
<1>1. /\ slot' = [slot EXCEPT ![w] = "none"]
      /\ q' = q /\ held' = held
      /\ slot[w] \in {"armed", "stopped"}
      /\ work' = [work EXCEPT ![w] = IF work[w] = "working" THEN @ ELSE "ended"]
  BY DEF StartStopped, ResumeStopped, complete_stopped, Reacquires
<1>2. TypeOK'
  BY <1>1 DEF StartStopped, ResumeStopped, Inv, TypeOK, SlotState, WorkState
<1>3. Sound(q, Work)'
  BY <1>1 DEF Inv
<1>4. w \notin InLine \cup q.given /\ Reacquirers(q)' = Reacquirers(q)
      /\ NewWork(q)' = NewWork(q) /\ InLine' = InLine
  BY <1>1 DEF Inv, Placed, InLine
<1>5. Placed'
  <2>1. {v \in Work : slot'[v] = "queued"} = {v \in Work : slot[v] = "queued"}
    BY <1>1 DEF Inv, TypeOK
  <2>2. Reacquirers(q) \subseteq Work /\ NewWork(q) \subseteq Work
    BY Basics DEF InLine
  <2>3. \A v \in Work : v # w => work'[v] = work[v]
    BY <1>1 DEF Inv, TypeOK
  <2> QED BY <1>1, <1>4, <2>1, <2>2, <2>3 DEF Inv, Placed, InLine
<1>6. HeldByWorking' /\ Busy'
  BY <1>1 DEF Inv, TypeOK, HeldByWorking, Busy
<1>7. NoIdle'
  BY <1>1, <1>4 DEF Inv, NoIdle
<1>8. Owners' = Owners
  BY <1>1 DEF Owners
<1>9. SlotsConserved'
  BY <1>1, <1>8 DEF Inv, SlotsConserved
<1> QED BY <1>2, <1>3, <1>5, <1>6, <1>7, <1>8, <1>9 DEF Inv, PoolStep

(* A free slot is taken.                                                   *)
LEMMA TryTakeInv ==
    ASSUME Inv, NEW w \in Work, try_take(w)
    PROVE  Inv' /\ PoolStep
<1>1. /\ slot[w] = "armed" /\ q.free > 0
      /\ q' = [q EXCEPT !.free = @ - 1]
      /\ held' = [held EXCEPT ![w] = TRUE]
      /\ work' = [work EXCEPT ![w] = "working"]
      /\ slot' = [slot EXCEPT ![w] = "none"]
  BY DEF try_take, complete_given
<1>2. /\ Sound(q, Work)'
      /\ q'.free = q.free - 1 /\ q'.given = q.given
      /\ Reacquirers(q') = Reacquirers(q) /\ NewWork(q') = NewWork(q)
  BY <1>1, TakeFacts DEF Inv
<1>3. w \notin InLine \cup q.given /\ ~held[w] /\ InLine' = InLine
  BY <1>1, <1>2 DEF Inv, Placed, InLine, HeldByWorking
<1>4. TypeOK'
  BY <1>1, <1>2 DEF try_take, Inv, TypeOK, SlotState, WorkState, Sound
<1>5. Placed'
  <2>1. {v \in Work : slot'[v] = "queued"} = {v \in Work : slot[v] = "queued"}
    BY <1>1 DEF Inv, TypeOK
  <2>2. Reacquirers(q) \subseteq Work /\ NewWork(q) \subseteq Work
    BY Basics DEF InLine
  <2>3. \A v \in Work : v # w => work'[v] = work[v]
    BY <1>1 DEF Inv, TypeOK
  <2> QED BY <1>2, <1>3, <2>1, <2>2, <2>3 DEF Inv, Placed, InLine
<1>6. HeldByWorking' /\ Busy'
  BY <1>1 DEF Inv, TypeOK, HeldByWorking, Busy
<1>7. NoIdle'
  BY <1>1, <1>2, <1>3 DEF Inv, NoIdle
<1>8. w \notin Owners /\ Owners' = Owners \cup {w}
  <2>1. Holders' = Holders \cup {w}
    BY <1>1 DEF Holders, Inv, TypeOK
  <2> QED BY <1>2, <1>3, <2>1 DEF Owners, Holders
<1>9. Cardinality(Owners') = Cardinality(Owners) + 1
  BY <1>8, Basics, Counting, WorkAssumption
<1>10. SlotsConserved'
  BY <1>2, <1>9, Basics DEF Inv, SlotsConserved
<1>11. Pool!Take(w)
  BY <1>1, <1>8, Basics, PoolCardinality DEF Pool!Take, Inv, SlotsConserved
<1> QED
  BY <1>2, <1>4, <1>5, <1>6, <1>7, <1>10, <1>11 DEF Inv, PoolStep, Pool!Next

(* No slot is free: the operation joins its line.                          *)
LEMMA StartQueuedInv ==
    ASSUME Inv, NEW w \in Work, StartQueued(w)
    PROVE  Inv' /\ PoolStep
<1> DEFINE back == Reacquires(w)
<1>1. /\ slot[w] = "armed" /\ q.free = 0
      /\ q' = enqueue(q, w, back)
      /\ held' = held /\ work' = work
      /\ slot' = [slot EXCEPT ![w] = "queued"]
  BY DEF StartQueued
<1>2. /\ back \in BOOLEAN /\ (back <=> work[w] = "working")
      /\ work[w] \in {"scheduled", "working"}
  BY <1>1 DEF Reacquires, Inv, Busy
<1>3. w \notin Reacquirers(q) \cup NewWork(q) \cup q.given
  BY <1>1 DEF Inv, Placed, InLine
<1>4. /\ Sound(q, Work)'
      /\ q'.free = q.free /\ q'.given = q.given
      /\ Reacquirers(q') = Reacquirers(q) \cup (IF back THEN {w} ELSE {})
      /\ NewWork(q') = NewWork(q) \cup (IF back THEN {} ELSE {w})
  BY <1>1, <1>2, <1>3, EnqueueFacts DEF Inv
<1> HIDE DEF back
<1>5. TypeOK'
  BY <1>1, <1>4 DEF StartQueued, Inv, TypeOK, SlotState, Sound
<1>6. Placed'
  <2>1. {v \in Work : slot'[v] = "queued"} = {v \in Work : slot[v] = "queued"} \cup {w}
    BY <1>1 DEF Inv, TypeOK
  <2>2. InLine' = InLine \cup {w}
    BY <1>2, <1>4 DEF InLine
  <2>3. InLine' \cup q'.given = {v \in Work : slot'[v] = "queued"}
    BY <1>4, <2>1, <2>2 DEF Inv, Placed
  <2> QED BY <1>1, <1>2, <1>4, <2>3 DEF Inv, Placed
<1>7. HeldByWorking' /\ Busy'
  BY <1>1, <1>2 DEF Inv, TypeOK, HeldByWorking, Busy
<1>8. NoIdle'
  BY <1>1, <1>4 DEF NoIdle
<1>9. Owners' = Owners
  BY <1>1, <1>4 DEF Owners
<1>10. SlotsConserved'
  BY <1>4, <1>9 DEF Inv, SlotsConserved
<1> QED BY <1>4, <1>5, <1>6, <1>7, <1>8, <1>9, <1>10 DEF Inv, PoolStep

(* A stop takes the operation out of its line, or is noted for later.      *)
LEMMA OnStopInv ==
    ASSUME Inv, NEW w \in Work, on_stop(w)
    PROVE  Inv' /\ PoolStep
<1> DEFINE back == Reacquires(w)
<1>0. held' = held /\ work' = work /\ handoff' = handoff
  BY DEF on_stop
<1>1. CASE Queued(q, w, back)
  <2>1. /\ q' = dequeue(q, w, back)
        /\ slot' = [slot EXCEPT ![w] = "stopped"]
        /\ stopped_early' = stopped_early
    BY <1>1 DEF on_stop
  <2>2. back \in BOOLEAN
    BY DEF Reacquires
  <2>3. /\ Sound(q, Work)'
        /\ q'.free = q.free /\ q'.given = q.given
        /\ Reacquirers(q') = Reacquirers(q) \ {w}
        /\ NewWork(q') = NewWork(q) \ {w}
    BY <1>1, <2>1, <2>2, DequeueFacts DEF Inv
  <2>4. w \in InLine
    BY <1>1 DEF Queued, InLine, Reacquirers, NewWork
  <2> HIDE DEF back
  <2>5. TypeOK'
    BY <1>0, <2>1, <2>3 DEF Inv, TypeOK, SlotState, Sound
  <2>6. Placed'
    <3>1. {v \in Work : slot'[v] = "queued"} = {v \in Work : slot[v] = "queued"} \ {w}
      BY <2>1 DEF Inv, TypeOK
    <3>2. InLine' = InLine \ {w} /\ w \notin q.given
      BY <2>3, <2>4, Basics DEF InLine
    <3>3. InLine' \cup q'.given = {v \in Work : slot'[v] = "queued"}
      BY <2>3, <3>1, <3>2 DEF Inv, Placed
    <3> QED BY <1>0, <2>3, <3>3 DEF Inv, Placed
  <2>7. HeldByWorking' /\ Busy'
    <3>1. slot[w] = "queued"
      BY <2>4 DEF Inv, Placed
    <3> QED BY <1>0, <2>1, <3>1 DEF Inv, TypeOK, HeldByWorking, Busy
  <2>8. NoIdle'
    BY <2>3 DEF Inv, NoIdle, InLine
  <2>9. Owners' = Owners
    BY <1>0, <2>3 DEF Owners
  <2>10. SlotsConserved'
    BY <2>3, <2>9 DEF Inv, SlotsConserved
  <2> QED BY <2>3, <2>5, <2>6, <2>7, <2>8, <2>9, <2>10 DEF Inv, PoolStep
<1>2. CASE ~Queued(q, w, back)
  <2>1. /\ q' = q /\ slot' = slot
        /\ stopped_early' = [stopped_early EXCEPT ![w] = TRUE]
    BY <1>2 DEF on_stop
  <2>2. TypeOK'
    BY <1>0, <2>1 DEF Inv, TypeOK
  <2>3. Owners' = Owners /\ InLine' = InLine
    BY <1>0, <2>1 DEF Owners, InLine
  <2> QED BY <1>0, <2>1, <2>2, <2>3
          DEF Inv, PoolStep, Placed, HeldByWorking, Busy, NoIdle, SlotsConserved
<1> QED BY <1>1, <1>2

(* Whoever was handed a slot resumes and holds it.                         *)
LEMMA ResumeGivenInv ==
    ASSUME Inv, NEW w \in Work, ResumeGiven(w)
    PROVE  Inv' /\ PoolStep
<1>1. /\ w \in q.given
      /\ q' = [q EXCEPT !.given = @ \ {w}]
      /\ held' = [held EXCEPT ![w] = TRUE]
      /\ work' = [work EXCEPT ![w] = "working"]
      /\ slot' = [slot EXCEPT ![w] = "none"]
  BY DEF ResumeGiven, complete_given
<1>2. /\ Sound(q, Work)'
      /\ q'.free = q.free /\ q'.given = q.given \ {w}
      /\ Reacquirers(q') = Reacquirers(q) /\ NewWork(q') = NewWork(q)
  BY <1>1, GivenFacts DEF Inv
<1>3. w \notin InLine /\ InLine' = InLine
  BY <1>1, <1>2, Basics DEF InLine
<1>4. TypeOK'
  BY <1>1, <1>2 DEF ResumeGiven, Inv, TypeOK, SlotState, WorkState, Sound
<1>5. Placed'
  <2>1. {v \in Work : slot'[v] = "queued"} = {v \in Work : slot[v] = "queued"} \ {w}
    BY <1>1 DEF Inv, TypeOK
  <2>2. Reacquirers(q) \subseteq Work /\ NewWork(q) \subseteq Work
    BY Basics DEF InLine
  <2>3. \A v \in Work : v # w => work'[v] = work[v]
    BY <1>1 DEF Inv, TypeOK
  <2>4. InLine' \cup q'.given = {v \in Work : slot'[v] = "queued"}
    BY <1>2, <1>3, <2>1 DEF Inv, Placed
  <2> QED BY <1>2, <1>3, <2>2, <2>3, <2>4 DEF Inv, Placed, InLine
<1>6. HeldByWorking' /\ Busy'
  BY <1>1 DEF Inv, TypeOK, HeldByWorking, Busy
<1>7. NoIdle'
  BY <1>2, <1>3 DEF Inv, NoIdle
<1>8. Owners' = Owners
  <2>1. Holders' = Holders \cup {w}
    BY <1>1 DEF Holders, Inv, TypeOK
  <2> QED BY <1>1, <1>2, <2>1 DEF Owners, Holders
<1>9. SlotsConserved'
  BY <1>2, <1>8 DEF Inv, SlotsConserved
<1> QED BY <1>2, <1>4, <1>5, <1>6, <1>7, <1>8, <1>9 DEF Inv, PoolStep

(* A slot handed over at shutdown, given back by its lease, or given back  *)
(* at the end of the work, goes through release().  What the three have in *)
(* common: w owned a slot, and l is the queue once w's is taken off.       *)
LEMMA ReleaseStep ==
    ASSUME Inv, NEW w \in Work, w \in Owners,
           NEW l, Sound(l, Work), l.free = q.free, l.given = q.given \ {w},
           Reacquirers(l) = Reacquirers(q), NewWork(l) = NewWork(q),
           q' = release(l),
           held' \in [Work -> BOOLEAN], Holders' = Holders \ {w},
           \A v \in Work : v # w => slot'[v] = slot[v] /\ work'[v] = work[v],
           slot'[w] = "none"
    PROVE  /\ Sound(q, Work)'
           /\ Placed'
           /\ NoIdle'
           /\ SlotsConserved'
           /\ PoolStep
<1>1. /\ w \notin InLine
      /\ Owners \ {w} = Holders' \cup l.given
      /\ Holders' \in SUBSET Work
      /\ Holders' \cap (Reacquirers(l) \cup NewWork(l)) = {}
  BY Basics DEF InLine, Holders
<1>2. l.free + Cardinality(Holders' \cup l.given) + 1 = Concurrency
  <2>1. Cardinality(Owners \ {w}) = Cardinality(Owners) - 1
    BY Basics, Counting, WorkAssumption
  <2>2. Cardinality(Holders' \cup l.given) = Cardinality(Owners) - 1
    BY <1>1, <2>1
  <2>3. q.free + Cardinality(Owners) = Concurrency
    BY DEF Inv, SlotsConserved
  <2> QED BY <2>2, <2>3, Basics
<1>3. l.free > 0 => Reacquirers(l) \cup NewWork(l) = {}
  BY DEF Inv, NoIdle, InLine
<1>4. /\ Sound(q', Work)
      /\ q'.free + Cardinality(Holders' \cup q'.given) = Concurrency
      /\ q'.free > 0 => Reacquirers(q') \cup NewWork(q') = {}
      /\ \/ /\ q'.given = l.given
            /\ Reacquirers(q') = Reacquirers(l) /\ NewWork(q') = NewWork(l)
         \/ \E h \in Reacquirers(l) \cup NewWork(l) :
               /\ h \in Work /\ h \notin Holders' \cup l.given
               /\ q'.given = l.given \cup {h}
               /\ Reacquirers(q') = Reacquirers(l) \ {h}
               /\ NewWork(q') = NewWork(l) \ {h}
  <2>1. PICK H \in SUBSET Work : H = Holders'
    BY <1>1
  <2>2. H \cap (Reacquirers(l) \cup NewWork(l)) = {}
    BY <1>1, <2>1
  <2>3. LET r == release(l)
        IN  /\ Sound(r, Work)
            /\ r.free + Cardinality(H \cup r.given) = l.free + Cardinality(H \cup l.given) + 1
            /\ r.free > 0 => Reacquirers(r) \cup NewWork(r) = {}
            /\ \/ /\ r.given = l.given
                  /\ Reacquirers(r) = Reacquirers(l) /\ NewWork(r) = NewWork(l)
               \/ \E h \in Reacquirers(l) \cup NewWork(l) :
                     /\ h \in Work /\ h \notin H \cup l.given
                     /\ r.given = l.given \cup {h}
                     /\ Reacquirers(r) = Reacquirers(l) \ {h}
                     /\ NewWork(r) = NewWork(l) \ {h}
    <3>1. IsFiniteSet(Work)
      BY WorkAssumption
    <3> QED BY <1>3, <2>2, <3>1, ReleaseConserves, Zenon
  <2> QED BY <1>2, <2>1, <2>3
<1>5. Owners' = Holders' \cup q'.given
  BY DEF Owners, Holders
<1>6. SlotsConserved' /\ NoIdle' /\ Sound(q, Work)'
  BY <1>4, <1>5 DEF SlotsConserved, NoIdle, InLine
<1>7. {v \in Work : slot'[v] = "queued"} = {v \in Work : slot[v] = "queued"} \ {w}
  OBVIOUS
<1>8. InLine' \cup q'.given = (InLine \cup q.given) \ {w}
  BY <1>1, <1>4 DEF InLine
<1>9. Placed'
  <2>1. Reacquirers(q') \subseteq Reacquirers(q) /\ NewWork(q') \subseteq NewWork(q)
    BY <1>4
  <2>2. Reacquirers(q) \subseteq Work /\ NewWork(q) \subseteq Work
    BY Basics DEF InLine
  <2>3. InLine' \cup q'.given = {v \in Work : slot'[v] = "queued"}
    BY <1>7, <1>8 DEF Inv, Placed
  <2>4. \A v \in Reacquirers(q') \cup NewWork(q') : v \in Work /\ v # w
    BY <1>1, <2>1, <2>2 DEF InLine
  <2> QED BY <2>1, <2>3, <2>4 DEF Inv, Placed
<1>10. PoolStep
  <2>1. CASE q'.given = l.given
    <3>1. Owners' = Owners \ {w}
      BY <1>1, <1>5, <2>1
    <3>2. Pool!GiveBack(w)
      BY <3>1 DEF Pool!GiveBack
    <3> QED BY <3>2 DEF PoolStep, Pool!Next
  <2>2. ASSUME NEW h \in Work, h \in InLine, h \notin Holders' \cup l.given,
               q'.given = l.given \cup {h}
        PROVE  PoolStep
    <3>1. Owners' = (Owners \ {w}) \cup {h}
      BY <1>1, <1>5, <2>2
    <3>2. h \notin Owners
      BY <2>2, Basics
    <3>3. Pool!PassOn(w, h)
      BY <3>1, <3>2 DEF Pool!PassOn
    <3> QED BY <3>3 DEF PoolStep, Pool!Next
  <2> QED BY <1>4, <2>1, <2>2 DEF InLine
<1> QED BY <1>6, <1>9, <1>10

(* A slot that can no longer be used is passed on.                         *)
LEMMA ResumeGivenAtShutdownInv ==
    ASSUME Inv, NEW w \in Work, ResumeGivenAtShutdown(w)
    PROVE  Inv' /\ PoolStep
<1> DEFINE l == [q EXCEPT !.given = @ \ {w}]
<1>1. /\ w \in q.given
      /\ q' = release(l)
      /\ held' = held
      /\ work' = [work EXCEPT ![w] = IF work[w] = "working" THEN @ ELSE "ended"]
      /\ slot' = [slot EXCEPT ![w] = "none"]
  BY DEF ResumeGivenAtShutdown, complete_stopped, Reacquires
<1>2. /\ Sound(l, Work)
      /\ l.free = q.free /\ l.given = q.given \ {w}
      /\ Reacquirers(l) = Reacquirers(q) /\ NewWork(l) = NewWork(q)
  BY GivenFacts DEF Inv
<1> HIDE DEF l
<1>3. w \in Owners /\ w \notin Holders /\ Holders' = Holders \ {w}
  BY <1>1, Basics DEF Holders
<1>4. \A v \in Work : v # w => slot'[v] = slot[v] /\ work'[v] = work[v]
  BY <1>1 DEF Inv, TypeOK
<1>5. slot'[w] = "none" /\ held' \in [Work -> BOOLEAN]
  BY <1>1 DEF Inv, TypeOK
<1>6. Sound(q, Work)' /\ Placed' /\ NoIdle' /\ SlotsConserved' /\ PoolStep
  BY <1>1, <1>2, <1>3, <1>4, <1>5, ReleaseStep
<1>7. TypeOK'
  BY <1>1, <1>6 DEF ResumeGivenAtShutdown, Inv, TypeOK, SlotState, WorkState, Sound
<1>8. HeldByWorking' /\ Busy'
  BY <1>1, <1>3 DEF Inv, TypeOK, HeldByWorking, Busy, Holders
<1> QED BY <1>6, <1>7, <1>8 DEF Inv

(* Work gives its slot back for a while.                                   *)
LEMMA ReleaseLeaseInv ==
    ASSUME Inv, NEW w \in Work, ReleaseLease(w)
    PROVE  Inv' /\ PoolStep
<1>1. /\ held[w]
      /\ q' = release(q)
      /\ held' = [held EXCEPT ![w] = FALSE]
      /\ work' = work /\ slot' = slot
  BY DEF ReleaseLease
<1>2. w \in Owners /\ w \notin q.given /\ q.given \ {w} = q.given
  BY <1>1, Basics DEF Holders
<1>3. Holders' = Holders \ {w} /\ held' \in [Work -> BOOLEAN]
  BY <1>1 DEF Holders, Inv, TypeOK
<1>4. slot'[w] = "none"
  BY <1>1 DEF Inv, HeldByWorking
<1>5. Sound(q, Work)' /\ Placed' /\ NoIdle' /\ SlotsConserved' /\ PoolStep
  <2>1. Sound(q, Work)
    BY DEF Inv
  <2> QED BY <1>1, <1>2, <1>3, <1>4, <2>1, ReleaseStep
<1>6. TypeOK'
  BY <1>1, <1>3, <1>5 DEF ReleaseLease, Inv, TypeOK, Sound
<1>7. HeldByWorking' /\ Busy'
  BY <1>1 DEF Inv, TypeOK, HeldByWorking, Busy
<1> QED BY <1>5, <1>6, <1>7 DEF Inv

(* Work ends, and gives back the slot it may hold.                         *)
LEMMA FinishInv ==
    ASSUME Inv, NEW w \in Work, Finish(w)
    PROVE  Inv' /\ PoolStep
<1>1. /\ work[w] = "working" /\ slot[w] = "none"
      /\ q' = IF held[w] THEN release(q) ELSE q
      /\ held' = [held EXCEPT ![w] = FALSE]
      /\ work' = [work EXCEPT ![w] = "ended"] /\ slot' = slot
  BY DEF Finish
<1>2. Holders' = Holders \ {w} /\ held' \in [Work -> BOOLEAN]
  BY <1>1 DEF Holders, Inv, TypeOK
<1>3. \A v \in Work : v # w => slot'[v] = slot[v] /\ work'[v] = work[v]
  BY <1>1 DEF Inv, TypeOK
<1>4. HeldByWorking' /\ Busy'
  BY <1>1 DEF Inv, TypeOK, HeldByWorking, Busy
<1>5. CASE held[w]
  <2>1. w \in Owners /\ w \notin q.given /\ q.given \ {w} = q.given
    BY <1>5, Basics DEF Holders
  <2>2. Sound(q, Work)
    BY DEF Inv
  <2>3. Sound(q, Work)' /\ Placed' /\ NoIdle' /\ SlotsConserved' /\ PoolStep
    BY <1>1, <1>2, <1>3, <1>5, <2>1, <2>2, ReleaseStep
  <2>4. TypeOK'
    BY <1>1, <1>2, <2>3 DEF Finish, Inv, TypeOK, WorkState, Sound
  <2> QED BY <1>4, <2>3, <2>4 DEF Inv
<1>6. CASE ~held[w]
  <2>1. q' = q /\ Sound(q, Work)' /\ InLine' = InLine
    BY <1>1, <1>6 DEF Inv, InLine
  <2>2. Owners' = Owners
    BY <1>2, <1>6, <2>1 DEF Owners, Holders
  <2>3. w \notin InLine
    BY <1>1 DEF Inv, Placed
  <2>4. Placed'
    <3>1. Reacquirers(q) \subseteq Work /\ NewWork(q) \subseteq Work
      BY Basics DEF InLine
    <3> QED BY <1>1, <1>3, <2>1, <2>3, <3>1 DEF Inv, Placed, InLine
  <2>5. NoIdle' /\ SlotsConserved'
    BY <2>1, <2>2 DEF Inv, NoIdle, SlotsConserved
  <2>6. TypeOK'
    BY <1>1, <1>2, <2>1 DEF Finish, Inv, TypeOK, WorkState
  <2> QED BY <1>4, <2>1, <2>2, <2>4, <2>5, <2>6 DEF Inv, PoolStep
<1> QED BY <1>5, <1>6

(* Promoting a ticket leaves the slots alone.                              *)
LEMMA PromoteInv ==
    ASSUME Inv, NEW t \in Ticketed, Promote(t)
    PROVE  Inv' /\ PoolStep
<1>1. /\ t \notin q.hurry /\ q' = promote(q, t)
      /\ work' = work /\ slot' = slot /\ held' = held
  BY DEF Promote
<1>2. /\ Sound(q, Work)'
      /\ q'.free = q.free /\ q'.given = q.given
      /\ Reacquirers(q') = Reacquirers(q) /\ NewWork(q') = NewWork(q)
  BY <1>1, PromoteFacts DEF Inv
<1>3. TypeOK'
  BY <1>1, <1>2 DEF Promote, Inv, TypeOK, Sound
<1>4. Owners' = Owners /\ InLine' = InLine
  BY <1>1, <1>2 DEF Owners, InLine
<1>5. Placed' /\ HeldByWorking' /\ Busy'
  BY <1>1, <1>2, <1>4 DEF Inv, Placed, HeldByWorking, Busy
<1>6. NoIdle' /\ SlotsConserved'
  BY <1>2, <1>4 DEF Inv, NoIdle, SlotsConserved
<1> QED BY <1>2, <1>3, <1>4, <1>5, <1>6 DEF Inv, PoolStep

----------------------------------------------------------------------------

(* The queue starts with every slot free.                                  *)
LEMMA InitInv ==
    ASSUME Init
    PROVE  Inv /\ Owners = {}
<1>1. /\ q.free = Concurrency /\ q.given = {} /\ q.inLine = {}
      /\ q.reacquiring = <<>> /\ q.promoted = <<>> /\ q.waiting = <<>>
      /\ q \in LinesOver(Work)
  BY ConcurrencyAssumption DEF Init, EmptyLines, LinesOver
<1>2. Reacquirers(q) = {} /\ NewWork(q) = {} /\ ToSet(q.promoted) = {}
  BY <1>1 DEF Reacquirers, NewWork, ToSet
<1>3. Sound(q, Work)
  BY <1>1, <1>2 DEF Sound, IsInjective
<1>4. Owners = {}
  BY <1>1 DEF Init, Owners
<1>5. SlotsConserved
  BY <1>1, <1>4, FS_EmptySet, ConcurrencyAssumption DEF SlotsConserved
<1>6. TypeOK
  BY <1>1 DEF Init, TypeOK, WorkState, SlotState
<1>7. Placed /\ HeldByWorking /\ Busy /\ NoIdle
  BY <1>1, <1>2 DEF Init, Placed, HeldByWorking, Busy, NoIdle, InLine
<1> QED BY <1>3, <1>4, <1>5, <1>6, <1>7 DEF Inv

(* Every step preserves the invariant and is one of SlotPool's.            *)
LEMMA NextInv ==
    ASSUME Inv, [Next]_vars
    PROVE  Inv' /\ PoolStep
<1>1. CASE UNCHANGED vars
  BY <1>1 DEF vars, Inv, TypeOK, Placed, HeldByWorking, Busy, NoIdle, InLine,
              SlotsConserved, Owners, PoolStep
<1>2. CASE ShutDownHandoff
  BY <1>2 DEF ShutDownHandoff, Inv, TypeOK, Placed, HeldByWorking, Busy, NoIdle,
              InLine, SlotsConserved, Owners, PoolStep
<1>3. ASSUME NEW t \in Ticketed, Promote(t) PROVE Inv' /\ PoolStep
  BY <1>3, PromoteInv
<1>4. ASSUME NEW w \in Work,
             \/ schedule_leased(w) \/ reacquire(w) \/ Start(w) \/ on_stop(w)
             \/ Resume(w) \/ ReleaseLease(w) \/ Finish(w)
      PROVE  Inv' /\ PoolStep
  BY <1>4, ArmInv, StoppedInv, TryTakeInv, StartQueuedInv, OnStopInv,
     ResumeGivenInv, ResumeGivenAtShutdownInv, ReleaseLeaseInv, FinishInv
     DEF Start, Resume
<1> QED BY <1>1, <1>2, <1>3, <1>4 DEF Next

(* Every reachable state of the queue satisfies the inductive invariant.   *)
THEOREM Invariance == Spec => []Inv
<1>1. Init => Inv
  BY InitInv
<1>2. Inv /\ [Next]_vars => Inv'
  BY NextInv
<1> QED BY <1>1, <1>2, PTL DEF Spec

(* The queue's state always has its types, free never below zero included. *)
THEOREM TypeCorrect == Spec => []TypeOK
<1>1. Inv => TypeOK
  BY DEF Inv
<1> QED BY <1>1, Invariance, PTL

(* No slot is lost or made up: buildqueue.hpp's release(), try_take(),     *)
(* on_stop() and the shutdown of Handoff account for every slot.           *)
THEOREM SlotsAreConserved == Spec => []SlotsConserved
<1>1. Inv => SlotsConserved
  BY DEF Inv
<1> QED BY <1>1, Invariance, PTL

(* No slot lies idle while work is in any of the three lines.              *)
THEOREM NoSlotIsIdle == Spec => []NoIdleSlot
<1>1. Inv => NoIdleSlot
  <2>1. ASSUME Inv, q.free > 0
        PROVE  q.reacquiring = <<>> /\ q.promoted = <<>> /\ q.waiting = <<>>
    <3>1. /\ q.reacquiring \in Seq(Work) /\ q.promoted \in Seq(Work)
          /\ q.waiting \in Seq(Work)
      BY <2>1 DEF Inv, TypeOK, LinesOver
    <3>2. /\ ToSet(q.reacquiring) = {} /\ ToSet(q.promoted) = {}
          /\ ToSet(q.waiting) = {}
      BY <2>1 DEF Inv, NoIdle, InLine, Reacquirers, NewWork
    <3> QED BY <3>1, <3>2, EmptyLine
  <2> QED BY <2>1 DEF NoIdleSlot
<1> QED BY <1>1, Invariance, PTL

(* A waiter is in exactly the place its operation says.                    *)
THEOREM EachInOnePlace == Spec => []InOnePlace
<1>1. Inv => InOnePlace
  <2> SUFFICES ASSUME Inv PROVE InOnePlace
    OBVIOUS
  <2>1. q.given \cap InLine = {} /\ q.given \in SUBSET Work
    BY Basics
  <2>2. InLine = {w \in Work : slot[w] = "queued"} \ q.given
    BY <2>1 DEF Inv, Placed
  <2>3. \A w \in q.given : slot[w] = "queued"
    BY DEF Inv, Placed
  <2> QED BY <2>2, <2>3 DEF Inv, Placed, Sound, InOnePlace, InLine, Reacquirers, NewWork
<1> QED BY <1>1, Invariance, PTL

(* A ticket points at its waiter exactly while that is in line, and only   *)
(* hurried ones are in the line of promoted work: promote() never moves a  *)
(* waiter that left.                                                       *)
THEOREM TicketsAlwaysFollow == Spec => []TicketsFollowWaiters
<1>1. Inv => TicketsFollowWaiters
  BY DEF Inv, Sound, TicketsFollowWaiters, NewWork
<1> QED BY <1>1, Invariance, PTL

(* A lease that waits for its slot holds none, and only work under way     *)
(* holds one.                                                              *)
THEOREM OnlyWorkingHolds == Spec => []HeldByWorking
<1>1. Inv => HeldByWorking
  BY DEF Inv
<1> QED BY <1>1, Invariance, PTL

(* The queue implements SlotPool: seen through the owners of its slots,    *)
(* every step takes a slot while one is left, gives one back or passes one *)
(* on, or leaves the owners alone.                                         *)
THEOREM Refinement == Spec => ImplementsSlotPool
<1>1. Init => Pool!Init
  BY InitInv DEF Pool!Init
<1>2. Inv /\ [Next]_vars => [Pool!Next]_Owners
  BY NextInv DEF PoolStep
<1> QED BY <1>1, <1>2, Invariance, PTL DEF Spec, ImplementsSlotPool, Pool!Spec

=============================================================================
