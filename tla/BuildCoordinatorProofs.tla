----------------------- MODULE BuildCoordinatorProofs -----------------------
(***************************************************************************)
(* The safety of BuildCoordinator for any finite sets of attempts and      *)
(* requests, any number of permits, and lines of any length.               *)
(***************************************************************************)
EXTENDS BuildCoordinator, SlotLinesProofs

(* What an attempt's phase says of its permit, its operation on the queue  *)
(* and its end.                                                            *)
Lifecycle(a) ==
    /\ permit[a] = "none" <=> phase[a] \in {"none", "pending", "queued"}
    /\ phase[a] \in {"none", "pending"} => slot[a] = "none" /\ outcome[a] = None
    /\ phase[a] = "queued" /\ outcome[a] = None => slot[a] # "none"
    /\ phase[a] = "running" => outcome[a] = None
    /\ phase[a] = "ended" => stopping[a]
    /\ stopping[a] => phase[a] \in {"running", "ended"}
    /\ doomed[a] => stopping[a]
    /\ hurried[a] => phase[a] # "none"

(* An attempt's result is what its run came to, unless it never ran.       *)
Results(a) ==
    /\ result[a] # None => \/ phase[a] = "pending"
                           \/ outcome[a] # None /\ result[a] = outcome[a]
    /\ doomed[a] /\ outcome[a] # None => outcome[a] = "cycle"

(* The permit, the lease and the operation on the queue agree.             *)
Lease(a) ==
    /\ outcome[a] = None => (permit[a] = "held" <=> held[a])
    /\ reacquire_outstanding[a] <=> permit[a] = "reacquiring"
    /\ reacquire_outstanding[a] <=> slot[a] # "none" /\ phase[a] # "queued"
    /\ outcome[a] # None => slot[a] = "none" /\ ~held[a]

(* Work that has ended drains while its take-back is under way, and no     *)
(* longer.                                                                 *)
Draining(a) ==
    /\ drain[a] => phase[a] = "ended"
    /\ a \in drains => /\ phase[a] = "ended" /\ outcome[a] = None
                       /\ ~reacquire_outstanding[a]

(* Only the take-back of an attempt that is being stopped is stopped.      *)
StopsOnlyStopping(a) ==
    /\ a \in stop_reacquires => stopping[a]
    /\ phase[a] # "queued" /\ slot[a] # "none" /\ (stopped_early[a] \/ slot[a] = "stopped")
          => stopping[a]

(* A request that waits has a target that is not over, and an attempt that *)
(* runs on, without a permit; one that is ready has its answer and its     *)
(* attempt is taking a permit back.                                        *)
Request(w) ==
    /\ wstate[w] = "idle" => target[w] = None /\ requester[w] = None
    /\ wstate[w] \in {"blocked", "ready"} =>
          /\ target[w] \in Attempts
          /\ phase[target[w]] # "none"
          /\ requester[w] # None => /\ phase[requester[w]] = "running"
                                    /\ ~stopping[requester[w]]
    /\ wstate[w] = "blocked" =>
          /\ result[target[w]] = None
          /\ requester[w] # None => permit[requester[w]] \in {"released", "reacquiring"}
    /\ wstate[w] = "ready" =>
          /\ requester[w] # None
          /\ permit[requester[w]] = "reacquiring"
          /\ result[target[w]] # None
          /\ wresult[w] = result[target[w]]
    /\ wstate[w] = "done" /\ target[w] # None =>
          \/ wresult[w] = "canceled"
          \/ result[target[w]] # None /\ wresult[w] = result[target[w]]

(* An attempt without its permit that runs on has a request that waits.    *)
Restored(a) ==
    phase[a] = "running" /\ ~stopping[a] /\ permit[a] = "released"
        => \E w \in Waits : wstate[w] = "blocked" /\ requester[w] = a

(* The blocked requests of a on b.                                         *)
Between(a, b) == {w \in Waits : /\ wstate[w] = "blocked"
                                /\ requester[w] = a
                                /\ target[w] = b}

Links ==
    \A a \in Attempts :
        /\ waits_by_me[a] = {w \in Waits : /\ wstate[w] \in {"blocked", "ready"}
                                           /\ requester[w] = a}
        /\ waits_on_me[a] = {w \in Waits : /\ wstate[w] = "blocked"
                                           /\ target[w] = a}
        /\ \A b \in Attempts : edges_out[a][b] = Cardinality(Between(a, b))

(* Nothing waits behind an attempt that has not been created.              *)
Behind(a) == predecessor[a] # None => /\ phase[a] = "pending"
                                      /\ phase[predecessor[a]] # "none"

(* The queue's state: its lines are sound, exactly the queued operations   *)
(* are in them or handed a slot, and slots add up.                         *)
InLine == Reacquirers(q) \cup NewWork(q)

Holders == {a \in Attempts : held[a]}

Placed ==
    /\ InLine \cup q.given = {a \in Attempts : slot[a] = "queued"}
    /\ \A a \in Reacquirers(q) : phase[a] # "queued"
    /\ \A a \in NewWork(q) : phase[a] = "queued"

Lines ==
    /\ Sound(q, Attempts)
    /\ Placed
    /\ q.free > 0 => InLine = {}
    /\ q.free + Cardinality(Holders \cup q.given) = Permits

(* HurriedClosed, without what follows from the lines being sound.         *)
Hurried ==
    /\ \A a \in Attempts : hurried[a] => \A b \in WaitsFor(a) : hurried[b]
    /\ q.hurry = {a \in Attempts : hurried[a]}
    /\ \A w \in Waits : wstate[w] = "blocked" /\ requester[w] = None
          => hurried[target[w]]

(* All that is said of one attempt by itself.                              *)
AttemptOK(a) == /\ Lifecycle(a) /\ Results(a) /\ Lease(a) /\ Draining(a)
                /\ StopsOnlyStopping(a) /\ Behind(a)

Inv == /\ TypeOK
       /\ \A a \in Attempts : AttemptOK(a)
       /\ \A a \in Attempts : Restored(a)
       /\ \A w \in Waits : Request(w)
       /\ Links
       /\ Lines
       /\ NoWaitCycle
       /\ Hurried

----------------------------------------------------------------------------
(* What the links, the graph, the hurry and the lines make of the steps    *)
(* several actions take.                                                   *)

(* Requests that are answered, or turn ready, leave the links: edges_out   *)
(* goes on counting those that are blocked.  `over' may hold requests that *)
(* never were linked.                                                      *)
LEMMA LinksWithout ==
    ASSUME TypeOK, Links, NEW over \in SUBSET Waits, NEW gone \in SUBSET over,
           NEW fetched \in SUBSET Waits,
           \A w \in over \ gone : wstate[w] = "idle",
           \A w \in fetched : w \notin over /\ wstate[w] = "blocked",
           \A w \in Waits : wstate'[w] = IF w \in over THEN "done"
                                         ELSE IF w \in fetched THEN "ready"
                                         ELSE wstate[w],
           target' = target, requester' = requester,
           Leave(gone, fetched)
    PROVE  /\ Links'
           /\ waits_by_me' \in [Attempts -> SUBSET Waits]
           /\ waits_on_me' \in [Attempts -> SUBSET Waits]
           /\ edges_out' \in [Attempts -> [Attempts -> Nat]]
           /\ \A a, b \in Attempts : edges_out'[a][b] > 0 => edges_out[a][b] > 0
<1>1. ASSUME NEW a \in Attempts
      PROVE  /\ waits_by_me'[a] = {w \in Waits : /\ wstate'[w] \in {"blocked", "ready"}
                                                 /\ requester'[w] = a}
             /\ waits_on_me'[a] = {w \in Waits : /\ wstate'[w] = "blocked"
                                                 /\ target'[w] = a}
  <2>1. waits_by_me'[a] = waits_by_me[a] \ gone
    BY DEF Leave
  <2>2. waits_on_me'[a] = waits_on_me[a] \ (gone \cup fetched)
    BY DEF Leave
  <2>3. /\ waits_by_me[a] = {w \in Waits : /\ wstate[w] \in {"blocked", "ready"}
                                           /\ requester[w] = a}
        /\ waits_on_me[a] = {w \in Waits : /\ wstate[w] = "blocked"
                                           /\ target[w] = a}
    BY DEF Links
  <2> QED BY <2>1, <2>2, <2>3
<1>2. ASSUME NEW a \in Attempts, NEW b \in Attempts
      PROVE  /\ edges_out'[a][b] = Cardinality(Between(a, b)')
             /\ edges_out'[a][b] \in Nat
             /\ edges_out'[a][b] > 0 => edges_out[a][b] > 0
  <2> DEFINE left == {w \in gone \cup fetched : /\ wstate[w] = "blocked"
                                                /\ requester[w] = a
                                                /\ target[w] = b}
  <2>1. edges_out'[a][b] = edges_out[a][b] - Cardinality(left)
    BY DEF Leave, remove_edges
  <2>2. edges_out[a][b] = Cardinality(Between(a, b))
    BY DEF Links
  <2>3. left = Between(a, b) \cap left
    BY DEF Between
  <2>4. Between(a, b)' = Between(a, b) \ left
    BY DEF Between
  <2>5. IsFiniteSet(Between(a, b))
    BY FS_Subset, AttemptsAssumption DEF Between
  <2>6. /\ IsFiniteSet(Between(a, b) \ left)
        /\ Cardinality(Between(a, b) \ left)
              = Cardinality(Between(a, b)) - Cardinality(Between(a, b) \cap left)
    BY <2>5, FS_Difference
  <2>7. /\ Cardinality(Between(a, b) \ left) \in Nat
        /\ Cardinality(Between(a, b)) \in Nat
        /\ Cardinality(Between(a, b) \ left) <= Cardinality(Between(a, b))
    <3>1. Between(a, b) \ left \in SUBSET Between(a, b)
      OBVIOUS
    <3> QED BY <2>5, <2>6, <3>1, FS_CardinalityType, FS_Subset
  <2> HIDE DEF left
  <2>8. Cardinality(left) = Cardinality(Between(a, b) \cap left)
    BY <2>3
  <2> QED BY <2>1, <2>2, <2>4, <2>6, <2>7, <2>8
<1>3. /\ waits_by_me' \in [Attempts -> SUBSET Waits]
      /\ waits_on_me' \in [Attempts -> SUBSET Waits]
  BY DEF Leave, TypeOK
<1>4. edges_out' \in [Attempts -> [Attempts -> Nat]]
  <2>1. edges_out' = [a \in Attempts |-> [b \in Attempts |-> edges_out'[a][b]]]
    BY DEF Leave, remove_edges
  <2> QED BY <1>2, <2>1
<1> QED BY <1>1, <1>2, <1>3, <1>4 DEF Links

(* Whatever leaves the graph of who waits on whom with no new edge leaves  *)
(* it without a cycle, and everything a hurried attempt waits on hurried.  *)
LEMMA GraphShrinks ==
    ASSUME NoWaitCycle, Hurried, hurried' = hurried, q'.hurry = q.hurry,
           \A a, b \in Attempts : edges_out'[a][b] > 0 => edges_out[a][b] > 0,
           \A a \in Attempts : predecessor'[a] # None /\ phase'[a] = "pending"
               => phase[a] = "pending" /\ predecessor'[a] = predecessor[a],
           \A w \in Waits : wstate'[w] = "blocked" => wstate[w] = "blocked",
           target' = target, requester' = requester
    PROVE  NoWaitCycle' /\ Hurried'
<1>1. ASSUME NEW a \in Attempts
      PROVE  WaitsFor(a)' \subseteq WaitsFor(a)
  BY DEF WaitsFor
<1>2. NoWaitCycle'
  BY <1>1 DEF NoWaitCycle
<1>3. Hurried'
  BY <1>1 DEF Hurried
<1> QED BY <1>2, <1>3

(* A step that leaves the queue and the leases alone, and nobody's place   *)
(* in line, leaves the lines as they should be.                            *)
LEMMA LinesKept ==
    ASSUME Lines, q' = q, held' = held,
           \A a \in Attempts :
               /\ slot'[a] = "queued" <=> slot[a] = "queued"
               /\ slot[a] = "queued" => (phase'[a] = "queued" <=> phase[a] = "queued")
    PROVE  Lines'
<1>1. InLine' = InLine /\ Holders' = Holders
  BY DEF InLine, Holders
<1>2. {a \in Attempts : slot'[a] = "queued"} = {a \in Attempts : slot[a] = "queued"}
  OBVIOUS
<1>3. InLine \subseteq {a \in Attempts : slot[a] = "queued"}
  BY DEF Lines, Placed
<1>4. Placed'
  BY <1>1, <1>2, <1>3 DEF Lines, Placed, InLine
<1> QED BY <1>1, <1>4 DEF Lines

----------------------------------------------------------------------------
(* The tree's operations.                                                  *)

LEMMA RunInv ==
    ASSUME Inv, NEW a \in Attempts, run(a)
    PROVE  Inv'
<1>1. /\ phase[a] = "pending"
      /\ result[a] = None
      /\ phase' = [phase EXCEPT ![a] = "queued"]
      /\ predecessor' = [predecessor EXCEPT ![a] = None]
      /\ slot' = [slot EXCEPT ![a] = "armed"]
      /\ UNCHANGED <<permit, stopping, doomed, hurried, result,
                     reacquire_outstanding, drain>>
      /\ UNCHANGED <<linkVars, waitVars, effectVars, q, held, stopped_early,
                     outcome>>
  BY DEF run
<1>2. TypeOK'
  BY <1>1 DEF Inv, TypeOK, Phase, linkVars, waitVars, effectVars
<1>3. ASSUME NEW b \in Attempts
      PROVE  AttemptOK(b)'
  <2>1. AttemptOK(b) /\ AttemptOK(a)
    BY DEF Inv
  <2> QED BY <1>1, <2>1 DEF Inv, TypeOK, AttemptOK, Lifecycle, Results, Lease, Draining, StopsOnlyStopping,
         Behind, effectVars
<1>4. ASSUME NEW b \in Attempts
      PROVE  Restored(b)'
  BY <1>1 DEF Inv, TypeOK, Restored, waitVars
<1>5. ASSUME NEW w \in Waits
      PROVE  Request(w)'
  BY <1>1 DEF Inv, TypeOK, Request, waitVars
<1>6. Links'
  BY <1>1 DEF Inv, Links, Between, linkVars, waitVars
<1>7. Lines'
  <2>1. slot[a] = "none"
    BY <1>1 DEF Inv, AttemptOK, Lifecycle
  <2> QED BY <1>1, <2>1, LinesKept DEF Inv, TypeOK
<1>8. NoWaitCycle' /\ Hurried'
  BY <1>1, GraphShrinks DEF Inv, TypeOK, linkVars, waitVars
<1> QED BY <1>2, <1>3, <1>4, <1>5, <1>6, <1>7, <1>8 DEF Inv

(* An attempt that has not been created waits on nothing, and nothing      *)
(* waits on it.                                                            *)
LEMMA UncreatedAlone ==
    ASSUME Inv, NEW a \in Attempts, phase[a] = "none", NEW b \in Attempts
    PROVE  /\ edges_out[a][b] = 0
           /\ a \notin WaitsFor(b)
<1>1. Between(a, b) = {} /\ Between(b, a) = {}
  <2>1. \A w \in Waits : Request(w)
    BY DEF Inv
  <2> QED BY <2>1, NoneAssumption DEF Request, Between
<1>2. edges_out[a][b] = 0 /\ edges_out[b][a] = 0
  <2>1. Links
    BY DEF Inv
  <2>2. /\ edges_out[a][b] = Cardinality(Between(a, b))
        /\ edges_out[b][a] = Cardinality(Between(b, a))
    BY <2>1 DEF Links
  <2>3. Cardinality({}) = 0
    BY FS_EmptySet
  <2> QED BY <1>1, <2>2, <2>3
<1>3. predecessor[b] # a
  BY NoneAssumption DEF Inv, AttemptOK, Behind
<1> QED BY <1>2, <1>3 DEF WaitsFor

LEMMA CreateAttemptInv ==
    ASSUME Inv, NEW a \in Attempts, create_attempt(a)
    PROVE  Inv'
<1>1. /\ phase[a] = "none"
      /\ phase' = [phase EXCEPT ![a] = "pending"]
      /\ UNCHANGED <<permit, stopping, doomed, hurried, result,
                     reacquire_outstanding, drain>>
      /\ UNCHANGED <<linkVars, waitVars, effectVars, queueVars, outcome>>
  BY DEF create_attempt
<1>2. PICK p \in Attempts \cup {None} :
          /\ predecessor' = [predecessor EXCEPT ![a] = p]
          /\ p # a
          /\ p # None => phase[p] # "none"
  <2> DEFINE under_way == {b \in Siblings(a) : phase[b] # "none" /\ ~Over(b)}
             before == IF under_way = {} THEN None ELSE CHOOSE b \in under_way : TRUE
  <2>1. predecessor' = [predecessor EXCEPT ![a] = before]
    BY DEF create_attempt
  <2>2. /\ before \in Attempts \cup {None} /\ before # a
        /\ before # None => phase[before] # "none"
    BY NoneAssumption DEF Siblings
  <2> QED BY <2>1, <2>2
<1>3. TypeOK'
  BY <1>1, <1>2 DEF Inv, TypeOK, Phase, linkVars, waitVars, effectVars, queueVars
<1>4. ASSUME NEW b \in Attempts
      PROVE  AttemptOK(b)'
  <2>1. AttemptOK(b) /\ AttemptOK(a)
    BY DEF Inv
  <2> QED BY <1>1, <1>2, <2>1
          DEF Inv, TypeOK, AttemptOK, Lifecycle, Results, Lease, Draining,
              StopsOnlyStopping, Behind, effectVars, queueVars
<1>5. ASSUME NEW b \in Attempts
      PROVE  Restored(b)'
  BY <1>1 DEF Inv, TypeOK, Restored, waitVars
<1>6. ASSUME NEW w \in Waits
      PROVE  Request(w)'
  BY <1>1 DEF Inv, TypeOK, Request, waitVars
<1>7. Links'
  BY <1>1 DEF Inv, Links, Between, linkVars, waitVars
<1>8. Lines'
  <2>1. slot[a] = "none"
    BY <1>1 DEF Inv, AttemptOK, Lifecycle
  <2> QED BY <1>1, <2>1, LinesKept DEF Inv, TypeOK, queueVars
<1>9. /\ WaitsFor(a)' = {p} \ {None}
      /\ \A b \in Attempts : b # a => WaitsFor(b)' = WaitsFor(b)
  <2>1. \A b \in Attempts : edges_out'[a][b] = 0
    BY <1>1, UncreatedAlone DEF linkVars
  <2>2. phase'[a] = "pending" /\ predecessor'[a] = p
    BY <1>1, <1>2 DEF Inv, TypeOK
  <2>3. WaitsFor(a)' = {p} \ {None}
    BY <2>1, <2>2 DEF WaitsFor
  <2>4. ASSUME NEW b \in Attempts, b # a
        PROVE  WaitsFor(b)' = WaitsFor(b)
    BY <1>1, <1>2, <2>4 DEF WaitsFor, Inv, TypeOK, linkVars
  <2> QED BY <2>3, <2>4
<1>10. NoWaitCycle'
  <2>1. ASSUME NEW b \in Attempts, b # a
        PROVE  \E S \in SUBSET Attempts :
                  /\ WaitsFor(b)' \subseteq S /\ b \notin S /\ a \notin S
                  /\ \A c \in S : WaitsFor(c)' \subseteq S
    <3>1. PICK S \in SUBSET Attempts : /\ WaitsFor(b) \subseteq S
                                       /\ b \notin S
                                       /\ \A c \in S : WaitsFor(c) \subseteq S
      BY DEF Inv, NoWaitCycle
    <3> WITNESS S \ {a} \in SUBSET Attempts
    <3> QED BY <1>1, <1>9, <2>1, <3>1, UncreatedAlone
  <2>2. \E S \in SUBSET Attempts :
            /\ WaitsFor(a)' \subseteq S /\ a \notin S
            /\ \A c \in S : WaitsFor(c)' \subseteq S
    <3>1. CASE p = None
      BY <1>9, <3>1
    <3>2. CASE p # None
      <4>1. p \in Attempts
        BY <1>2, <3>2
      <4>2. PICK S \in SUBSET Attempts :
                  /\ WaitsFor(p)' \subseteq S /\ p \notin S /\ a \notin S
                  /\ \A c \in S : WaitsFor(c)' \subseteq S
        BY <1>2, <2>1, <4>1
      <4>3. S \cup {p} \in SUBSET Attempts
        BY <4>1
      <4>4. /\ WaitsFor(a)' \subseteq S \cup {p} /\ a \notin S \cup {p}
            /\ \A c \in S \cup {p} : WaitsFor(c)' \subseteq S \cup {p}
        BY <1>2, <1>9, <4>2
      <4> QED BY <4>3, <4>4
    <3> QED BY <3>1, <3>2
  <2> QED BY <2>1, <2>2 DEF NoWaitCycle
<1>11. Hurried'
  <2>1. ~hurried[a]
    BY <1>1 DEF Inv, AttemptOK, Lifecycle
  <2> QED BY <1>1, <1>9, <2>1 DEF Inv, Hurried, waitVars, queueVars
<1> QED BY <1>3, <1>4, <1>5, <1>6, <1>7, <1>8, <1>10, <1>11 DEF Inv

(* Folding nothing into the queue leaves it as it is.                      *)
LEMMA FoldNothing ==
    ASSUME NEW lines
    PROVE  FoldSet(LAMBDA r, l : release(l), lines, {}) = lines
<1> DEFINE Step(f) == [s \in SUBSET {} |->
                          IF s = {} THEN lines
                          ELSE LET x == CHOOSE x \in s : TRUE IN release(f[s \ {x}])]
           fold == CHOOSE f : f = Step(f)
<1>1. \E f : f = Step(f)
  <2> DEFINE g == [s \in SUBSET {} |-> lines]
  <2>1. \A s \in SUBSET {} : s = {}
    OBVIOUS
  <2>2. Step(g) = g
    BY <2>1
  <2> QED BY <2>2
<1>2. fold = Step(fold)
  BY <1>1
<1>3. Step(fold)[{}] = lines
  OBVIOUS
<1>4. FoldSet(LAMBDA r, l : release(l), lines, {}) = fold[{}]
  BY DEF FoldSet, MapThenFoldSet
<1> QED BY <1>2, <1>3, <1>4

(* reacquire() by the attempts in R, attempt by attempt.                   *)
LEMMA ReacquireFacts ==
    ASSUME TypeOK, NEW R \in SUBSET Attempts, reacquire(R, {})
    PROVE  /\ permit' \in [Attempts -> Permit]
           /\ reacquire_outstanding' \in [Attempts -> BOOLEAN]
           /\ slot' \in [Attempts -> {"none", "armed", "queued", "stopped"}]
           /\ stopped_early' \in [Attempts -> BOOLEAN]
           /\ \A a \in R : /\ permit'[a] = "reacquiring"
                           /\ reacquire_outstanding'[a]
                           /\ slot'[a] = "armed"
                           /\ ~stopped_early'[a]
           /\ \A a \in Attempts \ R :
                 /\ permit'[a] = permit[a]
                 /\ reacquire_outstanding'[a] = reacquire_outstanding[a]
                 /\ slot'[a] = slot[a]
                 /\ stopped_early'[a] = stopped_early[a]
<1>1. \A a \in Attempts : permit'[a] = IF a \in R THEN "reacquiring" ELSE permit[a]
  BY DEF reacquire
<1>2. permit' \in [Attempts -> Permit]
  BY DEF reacquire, TypeOK, Permit
<1>3. /\ reacquire_outstanding' \in [Attempts -> BOOLEAN]
      /\ \A a \in R : reacquire_outstanding'[a]
      /\ \A a \in Attempts \ R : reacquire_outstanding'[a] = reacquire_outstanding[a]
  BY DEF reacquire, TypeOK
<1>4. /\ slot' \in [Attempts -> {"none", "armed", "queued", "stopped"}]
      /\ \A a \in R : slot'[a] = "armed"
      /\ \A a \in Attempts \ R : slot'[a] = slot[a]
  BY DEF reacquire, TypeOK
<1>5. /\ stopped_early' \in [Attempts -> BOOLEAN]
      /\ \A a \in R : ~stopped_early'[a]
      /\ \A a \in Attempts \ R : stopped_early'[a] = stopped_early[a]
  BY DEF reacquire, TypeOK
<1> QED BY <1>1, <1>2, <1>3, <1>4, <1>5

(* complete(): since no attempt has a permit while a request of its waits, *)
(* a request is answered at once only if it is no attempt's, and no permit *)
(* is given back.                                                          *)
LEMMA CompleteInv ==
    ASSUME Inv, NEW a \in Attempts, NEW value \in Result, complete(a, value)
    PROVE  Inv'
<1> DEFINE W       == waits_on_me[a]
           alone   == {w \in W : requester[w] = None}
           fetched == W \ alone
           takers  == {r \in Attempts : permit[r] = "released" /\
                           \E w \in fetched : requester[w] = r}
<1>1. /\ result[a] = None
      /\ outcome[a] = value \/ phase[a] = "pending"
      /\ result' = [result EXCEPT ![a] = value]
      /\ predecessor' = [predecessor EXCEPT ![a] = None]
      /\ ready(a, value)
      /\ UNCHANGED <<phase, stopping, doomed, hurried, drain>>
      /\ UNCHANGED <<effectVars, outcome>>
  BY DEF complete
<1>2. W = {w \in Waits : wstate[w] = "blocked" /\ target[w] = a}
  BY DEF Inv, Links
<1>3. \A w \in fetched : /\ requester[w] \in Attempts
                         /\ phase[requester[w]] = "running"
                         /\ ~stopping[requester[w]]
                         /\ permit[requester[w]] \in {"released", "reacquiring"}
  BY <1>2 DEF Inv, Request, TypeOK
<1>4. /\ \A w \in Waits : wstate'[w] = IF w \in alone THEN "done"
                                       ELSE IF w \in fetched THEN "ready"
                                       ELSE wstate[w]
      /\ wstate' \in [Waits -> {"idle", "blocked", "ready", "done"}]
      /\ \A w \in Waits : wresult'[w] = IF w \in W THEN value ELSE wresult[w]
      /\ wresult' \in [Waits -> Result \cup {"canceled", None}]
      /\ Leave(alone, fetched)
      /\ reacquire(takers, {})
      /\ held' = held
      /\ q' = q
      /\ UNCHANGED <<target, requester>>
  <2> DEFINE halted    == {w \in W \ alone : \/ stopping[requester[w]]
                                             \/ permit[requester[w]] = "none"}
             at_once == {w \in W \ (alone \cup halted) :
                               HasPermit(requester[w])}
             late      == W \ (alone \cup halted \cup at_once)
             gone      == alone \cup halted \cup at_once
             taking    == {r \in Attempts : permit[r] = "released" /\
                               \E w \in late : requester[w] = r}
             givers    == {r \in Attempts : /\ \E w \in at_once : requester[w] = r
                                            /\ Blocked(r, W)}
  <2>1. /\ wstate' = [w \in Waits |-> CASE w \in gone -> "done"
                                        [] w \in late -> "ready"
                                        [] OTHER -> wstate[w]]
        /\ wresult' = [w \in Waits |-> CASE w \in halted -> "canceled"
                                         [] w \in W \ halted -> value
                                         [] OTHER -> wresult[w]]
        /\ Leave(gone, late)
        /\ reacquire(taking, givers)
        /\ held' = [r \in Attempts |-> held[r] /\ r \notin givers]
        /\ q' = FoldSet(LAMBDA r, l : release(l), q, givers)
        /\ UNCHANGED <<target, requester>>
    BY <1>1 DEF ready
  <2>2. halted = {} /\ at_once = {}
    BY <1>3 DEF HasPermit
  <2>3. gone = alone /\ late = fetched /\ givers = {}
    BY <2>2
  <2>4. taking = takers
    BY <2>3
  <2> HIDE DEF halted, at_once, late, gone, taking, givers, takers, fetched, alone
  <2>5. q' = q
    <3>1. q' = FoldSet(LAMBDA r, l : release(l), q, {})
      BY <2>1, <2>3
    <3> QED BY <3>1, FoldNothing
  <2>6. held' = held
    BY <2>1, <2>3 DEF Inv, TypeOK
  <2>7. /\ \A w \in Waits : wstate'[w] = IF w \in alone THEN "done"
                                       ELSE IF w \in fetched THEN "ready"
                                       ELSE wstate[w]
        /\ wstate' \in [Waits -> {"idle", "blocked", "ready", "done"}]
    BY <2>1, <2>3 DEF Inv, TypeOK, fetched
  <2>8. /\ \A w \in Waits : wresult'[w] = IF w \in W THEN value ELSE wresult[w]
        /\ wresult' \in [Waits -> Result \cup {"canceled", None}]
    BY <2>1, <2>2 DEF Inv, TypeOK
  <2> QED BY <2>1, <2>3, <2>4, <2>5, <2>6, <2>7, <2>8
<1> HIDE DEF W, alone, fetched, takers
<1>5. takers \in SUBSET Attempts
  BY DEF takers
<1>6. /\ permit' \in [Attempts -> Permit]
      /\ reacquire_outstanding' \in [Attempts -> BOOLEAN]
      /\ slot' \in [Attempts -> {"none", "armed", "queued", "stopped"}]
      /\ stopped_early' \in [Attempts -> BOOLEAN]
      /\ \A b \in takers : /\ permit'[b] = "reacquiring"
                           /\ reacquire_outstanding'[b]
                           /\ slot'[b] = "armed"
                           /\ ~stopped_early'[b]
      /\ \A b \in Attempts \ takers :
            /\ permit'[b] = permit[b]
            /\ reacquire_outstanding'[b] = reacquire_outstanding[b]
            /\ slot'[b] = slot[b]
            /\ stopped_early'[b] = stopped_early[b]
  BY <1>4, <1>5, ReacquireFacts DEF Inv
<1>7. \A b \in takers : /\ phase[b] = "running" /\ ~stopping[b]
                        /\ permit[b] = "released"
                        /\ slot[b] = "none" /\ outcome[b] = None /\ ~held[b]
  <2>1. \A b \in takers : phase[b] = "running" /\ ~stopping[b] /\ permit[b] = "released"
    BY <1>3 DEF takers
  <2> QED BY <1>5, <2>1 DEF Inv, AttemptOK, Lifecycle, Lease
<1>8. /\ Links'
      /\ waits_by_me' \in [Attempts -> SUBSET Waits]
      /\ waits_on_me' \in [Attempts -> SUBSET Waits]
      /\ edges_out' \in [Attempts -> [Attempts -> Nat]]
      /\ \A b, c \in Attempts : edges_out'[b][c] > 0 => edges_out[b][c] > 0
  <2>1. /\ alone \in SUBSET Waits /\ fetched \in SUBSET Waits
        /\ \A w \in fetched : w \notin alone /\ wstate[w] = "blocked"
    BY <1>2 DEF alone, fetched
  <2> QED BY <1>4, <2>1, LinksWithout DEF Inv
<1>9. TypeOK'
  BY <1>1, <1>4, <1>6, <1>8 DEF Inv, TypeOK, effectVars
<1>10. ASSUME NEW b \in Attempts
       PROVE  AttemptOK(b)'
  <2>1. AttemptOK(b) /\ AttemptOK(a)
    BY DEF Inv
  <2>2. value # None
    BY NoneAssumption DEF Result
  <2>3. result'[a] = value /\ (b # a => result'[b] = result[b])
    BY <1>1 DEF Inv, TypeOK
  <2>4. predecessor'[a] = None /\ (b # a => predecessor'[b] = predecessor[b])
    BY <1>1 DEF Inv, TypeOK
  <2>5. Lifecycle(b)' /\ Draining(b)' /\ StopsOnlyStopping(b)' /\ Lease(b)'
    BY <1>1, <1>4, <1>6, <1>7, <2>1
       DEF AttemptOK, Lifecycle, Lease, Draining, StopsOnlyStopping, effectVars
  <2>6. Results(b)' /\ Behind(b)'
    BY <1>1, <2>1, <2>2, <2>3, <2>4 DEF AttemptOK, Results, Behind, Lifecycle
  <2> QED BY <2>5, <2>6 DEF AttemptOK
<1>11. ASSUME NEW b \in Attempts
       PROVE  Restored(b)'
  <2>1. CASE b \in takers
    BY <1>6, <2>1 DEF Restored
  <2>2. CASE b \notin takers
    <3>1. SUFFICES ASSUME phase[b] = "running", ~stopping[b], permit[b] = "released"
                   PROVE  \E w \in Waits : wstate'[w] = "blocked" /\ requester'[w] = b
      BY <1>1, <1>6, <2>2 DEF Restored
    <3>2. PICK w \in Waits : wstate[w] = "blocked" /\ requester[w] = b
      BY <3>1 DEF Inv, Restored
    <3>3. w \notin W
      BY <2>2, <3>1, <3>2, NoneAssumption DEF takers, fetched, alone
    <3> QED BY <1>4, <3>2, <3>3 DEF alone, fetched
  <2> QED BY <2>1, <2>2
<1>12. ASSUME NEW w \in Waits
       PROVE  Request(w)'
  <2>1. Request(w) /\ value # None
    BY NoneAssumption DEF Inv, Result
  <2>2. target[w] \in Attempts \cup {None} /\ requester[w] \in Attempts \cup {None}
    BY DEF Inv, TypeOK
  <2>3. result'[a] = value /\ \A b \in Attempts : b # a => result'[b] = result[b]
    BY <1>1 DEF Inv, TypeOK
  <2>4. CASE w \in W
    <3>1. wstate[w] = "blocked" /\ target[w] = a /\ wresult'[w] = value
      BY <1>2, <1>4, <2>4
    <3>2. CASE w \in alone
      <4>1. wstate'[w] = "done" /\ w \notin fetched
        BY <1>4, <3>2 DEF fetched
      <4> QED BY <1>4, <2>1, <2>3, <3>1, <4>1 DEF Request
    <3>3. CASE w \notin alone
      <4>1. w \in fetched /\ wstate'[w] = "ready" /\ requester[w] \in Attempts
        BY <1>3, <1>4, <2>4, <3>3 DEF fetched
      <4>2. permit'[requester[w]] = "reacquiring"
        BY <1>3, <1>6, <4>1 DEF takers
      <4> QED BY <1>1, <1>4, <2>1, <2>3, <3>1, <4>1, <4>2, NoneAssumption DEF Request
    <3> QED BY <3>2, <3>3
  <2>5. CASE w \notin W
    <3>1. wstate'[w] = wstate[w] /\ wresult'[w] = wresult[w]
      BY <1>4, <2>5 DEF alone, fetched
    <3>2. wstate[w] = "blocked" => target[w] # a
      BY <1>2, <2>5
    <3>3. /\ requester[w] # None => /\ permit[requester[w]] = "released"
                                          => permit'[requester[w]] \in {"released", "reacquiring"}
                                    /\ permit[requester[w]] = "reacquiring"
                                          => permit'[requester[w]] = "reacquiring"
      BY <1>6, <1>7, <2>2
    <3> QED BY <1>1, <1>4, <2>1, <2>2, <2>3, <3>1, <3>2, <3>3 DEF Request
  <2> QED BY <2>4, <2>5
<1>13. Lines'
  BY <1>1, <1>4, <1>6, <1>7, LinesKept DEF Inv, TypeOK
<1>14. NoWaitCycle' /\ Hurried'
  <2>1. \A w \in Waits : wstate'[w] = "blocked" => wstate[w] = "blocked"
    BY <1>4
  <2>2. \A b \in Attempts : predecessor'[b] # None => predecessor'[b] = predecessor[b]
    BY <1>1 DEF Inv, TypeOK
  <2> QED BY <1>1, <1>4, <1>8, <2>1, <2>2, GraphShrinks DEF Inv
<1> QED BY <1>8, <1>9, <1>10, <1>11, <1>12, <1>13, <1>14 DEF Inv

----------------------------------------------------------------------------
(* Requests that are answered at once, and attempts that are stopped.      *)

(* A request that is answered without waiting touches nothing else.        *)
LEMMA ReturnInv ==
    ASSUME Inv, NEW w \in Waits, wstate[w] = "idle",
           NEW value \in Result \cup {"canceled"}, Return(w, value),
           UNCHANGED <<attemptVars, linkVars, effectVars, queueVars, outcome>>
    PROVE  Inv'
<1>1. /\ wstate' = [wstate EXCEPT ![w] = "done"]
      /\ wresult' = [wresult EXCEPT ![w] = value]
      /\ UNCHANGED <<target, requester>>
  BY DEF Return
<1>2. TypeOK'
  BY <1>1 DEF Inv, TypeOK, attemptVars, linkVars, effectVars, queueVars
<1>3. ASSUME NEW b \in Attempts
      PROVE  AttemptOK(b)'
  BY DEF Inv, AttemptOK, Lifecycle, Results, Lease, Draining, StopsOnlyStopping, Behind,
         attemptVars, effectVars, queueVars
<1>4. \A v \in Waits : v # w => wstate'[v] = wstate[v] /\ wresult'[v] = wresult[v]
  BY <1>1 DEF Inv, TypeOK
<1>5. wstate'[w] = "done"
  BY <1>1 DEF Inv, TypeOK
<1>6. ASSUME NEW b \in Attempts
      PROVE  Restored(b)'
  <2>1. Restored(b)
    BY DEF Inv
  <2> QED BY <1>1, <1>4, <2>1 DEF Restored, attemptVars
<1>7. ASSUME NEW v \in Waits
      PROVE  Request(v)'
  <2>1. Request(v)
    BY DEF Inv
  <2> QED BY <1>1, <1>4, <1>5, <2>1 DEF Request, attemptVars
<1>8. Links'
  <2>1. \A v \in Waits : /\ wstate'[v] = "blocked" <=> wstate[v] = "blocked"
                         /\ wstate'[v] = "ready" <=> wstate[v] = "ready"
    BY <1>4, <1>5
  <2>2. \A a, b \in Attempts : Between(a, b)' = Between(a, b)
    BY <1>1, <2>1 DEF Between
  <2> QED BY <1>1, <2>1, <2>2 DEF Inv, Links, linkVars
<1>9. Lines'
  BY LinesKept DEF Inv, attemptVars, queueVars
<1>10. NoWaitCycle' /\ Hurried'
  BY <1>1, <1>4, <1>5, GraphShrinks DEF Inv, attemptVars, linkVars, queueVars
<1> QED BY <1>2, <1>3, <1>6, <1>7, <1>8, <1>9, <1>10 DEF Inv

(* What stopping the running attempts S does: their requests `left' are    *)
(* canceled, and with them a request that never waited may be answered.    *)
LEMMA StopFacts ==
    ASSUME Inv, NEW S \in SUBSET Attempts, \A a \in S : phase[a] = "running",
           NEW over \in SUBSET Waits, NEW left \in SUBSET over,
           left = UNION {waits_by_me[a] : a \in S},
           \A w \in over \ left : wstate[w] = "idle",
           stopping' = [a \in Attempts |-> stopping[a] \/ a \in S],
           phase' \in [Attempts -> Phase],
           \A a \in Attempts : phase'[a] = phase[a] \/ (a \in S /\ phase'[a] = "ended"),
           wstate' = [w \in Waits |-> IF w \in over THEN "done" ELSE wstate[w]],
           \A w \in Waits \ over : wresult'[w] = wresult[w],
           \A w \in left : wresult'[w] = "canceled",
           Leave(left, {}),
           UNCHANGED <<target, requester, permit, hurried, result, predecessor, queueVars>>
    PROVE  /\ waits_by_me' \in [Attempts -> SUBSET Waits]
           /\ waits_on_me' \in [Attempts -> SUBSET Waits]
           /\ edges_out' \in [Attempts -> [Attempts -> Nat]]
           /\ wstate' \in [Waits -> {"idle", "blocked", "ready", "done"}]
           /\ stopping' \in [Attempts -> BOOLEAN]
           /\ \A a \in Attempts : Restored(a)'
           /\ \A w \in Waits : Request(w)'
           /\ Links' /\ Lines' /\ NoWaitCycle' /\ Hurried'
<1>1. \A w \in Waits : wstate'[w] = IF w \in over THEN "done" ELSE wstate[w]
  OBVIOUS
<1>2. \A w \in Waits : wstate[w] \in {"blocked", "ready"} =>
          (w \in left <=> requester[w] \in S)
  BY DEF Inv, Links
<1>3. \A w \in Waits : w \in left <=> w \in over /\ wstate[w] # "idle"
  <2>1. \A w \in left : wstate[w] # "idle"
    BY DEF Inv, Links
  <2> QED BY <2>1
<1>4. \A a \in Attempts : /\ a \in S => stopping'[a]
                          /\ a \notin S => stopping'[a] = stopping[a] /\ phase'[a] = phase[a]
  <2>1. stopping \in [Attempts -> BOOLEAN]
    BY DEF Inv, TypeOK
  <2> QED BY <2>1
<1>5. /\ Links'
      /\ waits_by_me' \in [Attempts -> SUBSET Waits]
      /\ waits_on_me' \in [Attempts -> SUBSET Waits]
      /\ edges_out' \in [Attempts -> [Attempts -> Nat]]
      /\ \A b, c \in Attempts : edges_out'[b][c] > 0 => edges_out[b][c] > 0
  <2> DEFINE none == {}
  <2>1. /\ none \in SUBSET Waits
        /\ \A w \in none : w \notin over /\ wstate[w] = "blocked"
        /\ \A w \in Waits : wstate'[w] = IF w \in over THEN "done"
                                         ELSE IF w \in none THEN "ready" ELSE wstate[w]
        /\ target' = target /\ requester' = requester
        /\ Leave(left, none)
    BY <1>1
  <2>2. TypeOK /\ Links
    BY DEF Inv
  <2> HIDE DEF none
  <2> QED BY <2>1, <2>2, LinksWithout
<1>6. ASSUME NEW a \in Attempts
      PROVE  Restored(a)'
  <2>1. SUFFICES ASSUME a \notin S, phase[a] = "running", ~stopping[a], permit[a] = "released"
                 PROVE  \E w \in Waits : wstate'[w] = "blocked" /\ requester'[w] = a
    BY <1>4 DEF Restored
  <2>2. PICK w \in Waits : wstate[w] = "blocked" /\ requester[w] = a
    BY <2>1 DEF Inv, Restored
  <2>3. w \notin over
    BY <1>2, <1>3, <2>1, <2>2
  <2> QED BY <1>1, <2>2, <2>3
<1>7. ASSUME NEW w \in Waits
      PROVE  Request(w)'
  <2>1. Request(w)
    BY DEF Inv
  <2>2. target[w] \in Attempts \cup {None} /\ requester[w] \in Attempts \cup {None}
    BY DEF Inv, TypeOK
  <2>3. CASE w \in left
    BY <1>1, <2>3 DEF Request
  <2>4. CASE w \in over \ left
    BY <1>1, <2>1, <2>4 DEF Request
  <2>5. CASE w \notin over
    <3>1. wstate'[w] = wstate[w] /\ wresult'[w] = wresult[w]
      BY <1>1, <2>5
    <3>2. wstate[w] \in {"blocked", "ready"} => requester[w] \notin S
      BY <1>2, <2>5
    <3>3. \A a \in Attempts : phase[a] # "none" => phase'[a] # "none"
      OBVIOUS
    <3> QED BY <1>4, <2>1, <2>2, <3>1, <3>2, <3>3 DEF Request
  <2> QED BY <2>3, <2>4, <2>5
<1>8. Lines'
  BY LinesKept DEF Inv, queueVars
<1>9. NoWaitCycle' /\ Hurried'
  <2>1. \A w \in Waits : wstate'[w] = "blocked" => wstate[w] = "blocked"
    BY <1>1
  <2>2. \A a \in Attempts : phase'[a] = "pending" => phase[a] = "pending"
    OBVIOUS
  <2> QED BY <1>5, <2>1, <2>2, GraphShrinks DEF Inv, queueVars
<1>10. wstate' \in [Waits -> {"idle", "blocked", "ready", "done"}]
  BY DEF Inv, TypeOK
<1>11. stopping' \in [Attempts -> BOOLEAN]
  BY DEF Inv, TypeOK
<1> QED BY <1>5, <1>6, <1>7, <1>8, <1>9, <1>10, <1>11

(* The attempts on a route are attempts.                                   *)
LEMMA RouteAttempts ==
    ASSUME NEW p \in Routes
    PROVE  ToSet(p) \subseteq Attempts
BY DEF Routes, SetToAllKPermutations, SetToSeqs, ToSet

(* A request that would close a cycle dooms and stops the running attempts *)
(* on it.                                                                  *)
LEMMA WaitCycleInv ==
    ASSUME Inv, NEW w \in Waits, wstate[w] = "idle", NEW t \in Attempts,
           NEW r \in Attempts \cup {None}, wait_cycle(w, t, r)
    PROVE  Inv'
<1>1. PICK p \in path_to(t, r) :
         LET stopped == {a \in ToSet(p) : phase[a] = "running" /\ ~stopping[a]}
             left    == UNION {waits_by_me[a] : a \in stopped}
         IN  /\ doomed' = [a \in Attempts |-> doomed[a] \/ a \in stopped]
             /\ stopping' = [a \in Attempts |-> stopping[a] \/ a \in stopped]
             /\ stop_reacquires' = stop_reacquires
                                     \cup {a \in stopped : reacquire_outstanding[a]}
             /\ wstate' = [v \in Waits |->
                              IF v \in left \cup {w} THEN "done" ELSE wstate[v]]
             /\ wresult' = [v \in Waits |-> CASE v = w -> "cycle"
                                              [] v \in left -> "canceled"
                                              [] OTHER -> wresult[v]]
             /\ Leave(left, {})
  BY DEF wait_cycle
<1> DEFINE S    == {a \in ToSet(p) : phase[a] = "running" /\ ~stopping[a]}
           left == UNION {waits_by_me[a] : a \in S}
           over == left \cup {w}
<1>2. UNCHANGED <<phase, permit, hurried, result, predecessor,
                  reacquire_outstanding, drain, target, requester, drains,
                  queueVars, outcome>>
  BY DEF wait_cycle
<1>3. S \in SUBSET Attempts /\ \A a \in S : phase[a] = "running" /\ ~stopping[a]
  BY <1>1, RouteAttempts DEF path_to
<1>4. left \in SUBSET Waits /\ w \notin left
  <2>1. \A a \in S : waits_by_me[a] = {v \in Waits : /\ wstate[v] \in {"blocked", "ready"}
                                                     /\ requester[v] = a}
    BY <1>3 DEF Inv, Links
  <2> QED BY <2>1
<1>5. /\ doomed' = [a \in Attempts |-> doomed[a] \/ a \in S]
      /\ stopping' = [a \in Attempts |-> stopping[a] \/ a \in S]
      /\ stop_reacquires' = stop_reacquires \cup {a \in S : reacquire_outstanding[a]}
      /\ wstate' = [v \in Waits |-> IF v \in over THEN "done" ELSE wstate[v]]
      /\ wresult' = [v \in Waits |-> CASE v = w -> "cycle"
                                       [] v \in left -> "canceled"
                                       [] OTHER -> wresult[v]]
      /\ Leave(left, {})
  BY <1>1
<1>6. left = UNION {waits_by_me[a] : a \in S}
  OBVIOUS
<1> HIDE DEF S, left
<1>7. /\ \A v \in Waits \ over : wresult'[v] = wresult[v]
      /\ \A v \in left : wresult'[v] = "canceled"
      /\ wresult' \in [Waits -> Result \cup {"canceled", None}]
  BY <1>4, <1>5 DEF Inv, TypeOK, Result
<1>8. /\ waits_by_me' \in [Attempts -> SUBSET Waits]
      /\ waits_on_me' \in [Attempts -> SUBSET Waits]
      /\ edges_out' \in [Attempts -> [Attempts -> Nat]]
      /\ wstate' \in [Waits -> {"idle", "blocked", "ready", "done"}]
      /\ stopping' \in [Attempts -> BOOLEAN]
      /\ \A a \in Attempts : Restored(a)'
      /\ \A v \in Waits : Request(v)'
      /\ Links' /\ Lines' /\ NoWaitCycle' /\ Hurried'
  <2>1. /\ over \in SUBSET Waits /\ left \in SUBSET over
        /\ \A v \in over \ left : wstate[v] = "idle"
        /\ phase' \in [Attempts -> Phase]
        /\ \A a \in Attempts : phase'[a] = phase[a] \/ (a \in S /\ phase'[a] = "ended")
        /\ UNCHANGED <<target, requester, permit, hurried, result, predecessor, queueVars>>
    BY <1>2, <1>4 DEF Inv, TypeOK
  <2> HIDE DEF over
  <2>2. wstate' = [v \in Waits |-> IF v \in over THEN "done" ELSE wstate[v]]
    BY <1>5 DEF over
  <2>3. \A v \in Waits \ over : wresult'[v] = wresult[v]
    BY <1>7 DEF over
  <2>4. S \in SUBSET Attempts /\ \A a \in S : phase[a] = "running"
    BY <1>3
  <2>5. /\ stopping' = [a \in Attempts |-> stopping[a] \/ a \in S]
        /\ \A v \in left : wresult'[v] = "canceled"
        /\ Leave(left, {})
    BY <1>5, <1>7
  <2> QED BY <1>6, <2>1, <2>2, <2>3, <2>4, <2>5, StopFacts
<1>9. TypeOK'
  BY <1>2, <1>3, <1>5, <1>7, <1>8 DEF Inv, TypeOK, queueVars
<1>10. ASSUME NEW b \in Attempts
       PROVE  AttemptOK(b)'
  <2>1. AttemptOK(b)
    BY DEF Inv
  <2>2. /\ doomed[b] \in BOOLEAN /\ stopping[b] \in BOOLEAN
        /\ doomed'[b] <=> doomed[b] \/ b \in S
        /\ stopping'[b] <=> stopping[b] \/ b \in S
    BY <1>5 DEF Inv, TypeOK
  <2> QED BY <1>2, <1>3, <1>5, <2>1, <2>2
          DEF AttemptOK, Lifecycle, Results, Lease, Draining, StopsOnlyStopping, Behind,
              queueVars
<1> QED BY <1>8, <1>9, <1>10 DEF Inv

(* What on_outer_stop and finish have in common.                           *)
LEMMA StopOneFacts ==
    ASSUME Inv, NEW a \in Attempts, phase[a] = "running",
           stop_attempts({a}, Canceled),
           phase' = phase \/ phase' = [phase EXCEPT ![a] = "ended"],
           UNCHANGED <<permit, hurried, result, predecessor, queueVars>>
    PROVE  /\ waits_by_me' \in [Attempts -> SUBSET Waits]
           /\ waits_on_me' \in [Attempts -> SUBSET Waits]
           /\ edges_out' \in [Attempts -> [Attempts -> Nat]]
           /\ wstate' \in [Waits -> {"idle", "blocked", "ready", "done"}]
           /\ wresult' \in [Waits -> Result \cup {"canceled", None}]
           /\ target' = target /\ requester' = requester
           /\ stopping' \in [Attempts -> BOOLEAN]
           /\ stopping'[a] /\ \A b \in Attempts : b # a => stopping'[b] = stopping[b]
           /\ stop_reacquires' \subseteq Attempts
           /\ \A b \in stop_reacquires' : b = a \/ b \in stop_reacquires
           /\ \A b \in Attempts : Restored(b)'
           /\ \A v \in Waits : Request(v)'
           /\ Links' /\ Lines' /\ NoWaitCycle' /\ Hurried'
<1> DEFINE left == UNION {waits_by_me[b] : b \in {a}}
<1>1. /\ stopping' = [b \in Attempts |-> stopping[b] \/ b \in {a}]
      /\ wstate' = [w \in Waits |-> IF w \in left THEN "done" ELSE wstate[w]]
      /\ wresult' = [w \in Waits |-> IF w \in left THEN Canceled[w] ELSE wresult[w]]
      /\ Leave(left, {})
      /\ UNCHANGED <<target, requester>>
      /\ stop_reacquires' = stop_reacquires \cup {b \in {a} : reacquire_outstanding[b]}
  BY DEF stop_attempts, answer
<1>2. left = waits_by_me[a] /\ left \in SUBSET Waits
  BY DEF Inv, TypeOK
<1>3. /\ \A v \in Waits \ left : wresult'[v] = wresult[v]
      /\ \A v \in left : wresult'[v] = "canceled"
      /\ wresult' \in [Waits -> Result \cup {"canceled", None}]
  BY <1>1, <1>2 DEF Inv, TypeOK, Canceled
<1>4. left = UNION {waits_by_me[b] : b \in {a}}
  OBVIOUS
<1> HIDE DEF left
<1>5. /\ waits_by_me' \in [Attempts -> SUBSET Waits]
      /\ waits_on_me' \in [Attempts -> SUBSET Waits]
      /\ edges_out' \in [Attempts -> [Attempts -> Nat]]
      /\ wstate' \in [Waits -> {"idle", "blocked", "ready", "done"}]
      /\ stopping' \in [Attempts -> BOOLEAN]
      /\ \A b \in Attempts : Restored(b)'
      /\ \A v \in Waits : Request(v)'
      /\ Links' /\ Lines' /\ NoWaitCycle' /\ Hurried'
  <2>1. /\ left \in SUBSET left
        /\ \A v \in left \ left : wstate[v] = "idle"
        /\ {a} \in SUBSET Attempts /\ \A b \in {a} : phase[b] = "running"
    OBVIOUS
  <2>2. /\ phase' \in [Attempts -> Phase]
        /\ \A b \in Attempts : phase'[b] = phase[b] \/ (b \in {a} /\ phase'[b] = "ended")
    <3>1. CASE phase' = phase
      BY <3>1 DEF Inv, TypeOK, Phase
    <3>2. CASE phase' = [phase EXCEPT ![a] = "ended"]
      BY <3>2 DEF Inv, TypeOK, Phase
    <3> QED BY <3>1, <3>2
  <2> QED BY <1>1, <1>2, <1>3, <1>4, <2>1, <2>2, StopFacts
<1>6. stopping'[a] /\ \A b \in Attempts : b # a => stopping'[b] = stopping[b]
  BY <1>1 DEF Inv, TypeOK
<1>7. stop_reacquires' \subseteq Attempts /\ \A b \in stop_reacquires' : b = a \/ b \in stop_reacquires
  BY <1>1 DEF Inv, TypeOK
<1> QED BY <1>1, <1>3, <1>5, <1>6, <1>7

LEMMA OuterStopInv ==
    ASSUME Inv, NEW a \in Attempts, on_outer_stop(a)
    PROVE  Inv'
<1>1. /\ phase[a] = "running"
      /\ stop_attempts({a}, Canceled)
      /\ UNCHANGED <<phase, permit, doomed, hurried, result, predecessor,
                     reacquire_outstanding, drain, drains, queueVars, outcome>>
  BY DEF on_outer_stop
<1>2. /\ waits_by_me' \in [Attempts -> SUBSET Waits]
      /\ waits_on_me' \in [Attempts -> SUBSET Waits]
      /\ edges_out' \in [Attempts -> [Attempts -> Nat]]
      /\ wstate' \in [Waits -> {"idle", "blocked", "ready", "done"}]
      /\ wresult' \in [Waits -> Result \cup {"canceled", None}]
      /\ target' = target /\ requester' = requester
      /\ stopping' \in [Attempts -> BOOLEAN]
      /\ stop_reacquires' \subseteq Attempts
  BY <1>1, StopOneFacts
<1>3. /\ stopping'[a] /\ \A b \in Attempts : b # a => stopping'[b] = stopping[b]
      /\ \A b \in stop_reacquires' : b = a \/ b \in stop_reacquires
  BY <1>1, StopOneFacts
<1>4. /\ \A b \in Attempts : Restored(b)'
      /\ \A v \in Waits : Request(v)'
      /\ Links' /\ Lines' /\ NoWaitCycle' /\ Hurried'
  BY <1>1, StopOneFacts
<1>5. TypeOK'
  BY <1>1, <1>2 DEF Inv, TypeOK, queueVars
<1>6. ASSUME NEW b \in Attempts
      PROVE  AttemptOK(b)'
  <2>1. AttemptOK(b)
    BY DEF Inv
  <2> QED BY <1>1, <1>3, <2>1
          DEF AttemptOK, Lifecycle, Results, Lease, Draining, StopsOnlyStopping, Behind,
              queueVars
<1> QED BY <1>4, <1>5, <1>6 DEF Inv

LEMMA FinishInv ==
    ASSUME Inv, NEW a \in Attempts, finish(a)
    PROVE  Inv'
<1>1. /\ phase[a] = "running"
      /\ stop_attempts({a}, Canceled)
      /\ phase' = [phase EXCEPT ![a] = "ended"]
      /\ drain' = [drain EXCEPT ![a] = reacquire_outstanding[a]]
      /\ drains' = drains \cup (IF reacquire_outstanding[a] THEN {} ELSE {a})
      /\ UNCHANGED <<permit, doomed, hurried, result, predecessor,
                     reacquire_outstanding, queueVars, outcome>>
  BY DEF finish
<1>2. /\ waits_by_me' \in [Attempts -> SUBSET Waits]
      /\ waits_on_me' \in [Attempts -> SUBSET Waits]
      /\ edges_out' \in [Attempts -> [Attempts -> Nat]]
      /\ wstate' \in [Waits -> {"idle", "blocked", "ready", "done"}]
      /\ wresult' \in [Waits -> Result \cup {"canceled", None}]
      /\ target' = target /\ requester' = requester
      /\ stopping' \in [Attempts -> BOOLEAN]
      /\ stop_reacquires' \subseteq Attempts
  BY <1>1, StopOneFacts
<1>3. /\ stopping'[a] /\ \A b \in Attempts : b # a => stopping'[b] = stopping[b]
      /\ \A b \in stop_reacquires' : b = a \/ b \in stop_reacquires
  BY <1>1, StopOneFacts
<1>4. /\ \A b \in Attempts : Restored(b)'
      /\ \A v \in Waits : Request(v)'
      /\ Links' /\ Lines' /\ NoWaitCycle' /\ Hurried'
  BY <1>1, StopOneFacts
<1>5. TypeOK'
  BY <1>1, <1>2 DEF Inv, TypeOK, Phase, queueVars
<1>6. ASSUME NEW b \in Attempts
      PROVE  AttemptOK(b)'
  <2>1. AttemptOK(b)
    BY DEF Inv
  <2>2. /\ phase'[a] = "ended" /\ (b # a => phase'[b] = phase[b])
        /\ drain'[a] = reacquire_outstanding[a] /\ (b # a => drain'[b] = drain[b])
    BY <1>1 DEF Inv, TypeOK
  <2> QED BY <1>1, <1>3, <2>1, <2>2
          DEF AttemptOK, Lifecycle, Results, Lease, Draining, StopsOnlyStopping, Behind,
              queueVars
<1> QED BY <1>4, <1>5, <1>6 DEF Inv

----------------------------------------------------------------------------
(* The queue.                                                              *)

(* Facts every step on the queue starts from.                              *)
LEMMA QueueBasics ==
    ASSUME Inv
    PROVE  /\ Sound(q, Attempts)
           /\ q.free \in Nat /\ q.given \in SUBSET Attempts
           /\ Holders \in SUBSET Attempts /\ InLine \in SUBSET Attempts
           /\ Cardinality(Holders \cup q.given) \in Nat
           /\ InLine \cup q.given = {a \in Attempts : slot[a] = "queued"}
           /\ InLine \cap q.given = {}
           /\ \A a \in Holders : slot[a] = "none"
           /\ Holders \cap (InLine \cup q.given) = {}
           /\ IsFiniteSet(Attempts)
<1>1. Sound(q, Attempts) /\ q.free \in Nat /\ q.given \in SUBSET Attempts
  BY DEF Inv, Lines, Sound, LinesOver
<1>2. Holders \in SUBSET Attempts
  BY DEF Holders
<1>3. Cardinality(Holders \cup q.given) \in Nat
  BY <1>1, <1>2, Counting, AttemptsAssumption
<1>4. InLine \cup q.given = {a \in Attempts : slot[a] = "queued"}
  BY DEF Inv, Lines, Placed
<1>5. \A a \in Holders : slot[a] = "none"
  BY DEF Holders, Inv, AttemptOK, Lease, Lifecycle
<1>6. InLine \cap q.given = {}
  BY <1>1 DEF Sound, InLine
<1> QED BY <1>1, <1>2, <1>3, <1>4, <1>5, <1>6, AttemptsAssumption

(* The lines l with the holders H, once a slot of neither is released.     *)
LEMMA LinesReleased ==
    ASSUME NEW l, Sound(l, Attempts), NEW H \in SUBSET Attempts, Holders' = H,
           H \cap (Reacquirers(l) \cup NewWork(l)) = {},
           l.free > 0 => Reacquirers(l) \cup NewWork(l) = {},
           l.free + Cardinality(H \cup l.given) + 1 = Permits,
           Reacquirers(l) \cup NewWork(l) \cup l.given
               = {a \in Attempts : slot'[a] = "queued"},
           \A a \in Reacquirers(l) : phase'[a] # "queued",
           \A a \in NewWork(l) : phase'[a] = "queued",
           q' = release(l)
    PROVE  Lines' /\ q'.hurry = l.hurry /\ q' \in LinesOver(Attempts)
<1>1. LET r == release(l)
      IN  /\ Sound(r, Attempts)
          /\ r.free + Cardinality(H \cup r.given) = l.free + Cardinality(H \cup l.given) + 1
          /\ r.free > 0 => Reacquirers(r) \cup NewWork(r) = {}
          /\ \/ /\ r.given = l.given
                /\ Reacquirers(r) = Reacquirers(l) /\ NewWork(r) = NewWork(l)
             \/ \E h \in Reacquirers(l) \cup NewWork(l) :
                   /\ h \in Attempts /\ h \notin H \cup l.given
                   /\ r.given = l.given \cup {h}
                   /\ Reacquirers(r) = Reacquirers(l) \ {h}
                   /\ NewWork(r) = NewWork(l) \ {h}
  <2>1. IsFiniteSet(Attempts)
    BY AttemptsAssumption
  <2> QED BY <2>1, ReleaseConserves, Zenon
<1>2. /\ Sound(q', Attempts)
      /\ q'.free + Cardinality(Holders' \cup q'.given) = Permits
      /\ q'.free > 0 => InLine' = {}
  BY <1>1 DEF InLine
<1>3. Placed'
  BY <1>1 DEF Placed, InLine
<1>4. q'.hurry = l.hurry
  BY HurryKept
<1> QED BY <1>2, <1>3, <1>4 DEF Lines, Sound

(* The Drain completes, with what the attempt came to.                     *)
LEMMA DrainedInv ==
    ASSUME Inv, NEW a \in Attempts, NEW value \in WorkResults, Drained(a, value)
    PROVE  Inv'
<1>1. /\ a \in drains /\ drains' = drains \ {a}
      /\ outcome' = [outcome EXCEPT ![a] = IF doomed[a] THEN "cycle" ELSE value]
      /\ held' = [held EXCEPT ![a] = FALSE]
      /\ q' = IF held[a] THEN release(q) ELSE q
      /\ UNCHANGED <<attemptVars, linkVars, waitVars, stop_reacquires, slot,
                     stopped_early>>
  BY DEF Drained, give_back
<1>2. value \in Result /\ value # None /\ "cycle" \in Result /\ "cycle" # None
  BY WorkResultsAssumption, NoneAssumption DEF Result
<1>3. /\ phase[a] = "ended" /\ outcome[a] = None /\ result[a] = None
      /\ ~reacquire_outstanding[a] /\ slot[a] = "none"
  BY <1>1 DEF Inv, AttemptOK, Draining, Lease, Results
<1>4. Lines' /\ q'.hurry = q.hurry /\ q' \in LinesOver(Attempts)
  <2>1. CASE held[a]
    <3>1. PICK H \in SUBSET Attempts : H = Holders \ {a}
      BY QueueBasics
    <3>2. Holders' = H
      BY <1>1, <3>1 DEF Holders, Inv, TypeOK
    <3>3. q.free + Cardinality(H \cup q.given) + 1 = Permits
      <4>1. a \in Holders /\ a \notin q.given
        BY <2>1, QueueBasics DEF Holders
      <4>2. H \cup q.given = (Holders \cup q.given) \ {a}
        BY <3>1, <4>1
      <4>3. Cardinality((Holders \cup q.given) \ {a}) = Cardinality(Holders \cup q.given) - 1
        BY <4>1, QueueBasics, Counting
      <4>4. q.free + Cardinality(Holders \cup q.given) = Permits
        BY DEF Inv, Lines
      <4>5. Cardinality(H \cup q.given) = Cardinality(Holders \cup q.given) - 1
        BY <4>2, <4>3
      <4>6. q.free \in Nat /\ Cardinality(Holders \cup q.given) \in Nat
        BY QueueBasics
      <4> QED BY <4>4, <4>5, <4>6
    <3>4. /\ Sound(q, Attempts)
          /\ H \cap (Reacquirers(q) \cup NewWork(q)) = {}
          /\ q.free > 0 => Reacquirers(q) \cup NewWork(q) = {}
          /\ q' = release(q)
      BY <1>1, <2>1, <3>1, QueueBasics DEF Inv, Lines, InLine
    <3>5. /\ Reacquirers(q) \cup NewWork(q) \cup q.given
                = {b \in Attempts : slot'[b] = "queued"}
          /\ \A b \in Reacquirers(q) : phase'[b] # "queued"
          /\ \A b \in NewWork(q) : phase'[b] = "queued"
      BY <1>1 DEF Inv, Lines, Placed, InLine, attemptVars
    <3> QED BY <3>2, <3>3, <3>4, <3>5, LinesReleased
  <2>2. CASE ~held[a]
    <3>1. held' = held /\ q' = q
      BY <1>1, <2>2 DEF Inv, TypeOK
    <3> QED BY <1>1, <3>1, LinesKept DEF Inv, TypeOK, attemptVars
  <2> QED BY <2>1, <2>2
<1>5. TypeOK'
  BY <1>1, <1>2, <1>4 DEF Inv, TypeOK, attemptVars, linkVars, waitVars
<1>6. ASSUME NEW b \in Attempts
      PROVE  AttemptOK(b)'
  <2>1. AttemptOK(b)
    BY DEF Inv
  <2>2. /\ outcome'[a] = IF doomed[a] THEN "cycle" ELSE value
        /\ ~held'[a]
        /\ b # a => outcome'[b] = outcome[b] /\ held'[b] = held[b]
    BY <1>1 DEF Inv, TypeOK
  <2> QED BY <1>1, <1>2, <1>3, <2>1, <2>2
          DEF AttemptOK, Lifecycle, Results, Lease, Draining, StopsOnlyStopping, Behind,
              attemptVars
<1>7. ASSUME NEW b \in Attempts
      PROVE  Restored(b)'
  BY <1>1 DEF Inv, Restored, attemptVars, waitVars
<1>8. ASSUME NEW w \in Waits
      PROVE  Request(w)'
  BY <1>1 DEF Inv, Request, attemptVars, waitVars
<1>9. Links'
  BY <1>1 DEF Inv, Links, Between, linkVars, waitVars
<1>10. NoWaitCycle' /\ Hurried'
  BY <1>1, <1>4, GraphShrinks DEF Inv, attemptVars, linkVars, waitVars
<1> QED BY <1>4, <1>5, <1>6, <1>7, <1>8, <1>9, <1>10 DEF Inv

(* What the steps that only touch the queue leave alone.                   *)
LEMMA QueueOnly ==
    ASSUME Inv, Lines', q'.hurry = q.hurry, q' \in LinesOver(Attempts),
           slot' \in [Attempts -> {"none", "armed", "queued", "stopped"}],
           stopped_early' \in [Attempts -> BOOLEAN],
           \A a \in Attempts : slot'[a] # "none" <=> slot[a] # "none",
           stop_reacquires' \subseteq stop_reacquires,
           \A a \in Attempts : StopsOnlyStopping(a)',
           UNCHANGED <<attemptVars, linkVars, waitVars, drains, held, outcome>>
    PROVE  Inv'
<1>1. TypeOK'
  BY DEF Inv, TypeOK, attemptVars, linkVars, waitVars
<1>2. ASSUME NEW b \in Attempts
      PROVE  AttemptOK(b)'
  <2>1. AttemptOK(b)
    BY DEF Inv
  <2> QED BY <2>1
          DEF AttemptOK, Lifecycle, Results, Lease, Draining, Behind, attemptVars
<1>3. ASSUME NEW b \in Attempts
      PROVE  Restored(b)'
  BY DEF Inv, Restored, attemptVars, waitVars
<1>4. ASSUME NEW w \in Waits
      PROVE  Request(w)'
  BY DEF Inv, Request, attemptVars, waitVars
<1>5. Links'
  BY DEF Inv, Links, Between, linkVars, waitVars
<1>6. NoWaitCycle' /\ Hurried'
  BY GraphShrinks DEF Inv, attemptVars, linkVars, waitVars
<1> QED BY <1>1, <1>2, <1>3, <1>4, <1>5, <1>6 DEF Inv

(* No slot is free: the operation joins its line.                          *)
LEMMA StartQueuedInv ==
    ASSUME Inv, NEW a \in Attempts, StartQueued(a)
    PROVE  Inv'
<1> DEFINE back == IsReacquire(a)
<1>1. /\ slot[a] = "armed" /\ q.free = 0 /\ ~stopped_early[a]
      /\ q' = enqueue(q, a, back)
      /\ slot' = [slot EXCEPT ![a] = "queued"]
      /\ UNCHANGED <<attemptVars, linkVars, waitVars, effectVars, held,
                     stopped_early, outcome>>
  BY DEF StartQueued
<1>2. back \in BOOLEAN /\ (back <=> phase[a] # "queued")
  BY DEF IsReacquire
<1> HIDE DEF back
<1>3. a \notin Reacquirers(q) \cup NewWork(q) \cup q.given
  BY <1>1, QueueBasics DEF InLine
<1>4. /\ Sound(q', Attempts)
      /\ q'.free = q.free /\ q'.given = q.given
      /\ Reacquirers(q') = Reacquirers(q) \cup (IF back THEN {a} ELSE {})
      /\ NewWork(q') = NewWork(q) \cup (IF back THEN {} ELSE {a})
      /\ q'.hurry = q.hurry
  BY <1>1, <1>2, <1>3, EnqueueFacts, HurryKept, QueueBasics
<1>5. InLine' = InLine \cup {a}
  BY <1>2, <1>4 DEF InLine
<1>6. /\ slot' \in [Attempts -> {"none", "armed", "queued", "stopped"}]
      /\ slot'[a] = "queued"
      /\ \A b \in Attempts : b # a => slot'[b] = slot[b]
  BY <1>1 DEF Inv, TypeOK
<1>7. {b \in Attempts : slot'[b] = "queued"} = {b \in Attempts : slot[b] = "queued"} \cup {a}
  BY <1>6
<1>8. Placed'
  BY <1>1, <1>2, <1>4, <1>5, <1>7, QueueBasics DEF Inv, Lines, Placed, attemptVars
<1>9. Holders' = Holders
  BY <1>1 DEF Holders
<1>10. Lines'
  BY <1>1, <1>4, <1>8, <1>9 DEF Inv, Lines
<1>11. ASSUME NEW b \in Attempts
       PROVE  StopsOnlyStopping(b)'
  <2>1. StopsOnlyStopping(b)
    BY DEF Inv, AttemptOK
  <2> QED BY <1>1, <1>6, <2>1 DEF StopsOnlyStopping, attemptVars, effectVars
<1>12. stopped_early' \in [Attempts -> BOOLEAN] /\ q' \in LinesOver(Attempts)
  BY <1>1, <1>4 DEF Inv, TypeOK, Sound
<1>13. \A b \in Attempts : slot'[b] # "none" <=> slot[b] # "none"
  BY <1>1, <1>6
<1> QED BY <1>1, <1>4, <1>6, <1>10, <1>11, <1>12, <1>13, QueueOnly DEF effectVars

(* A take-back, or a first wait, is stopped: out of line, or, if it is in  *)
(* none, when it starts or not at all.                                     *)
LEMMA OnStopInv ==
    ASSUME Inv, NEW a \in Attempts, on_stop(a), stopping[a] \/ phase[a] = "queued",
           stop_reacquires' \subseteq stop_reacquires,
           UNCHANGED <<attemptVars, linkVars, waitVars, drains, held, outcome>>
    PROVE  Inv'
<1> DEFINE back == IsReacquire(a)
<1>1. back \in BOOLEAN /\ (back <=> phase[a] # "queued")
  BY DEF IsReacquire
<1>2. CASE Queued(q, a, back)
  <2>1. /\ q' = dequeue(q, a, back)
        /\ slot' = [slot EXCEPT ![a] = "stopped"]
        /\ stopped_early' = stopped_early
    BY <1>2 DEF on_stop
  <2> HIDE DEF back
  <2>2. /\ Sound(q', Attempts)
        /\ q'.free = q.free /\ q'.given = q.given
        /\ Reacquirers(q') = Reacquirers(q) \ {a}
        /\ NewWork(q') = NewWork(q) \ {a}
        /\ q'.hurry = q.hurry
    BY <1>1, <1>2, <2>1, DequeueFacts, HurryKept, QueueBasics
  <2>3. a \in InLine /\ InLine' = InLine \ {a}
    BY <1>1, <1>2, <2>2 DEF InLine, Queued, Reacquirers, NewWork
  <2>4. /\ slot' \in [Attempts -> {"none", "armed", "queued", "stopped"}]
        /\ slot'[a] = "stopped" /\ slot[a] = "queued"
        /\ \A b \in Attempts : b # a => slot'[b] = slot[b]
    BY <2>1, <2>3, QueueBasics DEF Inv, TypeOK
  <2>5. {b \in Attempts : slot'[b] = "queued"} = {b \in Attempts : slot[b] = "queued"} \ {a}
    BY <2>4
  <2>6. Placed'
    BY <2>2, <2>3, <2>5, QueueBasics DEF Inv, Lines, Placed, attemptVars
  <2>7. Holders' = Holders
    BY DEF Holders
  <2>8. Lines'
    BY <2>2, <2>3, <2>6, <2>7 DEF Inv, Lines
  <2>9. ASSUME NEW b \in Attempts
        PROVE  StopsOnlyStopping(b)'
    <3>1. StopsOnlyStopping(b)
      BY DEF Inv, AttemptOK
    <3> QED BY <2>1, <2>4, <3>1 DEF StopsOnlyStopping, attemptVars
  <2>10. stopped_early' \in [Attempts -> BOOLEAN] /\ q' \in LinesOver(Attempts)
    BY <2>1, <2>2 DEF Inv, TypeOK, Sound
  <2>11. \A b \in Attempts : slot'[b] # "none" <=> slot[b] # "none"
    BY <2>4
  <2> QED BY <2>2, <2>4, <2>8, <2>9, <2>10, <2>11, QueueOnly
<1>3. CASE ~Queued(q, a, back)
  <2>1. /\ stopped_early' = [stopped_early EXCEPT ![a] = slot[a] # "none"]
        /\ q' = q /\ slot' = slot
    BY <1>3 DEF on_stop
  <2>2. Lines'
    BY <2>1, LinesKept DEF Inv, attemptVars
  <2>3. /\ stopped_early' \in [Attempts -> BOOLEAN]
        /\ \A b \in Attempts : b # a => stopped_early'[b] = stopped_early[b]
    BY <2>1 DEF Inv, TypeOK
  <2>4. ASSUME NEW b \in Attempts
        PROVE  StopsOnlyStopping(b)'
    <3>1. StopsOnlyStopping(b)
      BY DEF Inv, AttemptOK
    <3> QED BY <2>1, <2>3, <3>1 DEF StopsOnlyStopping, attemptVars
  <2>5. /\ q'.hurry = q.hurry /\ q' \in LinesOver(Attempts)
        /\ slot' \in [Attempts -> {"none", "armed", "queued", "stopped"}]
        /\ \A b \in Attempts : slot'[b] # "none" <=> slot[b] # "none"
    BY <2>1 DEF Inv, TypeOK
  <2> QED BY <2>2, <2>3, <2>4, <2>5, QueueOnly
<1> QED BY <1>2, <1>3

LEMMA StopReacquireInv ==
    ASSUME Inv, NEW a \in Attempts, StopReacquire(a)
    PROVE  Inv'
<1>1. stopping[a]
  BY DEF StopReacquire, Inv, AttemptOK, StopsOnlyStopping
<1> QED BY <1>1, OnStopInv DEF StopReacquire

LEMMA StopQueuedInv ==
    ASSUME Inv, NEW a \in Attempts, StopQueued(a)
    PROVE  Inv'
BY OnStopInv DEF StopQueued, effectVars

----------------------------------------------------------------------------
(* SlotOperations that complete.                                           *)

(* A take-back completes: whatever is ready is answered, on the permit if  *)
(* there is one.  Of an attempt that is being stopped nothing is ready.    *)
LEMMA ReacquiredInv ==
    ASSUME Inv, NEW a \in Attempts, NEW granted \in BOOLEAN,
           phase[a] # "queued", slot[a] # "none", granted \/ stopping[a],
           on_reacquired(a, granted), slot' = [slot EXCEPT ![a] = "none"],
           Lines', q'.hurry = q.hurry, q' \in LinesOver(Attempts),
           UNCHANGED <<stopping, doomed, hurried, result, predecessor,
                       stop_reacquires, stopped_early, outcome>>
    PROVE  Inv'
<1> DEFINE W     == {w \in waits_by_me[a] : wstate[w] = "ready"}
           value == IF granted /\ ~stopping[a] THEN wresult ELSE Canceled
           gives == granted /\ ~stopping[a] /\ Blocked(a, W)
<1>1. /\ reacquire_outstanding' = [reacquire_outstanding EXCEPT ![a] = FALSE]
      /\ permit' = [permit EXCEPT ![a] =
                        IF granted /\ ~gives THEN "held" ELSE "released"]
      /\ held' = [held EXCEPT ![a] = granted /\ ~gives]
      /\ answer(W, value)
      /\ drain' = [drain EXCEPT ![a] = FALSE]
      /\ drains' = drains \cup (IF drain[a] THEN {a} ELSE {})
      /\ phase' = phase
  BY DEF on_reacquired, end_drain
<1>2. /\ reacquire_outstanding[a] /\ permit[a] = "reacquiring"
      /\ outcome[a] = None /\ phase[a] \in {"running", "ended"}
  BY DEF Inv, AttemptOK, Lease, Lifecycle, TypeOK, Phase
<1>3. W \in SUBSET Waits /\ \A w \in Waits : w \in W <=> wstate[w] = "ready" /\ requester[w] = a
  BY DEF Inv, Links
<1>4. gives <=> granted /\ \E w \in Waits : wstate[w] = "blocked" /\ requester[w] = a
  <2>1. Blocked(a, W) <=> \E w \in Waits : wstate[w] = "blocked" /\ requester[w] = a
    BY DEF Inv, Links, Blocked
  <2>2. (\E w \in Waits : wstate[w] = "blocked" /\ requester[w] = a) => ~stopping[a]
    BY NoneAssumption DEF Inv, Request
  <2> QED BY <2>1, <2>2
<1>5. W # {} => ~stopping[a] /\ granted
  <2>1. \A w \in W : ~stopping[requester[w]] /\ requester[w] = a
    BY <1>3 DEF Inv, Request
  <2> QED BY <2>1
<1>6. \A w \in W : value[w] = wresult[w]
  BY <1>5
<1> HIDE DEF W, value, gives
<1>7. /\ \A w \in Waits : wstate'[w] = IF w \in W THEN "done" ELSE wstate[w]
      /\ wstate' \in [Waits -> {"idle", "blocked", "ready", "done"}]
      /\ wresult' = wresult
      /\ target' = target /\ requester' = requester
      /\ Leave(W, {})
  <2>1. /\ wstate' = [w \in Waits |-> IF w \in W THEN "done" ELSE wstate[w]]
        /\ wresult' = [w \in Waits |-> IF w \in W THEN value[w] ELSE wresult[w]]
        /\ Leave(W, {})
        /\ UNCHANGED <<target, requester>>
    BY <1>1 DEF answer
  <2>2. wresult' = wresult
    BY <1>6, <2>1 DEF Inv, TypeOK
  <2> QED BY <2>1, <2>2 DEF Inv, TypeOK
<1>8. /\ Links'
      /\ waits_by_me' \in [Attempts -> SUBSET Waits]
      /\ waits_on_me' \in [Attempts -> SUBSET Waits]
      /\ edges_out' \in [Attempts -> [Attempts -> Nat]]
      /\ \A b, c \in Attempts : edges_out'[b][c] > 0 => edges_out[b][c] > 0
  <2> DEFINE none == {}
  <2>1. /\ none \in SUBSET Waits
        /\ \A w \in none : w \notin W /\ wstate[w] = "blocked"
        /\ \A w \in Waits : wstate'[w] = IF w \in W THEN "done"
                                         ELSE IF w \in none THEN "ready" ELSE wstate[w]
        /\ Leave(W, none)
        /\ W \in SUBSET W
        /\ \A w \in W \ W : wstate[w] = "idle"
    BY <1>7
  <2>2. TypeOK /\ Links
    BY DEF Inv
  <2> HIDE DEF none
  <2> QED BY <1>3, <1>7, <2>1, <2>2, LinksWithout
<1>9. /\ permit'[a] = IF granted /\ ~gives THEN "held" ELSE "released"
      /\ held'[a] = (granted /\ ~gives)
      /\ ~reacquire_outstanding'[a] /\ ~drain'[a] /\ slot'[a] = "none"
      /\ \A b \in Attempts : b # a =>
            /\ permit'[b] = permit[b] /\ held'[b] = held[b]
            /\ reacquire_outstanding'[b] = reacquire_outstanding[b]
            /\ drain'[b] = drain[b] /\ slot'[b] = slot[b]
  BY <1>1 DEF Inv, TypeOK
<1>10. TypeOK'
  <2>1. held' \in [Attempts -> BOOLEAN] /\ permit' \in [Attempts -> Permit]
    BY <1>1 DEF Inv, TypeOK, Permit, gives
  <2>2. /\ reacquire_outstanding' \in [Attempts -> BOOLEAN]
        /\ drain' \in [Attempts -> BOOLEAN] /\ drains' \subseteq Attempts
        /\ slot' \in [Attempts -> {"none", "armed", "queued", "stopped"}]
    BY <1>1 DEF Inv, TypeOK
  <2> QED BY <1>1, <1>7, <1>8, <2>1, <2>2 DEF Inv, TypeOK
<1>11. ASSUME NEW b \in Attempts
       PROVE  AttemptOK(b)'
  <2>1. AttemptOK(b)
    BY DEF Inv
  <2>2. b \in drains' => b \in drains \/ (b = a /\ drain[a])
    BY <1>1
  <2>3. CASE b = a
    <3>1. permit'[a] \in {"held", "released"} /\ (permit'[a] = "held" <=> held'[a])
      BY <1>9 DEF gives
    <3> QED BY <1>1, <1>2, <1>9, <2>1, <2>2, <2>3, <3>1
            DEF AttemptOK, Lifecycle, Results, Lease, Draining, StopsOnlyStopping, Behind
  <2>4. CASE b # a
    BY <1>1, <1>9, <2>1, <2>2, <2>4
       DEF AttemptOK, Lifecycle, Results, Lease, Draining, StopsOnlyStopping, Behind
  <2> QED BY <2>3, <2>4
<1>12. ASSUME NEW b \in Attempts
       PROVE  Restored(b)'
  <2>1. SUFFICES ASSUME phase[b] = "running", ~stopping[b], permit'[b] = "released"
                 PROVE  \E w \in Waits : wstate'[w] = "blocked" /\ requester'[w] = b
    BY <1>1 DEF Restored
  <2>2. \E w \in Waits : wstate[w] = "blocked" /\ requester[w] = b
    <3>1. CASE b = a
      BY <1>4, <1>9, <2>1, <3>1
    <3>2. CASE b # a
      BY <1>9, <2>1, <3>2 DEF Inv, Restored
    <3> QED BY <3>1, <3>2
  <2> QED BY <1>3, <1>7, <2>2
<1>13. ASSUME NEW w \in Waits
       PROVE  Request(w)'
  <2>1. Request(w)
    BY DEF Inv
  <2>2. target[w] \in Attempts \cup {None} /\ requester[w] \in Attempts \cup {None}
    BY DEF Inv, TypeOK
  <2>3. CASE w \in W
    BY <1>3, <1>7, <2>1, <2>3 DEF Request
  <2>4. CASE w \notin W
    <3>1. wstate'[w] = wstate[w] /\ (wstate[w] = "ready" => requester[w] # a)
      BY <1>3, <1>7, <2>4
    <3>2. wstate[w] = "blocked" /\ requester[w] = a => permit'[a] = "released"
      BY <1>4, <1>9
    <3> QED BY <1>1, <1>7, <1>9, <2>1, <2>2, <3>1, <3>2 DEF Request
  <2> QED BY <2>3, <2>4
<1>14. NoWaitCycle' /\ Hurried'
  BY <1>1, <1>7, <1>8, GraphShrinks DEF Inv
<1> QED BY <1>8, <1>10, <1>11, <1>12, <1>13, <1>14 DEF Inv

(* An operation that completes stopped.                                    *)
LEMMA CompleteStoppedInv ==
    ASSUME Inv, NEW a \in Attempts, complete_stopped(a), slot[a] \in {"armed", "stopped"},
           phase[a] = "queued" \/ stopping[a]
    PROVE  Inv'
<1>1. /\ slot' = [slot EXCEPT ![a] = "none"]
      /\ UNCHANGED <<stopping, doomed, hurried, result, predecessor,
                     stop_reacquires, stopped_early, q>>
  BY DEF complete_stopped
<1>2. /\ slot'[a] = "none" /\ \A b \in Attempts : b # a => slot'[b] = slot[b]
      /\ slot' \in [Attempts -> {"none", "armed", "queued", "stopped"}]
  BY <1>1 DEF Inv, TypeOK
<1>3. /\ outcome[a] = None /\ ~held[a]
      /\ phase[a] = "queued" => ~reacquire_outstanding[a] /\ ~stopping[a] /\ ~doomed[a]
                                /\ result[a] = None
  BY DEF Inv, AttemptOK, Lease, Lifecycle, Results
<1>4. CASE phase[a] # "queued"
  <2>1. on_reacquired(a, FALSE) /\ outcome' = outcome
    BY <1>4 DEF complete_stopped, IsReacquire
  <2>2. held' = held /\ phase' = phase
    BY <1>3, <2>1 DEF on_reacquired, Inv, TypeOK
  <2>3. Lines' /\ q'.hurry = q.hurry /\ q' \in LinesOver(Attempts)
    BY <1>1, <1>2, <2>2, LinesKept DEF Inv, TypeOK
  <2> QED BY <1>1, <1>4, <2>1, <2>3, ReacquiredInv
<1>5. CASE phase[a] = "queued"
  <2>1. /\ outcome' = [outcome EXCEPT ![a] = "failed"]
        /\ UNCHANGED <<phase, permit, held, reacquire_outstanding, drain,
                       drains, linkVars, waitVars>>
    BY <1>5 DEF complete_stopped, IsReacquire
  <2>2. "failed" \in Result /\ "failed" # None
    BY NoneAssumption DEF Result
  <2>3. /\ outcome'[a] = "failed" /\ \A b \in Attempts : b # a => outcome'[b] = outcome[b]
        /\ outcome' \in [Attempts -> Result \cup {None}]
    BY <2>1, <2>2 DEF Inv, TypeOK
  <2>4. TypeOK'
    BY <1>1, <1>2, <2>1, <2>3 DEF Inv, TypeOK, linkVars, waitVars
  <2>5. ASSUME NEW b \in Attempts
        PROVE  AttemptOK(b)'
    <3>1. AttemptOK(b)
      BY DEF Inv
    <3> QED BY <1>1, <1>2, <1>3, <1>5, <2>1, <2>2, <2>3, <3>1
            DEF AttemptOK, Lifecycle, Results, Lease, Draining, StopsOnlyStopping, Behind
  <2>6. ASSUME NEW b \in Attempts
        PROVE  Restored(b)'
    BY <1>1, <2>1 DEF Inv, Restored, waitVars
  <2>7. ASSUME NEW w \in Waits
        PROVE  Request(w)'
    BY <1>1, <2>1 DEF Inv, Request, waitVars
  <2>8. Links'
    BY <2>1 DEF Inv, Links, Between, linkVars, waitVars
  <2>9. Lines'
    BY <1>1, <1>2, <2>1, LinesKept DEF Inv
  <2>10. NoWaitCycle' /\ Hurried'
    BY <1>1, <2>1, GraphShrinks DEF Inv, linkVars, waitVars
  <2> QED BY <2>4, <2>5, <2>6, <2>7, <2>8, <2>9, <2>10 DEF Inv
<1> QED BY <1>4, <1>5

LEMMA StartStoppedInv ==
    ASSUME Inv, NEW a \in Attempts, StartStopped(a)
    PROVE  Inv'
<1>1. /\ slot[a] = "armed" /\ stopped_early[a] /\ complete_stopped(a)
  BY DEF StartStopped
<1>2. phase[a] = "queued" \/ stopping[a]
  BY <1>1 DEF Inv, AttemptOK, StopsOnlyStopping
<1> QED BY <1>1, <1>2, CompleteStoppedInv

LEMMA ResumeStoppedInv ==
    ASSUME Inv, NEW a \in Attempts, ResumeStopped(a)
    PROVE  Inv'
<1>1. /\ slot[a] = "stopped" /\ complete_stopped(a)
  BY DEF ResumeStopped
<1>2. phase[a] = "queued" \/ stopping[a]
  BY <1>1 DEF Inv, AttemptOK, StopsOnlyStopping
<1> QED BY <1>1, <1>2, CompleteStoppedInv

(* An operation that completes with a slot, taken from the queue, leaves   *)
(* the lines l, in which that slot is missing.                             *)
Took(a, l) == \/ slot[a] = "armed" /\ q.free > 0 /\ l = [q EXCEPT !.free = @ - 1]
              \/ a \in q.given /\ l = [q EXCEPT !.given = @ \ {a}]

LEMMA TookFacts ==
    ASSUME Inv, NEW a \in Attempts, NEW l, Took(a, l)
    PROVE  /\ Sound(l, Attempts) /\ l.hurry = q.hurry
           /\ Reacquirers(l) = Reacquirers(q) /\ NewWork(l) = NewWork(q)
           /\ l.free > 0 => InLine = {}
           /\ l.free + Cardinality(Holders \cup l.given) + 1 = Permits
           /\ l.free \in Nat /\ l.given \in SUBSET Attempts
           /\ a \notin Holders \cup l.given \cup InLine
           /\ InLine \cup l.given = {b \in Attempts : slot[b] = "queued" /\ b # a}
           /\ slot[a] \in {"armed", "queued"}
<1>1. /\ q.free > 0 => InLine = {}
      /\ q.free + Cardinality(Holders \cup q.given) = Permits
  BY DEF Inv, Lines
<1>2. CASE slot[a] = "armed" /\ q.free > 0 /\ l = [q EXCEPT !.free = @ - 1]
  <2>1. /\ Sound(l, Attempts)
        /\ l.free = q.free - 1 /\ l.given = q.given
        /\ Reacquirers(l) = Reacquirers(q) /\ NewWork(l) = NewWork(q)
    BY <1>2, TakeFacts, QueueBasics
  <2>2. l.hurry = q.hurry
    BY <1>2, QueueBasics DEF Sound, LinesOver
  <2>3. a \notin Holders \cup q.given \cup InLine
    BY <1>2, QueueBasics
  <2>4. l.free + Cardinality(Holders \cup l.given) + 1 = Permits
    BY <1>1, <2>1, QueueBasics
  <2>5. InLine \cup l.given = {b \in Attempts : slot[b] = "queued" /\ b # a}
    BY <1>2, <2>1, QueueBasics
  <2> QED BY <1>1, <1>2, <2>1, <2>2, <2>3, <2>4, <2>5, QueueBasics
<1>3. CASE a \in q.given /\ l = [q EXCEPT !.given = @ \ {a}]
  <2>1. /\ Sound(l, Attempts)
        /\ l.free = q.free /\ l.given = q.given \ {a}
        /\ Reacquirers(l) = Reacquirers(q) /\ NewWork(l) = NewWork(q)
    <3>1. Sound(q, Attempts) /\ l = [q EXCEPT !.given = @ \ {a}]
      BY <1>3, QueueBasics
    <3> QED BY <3>1, GivenFacts
  <2>2. l.hurry = q.hurry
    BY <1>3, QueueBasics DEF Sound, LinesOver
  <2>3. a \notin Holders \cup InLine /\ slot[a] = "queued"
    BY <1>3, QueueBasics
  <2>4. l.free + Cardinality(Holders \cup l.given) + 1 = Permits
    <3>1. Holders \cup l.given = (Holders \cup q.given) \ {a}
      BY <2>1, <2>3
    <3>2. Cardinality((Holders \cup q.given) \ {a}) = Cardinality(Holders \cup q.given) - 1
      BY <1>3, QueueBasics, Counting
    <3>3. Cardinality(Holders \cup l.given) = Cardinality(Holders \cup q.given) - 1
      BY <3>1, <3>2
    <3>4. q.free \in Nat /\ Cardinality(Holders \cup q.given) \in Nat
      BY QueueBasics
    <3> QED BY <1>1, <2>1, <3>3, <3>4
  <2>5. InLine \cup l.given = {b \in Attempts : slot[b] = "queued" /\ b # a}
    BY <1>3, <2>1, <2>3, QueueBasics
  <2> QED BY <1>1, <2>1, <2>2, <2>3, <2>4, <2>5, QueueBasics
<1> QED BY <1>2, <1>3 DEF Took

(* The slot taken is held, or goes straight back.                          *)
LEMMA TookLines ==
    ASSUME Inv, NEW a \in Attempts, NEW l, Took(a, l), NEW gives \in BOOLEAN,
           q' = IF gives THEN release(l) ELSE l,
           held' = [held EXCEPT ![a] = ~gives],
           slot' = [slot EXCEPT ![a] = "none"],
           \A b \in Attempts : b # a => phase'[b] = phase[b]
    PROVE  Lines' /\ q'.hurry = q.hurry /\ q' \in LinesOver(Attempts)
<1>1. /\ Sound(l, Attempts) /\ l.hurry = q.hurry
      /\ Reacquirers(l) = Reacquirers(q) /\ NewWork(l) = NewWork(q)
      /\ l.free > 0 => InLine = {}
      /\ l.free + Cardinality(Holders \cup l.given) + 1 = Permits
      /\ l.free \in Nat /\ l.given \in SUBSET Attempts
      /\ a \notin Holders \cup l.given \cup InLine
      /\ InLine \cup l.given = {b \in Attempts : slot[b] = "queued" /\ b # a}
  BY TookFacts
<1>2. /\ {b \in Attempts : slot'[b] = "queued"} = {b \in Attempts : slot[b] = "queued" /\ b # a}
      /\ Reacquirers(l) \cup NewWork(l) \cup l.given = {b \in Attempts : slot'[b] = "queued"}
  BY <1>1 DEF Inv, TypeOK, InLine
<1>3. /\ \A b \in Reacquirers(l) : phase'[b] # "queued"
      /\ \A b \in NewWork(l) : phase'[b] = "queued"
  BY <1>1, QueueBasics DEF Inv, Lines, Placed, InLine
<1>4. CASE gives
  <2>1. PICK H \in SUBSET Attempts : H = Holders
    BY QueueBasics
  <2>2. Holders' = H
    BY <1>1, <1>4, <2>1 DEF Holders, Inv, TypeOK
  <2>3. /\ H \cap (Reacquirers(l) \cup NewWork(l)) = {}
        /\ l.free > 0 => Reacquirers(l) \cup NewWork(l) = {}
        /\ l.free + Cardinality(H \cup l.given) + 1 = Permits
        /\ q' = release(l)
    BY <1>1, <1>4, <2>1, QueueBasics DEF InLine
  <2> QED BY <1>1, <1>2, <1>3, <2>2, <2>3, LinesReleased
<1>5. CASE ~gives
  <2>1. q' = l /\ Holders' = Holders \cup {a}
    <3>1. held \in [Attempts -> BOOLEAN]
      BY DEF Inv, TypeOK
    <3>2. \A b \in Attempts : held'[b] = IF b = a THEN TRUE ELSE held[b]
      BY <1>5, <3>1
    <3> QED BY <1>5, <3>2 DEF Holders
  <2>2. Holders' \cup l.given = (Holders \cup l.given) \cup {a}
    BY <2>1
  <2>3. /\ Cardinality((Holders \cup l.given) \cup {a}) = Cardinality(Holders \cup l.given) + 1
        /\ Cardinality(Holders \cup l.given) \in Nat
    BY <1>1, QueueBasics, Counting
  <2>4. q'.free + Cardinality(Holders' \cup q'.given) = Permits
    <3>1. Cardinality(Holders' \cup q'.given) = Cardinality(Holders \cup l.given) + 1
      BY <2>1, <2>2, <2>3
    <3> QED BY <1>1, <2>1, <2>3, <3>1
  <2>5. Placed' /\ (q'.free > 0 => InLine' = {}) /\ Sound(q', Attempts)
    BY <1>1, <1>2, <1>3, <2>1 DEF Placed, InLine
  <2> QED BY <1>1, <2>1, <2>4, <2>5 DEF Lines, Sound
<1> QED BY <1>4, <1>5

(* An operation that completes with a slot: an attempt runs, or goes on.   *)
LEMMA CompleteGivenInv ==
    ASSUME Inv, NEW a \in Attempts, NEW l, Took(a, l), complete_given(a, l)
    PROVE  Inv'
<1>1. /\ slot' = [slot EXCEPT ![a] = "none"]
      /\ q' = IF GivesBackAtOnce(a) THEN release(l) ELSE l
      /\ UNCHANGED <<stopping, doomed, hurried, result, predecessor,
                     stop_reacquires, stopped_early, outcome>>
  BY DEF complete_given
<1>2. slot[a] # "none"
  BY TookFacts
<1>3. CASE phase[a] # "queued"
  <2>1. on_reacquired(a, TRUE)
    BY <1>3 DEF complete_given, IsReacquire
  <2>2. PICK gives \in BOOLEAN : gives <=> GivesBackAtOnce(a)
    BY DEF GivesBackAtOnce
  <2>3. phase' = phase /\ held' = [held EXCEPT ![a] = ~gives]
    <3> DEFINE W == {w \in waits_by_me[a] : wstate[w] = "ready"}
    <3>1. /\ phase' = phase
          /\ held' = [held EXCEPT ![a] = TRUE /\ ~(TRUE /\ ~stopping[a] /\ Blocked(a, W))]
      BY <2>1 DEF on_reacquired
    <3>2. gives <=> ~stopping[a] /\ Blocked(a, W)
      BY <1>3, <2>2 DEF GivesBackAtOnce, IsReacquire
    <3> HIDE DEF W
    <3>3. (TRUE /\ ~(TRUE /\ ~stopping[a] /\ Blocked(a, W))) = ~gives
      BY <3>2
    <3> QED BY <3>1, <3>3
  <2>4. q' = IF gives THEN release(l) ELSE l
    BY <1>1, <2>2
  <2>5. Lines' /\ q'.hurry = q.hurry /\ q' \in LinesOver(Attempts)
    BY <1>1, <2>3, <2>4, TookLines
  <2> QED BY <1>1, <1>2, <1>3, <2>1, <2>5, ReacquiredInv
<1>4. CASE phase[a] = "queued"
  <2>1. /\ phase' = [phase EXCEPT ![a] = "running"]
        /\ permit' = [permit EXCEPT ![a] = "held"]
        /\ held' = [held EXCEPT ![a] = TRUE]
        /\ UNCHANGED <<reacquire_outstanding, drain, drains, linkVars, waitVars>>
    BY <1>4 DEF complete_given, IsReacquire, on_permit
  <2>2. /\ phase'[a] = "running" /\ permit'[a] = "held" /\ held'[a] /\ slot'[a] = "none"
        /\ \A b \in Attempts : b # a => /\ phase'[b] = phase[b] /\ permit'[b] = permit[b]
                                        /\ held'[b] = held[b] /\ slot'[b] = slot[b]
    BY <1>1, <2>1 DEF Inv, TypeOK
  <2>3. Lines' /\ q'.hurry = q.hurry /\ q' \in LinesOver(Attempts)
    <3> DEFINE gives == FALSE
    <3>1. /\ gives \in BOOLEAN
          /\ q' = IF gives THEN release(l) ELSE l
          /\ held' = [held EXCEPT ![a] = ~gives]
      BY <1>1, <1>4, <2>1 DEF GivesBackAtOnce, IsReacquire
    <3> HIDE DEF gives
    <3> QED BY <1>1, <2>2, <3>1, TookLines
  <2>4. TypeOK'
    BY <1>1, <2>1, <2>3 DEF Inv, TypeOK, Phase, Permit, linkVars, waitVars
  <2>5. outcome[a] = None /\ ~reacquire_outstanding[a] /\ ~stopping[a] /\ permit[a] = "none"
    BY <1>2, <1>4 DEF Inv, AttemptOK, Lease, Lifecycle
  <2>6. ASSUME NEW b \in Attempts
        PROVE  AttemptOK(b)'
    <3>1. AttemptOK(b) /\ (predecessor[b] = a => predecessor[b] # None)
      BY NoneAssumption DEF Inv
    <3> QED BY <1>1, <1>4, <2>1, <2>2, <2>5, <3>1
            DEF AttemptOK, Lifecycle, Results, Lease, Draining, StopsOnlyStopping, Behind,
                Inv, TypeOK
  <2>7. ASSUME NEW b \in Attempts
        PROVE  Restored(b)'
    <3>1. Restored(b)
      BY DEF Inv
    <3> QED BY <1>1, <2>1, <2>2, <3>1 DEF Restored, waitVars
  <2>8. ASSUME NEW w \in Waits
        PROVE  Request(w)'
    <3>1. Request(w)
      BY DEF Inv
    <3>2. target[w] \in Attempts \cup {None} /\ requester[w] \in Attempts \cup {None}
      BY DEF Inv, TypeOK
    <3> QED BY <1>1, <1>4, <2>1, <2>2, <3>1, <3>2 DEF Request, waitVars
  <2>9. Links'
    BY <2>1 DEF Inv, Links, Between, linkVars, waitVars
  <2>10. NoWaitCycle' /\ Hurried'
    <3>1. \A b \in Attempts : phase'[b] = "pending" => phase[b] = "pending"
      BY <2>2
    <3> QED BY <1>1, <2>1, <2>3, <3>1, GraphShrinks DEF Inv, linkVars, waitVars
  <2> QED BY <2>3, <2>4, <2>6, <2>7, <2>8, <2>9, <2>10 DEF Inv
<1> QED BY <1>3, <1>4

LEMMA StartGivenInv ==
    ASSUME Inv, NEW a \in Attempts, StartGiven(a)
    PROVE  Inv'
<1>1. PICK l : l = [q EXCEPT !.free = @ - 1]
  OBVIOUS
<1>2. Took(a, l) /\ complete_given(a, l)
  BY <1>1 DEF StartGiven, Took
<1> QED BY <1>2, CompleteGivenInv

LEMMA ResumeGivenInv ==
    ASSUME Inv, NEW a \in Attempts, ResumeGiven(a)
    PROVE  Inv'
<1>1. PICK l : l = [q EXCEPT !.given = @ \ {a}]
  OBVIOUS
<1>2. Took(a, l) /\ complete_given(a, l)
  BY <1>1 DEF ResumeGiven, Took
<1> QED BY <1>2, CompleteGivenInv

----------------------------------------------------------------------------
(* Requests that are canceled, and requests that wait.                     *)

(* The last request of an attempt to be canceled has its permit taken      *)
(* back; any other leaves a request behind that still waits.               *)
LEMMA CancelWaitInv ==
    ASSUME Inv, NEW w \in Waits, cancel_wait(w)
    PROVE  Inv'
<1> DEFINE R == IF Restores(w) THEN {requester[w]} ELSE {}
<1>1. /\ wstate[w] \in {"blocked", "ready"}
      /\ answer({w}, Canceled)
      /\ reacquire(R, {})
      /\ UNCHANGED <<phase, stopping, doomed, hurried, result, predecessor,
                     drain, effectVars, q, held, outcome>>
  BY DEF cancel_wait
<1>2. /\ Request(w)
      /\ target[w] \in Attempts \cup {None} /\ requester[w] \in Attempts \cup {None}
  BY DEF Inv, TypeOK
<1>3. /\ R \in SUBSET Attempts
      /\ \A b \in R : /\ b = requester[w] /\ waits_by_me[b] = {w}
                      /\ permit[b] = "released" /\ ~stopping[b] /\ phase[b] = "running"
  BY <1>1, <1>2 DEF Restores, Request
<1>4. \A b \in R : slot[b] = "none" /\ outcome[b] = None /\ ~held[b]
  BY <1>3 DEF Inv, AttemptOK, Lifecycle, Lease
<1>5. ASSUME NEW b \in Attempts, b \notin R, permit[b] = "released",
             phase[b] = "running", ~stopping[b]
      PROVE  \E v \in Waits : v # w /\ wstate[v] = "blocked" /\ requester[v] = b
  <2>1. PICK v \in Waits : wstate[v] = "blocked" /\ requester[v] = b
    BY <1>5 DEF Inv, Restored
  <2>2. CASE v = w
    <3>1. waits_by_me[b] # {w} /\ w \in waits_by_me[b]
      BY <1>5, <2>1, <2>2, NoneAssumption DEF Restores, Inv, Links
    <3>2. PICK u \in waits_by_me[b] : u # w
      BY <3>1
    <3>3. u \in Waits /\ wstate[u] \in {"blocked", "ready"} /\ requester[u] = b
      BY <3>2 DEF Inv, Links
    <3>4. wstate[u] # "ready"
      BY <1>5, <3>3 DEF Inv, Request
    <3> QED BY <3>2, <3>3, <3>4
  <2> QED BY <2>1, <2>2
<1> HIDE DEF R
<1>6. /\ permit' \in [Attempts -> Permit]
      /\ reacquire_outstanding' \in [Attempts -> BOOLEAN]
      /\ slot' \in [Attempts -> {"none", "armed", "queued", "stopped"}]
      /\ stopped_early' \in [Attempts -> BOOLEAN]
      /\ \A b \in R : /\ permit'[b] = "reacquiring"
                      /\ reacquire_outstanding'[b]
                      /\ slot'[b] = "armed"
                      /\ ~stopped_early'[b]
      /\ \A b \in Attempts \ R :
            /\ permit'[b] = permit[b]
            /\ reacquire_outstanding'[b] = reacquire_outstanding[b]
            /\ slot'[b] = slot[b]
            /\ stopped_early'[b] = stopped_early[b]
  BY <1>1, <1>3, ReacquireFacts DEF Inv
<1>7. /\ wstate'[w] = "done" /\ wresult'[w] = "canceled"
      /\ \A v \in Waits : v # w => wstate'[v] = wstate[v] /\ wresult'[v] = wresult[v]
      /\ wstate' \in [Waits -> {"idle", "blocked", "ready", "done"}]
      /\ wresult' \in [Waits -> Result \cup {"canceled", None}]
      /\ target' = target /\ requester' = requester
      /\ Leave({w}, {})
  BY <1>1 DEF answer, Canceled, Inv, TypeOK
<1>8. /\ Links'
      /\ waits_by_me' \in [Attempts -> SUBSET Waits]
      /\ waits_on_me' \in [Attempts -> SUBSET Waits]
      /\ edges_out' \in [Attempts -> [Attempts -> Nat]]
      /\ \A b, c \in Attempts : edges_out'[b][c] > 0 => edges_out[b][c] > 0
  <2> DEFINE none == {}
             W == {w}
  <2>1. /\ W \in SUBSET Waits /\ W \in SUBSET W /\ none \in SUBSET Waits
        /\ \A v \in W \ W : wstate[v] = "idle"
        /\ \A v \in none : v \notin W /\ wstate[v] = "blocked"
        /\ \A v \in Waits : wstate'[v] = IF v \in W THEN "done"
                                         ELSE IF v \in none THEN "ready" ELSE wstate[v]
        /\ Leave(W, none)
    BY <1>7
  <2>2. TypeOK /\ Links
    BY DEF Inv
  <2> HIDE DEF none, W
  <2> QED BY <1>7, <2>1, <2>2, LinksWithout
<1>9. TypeOK'
  BY <1>1, <1>6, <1>7, <1>8 DEF Inv, TypeOK, effectVars
<1>10. ASSUME NEW b \in Attempts
       PROVE  AttemptOK(b)'
  <2>1. AttemptOK(b)
    BY DEF Inv
  <2>2. CASE b \in R
    BY <1>1, <1>3, <1>4, <1>6, <2>1, <2>2
       DEF AttemptOK, Lifecycle, Results, Lease, Draining, StopsOnlyStopping, Behind, effectVars
  <2>3. CASE b \notin R
    BY <1>1, <1>6, <2>1, <2>3
       DEF AttemptOK, Lifecycle, Results, Lease, Draining, StopsOnlyStopping, Behind, effectVars
  <2> QED BY <2>2, <2>3
<1>11. ASSUME NEW b \in Attempts
       PROVE  Restored(b)'
  <2>1. CASE b \in R
    BY <1>6, <2>1 DEF Restored
  <2>2. CASE b \notin R
    BY <1>1, <1>5, <1>6, <1>7, <2>2 DEF Restored
  <2> QED BY <2>1, <2>2
<1>12. ASSUME NEW v \in Waits
       PROVE  Request(v)'
  <2>1. Request(v)
    BY DEF Inv
  <2>2. target[v] \in Attempts \cup {None} /\ requester[v] \in Attempts \cup {None}
    BY DEF Inv, TypeOK
  <2>3. CASE v = w
    BY <1>7, <2>3 DEF Request
  <2>4. CASE v # w
    <3>1. wstate'[v] = wstate[v] /\ wresult'[v] = wresult[v]
      BY <1>7, <2>4
    <3>2. /\ requester[v] # None => /\ permit[requester[v]] = "released"
                                          => permit'[requester[v]] \in {"released", "reacquiring"}
                                    /\ permit[requester[v]] = "reacquiring"
                                          => permit'[requester[v]] = "reacquiring"
      BY <1>3, <1>6, <2>2
    <3> QED BY <1>1, <1>7, <2>1, <2>2, <3>1, <3>2 DEF Request
  <2> QED BY <2>3, <2>4
<1>13. Lines'
  BY <1>1, <1>4, <1>6, LinesKept DEF Inv, TypeOK
<1>14. NoWaitCycle' /\ Hurried'
  <2>1. \A v \in Waits : wstate'[v] = "blocked" => wstate[v] = "blocked"
    BY <1>7
  <2> QED BY <1>1, <1>7, <1>8, <2>1, GraphShrinks DEF Inv
<1> QED BY <1>8, <1>9, <1>10, <1>11, <1>12, <1>13, <1>14 DEF Inv

(* The routes are the sequences of attempts without repetition.            *)
LEMMA RouteFacts ==
    ASSUME NEW p
    PROVE  p \in Routes <=> p \in Seq(Attempts) /\ p # <<>> /\ IsInjective(p)
<1>1. ASSUME p \in Routes
      PROVE  p \in Seq(Attempts) /\ p # <<>> /\ IsInjective(p)
  <2>1. PICK T \in SUBSET Attempts : p \in SetToSeqs(T)
    BY <1>1 DEF Routes, SetToAllKPermutations
  <2>2. IsFiniteSet(T)
    BY FS_Subset, AttemptsAssumption
  <2>3. p \in Seq(T) /\ IsInjective(p)
    BY <2>1, <2>2, SetToSeqsFacts
  <2> QED BY <1>1, <2>3 DEF Routes
<1>2. ASSUME p \in Seq(Attempts), p # <<>>, IsInjective(p)
      PROVE  p \in Routes
  <2>1. PICK T \in SUBSET Attempts : T = ToSet(p)
    <3>1. ToSet(p) \subseteq Attempts
      BY <1>2 DEF ToSet
    <3> QED BY <3>1
  <2>2. IsFiniteSet(T)
    BY FS_Subset, AttemptsAssumption
  <2>3. p \in Seq(T)
    <3>1. \A i \in 1..Len(p) : p[i] \in T
      BY <1>2, <2>1 DEF ToSet
    <3> QED BY <1>2, <3>1
  <2>4. p \in SetToSeqs(T)
    BY <1>2, <2>1, <2>2, <2>3, SetToSeqsFacts
  <2> QED BY <1>2, <2>4 DEF Routes, SetToAllKPermutations
<1> QED BY <1>1, <1>2

(* What an attempt waits for is an attempt.                                *)
LEMMA WaitsForAttempts ==
    ASSUME TypeOK, NEW a \in Attempts
    PROVE  WaitsFor(a) \subseteq Attempts
BY DEF TypeOK, WaitsFor

(* path_to follows every edge: the attempts it finds a path to from t      *)
(* include t, and wait only for one another.                               *)
LEMMA PathsFollowEdges ==
    ASSUME TypeOK, NEW t \in Attempts
    PROVE  LET S == {b \in Attempts : path_to(t, b) # {}}
           IN  t \in S /\ \A b \in S : WaitsFor(b) \subseteq S
<1> DEFINE S == {b \in Attempts : path_to(t, b) # {}}
<1>1. t \in S
  <2>1. <<t>> \in Routes
    <3>1. <<t>> \in Seq(Attempts) /\ <<t>> # <<>> /\ DOMAIN <<t>> = {1}
      OBVIOUS
    <3>2. IsInjective(<<t>>)
      BY <3>1 DEF IsInjective
    <3> QED BY <3>1, <3>2, RouteFacts
  <2>2. <<t>> \in path_to(t, t)
    BY <2>1 DEF path_to, Last
  <2> QED BY <2>2
<1>2. ASSUME NEW b \in S, NEW c \in WaitsFor(b)
      PROVE  c \in S
  <2>1. PICK p \in path_to(t, b) : TRUE
    OBVIOUS
  <2>2. /\ p \in Seq(Attempts) /\ p # <<>> /\ IsInjective(p)
        /\ Len(p) \in Nat /\ Len(p) > 0 /\ DOMAIN p = 1..Len(p)
        /\ p[1] = t /\ p[Len(p)] = b
        /\ \A i \in 1..(Len(p) - 1) : p[i + 1] \in WaitsFor(p[i])
    <3>1. p \in Routes /\ p[1] = t /\ Last(p) = b
          /\ \A i \in 1..(Len(p) - 1) : p[i + 1] \in WaitsFor(p[i])
      BY <2>1 DEF path_to
    <3>2. p \in Seq(Attempts) /\ p # <<>> /\ IsInjective(p)
      BY <3>1, RouteFacts
    <3> QED BY <3>1, <3>2 DEF Last
  <2>3. c \in Attempts
    BY WaitsForAttempts
  <2>4. CASE c \notin ToSet(p)
    <3>1. PICK s : s = Append(p, c)
      OBVIOUS
    <3>2. /\ s \in Seq(Attempts) /\ s # <<>>
          /\ Len(s) = Len(p) + 1 /\ s[Len(p) + 1] = c
          /\ \A i \in 1..Len(p) : s[i] = p[i]
      BY <2>2, <2>3, <3>1
    <3>3. IsInjective(s)
      BY <2>2, <2>3, <2>4, <3>1, AppendFacts
    <3>4. s[1] = t /\ Last(s) = c
      BY <2>2, <3>2 DEF Last
    <3>5. ASSUME NEW i \in 1..(Len(s) - 1)
          PROVE  s[i + 1] \in WaitsFor(s[i])
      <4>1. CASE i = Len(p)
        BY <2>2, <3>2, <4>1
      <4>2. CASE i # Len(p)
        <5>1. i \in 1..(Len(p) - 1) /\ i \in 1..Len(p) /\ i + 1 \in 1..Len(p)
          <6>1. Len(p) \in Nat /\ Len(s) = Len(p) + 1
            BY <2>2, <3>2
          <6> QED BY <4>2, <6>1
        <5> QED BY <2>2, <3>2, <5>1
      <4> QED BY <4>1, <4>2
    <3>6. s \in path_to(t, c)
      BY <3>2, <3>3, <3>4, <3>5, RouteFacts DEF path_to
    <3> QED BY <2>3, <3>6
  <2>5. CASE c \in ToSet(p)
    <3>1. PICK k \in 1..Len(p) : p[k] = c
      BY <2>2, <2>5 DEF ToSet
    <3>2. PICK s : s = SubSeq(p, 1, k)
      OBVIOUS
    <3>3. /\ s \in Seq(Attempts) /\ s # <<>> /\ Len(s) = k /\ DOMAIN s = 1..k
          /\ \A i \in 1..k : s[i] = p[i]
      <4>1. p \in Seq(Attempts) /\ k \in 1..Len(p) /\ Len(p) \in Nat
        BY <2>2
      <4>2. SubSeq(p, 1, k) \in Seq(Attempts) /\ Len(SubSeq(p, 1, k)) = k
        BY <4>1
      <4>3. \A i \in 1..k : SubSeq(p, 1, k)[i] = p[i]
        BY <4>1
      <4> QED BY <3>2, <4>1, <4>2, <4>3
    <3>4. IsInjective(s)
      BY <2>2, <3>1, <3>3 DEF IsInjective
    <3>5. s[1] = t /\ Last(s) = c
      BY <2>2, <3>1, <3>3 DEF Last
    <3>6. ASSUME NEW i \in 1..(Len(s) - 1)
          PROVE  s[i + 1] \in WaitsFor(s[i])
      <4>1. i \in 1..(Len(p) - 1) /\ i \in 1..k /\ i + 1 \in 1..k
        BY <2>2, <3>1, <3>3
      <4> QED BY <2>2, <3>3, <4>1
    <3>7. s \in path_to(t, c)
      BY <3>3, <3>4, <3>5, <3>6, RouteFacts DEF path_to
    <3> QED BY <2>3, <3>7
  <2> QED BY <2>4, <2>5
<1> QED BY <1>1, <1>2

(* An edge from r to t closes no cycle if no path leads from t to r.       *)
LEMMA NoCycleClosed ==
    ASSUME TypeOK, NoWaitCycle, NEW r \in Attempts, NEW t \in Attempts,
           path_to(t, r) = {},
           WaitsFor(r)' \subseteq WaitsFor(r) \cup {t},
           \A a \in Attempts : a # r => WaitsFor(a)' \subseteq WaitsFor(a)
    PROVE  NoWaitCycle'
<1>1. PICK T \in SUBSET Attempts : /\ t \in T /\ r \notin T
                                   /\ \A b \in T : WaitsFor(b) \subseteq T
  BY PathsFollowEdges
<1>2. ASSUME NEW a \in Attempts
      PROVE  \E S \in SUBSET Attempts : /\ WaitsFor(a)' \subseteq S
                                        /\ a \notin S
                                        /\ \A b \in S : WaitsFor(b)' \subseteq S
  <2>1. PICK S \in SUBSET Attempts : /\ WaitsFor(a) \subseteq S
                                     /\ a \notin S
                                     /\ \A b \in S : WaitsFor(b) \subseteq S
    BY DEF NoWaitCycle
  <2>2. CASE a \in T
    <3>1. /\ S \cap T \in SUBSET Attempts /\ a \notin S \cap T
          /\ WaitsFor(a)' \subseteq S \cap T
          /\ \A b \in S \cap T : WaitsFor(b)' \subseteq S \cap T
      BY <1>1, <2>1, <2>2
    <3> QED BY <3>1
  <2>3. CASE a \notin T
    <3>1. /\ S \cup T \in SUBSET Attempts /\ a \notin S \cup T
          /\ WaitsFor(a)' \subseteq S \cup T
          /\ \A b \in S \cup T : WaitsFor(b)' \subseteq S \cup T
      BY <1>1, <2>1, <2>3
    <3> QED BY <3>1
  <2> QED BY <2>2, <2>3
<1> QED BY <1>2 DEF NoWaitCycle

(* What hurry(t) marks: all attempts on the way from t that were not yet   *)
(* hurried, and nothing that has not been created.                         *)
LEMMA HurryFacts ==
    ASSUME Inv, NEW t \in Attempts, phase[t] # "none"
    PROVE  /\ hurry(t) \in SUBSET Attempts
           /\ t \in hurry(t) \/ hurried[t]
           /\ \A a \in hurry(t) : \A b \in WaitsFor(a) : b \in hurry(t) \/ hurried[b]
           /\ \A a \in hurry(t) : phase[a] # "none"
<1>1. hurry(t) \in SUBSET Attempts /\ (t \in hurry(t) \/ hurried[t])
  BY DEF hurry
<1>2. ASSUME NEW a \in hurry(t), NEW b \in WaitsFor(a), ~hurried[b]
      PROVE  b \in hurry(t)
  <2>1. a \in Attempts /\ ~hurried[a]
    BY DEF hurry
  <2>2. b \in Attempts
    BY <2>1, WaitsForAttempts DEF Inv
  <2>3. ASSUME NEW S \in SUBSET Attempts, t \in S,
               \A c \in S : ~hurried[c] => WaitsFor(c) \subseteq S
        PROVE  b \in S
    <3>1. a \in S
      BY <2>3 DEF hurry
    <3> QED BY <2>1, <2>3, <3>1
  <2> QED BY <1>2, <2>2, <2>3 DEF hurry
<1>3. ASSUME NEW a \in hurry(t)
      PROVE  phase[a] # "none"
  <2>1. PICK S \in SUBSET Attempts : S = {c \in Attempts : phase[c] # "none"}
    OBVIOUS
  <2>2. \A c \in S : WaitsFor(c) \subseteq S
    BY <2>1, UncreatedAlone, WaitsForAttempts DEF Inv
  <2>3. a \in S
    BY <2>1, <2>2 DEF hurry
  <2> QED BY <2>1, <2>3
<1> QED BY <1>1, <1>2, <1>3

(* A new request of r on t: the links list it, and count it if r is an     *)
(* attempt.                                                                *)
LEMMA LinksWith ==
    ASSUME TypeOK, Links, NEW w \in Waits, wstate[w] = "idle",
           NEW t \in Attempts, NEW r \in Attempts \cup {None},
           wstate' = [wstate EXCEPT ![w] = "blocked"],
           target' = [target EXCEPT ![w] = t],
           requester' = [requester EXCEPT ![w] = r],
           waits_on_me' = [waits_on_me EXCEPT ![t] = @ \cup {w}],
           waits_by_me' = [a \in Attempts |->
               IF a = r THEN waits_by_me[a] \cup {w} ELSE waits_by_me[a]],
           edges_out' = [a \in Attempts |->
               IF a = r THEN [edges_out[a] EXCEPT ![t] = @ + 1] ELSE edges_out[a]]
    PROVE  /\ Links'
           /\ waits_by_me' \in [Attempts -> SUBSET Waits]
           /\ waits_on_me' \in [Attempts -> SUBSET Waits]
           /\ edges_out' \in [Attempts -> [Attempts -> Nat]]
           /\ \A a, b \in Attempts : edges_out'[a][b] > 0 =>
                 edges_out[a][b] > 0 \/ (a = r /\ b = t)
<1>1. /\ wstate'[w] = "blocked" /\ target'[w] = t /\ requester'[w] = r
      /\ \A v \in Waits : v # w => /\ wstate'[v] = wstate[v]
                                   /\ target'[v] = target[v]
                                   /\ requester'[v] = requester[v]
  BY DEF TypeOK
<1>2. /\ waits_by_me' \in [Attempts -> SUBSET Waits]
      /\ waits_on_me' \in [Attempts -> SUBSET Waits]
  BY DEF TypeOK
<1>3. \A a, b \in Attempts : edges_out'[a][b] = IF a = r /\ b = t THEN edges_out[a][b] + 1
                                                                   ELSE edges_out[a][b]
  BY DEF TypeOK
<1>4. edges_out' \in [Attempts -> [Attempts -> Nat]]
  <2>1. ASSUME NEW a \in Attempts
        PROVE  edges_out'[a] \in [Attempts -> Nat]
    <3>1. edges_out[a] \in [Attempts -> Nat]
      BY DEF TypeOK
    <3> QED BY <3>1
  <2> QED BY <2>1
<1>5. ASSUME NEW a \in Attempts
      PROVE  /\ waits_by_me'[a] = {v \in Waits : /\ wstate'[v] \in {"blocked", "ready"}
                                                 /\ requester'[v] = a}
             /\ waits_on_me'[a] = {v \in Waits : /\ wstate'[v] = "blocked"
                                                 /\ target'[v] = a}
  <2>1. /\ waits_by_me[a] = {v \in Waits : /\ wstate[v] \in {"blocked", "ready"}
                                           /\ requester[v] = a}
        /\ waits_on_me[a] = {v \in Waits : /\ wstate[v] = "blocked"
                                           /\ target[v] = a}
    BY DEF Links
  <2>2. /\ waits_by_me'[a] = waits_by_me[a] \cup (IF a = r THEN {w} ELSE {})
        /\ waits_on_me'[a] = waits_on_me[a] \cup (IF a = t THEN {w} ELSE {})
    BY DEF TypeOK
  <2> QED BY <1>1, <2>1, <2>2
<1>6. ASSUME NEW a \in Attempts, NEW b \in Attempts
      PROVE  edges_out'[a][b] = Cardinality(Between(a, b)')
  <2>1. edges_out[a][b] = Cardinality(Between(a, b)) /\ w \notin Between(a, b)
    BY DEF Links, Between
  <2>2. CASE a = r /\ b = t
    <3>1. Between(a, b)' = Between(a, b) \cup {w}
      BY <1>1, <2>2 DEF Between
    <3>2. IsFiniteSet(Between(a, b))
      BY FS_Subset, AttemptsAssumption DEF Between
    <3>3. Cardinality(Between(a, b) \cup {w}) = Cardinality(Between(a, b)) + 1
      BY <2>1, <3>2, FS_AddElement
    <3> QED BY <1>3, <2>1, <2>2, <3>1, <3>3
  <2>3. CASE ~(a = r /\ b = t)
    <3>1. Between(a, b)' = Between(a, b)
      BY <1>1, <2>3 DEF Between
    <3> QED BY <1>3, <2>1, <2>3, <3>1
  <2> QED BY <2>2, <2>3
<1> QED BY <1>2, <1>3, <1>4, <1>5, <1>6 DEF Links

(* A request that waits: its attempt gives the permit back, the edge it    *)
(* adds closes no cycle, and what it waits for is hurried if it is.        *)
LEMMA WaitBlockedInv ==
    ASSUME Inv, NEW w \in Waits, wstate[w] = "idle",
           NEW t \in Attempts, phase[t] # "none", NEW r \in Attempts \cup {None},
           r # None => phase[r] = "running", wait_blocked(w, t, r)
    PROVE  Inv'
<1>1. PICK urgent \in BOOLEAN : /\ r = None => urgent
                                /\ r # None => (urgent <=> hurried[r])
  BY DEF Inv, TypeOK
<1>2. PICK gives \in BOOLEAN : gives <=> GivesPermit(r)
  BY DEF GivesPermit
<1>3. PICK marked : marked = IF urgent THEN hurry(t) ELSE {}
  OBVIOUS
<1>4. PICK l \in promote_all(q, marked) : q' = IF gives /\ held[r] THEN release(l) ELSE l
  <2>1. (IF r = None THEN TRUE ELSE hurried[r]) = urgent
    BY <1>1 DEF Inv, TypeOK
  <2>2. marked = IF (IF r = None THEN TRUE ELSE hurried[r]) THEN hurry(t) ELSE {}
    BY <1>3, <2>1
  <2> QED BY <1>2, <2>2 DEF wait_blocked
<1>5. /\ result[t] = None
      /\ r # None => ~stopping[r] /\ path_to(t, r) = {}
      /\ wstate' = [wstate EXCEPT ![w] = "blocked"]
      /\ target' = [target EXCEPT ![w] = t]
      /\ requester' = [requester EXCEPT ![w] = r]
      /\ waits_on_me' = [waits_on_me EXCEPT ![t] = @ \cup {w}]
      /\ waits_by_me' = [a \in Attempts |->
             IF a = r THEN waits_by_me[a] \cup {w} ELSE waits_by_me[a]]
      /\ edges_out' = [a \in Attempts |->
             IF a = r THEN [edges_out[a] EXCEPT ![t] = @ + 1] ELSE edges_out[a]]
      /\ UNCHANGED <<phase, stopping, doomed, result, predecessor,
                     reacquire_outstanding, drain, wresult, effectVars, slot,
                     stopped_early, outcome>>
  BY DEF wait_blocked
<1>6. /\ hurried' \in [Attempts -> BOOLEAN]
      /\ \A a \in Attempts : hurried'[a] <=> hurried[a] \/ a \in marked
  <2>1. hurried' = [a \in Attempts |-> hurried[a] \/
                       a \in IF (IF r = None THEN TRUE ELSE hurried[r]) THEN hurry(t) ELSE {}]
    BY DEF wait_blocked
  <2>2. (IF r = None THEN TRUE ELSE hurried[r]) = urgent
    BY <1>1 DEF Inv, TypeOK
  <2>3. hurried' = [a \in Attempts |-> hurried[a] \/ a \in marked]
    BY <1>3, <2>1, <2>2
  <2> QED BY <2>3 DEF Inv, TypeOK
<1>7. /\ permit' = [a \in Attempts |-> IF GivesPermit(r) /\ a = r THEN "released" ELSE permit[a]]
      /\ held' = [a \in Attempts |-> held[a] /\ ~(GivesPermit(r) /\ a = r)]
  BY DEF wait_blocked
<1>8. /\ permit' \in [Attempts -> Permit] /\ held' \in [Attempts -> BOOLEAN]
      /\ gives => permit'[r] = "released" /\ ~held'[r]
      /\ \A a \in Attempts : ~(gives /\ a = r) => permit'[a] = permit[a] /\ held'[a] = held[a]
  <2>1. permit' = [a \in Attempts |-> IF gives /\ a = r THEN "released" ELSE permit[a]]
    BY <1>2, <1>7
  <2>2. held' = [a \in Attempts |-> held[a] /\ ~(gives /\ a = r)]
    BY <1>2, <1>7
  <2>3. gives => r \in Attempts
    BY <1>2 DEF GivesPermit
  <2>4. permit' \in [Attempts -> Permit] /\ (gives => permit'[r] = "released")
        /\ \A a \in Attempts : ~(gives /\ a = r) => permit'[a] = permit[a]
    BY <2>1, <2>3 DEF Inv, TypeOK, Permit
  <2>5. held' \in [Attempts -> BOOLEAN] /\ (gives => ~held'[r])
        /\ \A a \in Attempts : ~(gives /\ a = r) => held'[a] = held[a]
    BY <2>2, <2>3 DEF Inv, TypeOK
  <2> QED BY <2>4, <2>5
<1>9. /\ gives => r \in Attempts /\ permit[r] = "held" /\ held[r]
      /\ r # None => /\ r \in Attempts /\ permit[r] # "none" /\ outcome[r] = None
                     /\ permit'[r] \in {"released", "reacquiring"}
  <2>1. r # None => r \in Attempts /\ permit[r] # "none" /\ outcome[r] = None
    BY DEF Inv, AttemptOK, Lifecycle
  <2>2. gives <=> r # None /\ permit[r] = "held"
    BY <1>2 DEF GivesPermit
  <2>3. gives => held[r]
    BY <2>1, <2>2 DEF Inv, AttemptOK, Lease
  <2>4. r # None => permit[r] \in Permit
    BY <2>1 DEF Inv, TypeOK
  <2> QED BY <1>8, <2>1, <2>2, <2>3, <2>4 DEF Permit
<1>10. /\ marked \in SUBSET Attempts
       /\ urgent => (t \in marked \/ hurried[t])
       /\ \A a \in marked : \A b \in WaitsFor(a) : b \in marked \/ hurried[b]
       /\ \A a \in marked : phase[a] # "none" /\ urgent
  BY <1>3, HurryFacts
<1>11. /\ wstate'[w] = "blocked" /\ target'[w] = t /\ requester'[w] = r
       /\ \A v \in Waits : v # w => /\ wstate'[v] = wstate[v]
                                    /\ target'[v] = target[v]
                                    /\ requester'[v] = requester[v]
  BY <1>5 DEF Inv, TypeOK
<1>12. /\ Links'
       /\ waits_by_me' \in [Attempts -> SUBSET Waits]
       /\ waits_on_me' \in [Attempts -> SUBSET Waits]
       /\ edges_out' \in [Attempts -> [Attempts -> Nat]]
       /\ \A a, b \in Attempts : edges_out'[a][b] > 0 =>
             edges_out[a][b] > 0 \/ (a = r /\ b = t)
  BY <1>5, LinksWith DEF Inv
<1>13. /\ Lines' /\ q' \in LinesOver(Attempts)
       /\ q'.hurry = q.hurry \cup marked
  <2>1. /\ Sound(l, Attempts)
        /\ l.free = q.free /\ l.given = q.given
        /\ Reacquirers(l) = Reacquirers(q) /\ NewWork(l) = NewWork(q)
        /\ l.hurry = q.hurry \cup marked
    <3>1. marked \in SUBSET Ticketed
      BY <1>10, TicketsAssumption
    <3> QED BY <3>1, PromoteAllFacts, QueueBasics
  <2>2. /\ Reacquirers(l) \cup NewWork(l) \cup l.given
              = {b \in Attempts : slot'[b] = "queued"}
        /\ \A b \in Reacquirers(l) : phase'[b] # "queued"
        /\ \A b \in NewWork(l) : phase'[b] = "queued"
    BY <1>5, <2>1 DEF Inv, Lines, Placed, InLine
  <2>3. q.free > 0 => Reacquirers(l) \cup NewWork(l) = {}
    BY <2>1 DEF Inv, Lines, InLine
  <2>4. CASE gives
    <3>1. PICK H \in SUBSET Attempts : H = Holders \ {r}
      BY QueueBasics
    <3>2. Holders' = H
      BY <1>8, <2>4, <3>1 DEF Holders
    <3>3. l.free + Cardinality(H \cup l.given) + 1 = Permits
      <4>1. r \in Holders /\ r \notin q.given
        BY <1>9, <2>4, QueueBasics DEF Holders
      <4>2. H \cup l.given = (Holders \cup q.given) \ {r}
        BY <2>1, <3>1, <4>1
      <4>3. Cardinality((Holders \cup q.given) \ {r}) = Cardinality(Holders \cup q.given) - 1
        BY <4>1, QueueBasics, Counting
      <4>4. q.free + Cardinality(Holders \cup q.given) = Permits
        BY DEF Inv, Lines
      <4>5. Cardinality(H \cup l.given) = Cardinality(Holders \cup q.given) - 1
        BY <4>2, <4>3
      <4>6. q.free \in Nat /\ Cardinality(Holders \cup q.given) \in Nat
        BY QueueBasics
      <4> QED BY <2>1, <4>4, <4>5, <4>6
    <3>4. /\ H \cap (Reacquirers(l) \cup NewWork(l)) = {}
          /\ l.free > 0 => Reacquirers(l) \cup NewWork(l) = {}
          /\ q' = release(l)
      BY <1>4, <1>9, <2>1, <2>3, <2>4, <3>1, QueueBasics DEF InLine
    <3> QED BY <2>1, <2>2, <3>2, <3>3, <3>4, LinesReleased
  <2>5. CASE ~gives
    <3>1. q' = l /\ Holders' = Holders
      BY <1>4, <1>8, <2>5 DEF Holders
    <3>2. q'.free + Cardinality(Holders' \cup q'.given) = Permits
      BY <2>1, <3>1 DEF Inv, Lines
    <3>3. Placed' /\ (q'.free > 0 => InLine' = {})
      BY <2>1, <2>2, <2>3, <3>1 DEF Placed, InLine
    <3> QED BY <2>1, <3>1, <3>2, <3>3 DEF Lines, Sound
  <2> QED BY <2>4, <2>5
<1>14. TypeOK'
  <2>1. /\ wstate' \in [Waits -> {"idle", "blocked", "ready", "done"}]
        /\ target' \in [Waits -> Attempts \cup {None}]
        /\ requester' \in [Waits -> Attempts \cup {None}]
    BY <1>5 DEF Inv, TypeOK
  <2> QED BY <1>5, <1>6, <1>8, <1>12, <1>13, <2>1 DEF Inv, TypeOK, effectVars
<1>15. ASSUME NEW b \in Attempts
       PROVE  AttemptOK(b)'
  <2>1. AttemptOK(b)
    BY DEF Inv
  <2>2. hurried'[b] => phase[b] # "none"
    BY <1>6, <1>10, <2>1 DEF AttemptOK, Lifecycle
  <2>3. CASE gives /\ b = r
    BY <1>5, <1>8, <1>9, <2>1, <2>2, <2>3
       DEF AttemptOK, Lifecycle, Results, Lease, Draining, StopsOnlyStopping, Behind, effectVars
  <2>4. CASE ~(gives /\ b = r)
    BY <1>5, <1>8, <2>1, <2>2, <2>4
       DEF AttemptOK, Lifecycle, Results, Lease, Draining, StopsOnlyStopping, Behind, effectVars
  <2> QED BY <2>3, <2>4
<1>16. ASSUME NEW b \in Attempts
       PROVE  Restored(b)'
  <2>1. CASE b = r
    BY <1>11, <2>1 DEF Restored
  <2>2. CASE b # r
    <3>1. Restored(b)
      BY DEF Inv
    <3>2. \A v \in Waits : wstate[v] = "blocked" => wstate'[v] = "blocked" /\ requester'[v] = requester[v]
      BY <1>11
    <3> QED BY <1>5, <1>8, <2>2, <3>1, <3>2 DEF Restored
  <2> QED BY <2>1, <2>2
<1>17. ASSUME NEW v \in Waits
       PROVE  Request(v)'
  <2>1. CASE v = w
    BY <1>5, <1>9, <1>11, <2>1, NoneAssumption DEF Request
  <2>2. CASE v # w
    <3>1. Request(v) /\ target[v] \in Attempts \cup {None} /\ requester[v] \in Attempts \cup {None}
      BY DEF Inv, TypeOK
    <3>2. requester[v] # None =>
             /\ permit[requester[v]] \in {"released", "reacquiring"}
                   => permit'[requester[v]] = permit[requester[v]]
      BY <1>8, <1>9, <3>1
    <3> QED BY <1>5, <1>11, <2>2, <3>1, <3>2 DEF Request
  <2> QED BY <2>1, <2>2
<1>18. /\ \A a \in Attempts : a # r => WaitsFor(a)' \subseteq WaitsFor(a)
       /\ r # None => WaitsFor(r)' \subseteq WaitsFor(r) \cup {t}
  BY <1>5, <1>12 DEF WaitsFor
<1>19. NoWaitCycle'
  <2>1. CASE r = None
    <3>1. \A a \in Attempts : WaitsFor(a)' \subseteq WaitsFor(a)
      BY <1>18, <2>1, NoneAssumption
    <3> QED BY <3>1 DEF Inv, NoWaitCycle
  <2>2. CASE r # None
    BY <1>5, <1>9, <1>18, <2>2, NoCycleClosed DEF Inv
  <2> QED BY <2>1, <2>2
<1>20. Hurried'
  <2>1. ASSUME NEW a \in Attempts, hurried'[a], NEW b \in WaitsFor(a)'
        PROVE  hurried'[b]
    <3>1. b \in Attempts
      <4>1. WaitsFor(a) \subseteq Attempts
        BY WaitsForAttempts DEF Inv
      <4>2. CASE a = r
        BY <1>18, <2>1, <4>1, <4>2, NoneAssumption
      <4>3. CASE a # r
        BY <1>18, <2>1, <4>1, <4>3
      <4> QED BY <4>2, <4>3
    <3>2. CASE b \in WaitsFor(a)
      <4>1. CASE hurried[a]
        BY <1>6, <3>1, <3>2, <4>1 DEF Inv, Hurried
      <4>2. CASE a \in marked
        BY <1>6, <1>10, <3>1, <3>2, <4>2
      <4> QED BY <1>6, <2>1, <4>1, <4>2
    <3>3. CASE b \notin WaitsFor(a)
      <4>1. a = r /\ b = t /\ r # None
        BY <1>18, <3>3, NoneAssumption
      <4>2. urgent
        BY <1>1, <1>6, <1>10, <2>1, <4>1
      <4> QED BY <1>6, <1>10, <3>1, <4>1, <4>2
    <3> QED BY <3>2, <3>3
  <2>2. q'.hurry = {a \in Attempts : hurried'[a]}
    <3>1. q.hurry = {a \in Attempts : hurried[a]}
      BY DEF Inv, Hurried
    <3> QED BY <1>6, <1>10, <1>13, <3>1
  <2>3. ASSUME NEW v \in Waits, wstate'[v] = "blocked", requester'[v] = None
        PROVE  hurried'[target'[v]]
    <3>1. CASE v = w
      BY <1>1, <1>6, <1>10, <1>11, <2>3, <3>1
    <3>2. CASE v # w
      <4>1. hurried[target[v]] /\ target[v] \in Attempts
        BY <1>11, <2>3, <3>2 DEF Inv, Hurried, Request
      <4> QED BY <1>6, <1>11, <3>2, <4>1
    <3> QED BY <3>1, <3>2
  <2> QED BY <2>1, <2>2, <2>3 DEF Hurried
<1> QED BY <1>12, <1>13, <1>14, <1>15, <1>16, <1>17, <1>19, <1>20 DEF Inv

LEMMA WaitInv ==
    ASSUME Inv, NEW w \in Waits, NEW t \in Attempts, NEW o \in Origins, wait(w, t, o)
    PROVE  Inv'
<1>1. PICK r \in Attempts \cup {None} :
          /\ r # None => phase[r] = "running"
          /\ r = IF o = None THEN None ELSE running(o)
  BY DEF running
<1>2. wstate[w] = "idle" /\ phase[t] # "none"
  BY DEF wait
<1>3. CASE wait_canceled(w)
  BY <1>2, <1>3, ReturnInv DEF wait_canceled
<1>4. CASE wait_completed(w, t)
  <2>1. result[t] \in Result \cup {"canceled"}
    BY <1>4 DEF wait_completed, Inv, TypeOK
  <2> QED BY <1>2, <1>4, <2>1, ReturnInv DEF wait_completed
<1>5. CASE wait_stopping(w, t, r)
  BY <1>2, <1>5, ReturnInv DEF wait_stopping
<1>6. CASE wait_cycle(w, t, r)
  BY <1>2, <1>6, WaitCycleInv
<1>7. CASE wait_blocked(w, t, r)
  BY <1>1, <1>2, <1>7, WaitBlockedInv
<1> QED BY <1>1, <1>3, <1>4, <1>5, <1>6, <1>7 DEF wait

----------------------------------------------------------------------------
(* The specification.                                                      *)

LEMMA EmptySound ==
    ASSUME NEW S
    PROVE  /\ Sound(EmptyLines(Permits), S)
           /\ Reacquirers(EmptyLines(Permits)) = {} /\ NewWork(EmptyLines(Permits)) = {}
<1> DEFINE e == EmptyLines(Permits)
<1>1. /\ e.free = Permits /\ e.reacquiring = <<>> /\ e.promoted = <<>>
      /\ e.waiting = <<>> /\ e.given = {} /\ e.hurry = {} /\ e.inLine = {}
      /\ e \in LinesOver(S)
  BY PermitsAssumption DEF EmptyLines, LinesOver
<1> HIDE DEF e
<1>2. ToSet(<<>>) = {} /\ IsInjective(<<>>)
  BY DEF ToSet, IsInjective
<1>3. Reacquirers(e) = {} /\ NewWork(e) = {}
  BY <1>1, <1>2 DEF Reacquirers, NewWork
<1> QED BY <1>1, <1>2, <1>3 DEF e, Sound

LEMMA InitInv == Init => Inv
<1> SUFFICES ASSUME Init PROVE Inv
  OBVIOUS
<1>1. Sound(q, Attempts) /\ Reacquirers(q) = {} /\ NewWork(q) = {}
  BY EmptySound DEF Init
<1>2. q.free = Permits /\ q.given = {} /\ q.hurry = {} /\ q \in LinesOver(Attempts)
  BY <1>1 DEF Init, EmptyLines, Sound
<1>3. TypeOK
  BY <1>2 DEF Init, TypeOK, Phase, Permit
<1>4. \A a \in Attempts : AttemptOK(a)
  BY DEF Init, AttemptOK, Lifecycle, Results, Lease, Draining, StopsOnlyStopping, Behind
<1>5. /\ \A a \in Attempts : Restored(a)
      /\ \A w \in Waits : Request(w)
  BY DEF Init, Restored, Request
<1>6. Links
  <2>1. \A a, b \in Attempts : Between(a, b) = {}
    BY DEF Init, Between
  <2>2. Cardinality({}) = 0
    BY FS_EmptySet
  <2>3. \A a, b \in Attempts : edges_out[a][b] = 0
    BY DEF Init
  <2> QED BY <2>1, <2>2, <2>3 DEF Init, Links
<1>7. Lines
  <2>1. Holders = {} /\ InLine = {}
    BY <1>1 DEF Init, Holders, InLine
  <2>2. Placed
    BY <1>1, <1>2, <2>1 DEF Init, Placed
  <2>3. Cardinality(Holders \cup q.given) = 0
    BY <1>2, <2>1, FS_EmptySet
  <2> QED BY <1>1, <1>2, <2>1, <2>2, <2>3, PermitsAssumption DEF Lines
<1>8. \A a \in Attempts : WaitsFor(a) = {}
  BY DEF Init, WaitsFor
<1>9. NoWaitCycle /\ Hurried
  BY <1>2, <1>8 DEF NoWaitCycle, Hurried, Init
<1> QED BY <1>3, <1>4, <1>5, <1>6, <1>7, <1>9 DEF Inv

LEMMA NextInv == Inv /\ [Next]_vars => Inv'
<1> SUFFICES ASSUME Inv, [Next]_vars PROVE Inv'
  OBVIOUS
<1>1. ASSUME NEW a \in Attempts, create_attempt(a) PROVE Inv'
  BY <1>1, CreateAttemptInv
<1>2. ASSUME NEW a \in Attempts, run(a) PROVE Inv'
  BY <1>2, RunInv
<1>3. ASSUME NEW a \in Attempts, NEW value \in Result, complete(a, value) PROVE Inv'
  BY <1>3, CompleteInv
<1>4. ASSUME NEW a \in Attempts, NEW value \in WorkResults, Drained(a, value) PROVE Inv'
  BY <1>4, DrainedInv
<1>5. ASSUME NEW a \in Attempts, Operation(a) PROVE Inv'
  BY <1>5, StartStoppedInv, StartGivenInv, StartQueuedInv, ResumeGivenInv, ResumeStoppedInv
     DEF Operation
<1>6. ASSUME NEW a \in Attempts, StopReacquire(a) \/ StopQueued(a) PROVE Inv'
  BY <1>6, StopReacquireInv, StopQueuedInv
<1>7. ASSUME NEW a \in Attempts, on_outer_stop(a) \/ finish(a) PROVE Inv'
  BY <1>7, OuterStopInv, FinishInv
<1>8. ASSUME NEW w \in Waits, NEW t \in Attempts, NEW o \in Origins, wait(w, t, o) PROVE Inv'
  BY <1>8, WaitInv
<1>9. ASSUME NEW w \in Waits, cancel_wait(w) PROVE Inv'
  BY <1>9, CancelWaitInv
<1>10. CASE UNCHANGED vars
  <2>1. UNCHANGED <<attemptVars, linkVars, waitVars, drains, held, outcome, q, slot,
                    stopped_early, stop_reacquires>>
    BY <1>10 DEF vars, effectVars, queueVars
  <2>2. Lines'
    BY <2>1, LinesKept DEF Inv, attemptVars
  <2>3. \A a \in Attempts : StopsOnlyStopping(a)'
    BY <2>1 DEF Inv, AttemptOK, StopsOnlyStopping, attemptVars
  <2>4. /\ q' \in LinesOver(Attempts) /\ q'.hurry = q.hurry
        /\ slot' \in [Attempts -> {"none", "armed", "queued", "stopped"}]
        /\ stopped_early' \in [Attempts -> BOOLEAN]
        /\ \A a \in Attempts : slot'[a] # "none" <=> slot[a] # "none"
    BY <2>1 DEF Inv, TypeOK
  <2> QED BY <2>1, <2>2, <2>3, <2>4, QueueOnly
<1> QED BY <1>1, <1>2, <1>3, <1>4, <1>5, <1>6, <1>7, <1>8, <1>9, <1>10 DEF Next

(* Whatever the tree, the commands, the queue and the deferred effects do, *)
(* and in whatever order, the coordinator keeps its invariant.             *)
THEOREM Invariance == Spec => []Inv
<1>1. Init => Inv
  BY InitInv
<1>2. Inv /\ [Next]_vars => Inv'
  BY NextInv
<1> QED BY <1>1, <1>2, PTL DEF Spec

(* Attempts, requests, effects and the queue stay well formed; no count of *)
(* edges falls below zero, however requests leave.                         *)
THEOREM TypeCorrect == Spec => []TypeOK
<1>1. Inv => TypeOK
  BY DEF Inv
<1> QED BY <1>1, Invariance, PTL

(* An attempt never sits on a permit while a request of its waits.         *)
THEOREM NoPermitIsBlocked == Spec => []NoPermitWhileBlocked
<1>1. Inv => NoPermitWhileBlocked
  <2> SUFFICES ASSUME Inv, NEW a \in Attempts, permit[a] = "held" \/ held[a],
                      NEW w \in waits_by_me[a], wstate[w] = "blocked"
               PROVE  FALSE
    BY DEF NoPermitWhileBlocked, Blocked
  <2>1. w \in Waits /\ requester[w] = a
    BY DEF Inv, Links
  <2>2. phase[a] = "running" /\ permit[a] \in {"released", "reacquiring"}
    BY <2>1, NoneAssumption DEF Inv, Request
  <2>3. outcome[a] = None /\ ~held[a]
    BY <2>2 DEF Inv, AttemptOK, Lifecycle, Lease
  <2> QED BY <2>2, <2>3
<1> QED BY <1>1, Invariance, PTL

(* A running attempt without its permit has a request that still waits, or *)
(* is taking the permit back.                                              *)
THEOREM PermitIsRestored == Spec => []PermitRestored
<1>1. Inv => PermitRestored
  <2> SUFFICES ASSUME Inv, NEW a \in Attempts,
                      phase[a] = "running", ~stopping[a], permit[a] = "released"
               PROVE  Blocked(a, {})
    BY DEF PermitRestored
  <2>1. PICK w \in Waits : wstate[w] = "blocked" /\ requester[w] = a
    BY DEF Inv, Restored
  <2>2. w \in waits_by_me[a]
    BY <2>1 DEF Inv, Links
  <2> QED BY <2>1, <2>2 DEF Blocked
<1> QED BY <1>1, Invariance, PTL

(* The coordinator's account of a permit, the lease's and the queue's      *)
(* agree, and slots add up to the queue's concurrency.                     *)
THEOREM PermitsMatchLeases == Spec => []PermitMatchesLease
<1>1. Inv => PermitMatchesLease
  BY DEF Inv, Lines, Holders, AttemptOK, Lease, PermitMatchesLease
<1> QED BY <1>1, Invariance, PTL

(* The three records of who waits on whom agree, and nothing waits on an   *)
(* attempt that is over.                                                   *)
THEOREM LinksAlwaysAgree == Spec => []LinksAgree
<1>1. Inv => LinksAgree
  <2> SUFFICES ASSUME Inv PROVE LinksAgree
    OBVIOUS
  <2>1. \A a \in Attempts :
           /\ waits_by_me[a] = {w \in Waits : /\ wstate[w] \in {"blocked", "ready"}
                                              /\ requester[w] = a}
           /\ waits_on_me[a] = {w \in Waits : /\ wstate[w] = "blocked"
                                              /\ target[w] = a}
    BY DEF Inv, Links
  <2>2. ASSUME NEW a \in Attempts, NEW b \in Attempts
        PROVE  edges_out[a][b] = Cardinality({w \in waits_by_me[a] :
                                    wstate[w] = "blocked" /\ target[w] = b})
    <3>1. {w \in waits_by_me[a] : wstate[w] = "blocked" /\ target[w] = b} = Between(a, b)
      BY <2>1 DEF Between
    <3>2. edges_out[a][b] = Cardinality(Between(a, b))
      BY DEF Inv, Links
    <3> QED BY <3>1, <3>2
  <2>3. ASSUME NEW a \in Attempts, result[a] # None
        PROVE  waits_on_me[a] = {}
    BY <2>1, <2>3 DEF Inv, Request
  <2> QED BY <2>1, <2>2, <2>3 DEF LinksAgree
<1> QED BY <1>1, Invariance, PTL

(* No attempt ever waits on itself through others.                         *)
THEOREM WaitsNeverCycle == Spec => []NoWaitCycle
<1>1. Inv => NoWaitCycle
  BY DEF Inv
<1> QED BY <1>1, Invariance, PTL

(* Everything a hurried attempt waits on is hurried, in the queue too.     *)
THEOREM HurryIsClosed == Spec => []HurriedClosed
<1>1. Inv => HurriedClosed
  <2> SUFFICES ASSUME Inv PROVE HurriedClosed
    OBVIOUS
  <2>1. Hurried
    BY DEF Inv
  <2>2. ASSUME NEW a \in Attempts, hurried[a]
        PROVE  a \notin ToSet(q.waiting)
    <3>1. a \in q.hurry /\ Sound(q, Attempts) /\ a \in Ticketed
      BY <2>1, <2>2, TicketsAssumption DEF Hurried, Inv, Lines
    <3> QED BY <3>1 DEF Sound, NewWork
  <2> QED BY <2>1, <2>2 DEF Hurried, HurriedClosed
<1> QED BY <1>1, Invariance, PTL

(* An attempt found on a cycle reports the cycle and nothing else.         *)
THEOREM DoomedAlwaysFails == Spec => []DoomedFails
<1>1. Inv => DoomedFails
  <2> SUFFICES ASSUME Inv, NEW a \in Attempts, doomed[a]
               PROVE  /\ outcome[a] # None => outcome[a] = "cycle"
                      /\ result[a] # None => result[a] = "cycle"
    BY DEF DoomedFails
  <2>1. Results(a) /\ Lifecycle(a)
    BY DEF Inv, AttemptOK
  <2> QED BY <2>1 DEF Results, Lifecycle
<1> QED BY <1>1, Invariance, PTL

(* A request that waited is answered with its target's result, or is       *)
(* canceled.                                                               *)
THEOREM AnswersComeFromTargets == Spec => []AnsweredByTarget
<1>1. Inv => AnsweredByTarget
  <2> SUFFICES ASSUME Inv, NEW w \in Waits, wstate[w] \in {"ready", "done"}, target[w] # None
               PROVE  wresult[w] \in {result[target[w]], "canceled"}
    BY DEF AnsweredByTarget
  <2>1. Request(w)
    BY DEF Inv
  <2> QED BY <2>1 DEF Request
<1> QED BY <1>1, Invariance, PTL

(* A request that waited is answered in a step, with a result.             *)
Answered(w) == /\ wstate[w] \in {"blocked", "ready"}
               /\ wstate'[w] = "done"
               /\ wresult'[w] # "canceled"
               /\ requester[w] # None

OnPermit(w) == \/ held'[requester[w]]
               \/ \E v \in waits_by_me'[requester[w]] : wstate'[v] = "blocked"

(* A take-back that completes answers on the permit, or hands it on for a  *)
(* request that is still blocked; refused, it answers with nothing.        *)
LEMMA ReacquiredAnswers ==
    ASSUME Inv, NEW a \in Attempts, NEW granted \in BOOLEAN, on_reacquired(a, granted),
           NEW w \in Waits, Answered(w)
    PROVE  OnPermit(w)
<1> DEFINE W     == {v \in waits_by_me[a] : wstate[v] = "ready"}
           value == IF granted /\ ~stopping[a] THEN wresult ELSE Canceled
           gives == granted /\ ~stopping[a] /\ Blocked(a, W)
<1>1. /\ held' = [held EXCEPT ![a] = granted /\ ~gives]
      /\ answer(W, value)
  BY DEF on_reacquired
<1>2. w \in W
  BY <1>1 DEF answer, Answered, Inv, TypeOK
<1>3. requester[w] = a
  BY <1>2 DEF Inv, Links
<1>4. granted /\ ~stopping[a]
  <2>1. wresult'[w] = value[w]
    BY <1>1, <1>2 DEF answer
  <2> QED BY <2>1 DEF Answered, Canceled
<1>5. CASE ~gives
  BY <1>1, <1>3, <1>4, <1>5 DEF OnPermit, Inv, TypeOK
<1>6. CASE gives
  <2>1. PICK v \in waits_by_me[a] \ W : wstate[v] = "blocked"
    BY <1>6 DEF Blocked
  <2>2. v \in waits_by_me'[a] /\ v \in Waits
    BY <1>1, <2>1 DEF answer, Leave, Inv, TypeOK
  <2>3. wstate'[v] = "blocked"
    BY <1>1, <2>1, <2>2 DEF answer
  <2> QED BY <1>3, <2>2, <2>3 DEF OnPermit
<1> QED BY <1>5, <1>6

(* A step that only cancels what it answers answers nothing with a result. *)
LEMMA CanceledAnswersNothing ==
    ASSUME NEW W, answer(W, Canceled), NEW w \in Waits
    PROVE  ~Answered(w)
BY DEF answer, Canceled, Answered

(* A request that is answered without waiting had not waited.              *)
LEMMA ReturnAnswersNothing ==
    ASSUME Inv, NEW v \in Waits, wstate[v] = "idle", NEW value, Return(v, value),
           NEW w \in Waits
    PROVE  ~Answered(w)
BY DEF Return, Answered, Inv, TypeOK

(* A request of a running attempt that waited is given its target's result *)
(* only on a permit, or by an attempt that hands it on.                    *)
THEOREM AnswersNeedPermits == Spec => AnsweredOnPermit
<1> DEFINE Step == \A w \in Waits : Answered(w) => OnPermit(w)
<1>1. ASSUME Inv, Next, NEW w \in Waits, Answered(w)
      PROVE  OnPermit(w)
  <2>1. ASSUME wstate' = wstate
        PROVE  FALSE
    BY <1>1, <2>1 DEF Answered
  <2>2. ASSUME NEW a \in Attempts, create_attempt(a) \/ run(a)
        PROVE  FALSE
    BY <2>1, <2>2 DEF create_attempt, run, waitVars
  <2>3. ASSUME NEW a \in Attempts, NEW value \in Result, complete(a, value)
        PROVE  FALSE
    <3>1. wstate'[w] = "done" => \/ wstate[w] = "done" \/ w \notin waits_on_me[a]
                                 \/ requester[w] = None
      <4>1. w \in waits_on_me[a] /\ requester[w] # None =>
                /\ ~stopping[requester[w]]
                /\ permit[requester[w]] \in {"released", "reacquiring"}
        <5>1. Request(w) /\ (w \in waits_on_me[a] => wstate[w] = "blocked")
          BY <1>1 DEF Inv, Links
        <5> QED BY <5>1 DEF Request
      <4> QED BY <2>3, <4>1 DEF complete, ready, HasPermit
    <3>2. w \notin waits_on_me[a] => wstate'[w] = wstate[w]
      BY <2>3 DEF complete, ready
    <3> QED BY <1>1, <3>1, <3>2 DEF Answered
  <2>4. ASSUME NEW a \in Attempts, NEW value \in WorkResults, Drained(a, value)
        PROVE  FALSE
    BY <2>1, <2>4 DEF Drained, waitVars
  <2>5. ASSUME NEW a \in Attempts, Operation(a)
        PROVE  OnPermit(w)
    <3>1. CASE StartQueued(a)
      BY <2>1, <3>1 DEF StartQueued, waitVars
    <3>2. ASSUME complete_stopped(a)
          PROVE  OnPermit(w)
      <4>1. CASE IsReacquire(a)
        BY <1>1, <3>2, <4>1, ReacquiredAnswers DEF complete_stopped
      <4>2. CASE ~IsReacquire(a)
        BY <2>1, <3>2, <4>2 DEF complete_stopped, waitVars
      <4> QED BY <4>1, <4>2
    <3>3. ASSUME NEW l, complete_given(a, l)
          PROVE  OnPermit(w)
      <4>1. CASE IsReacquire(a)
        BY <1>1, <3>3, <4>1, ReacquiredAnswers DEF complete_given
      <4>2. CASE ~IsReacquire(a)
        BY <2>1, <3>3, <4>2 DEF complete_given, on_permit, waitVars
      <4> QED BY <4>1, <4>2
    <3>4. CASE StartGiven(a)
      BY <3>3, <3>4 DEF StartGiven
    <3>5. CASE ResumeGiven(a)
      BY <3>3, <3>5 DEF ResumeGiven
    <3> QED BY <2>5, <3>1, <3>2, <3>4, <3>5 DEF Operation, StartStopped, ResumeStopped
  <2>6. ASSUME NEW a \in Attempts, StopReacquire(a) \/ StopQueued(a)
        PROVE  FALSE
    BY <2>1, <2>6 DEF StopReacquire, StopQueued, waitVars
  <2>7. ASSUME NEW a \in Attempts, on_outer_stop(a) \/ finish(a)
        PROVE  FALSE
    BY <1>1, <2>7, CanceledAnswersNothing DEF on_outer_stop, finish, stop_attempts
  <2>8. ASSUME NEW v \in Waits, cancel_wait(v)
        PROVE  FALSE
    BY <1>1, <2>8, CanceledAnswersNothing DEF cancel_wait
  <2>9. ASSUME NEW v \in Waits, NEW t \in Attempts, NEW o \in Origins, wait(v, t, o)
        PROVE  FALSE
    <3>1. PICK r : r = IF o = None THEN None ELSE running(o)
      OBVIOUS
    <3>2. wstate[v] = "idle" /\ wstate \in [Waits -> {"idle", "blocked", "ready", "done"}]
      BY <1>1, <2>9 DEF wait, Inv, TypeOK
    <3>3. CASE wait_canceled(v) \/ wait_completed(v, t) \/ wait_stopping(v, t, r)
      BY <1>1, <3>2, <3>3, ReturnAnswersNothing
         DEF wait_canceled, wait_completed, wait_stopping
    <3>4. CASE wait_cycle(v, t, r)
      BY <1>1, <3>2, <3>4 DEF wait_cycle, Answered
    <3>5. CASE wait_blocked(v, t, r)
      BY <1>1, <3>2, <3>5 DEF wait_blocked, Answered
    <3> QED BY <2>9, <3>1, <3>3, <3>4, <3>5 DEF wait
  <2> QED BY <1>1, <2>2, <2>3, <2>4, <2>5, <2>6, <2>7, <2>8, <2>9 DEF Next
<1>2. Inv /\ [Next]_vars => [Step]_vars
  BY <1>1
<1>3. [Step]_vars => [\A w \in Waits :
          /\ wstate[w] \in {"blocked", "ready"}
          /\ wstate'[w] = "done"
          /\ wresult'[w] # "canceled"
          /\ requester[w] # None
          => \/ held'[requester[w]]
             \/ \E v \in waits_by_me'[requester[w]] : wstate'[v] = "blocked"]_vars
  BY DEF Answered, OnPermit
<1> QED BY <1>2, <1>3, Invariance, PTL DEF Spec, AnsweredOnPermit

=============================================================================
