-------------------------- MODULE BuildCoordinator --------------------------
(***************************************************************************)
(* BuildCoordinator (src/src/buildcoordinator.cpp) on top of a BuildQueue: *)
(* build attempts run on permits, the requests their commands make wait on *)
(* other attempts, and an attempt that waits gives its permit back and     *)
(* takes one again before it is answered.                                  *)
(*                                                                         *)
(* Each action is one critical section of the coordinator's m_mutex, or    *)
(* one of the queue's, or one step outside both.  What a transition leaves *)
(* to be done once m_mutex is released (Effects) stays behind as state and *)
(* is done by a later step of its own, in any order with everything else:  *)
(*   stop_reacquires  attempts whose take-back is to be stopped            *)
(*   slot = "armed"   a take-back, or a first wait, not yet with the queue *)
(*   drains           attempts whose Drain is to be completed              *)
(* Waking an answered wait is left out: a wait that is "done" has left     *)
(* the coordinator.                                                        *)
(*                                                                         *)
(* The tree that owns the coordinator creates, runs and completes          *)
(* attempts; its side of the protocol is in the guards of create_attempt,  *)
(* run and complete.  An output is named by the set of its attempts.       *)
(***************************************************************************)
EXTENDS SlotLines, FiniteSets

CONSTANTS Attempts,      \* every generation of every output's build
          Outputs,       \* the partition of Attempts by output
          Waits,         \* requests, each made at most once
          Permits,       \* the concurrency of the queue
          OuterStops,    \* whether the tree may be torn down
          Origins,       \* outputs whose commands make requests, and None for
                         \* requests the process tracker knows no output of
          Cancels,       \* whether requests may be canceled
          WorkResults,   \* what commands come to
          None

ASSUME AttemptsAssumption == IsFiniteSet(Attempts) /\ IsFiniteSet(Waits)
ASSUME OutputsAssumption ==
    /\ UNION Outputs = Attempts
    /\ \A o, p \in Outputs : o # p => o \cap p = {}
ASSUME TicketsAssumption == Ticketed = Attempts
ASSUME PermitsAssumption == Permits \in Nat \ {0}
ASSUME OuterStopsAssumption == OuterStops \in BOOLEAN
ASSUME OriginsAssumption == Origins \subseteq Outputs \cup {None}
ASSUME CancelsAssumption == Cancels \in BOOLEAN
ASSUME WorkResultsAssumption == WorkResults \subseteq {"ok", "failed"}
ASSUME NoneAssumption ==
    /\ None \notin Attempts
    /\ None \notin Outputs
    /\ None \notin {"ok", "failed", "cycle", "canceled"}

VARIABLES
    \* an Attempt, all guarded by m_mutex
    phase, permit, stopping, doomed, hurried, result, predecessor,
    reacquire_outstanding, drain, waits_by_me, waits_on_me, edges_out,
    \* a Wait
    wstate, target, requester, wresult,
    \* effects still to be run
    stop_reacquires, drains,
    \* the queue, each attempt's Lease and its SlotOperation
    q, held, slot, stopped_early,
    \* the attempt's sender has completed with this, or None so far
    outcome

attemptVars == <<phase, permit, stopping, doomed, hurried, result, predecessor,
                 reacquire_outstanding, drain>>
linkVars    == <<waits_by_me, waits_on_me, edges_out>>
waitVars    == <<wstate, target, requester, wresult>>
effectVars  == <<stop_reacquires, drains>>
queueVars   == <<q, held, slot, stopped_early>>
vars == <<attemptVars, linkVars, waitVars, effectVars, queueVars, outcome>>

Phase  == {"none", "pending", "queued", "running", "ended"}
Permit == {"none", "held", "released", "reacquiring"}
Result == {"ok", "failed", "cycle"}

Init ==
    /\ phase = [a \in Attempts |-> "none"]
    /\ permit = [a \in Attempts |-> "none"]
    /\ stopping = [a \in Attempts |-> FALSE]
    /\ doomed = [a \in Attempts |-> FALSE]
    /\ hurried = [a \in Attempts |-> FALSE]
    /\ result = [a \in Attempts |-> None]
    /\ predecessor = [a \in Attempts |-> None]
    /\ reacquire_outstanding = [a \in Attempts |-> FALSE]
    /\ drain = [a \in Attempts |-> FALSE]
    /\ waits_by_me = [a \in Attempts |-> {}]
    /\ waits_on_me = [a \in Attempts |-> {}]
    /\ edges_out = [a \in Attempts |-> [b \in Attempts |-> 0]]
    /\ wstate = [w \in Waits |-> "idle"]
    /\ target = [w \in Waits |-> None]
    /\ requester = [w \in Waits |-> None]
    /\ wresult = [w \in Waits |-> None]
    /\ stop_reacquires = {}
    /\ drains = {}
    /\ q = EmptyLines(Permits)
    /\ held = [a \in Attempts |-> FALSE]
    /\ slot = [a \in Attempts |-> "none"]
    /\ stopped_early = [a \in Attempts |-> FALSE]
    /\ outcome = [a \in Attempts |-> None]

----------------------------------------------------------------------------
(* The graph of what waits on what: an attempt's blocked waits, and, not   *)
(* yet started, the attempt it waits behind.                               *)

WaitsFor(a) ==
    {b \in Attempts : edges_out[a][b] > 0}
        \cup (IF phase[a] = "pending" THEN {predecessor[a]} \ {None} ELSE {})

(* The paths path_to may return: a depth-first search that visits an       *)
(* attempt's edges in the order of a hash map.                             *)
Routes == SetToAllKPermutations(Attempts) \ {<<>>}

(* Mutant: the attempt a pending one waits behind is not followed.         *)
path_along_edges(from, to) ==
    {p \in Routes : /\ p[1] = from
                    /\ Last(p) = to
                    /\ \A i \in 1..(Len(p) - 1) : edges_out[p[i]][p[i + 1]] > 0}

path_to(from, to) ==
    {p \in Routes : /\ p[1] = from
                    /\ Last(p) = to
                    /\ \A i \in 1..(Len(p) - 1) : p[i + 1] \in WaitsFor(p[i])}

(* Mutant: what the attempt itself waits for is not hurried.               *)
hurry_alone(a) == {b \in {a} : ~hurried[b]}

(* The attempts hurry(a) marks and promotes: it goes on through the same   *)
(* edges from every attempt that was not hurried yet.                      *)
hurry(a) ==
    {b \in Attempts : ~hurried[b] /\
        \A S \in SUBSET Attempts :
            /\ a \in S
            /\ \A c \in S : ~hurried[c] => WaitsFor(c) \subseteq S
            => b \in S}

----------------------------------------------------------------------------
(* What several waits leaving at once does to the links: gone are answered *)
(* (answer), fetched turn ready.                                           *)

(* Mutant: edges outlive their waits.                                      *)
keep_edges(W) == UNCHANGED edges_out

remove_edges(W) ==
    edges_out' = [a \in Attempts |-> [b \in Attempts |->
        edges_out[a][b] - Cardinality({w \in W : /\ wstate[w] = "blocked"
                                                 /\ requester[w] = a
                                                 /\ target[w] = b})]]

Leave(gone, fetched) ==
    /\ remove_edges(gone \cup fetched)
    /\ waits_by_me' = [a \in Attempts |-> waits_by_me[a] \ gone]
    /\ waits_on_me' = [a \in Attempts |-> waits_on_me[a] \ (gone \cup fetched)]

Blocked(a, W) == \E w \in waits_by_me[a] \ W : wstate[w] = "blocked"

Canceled == [w \in Waits |-> "canceled"]

answer(W, value) ==
    /\ wstate' = [w \in Waits |-> IF w \in W THEN "done" ELSE wstate[w]]
    /\ wresult' = [w \in Waits |-> IF w \in W THEN value[w] ELSE wresult[w]]
    /\ Leave(W, {})
    /\ UNCHANGED <<target, requester>>

(* give_back by an attempt that holds its permit.                          *)
give_back(a) == /\ held' = [held EXCEPT ![a] = FALSE]
                /\ q' = IF held[a] THEN release(q) ELSE q

(* reacquire() by the attempts in R: the take-back is made known now and   *)
(* reaches the queue later.  givers give their permit back instead.        *)
reacquire(R, givers) ==
    /\ permit' = [a \in Attempts |-> CASE a \in R -> "reacquiring"
                                       [] a \in givers \ R -> "released"
                                       [] OTHER -> permit[a]]
    /\ reacquire_outstanding' =
          [a \in Attempts |-> reacquire_outstanding[a] \/ a \in R]
    /\ slot' = [a \in Attempts |-> IF a \in R THEN "armed" ELSE slot[a]]
    /\ stopped_early' = [a \in Attempts |-> stopped_early[a] /\ a \notin R]

(* stop_attempt of every attempt in S; the requests to stop their work are *)
(* not tracked, as a command may end at any time.                          *)
stop_attempts(S, value) ==
    /\ stopping' = [a \in Attempts |-> stopping[a] \/ a \in S]
    /\ answer(UNION {waits_by_me[a] : a \in S}, value)
    /\ stop_reacquires' = stop_reacquires \cup {a \in S : reacquire_outstanding[a]}

----------------------------------------------------------------------------
(* The tree's operations.                                                  *)

Over(a) == phase[a] = "ended" \/ outcome[a] # None \/ result[a] # None

Siblings(a) == {b \in Attempts \ {a} : \E o \in Outputs : {a, b} \subseteq o}

(* The tree has at most one attempt of an output under way and one next,   *)
(* created behind it.                                                      *)
create_attempt(a) ==
    LET under_way == {b \in Siblings(a) : phase[b] # "none" /\ ~Over(b)}
    IN  /\ phase[a] = "none"
        /\ Cardinality(under_way) <= 1
        /\ phase' = [phase EXCEPT ![a] = "pending"]
        /\ predecessor' = [predecessor EXCEPT ![a] =
               IF under_way = {} THEN None ELSE CHOOSE b \in under_way : TRUE]
        /\ UNCHANGED <<permit, stopping, doomed, hurried, result,
                       reacquire_outstanding, drain>>
        /\ UNCHANGED <<linkVars, waitVars, effectVars, queueVars, outcome>>

(* The tree runs an attempt once the one before it is over.  The sender    *)
(* run() returns is started, and waits for a first permit, later.          *)
run(a) ==
    /\ phase[a] = "pending"
    /\ result[a] = None
    /\ \A b \in Siblings(a) : phase[b] \in {"queued", "running"} => Over(b)
    /\ predecessor[a] # None => Over(predecessor[a])
    /\ phase' = [phase EXCEPT ![a] = "queued"]
    /\ predecessor' = [predecessor EXCEPT ![a] = None]
    /\ slot' = [slot EXCEPT ![a] = "armed"]
    /\ UNCHANGED <<permit, stopping, doomed, hurried, result,
                   reacquire_outstanding, drain>>
    /\ UNCHANGED <<linkVars, waitVars, effectVars, q, held, stopped_early,
                   outcome>>

(* Mutant: a permit on its way counts as one in hand.                      *)
HasPermitSoon(r) == permit[r] \in {"held", "reacquiring"}

(* Whether ready() may answer on the requester's permit.                   *)
HasPermit(r) == permit[r] = "held"

(* Every wait on a that can be answered is; the others turn ready and take *)
(* their attempt's permit back first, once for all of them.  An attempt    *)
(* that answers on a permit it holds gives it back if it still waits.      *)
ready(a, value) ==
    LET W          == waits_on_me[a]
        alone      == {w \in W : requester[w] = None}
        halted     == {w \in W \ alone : \/ stopping[requester[w]]
                                         \/ permit[requester[w]] = "none"}
        on_permit  == {w \in W \ (alone \cup halted) :
                           HasPermit(requester[w])}
        fetched    == W \ (alone \cup halted \cup on_permit)
        gone       == alone \cup halted \cup on_permit
        takers     == {r \in Attempts : permit[r] = "released" /\
                           \E w \in fetched : requester[w] = r}
        givers     == {r \in Attempts : /\ \E w \in on_permit : requester[w] = r
                                        /\ Blocked(r, W)}
    IN  /\ wstate' = [w \in Waits |-> CASE w \in gone -> "done"
                                        [] w \in fetched -> "ready"
                                        [] OTHER -> wstate[w]]
        /\ wresult' = [w \in Waits |-> CASE w \in halted -> "canceled"
                                         [] w \in W \ halted -> value
                                         [] OTHER -> wresult[w]]
        /\ Leave(gone, fetched)
        /\ reacquire(takers, givers)
        /\ held' = [r \in Attempts |-> held[r] /\ r \notin givers]
        /\ q' = FoldSet(LAMBDA r, lines : release(lines), q, givers)
        /\ UNCHANGED <<target, requester>>

(* Mutant: whoever waits learns of the end only, not of the result.        *)
complete_as_ok(a, value) ==
    /\ result[a] = None
    /\ \/ outcome[a] = value
       \/ phase[a] = "pending" /\ value \in WorkResults
    /\ result' = [result EXCEPT ![a] = value]
    /\ predecessor' = [predecessor EXCEPT ![a] = None]
    /\ ready(a, "ok")
    /\ UNCHANGED <<phase, stopping, doomed, hurried, drain>>
    /\ UNCHANGED <<effectVars, outcome>>

(* complete(): for an attempt whose run is over with what it came to, or   *)
(* for one that will never run.                                            *)
complete(a, value) ==
    /\ result[a] = None
    /\ \/ outcome[a] = value
       \/ phase[a] = "pending" /\ value \in WorkResults
    /\ result' = [result EXCEPT ![a] = value]
    /\ predecessor' = [predecessor EXCEPT ![a] = None]
    /\ ready(a, value)
    /\ UNCHANGED <<phase, stopping, doomed, hurried, drain>>
    /\ UNCHANGED <<effectVars, outcome>>

----------------------------------------------------------------------------
(* Requests.                                                               *)

(* m_running: the attempt a request from output o is taken to come from.   *)
running(o) == IF \E a \in Attempts : a \in o /\ phase[a] = "running"
              THEN CHOOSE a \in Attempts : a \in o /\ phase[a] = "running"
              ELSE None

(* A request that is answered without waiting.                             *)
Return(w, value) ==
    /\ wstate' = [wstate EXCEPT ![w] = "done"]
    /\ wresult' = [wresult EXCEPT ![w] = value]
    /\ UNCHANGED <<target, requester>>

(* It is canceled before it is looked at.                                  *)
wait_canceled(w) ==
    /\ Cancels
    /\ Return(w, "canceled")
    /\ UNCHANGED <<attemptVars, linkVars, effectVars, queueVars, outcome>>

wait_completed(w, t) ==
    /\ result[t] # None
    /\ Return(w, result[t])
    /\ UNCHANGED <<attemptVars, linkVars, effectVars, queueVars, outcome>>

wait_stopping(w, t, r) ==
    /\ result[t] = None
    /\ r # None
    /\ stopping[r]
    /\ Return(w, "canceled")
    /\ UNCHANGED <<attemptVars, linkVars, effectVars, queueVars, outcome>>

(* A request that would close a cycle fails, and dooms the attempts on it  *)
(* that are running.                                                       *)
wait_cycle(w, t, r) ==
    /\ result[t] = None
    /\ r # None
    /\ ~stopping[r]
    /\ \E p \in path_to(t, r) :
         LET stopped == {a \in ToSet(p) : phase[a] = "running" /\ ~stopping[a]}
             left    == UNION {waits_by_me[a] : a \in stopped}
         IN  /\ doomed' = [a \in Attempts |-> doomed[a] \/ a \in stopped]
             /\ stopping' = [a \in Attempts |-> stopping[a] \/ a \in stopped]
             /\ stop_reacquires' = stop_reacquires
                                     \cup {a \in stopped : reacquire_outstanding[a]}
             /\ wstate' = [v \in Waits |->
                              IF v \in left \cup {w} THEN "done" ELSE wstate[v]]
             /\ wresult' = [v \in Waits |-> CASE v = w -> "cycle"
                                              [] v \in left -> "canceled"
                                              [] OTHER -> wresult[v]]
             /\ Leave(left, {})
    /\ UNCHANGED <<phase, permit, hurried, result, predecessor,
                   reacquire_outstanding, drain, target, requester, drains,
                   queueVars, outcome>>

(* Mutant: a blocking request keeps its attempt's permit.                  *)
KeepsPermit(r) == FALSE

(* Whether a request of r that blocks gives r's permit back.               *)
GivesPermit(r) == IF r = None THEN FALSE ELSE permit[r] = "held"

(* Any other request blocks, and its attempt gives its permit back.        *)
wait_blocked(w, t, r) ==
    /\ result[t] = None
    /\ r # None => ~stopping[r] /\ path_to(t, r) = {}
    /\ wstate' = [wstate EXCEPT ![w] = "blocked"]
    /\ target' = [target EXCEPT ![w] = t]
    /\ requester' = [requester EXCEPT ![w] = r]
    /\ waits_on_me' = [waits_on_me EXCEPT ![t] = @ \cup {w}]
    /\ waits_by_me' = [a \in Attempts |->
            IF a = r THEN waits_by_me[a] \cup {w} ELSE waits_by_me[a]]
    /\ edges_out' = [a \in Attempts |->
            IF a = r THEN [edges_out[a] EXCEPT ![t] = @ + 1] ELSE edges_out[a]]
    /\ LET urgent == IF r = None THEN TRUE ELSE hurried[r]
           gives  == GivesPermit(r)
           marked == IF urgent THEN hurry(t) ELSE {}
       IN  /\ hurried' = [a \in Attempts |-> hurried[a] \/ a \in marked]
           /\ permit' = [a \in Attempts |->
                  IF gives /\ a = r THEN "released" ELSE permit[a]]
           /\ held' = [a \in Attempts |-> held[a] /\ ~(gives /\ a = r)]
           /\ \E promoted \in promote_all(q, marked) :
                  q' = IF gives /\ held[r] THEN release(promoted) ELSE promoted
    /\ UNCHANGED <<phase, stopping, doomed, result, predecessor,
                   reacquire_outstanding, drain, wresult, effectVars, slot,
                   stopped_early, outcome>>

(* wait(): the requester is looked up by the output it builds, which the   *)
(* process tracker may not know.                                           *)
wait(w, t, o) ==
    LET r == IF o = None THEN None ELSE running(o)
    IN  /\ wstate[w] = "idle"
        /\ phase[t] # "none"
        /\ \/ wait_canceled(w)
           \/ wait_completed(w, t)
           \/ wait_stopping(w, t, r)
           \/ wait_cycle(w, t, r)
           \/ wait_blocked(w, t, r)

(* Mutant: canceling the last request leaves the permit given back.        *)
NeverRestores(w) == FALSE

(* Whether canceling w must take its attempt's permit back.                *)
Restores(w) == IF requester[w] = None THEN FALSE
               ELSE /\ ~stopping[requester[w]]
                    /\ waits_by_me[requester[w]] = {w}
                    /\ permit[requester[w]] = "released"

(* The last wait of an attempt to leave starts the take-back that restores *)
(* its accounting.                                                         *)
cancel_wait(w) ==
    /\ Cancels
    /\ wstate[w] \in {"blocked", "ready"}
    /\ answer({w}, Canceled)
    /\ reacquire(IF Restores(w) THEN {requester[w]} ELSE {}, {})
    /\ UNCHANGED <<phase, stopping, doomed, hurried, result, predecessor,
                   drain, effectVars, q, held, outcome>>

----------------------------------------------------------------------------
(* The SlotOperation of a first wait (phase queued) or of a take-back, see *)
(* BuildQueue, with what its completion calls.                             *)

IsReacquire(a) == phase[a] # "queued"

on_permit(a) ==
    /\ phase' = [phase EXCEPT ![a] = "running"]
    /\ permit' = [permit EXCEPT ![a] = "held"]
    /\ held' = [held EXCEPT ![a] = TRUE]
    /\ UNCHANGED <<reacquire_outstanding, drain, drains, linkVars, waitVars>>

(* Mutant: the work that drains is not told of the take-back's end.        *)
forget_drain(a) == UNCHANGED <<drain, drains>>

(* A Drain waiting for the take-back is to be completed.                   *)
end_drain(a) == /\ drain' = [drain EXCEPT ![a] = FALSE]
                /\ drains' = drains \cup (IF drain[a] THEN {a} ELSE {})

(* Everything ready is answered on the permit taken back, which goes       *)
(* straight back if a request of the attempt is still blocked.             *)
on_reacquired(a, granted) ==
    LET W     == {w \in waits_by_me[a] : wstate[w] = "ready"}
        value == IF granted /\ ~stopping[a] THEN wresult ELSE Canceled
        gives == granted /\ ~stopping[a] /\ Blocked(a, W)
    IN  /\ reacquire_outstanding' = [reacquire_outstanding EXCEPT ![a] = FALSE]
        /\ permit' = [permit EXCEPT ![a] =
                          IF granted /\ ~gives THEN "held" ELSE "released"]
        /\ held' = [held EXCEPT ![a] = granted /\ ~gives]
        /\ answer(W, value)
        /\ end_drain(a)
        /\ UNCHANGED phase

GivesBackAtOnce(a) ==
    /\ IsReacquire(a)
    /\ ~stopping[a]
    /\ Blocked(a, {w \in waits_by_me[a] : wstate[w] = "ready"})

(* The operation completes with a slot, taken from the queue state taken.  *)
complete_given(a, taken) ==
    /\ slot' = [slot EXCEPT ![a] = "none"]
    /\ IF IsReacquire(a) THEN on_reacquired(a, TRUE) ELSE on_permit(a)
    /\ q' = IF GivesBackAtOnce(a) THEN release(taken) ELSE taken
    /\ UNCHANGED <<stopping, doomed, hurried, result, predecessor,
                   stop_reacquires, stopped_early, outcome>>

(* It completes stopped: a take-back is not granted, and an attempt that   *)
(* never got a first permit is over.                                       *)
complete_stopped(a) ==
    /\ slot' = [slot EXCEPT ![a] = "none"]
    /\ IF IsReacquire(a)
       THEN on_reacquired(a, FALSE) /\ UNCHANGED outcome
       ELSE /\ outcome' = [outcome EXCEPT ![a] = "failed"]
            /\ UNCHANGED <<phase, permit, held, reacquire_outstanding, drain,
                           drains, linkVars, waitVars>>
    /\ UNCHANGED <<stopping, doomed, hurried, result, predecessor,
                   stop_reacquires, stopped_early, q>>

StartStopped(a) == slot[a] = "armed" /\ stopped_early[a] /\ complete_stopped(a)

StartGiven(a) == /\ slot[a] = "armed"
                 /\ ~stopped_early[a]
                 /\ q.free > 0
                 /\ complete_given(a, [q EXCEPT !.free = @ - 1])

StartQueued(a) == /\ slot[a] = "armed"
                  /\ ~stopped_early[a]
                  /\ q.free = 0
                  /\ q' = enqueue(q, a, IsReacquire(a))
                  /\ slot' = [slot EXCEPT ![a] = "queued"]
                  /\ UNCHANGED <<attemptVars, linkVars, waitVars, effectVars,
                                 held, stopped_early, outcome>>

ResumeGiven(a) == /\ a \in q.given
                  /\ complete_given(a, [q EXCEPT !.given = @ \ {a}])

ResumeStopped(a) == slot[a] = "stopped" /\ complete_stopped(a)

on_stop(a) ==
    IF Queued(q, a, IsReacquire(a))
    THEN /\ q' = dequeue(q, a, IsReacquire(a))
         /\ slot' = [slot EXCEPT ![a] = "stopped"]
         /\ UNCHANGED stopped_early
    ELSE /\ stopped_early' = [stopped_early EXCEPT ![a] = slot[a] # "none"]
         /\ UNCHANGED <<q, slot>>

(* Effects::run stopping a take-back, which may have completed meanwhile.  *)
StopReacquire(a) == /\ a \in stop_reacquires
                    /\ stop_reacquires' = stop_reacquires \ {a}
                    /\ on_stop(a)
                    /\ UNCHANGED <<attemptVars, linkVars, waitVars, drains,
                                   held, outcome>>

----------------------------------------------------------------------------
(* The end of an attempt.                                                  *)

(* The tree is torn down while the attempt waits for its first permit, or  *)
(* runs (on_outer_stop).                                                   *)
StopQueued(a) == /\ OuterStops
                 /\ phase[a] = "queued"
                 /\ slot[a] \in {"armed", "queued"}
                 /\ ~stopped_early[a]
                 /\ on_stop(a)
                 /\ UNCHANGED <<attemptVars, linkVars, waitVars, effectVars,
                                held, outcome>>

on_outer_stop(a) == /\ OuterStops
                    /\ phase[a] = "running"
                    /\ ~stopping[a]
                    /\ stop_attempts({a}, Canceled)
                    /\ UNCHANGED <<phase, permit, doomed, hurried, result,
                                   predecessor, reacquire_outstanding, drain,
                                   drains, queueVars, outcome>>

(* Mutant: a take-back under way is not waited for.                        *)
finish_at_once(a) ==
    /\ phase[a] = "running"
    /\ phase' = [phase EXCEPT ![a] = "ended"]
    /\ stop_attempts({a}, Canceled)
    /\ drains' = drains \cup {a}
    /\ UNCHANGED <<permit, doomed, hurried, result, predecessor, drain,
                   reacquire_outstanding, queueVars, outcome>>

(* The work has finished, its requests answered or not: a take-back under  *)
(* way is stopped and waited for.                                          *)
finish(a) ==
    /\ phase[a] = "running"
    /\ phase' = [phase EXCEPT ![a] = "ended"]
    /\ stop_attempts({a}, Canceled)
    /\ drain' = [drain EXCEPT ![a] = reacquire_outstanding[a]]
    /\ drains' = drains \cup (IF reacquire_outstanding[a] THEN {} ELSE {a})
    /\ UNCHANGED <<permit, doomed, hurried, result, predecessor,
                   reacquire_outstanding, queueVars, outcome>>

(* Mutant: what the command came to is reported, doomed or not.            *)
DrainedUndoomed(a, value) ==
    /\ a \in drains
    /\ drains' = drains \ {a}
    /\ outcome' = [outcome EXCEPT ![a] = value]
    /\ give_back(a)
    /\ UNCHANGED <<attemptVars, linkVars, waitVars, stop_reacquires, slot,
                   stopped_early>>

(* The Drain completes: the result is settled, and schedule_leased's       *)
(* finally gives the permit back.                                          *)
Drained(a, value) ==
    /\ a \in drains
    /\ drains' = drains \ {a}
    /\ outcome' = [outcome EXCEPT ![a] = IF doomed[a] THEN "cycle" ELSE value]
    /\ give_back(a)
    /\ UNCHANGED <<attemptVars, linkVars, waitVars, stop_reacquires, slot,
                   stopped_early>>

----------------------------------------------------------------------------

Operation(a) == \/ StartStopped(a) \/ StartGiven(a) \/ StartQueued(a)
                \/ ResumeGiven(a) \/ ResumeStopped(a)

Next ==
    \/ \E a \in Attempts :
          \/ create_attempt(a) \/ run(a)
          \/ \E value \in Result : complete(a, value)
          \/ \E value \in WorkResults : Drained(a, value)
          \/ Operation(a) \/ StopReacquire(a)
          \/ StopQueued(a) \/ on_outer_stop(a) \/ finish(a)
    \/ \E w \in Waits :
          \/ \E t \in Attempts, o \in Origins : wait(w, t, o)
          \/ cancel_wait(w)

Spec == Init /\ [][Next]_vars

(* Deferred effects and the queue's hand-overs run; the tree runs what it  *)
(* created once it may and completes what is over; and a command none of   *)
(* whose requests is outstanding ends.                                     *)
Fairness ==
    \A a \in Attempts :
        /\ WF_vars(Operation(a))
        /\ WF_vars(StopReacquire(a))
        /\ WF_vars(\E value \in WorkResults : Drained(a, value))
        /\ WF_vars(run(a))
        /\ WF_vars(outcome[a] # None /\ \E value \in Result : complete(a, value))
        /\ WF_vars(waits_by_me[a] = {} /\ finish(a))

FairSpec == Spec /\ Fairness

----------------------------------------------------------------------------
(* Properties.                                                             *)

(* Attempts, waits, effects and the queue stay well formed; in particular  *)
(* no count of edges falls below zero, however waits leave.                *)
TypeOK ==
    /\ phase \in [Attempts -> Phase]
    /\ permit \in [Attempts -> Permit]
    /\ stopping \in [Attempts -> BOOLEAN]
    /\ doomed \in [Attempts -> BOOLEAN]
    /\ hurried \in [Attempts -> BOOLEAN]
    /\ result \in [Attempts -> Result \cup {None}]
    /\ predecessor \in [Attempts -> Attempts \cup {None}]
    /\ reacquire_outstanding \in [Attempts -> BOOLEAN]
    /\ drain \in [Attempts -> BOOLEAN]
    /\ waits_by_me \in [Attempts -> SUBSET Waits]
    /\ waits_on_me \in [Attempts -> SUBSET Waits]
    /\ edges_out \in [Attempts -> [Attempts -> Nat]]
    /\ wstate \in [Waits -> {"idle", "blocked", "ready", "done"}]
    /\ target \in [Waits -> Attempts \cup {None}]
    /\ requester \in [Waits -> Attempts \cup {None}]
    /\ wresult \in [Waits -> Result \cup {"canceled", None}]
    /\ stop_reacquires \subseteq Attempts
    /\ drains \subseteq Attempts
    /\ q \in LinesOver(Attempts)
    /\ held \in [Attempts -> BOOLEAN]
    /\ slot \in [Attempts -> {"none", "armed", "queued", "stopped"}]
    /\ stopped_early \in [Attempts -> BOOLEAN]
    /\ outcome \in [Attempts -> Result \cup {None}]

(* An attempt never sits on a permit while one of its requests waits for   *)
(* another build, however requests, answers, take-backs and cancellations  *)
(* interleave: that build may need the permit.                             *)
NoPermitWhileBlocked ==
    \A a \in Attempts : permit[a] = "held" \/ held[a] => ~Blocked(a, {})

(* The permit a running attempt gave back for its requests comes back with *)
(* them: unless it is being stopped, an attempt without a permit either    *)
(* has a request that still waits on a build or is taking one back.  So    *)
(* the accounting is restored when the last request was canceled, too.     *)
PermitRestored ==
    \A a \in Attempts :
        phase[a] = "running" /\ ~stopping[a] /\ permit[a] = "released"
            => Blocked(a, {})

(* The coordinator's idea of a permit agrees with the lease's and with the *)
(* queue's: it is held exactly when a slot is, and being taken back        *)
(* exactly while one take-back is on its way.  A lease is never destroyed, *)
(* nor its permit lost, with a take-back under way.                        *)
PermitMatchesLease ==
    /\ q.free + Cardinality({a \in Attempts : held[a]} \cup q.given) = Permits
    /\ \A a \in Attempts :
          /\ outcome[a] = None => (permit[a] = "held" <=> held[a])
          /\ reacquire_outstanding[a] <=> permit[a] = "reacquiring"
          /\ reacquire_outstanding[a] <=> slot[a] # "none" /\ phase[a] # "queued"
          /\ outcome[a] # None => slot[a] = "none" /\ ~held[a]

(* The three records of who waits on whom agree: each blocked or ready     *)
(* wait is listed by its requester, each blocked one by its target, and    *)
(* edges_out counts the blocked ones, so no edge outlives its waits and    *)
(* none is missed by the search for cycles.                                *)
LinksAgree ==
    /\ \A a \in Attempts :
          /\ waits_by_me[a] = {w \in Waits : /\ wstate[w] \in {"blocked", "ready"}
                                             /\ requester[w] = a}
          /\ waits_on_me[a] = {w \in Waits : /\ wstate[w] = "blocked"
                                             /\ target[w] = a}
          /\ \A b \in Attempts :
                edges_out[a][b] = Cardinality({w \in waits_by_me[a] :
                                     wstate[w] = "blocked" /\ target[w] = b})
    /\ \A a \in Attempts : result[a] # None => waits_on_me[a] = {}

(* No attempt ever waits on itself through others, the attempt it waits    *)
(* behind included, whatever order the requests that could close the cycle *)
(* come in.                                                                *)
NoWaitCycle ==
    \A a \in Attempts :
        \E S \in SUBSET Attempts : /\ WaitsFor(a) \subseteq S
                                  /\ a \notin S
                                  /\ \A b \in S : WaitsFor(b) \subseteq S

(* Everything a hurried attempt waits on is hurried, and the queue's       *)
(* tickets agree, so a build some reader waits for never queues behind     *)
(* builds nobody waits for.                                                *)
HurriedClosed ==
    /\ \A a \in Attempts : hurried[a] =>
          /\ \A b \in WaitsFor(a) : hurried[b]
          /\ a \notin ToSet(q.waiting)
    /\ q.hurry = {a \in Attempts : hurried[a]}
    /\ \A w \in Waits : wstate[w] = "blocked" /\ requester[w] = None
          => hurried[target[w]]

(* An attempt found on a cycle never reports anything but the cycle, even  *)
(* if its command succeeded while it was being stopped.                    *)
DoomedFails ==
    \A a \in Attempts : /\ doomed[a] /\ outcome[a] # None => outcome[a] = "cycle"
                        /\ doomed[a] /\ result[a] # None => result[a] = "cycle"

(* A request of a running attempt that waited gets its target's result     *)
(* only while its attempt holds a permit, unless it gives that straight    *)
(* back for another request.                                               *)
AnsweredOnPermit ==
    [][\A w \in Waits :
          /\ wstate[w] \in {"blocked", "ready"}
          /\ wstate'[w] = "done"
          /\ wresult'[w] # "canceled"
          /\ requester[w] # None
          => \/ held'[requester[w]]
             \/ \E v \in waits_by_me'[requester[w]] : wstate'[v] = "blocked"]_vars

(* A request is answered with what its target completed with, once.        *)
AnsweredByTarget ==
    \A w \in Waits :
        wstate[w] \in {"ready", "done"} /\ target[w] # None
            => wresult[w] \in {result[target[w]], "canceled"}

(* However many attempts wait on each other and however few permits there  *)
(* are, every request is answered in the end: waiting attempts leave their *)
(* permits to what they wait for, and cycles are broken.                   *)
EveryWaitAnswered ==
    \A w \in Waits : wstate[w] = "blocked" ~> wstate[w] = "done"

(* Every attempt the tree creates completes in the end.                    *)
EveryAttemptCompletes ==
    \A a \in Attempts : phase[a] = "pending" ~> result[a] # None

=============================================================================
