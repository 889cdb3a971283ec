------------------------------ MODULE SlotPool ------------------------------
(***************************************************************************)
(* What a BuildQueue promises about its slots, without saying how work     *)
(* waits for them: at most Concurrency pieces of work own a slot at any    *)
(* time, a slot is owned from the moment it is taken until it is given     *)
(* back, and a slot given back while work is in line changes owner in one  *)
(* step, so it is never up for grabs in between (src/src/buildqueue.hpp,   *)
(* the class comment of BuildQueue).                                       *)
(***************************************************************************)
EXTENDS Naturals, FiniteSets

CONSTANTS Work, Concurrency

VARIABLE owners

Init == owners = {}

Take(w) == /\ w \notin owners
           /\ Cardinality(owners) < Concurrency
           /\ owners' = owners \cup {w}

GiveBack(w) == /\ w \in owners
               /\ owners' = owners \ {w}

PassOn(w, v) == /\ w \in owners
                /\ v \notin owners
                /\ owners' = (owners \ {w}) \cup {v}

Next == \/ \E w \in Work : Take(w) \/ GiveBack(w)
        \/ \E w, v \in Work : PassOn(w, v)

Spec == Init /\ [][Next]_owners

=============================================================================
