---------------------- MODULE BuildDirectoryTreeProofs ----------------------
(***************************************************************************)
(* Proofs about BuildDirectoryTree, for any sources, outputs, rules,       *)
(* readers and number of builds under way: its books are well formed, and  *)
(* every build and every wait for one is accounted for.                    *)
(*                                                                         *)
(* The inductive invariant says which builds of an output there are at one *)
(* time: at most one under way, exactly if it is in flight (InFlightOK);   *)
(* at most one that is next, and only behind one under way (NextOK); and   *)
(* those whose rule went away before they began, each of which one settled *)
(* build is about to complete (OrphansOK).  Whoever waits, waits on one of *)
(* these (WaitersOK).                                                      *)
(***************************************************************************)
EXTENDS BuildDirectoryTree, FiniteSetTheorems, TLAPS

(* The parts are stated of a function a from names to builds, the next     *)
(* builds nx, the outputs in flight fl and the readers rd, so that a step  *)
(* that changes builds twice can be followed in two steps.                 *)

Builds(a, o) == {i \in Attempts : a[i].out = o /\ a[i].phase \in UnderWay}

InFlightOK(a, fl) ==
    /\ \A i \in Attempts : a[i].phase # "free" => a[i].out \in Outs
    /\ \A i, j \in Attempts :
          a[i].phase \in UnderWay /\ a[j].phase \in UnderWay /\ a[i].out = a[j].out
              => i = j
    /\ \A o \in Outs : o \in fl <=> Builds(a, o) # {}

NextOK(a, nx, fl) ==
    \A o \in Outs : nx[o] # None =>
        o \in fl /\ a[nx[o]].phase = "next" /\ a[nx[o]].out = o

OrphansOK(a, nx) ==
    /\ \A i \in Attempts : a[i].phase = "next" =>
          \/ nx[a[i].out] = i
          \/ \E j \in Attempts : a[j].phase = "settled" /\ a[j].orphaned = i
    /\ \A j \in Attempts : a[j].phase = "settled" /\ a[j].orphaned # None =>
          /\ a[a[j].orphaned].phase = "next"
          /\ \A o \in Outs : nx[o] # a[j].orphaned
          /\ \A k \in Attempts :
                a[k].phase = "settled" /\ a[k].orphaned = a[j].orphaned => k = j
    /\ \A i \in Attempts : a[i].phase \in UnderWay => a[i].orphaned = None

\* The builds whose end is still to come, one of which is t, of o.
Coming == UnderWay \cup {"next", "settled"}
IsComing(a, t, o) == t \in Attempts /\ a[t].out = o /\ a[t].phase \in Coming

WaitersOK(a, rd) ==
    /\ \A i \in Attempts :
          /\ a[i].phase \in {"asked", "opening"} => a[i].input \in Outs
          /\ a[i].phase = "opening" /\ a[i].target # None
                => IsComing(a, a[i].target, a[i].input)
    /\ \A r \in Readers :
          /\ rd[r].state = "waiting" => IsComing(a, rd[r].target, rd[r].out)
          /\ rd[r].state = "reading" => rd[r].out \in Outs

BuildsOK(a, nx, fl, rd) ==
    InFlightOK(a, fl) /\ NextOK(a, nx, fl) /\ OrphansOK(a, nx) /\ WaitersOK(a, rd)

WatcherOK ==
    watcher.at = "mark" /\ watcher.then = "idle" => watcher.upto \in [Sources -> Nat]

Accounts == BuildsOK(att, next, m_in_flight, reader)

Inv == TypeOK /\ Accounts /\ WatcherOK

-----------------------------------------------------------------------------
(* The state at the start, and what the invariant says.                    *)

\* What steps make of a build has its type.
LEMMA ChangedType ==
    ASSUME NEW a \in AttemptType
    PROVE  /\ \A ph \in Phases, c \in 0..2, b \in SUBSET Made, k \in BOOLEAN :
                 [a EXCEPT !.phase = ph, !.ok = TRUE, !.bytes = b, !.command = c, !.keep = k]
                     \in AttemptType
           /\ \A ph \in Phases, k \in BOOLEAN, st \in SUBSET (Outs \X SUBSET Made) :
                 [a EXCEPT !.phase = ph, !.keep = k, !.stamps = st] \in AttemptType
           /\ \A ph \in Phases : [a EXCEPT !.target = None, !.phase = ph] \in AttemptType
           /\ \A n \in Attempts \cup {None} : [a EXCEPT !.orphaned = n] \in AttemptType
           /\ \A n \in Attempts \cup {None} : [a EXCEPT !.launches = n] \in AttemptType
           /\ \A ph \in Phases : [a EXCEPT !.phase = ph] \in AttemptType
<1> DEFINE B == SUBSET Made
           R == SUBSET (Sources \cup Outs)
           S == SUBSET (Outs \X SUBSET Made)
           O == Outs \cup {None}
           N == Attempts \cup {None}
<1>1. AttemptType = [phase : Phases, out : O, command : 0..2, reads : R, seen : R, bytes : B,
                     input : O, target : N, invalidations : Nat, ok : BOOLEAN,
                     keep : BOOLEAN, stamps : S, orphaned : N, launches : N]
  BY DEF AttemptType
<1>2. None \in N
  OBVIOUS
<1> HIDE DEF B, R, S, O, N
<1>3. ASSUME NEW ph \in Phases, NEW c \in 0..2, NEW b \in B, NEW k \in BOOLEAN
      PROVE  [a EXCEPT !.phase = ph, !.ok = TRUE, !.bytes = b, !.command = c, !.keep = k]
                 \in AttemptType
  BY <1>1
<1>4. ASSUME NEW ph \in Phases, NEW k \in BOOLEAN, NEW st \in S
      PROVE  [a EXCEPT !.phase = ph, !.keep = k, !.stamps = st] \in AttemptType
  BY <1>1
<1>5. ASSUME NEW ph \in Phases
      PROVE  [a EXCEPT !.target = None, !.phase = ph] \in AttemptType
  BY <1>1, <1>2
<1>6. ASSUME NEW n \in N
      PROVE  [a EXCEPT !.orphaned = n] \in AttemptType
  BY <1>1
<1>7. ASSUME NEW ph \in Phases
      PROVE  [a EXCEPT !.phase = ph] \in AttemptType
  BY <1>1
<1>8. ASSUME NEW n \in N
      PROVE  [a EXCEPT !.launches = n] \in AttemptType
  BY <1>1
<1> QED  BY <1>3, <1>4, <1>5, <1>6, <1>7, <1>8 DEF B, S, N

LEMMA FreeType == Free \in AttemptType
BY DEF Free, AttemptType, Phases, UnderWay, Made

LEMMA IdleType == Idle \in WatcherType
BY DEF Idle, WatcherType

LEMMA NoOpenType == NoOpen \in ReaderType
BY DEF NoOpen, ReaderType

LEMMA InitInv == Init => Inv
<1> SUFFICES ASSUME Init PROVE Inv
  OBVIOUS
<1> USE DEF InitWith
<1>1. TypeOK
  <2>1. att \in [Attempts -> AttemptType]
    BY FreeType DEF Init
  <2>2. watcher \in WatcherType /\ reader \in [Readers -> ReaderType]
    BY IdleType, NoOpenType DEF Init
  <2>3. m_stale \cup m_materialized \subseteq {o \in Outs : Declared(o)}
    BY DEF Init, Declared
  <2>4. version \in [Sources -> 0..MaxVersion] /\ edits \in 0..MaxEdits
    BY BoundsAssumption DEF Init, BoundsAssumption
  <2> QED
    BY <2>1, <2>2, <2>3, <2>4, ManifestAssumption DEF Init, TypeOK, ManifestAssumption
<1>2. \A i \in Attempts : att[i].phase = "free"
  BY DEF Init, Free
<1>3. Accounts
  BY <1>2 DEF Init, Accounts, BuildsOK, InFlightOK, NextOK, OrphansOK, WaitersOK, Builds,
              UnderWay, NoOpen
<1>4. WatcherOK
  BY DEF Init, WatcherOK, Idle
<1> QED  BY <1>1, <1>3, <1>4 DEF Inv

LEMMA InvAccounts == Inv => BuildsAccountedFor
<1> SUFFICES ASSUME Inv PROVE BuildsAccountedFor
  OBVIOUS
<1> USE DEF Inv, Accounts, BuildsOK
<1>1. \A o \in Outs : Cardinality(Builds(att, o)) = IF o \in m_in_flight THEN 1 ELSE 0
  <2> TAKE o \in Outs
  <2>1. CASE o \in m_in_flight
    <3> PICK i \in Attempts : i \in Builds(att, o)
      BY <2>1 DEF InFlightOK, Builds
    <3> Builds(att, o) = {i}
      BY DEF InFlightOK, Builds
    <3> QED  BY <2>1, FS_Singleton
  <2>2. CASE o \notin m_in_flight
    BY <2>2, FS_EmptySet DEF InFlightOK
  <2> QED  BY <2>1, <2>2
<1>2. \A o \in Outs : next[o] # None => o \in m_in_flight /\ att[next[o]].phase = "next"
  BY DEF NextOK
<1>3. \A i \in Attempts : att[i].phase = "next" =>
          \/ next[att[i].out] = i
          \/ \E j \in Attempts : att[j].orphaned = i
  BY DEF OrphansOK
<1> QED
  BY <1>1, <1>2, <1>3 DEF BuildsAccountedFor, Builds, WaitersOK, Coming, IsComing

-----------------------------------------------------------------------------
(* What steps do to the builds.                                            *)

(* A step that moves no build between the kinds that are counted, and      *)
(* whose new waits are on builds that are coming.                          *)
LEMMA Unmoved ==
    ASSUME NEW a \in [Attempts -> AttemptType], NEW b,
           NEW nx \in [Outs -> Attempts \cup {None}], NEW fl, NEW rd, NEW after,
           BuildsOK(a, nx, fl, rd),
           \A i \in Attempts :
               /\ b[i].phase \in UnderWay <=> a[i].phase \in UnderWay
               /\ b[i].phase = "next" <=> a[i].phase = "next"
               /\ b[i].phase = "settled" <=> a[i].phase = "settled"
               /\ b[i].phase # "free" => a[i].phase # "free" /\ b[i].out = a[i].out
               /\ b[i].phase \in Coming => b[i].orphaned = a[i].orphaned
               /\ b[i].phase \in {"asked", "opening"} => b[i].input \in Outs
               /\ b[i].phase = "opening" /\ b[i].target # None
                     => IsComing(a, b[i].target, b[i].input),
           \A r \in Readers :
               /\ after[r].state = "waiting" => IsComing(a, after[r].target, after[r].out)
               /\ after[r].state = "reading" => after[r].out \in Outs
    PROVE  BuildsOK(b, nx, fl, after)
<1>1. \A t \in Attempts : a[t].phase \in UnderWay \cup {"next", "settled"}
          => a[t].phase # "free" /\ b[t].phase # "free" /\ b[t].out = a[t].out
  BY DEF UnderWay
<1>2. ASSUME NEW t, NEW o, IsComing(a, t, o) PROVE IsComing(b, t, o)
  BY <1>1, <1>2 DEF IsComing, Coming
<1>3. InFlightOK(b, fl)
  <2>1. \A o \in Outs : Builds(b, o) = Builds(a, o)
    BY <1>1 DEF Builds
  <2> QED  BY <1>1, <2>1 DEF BuildsOK, InFlightOK
<1>4. NextOK(b, nx, fl)
  <2> SUFFICES ASSUME NEW o \in Outs, nx[o] # None
               PROVE  o \in fl /\ b[nx[o]].phase = "next" /\ b[nx[o]].out = o
    BY DEF NextOK
  <2> QED  BY <1>1 DEF BuildsOK, NextOK
<1>5. OrphansOK(b, nx)
  <2>1. \A i \in Attempts : a[i].orphaned \in Attempts \cup {None}
    BY DEF AttemptType
  <2>2. \A i \in Attempts : b[i].phase = "next" => b[i].out = a[i].out
    BY <1>1
  <2>3. \A i \in Attempts : b[i].phase = "next" =>
            \/ nx[b[i].out] = i
            \/ \E j \in Attempts : b[j].phase = "settled" /\ b[j].orphaned = i
    BY <2>2 DEF BuildsOK, OrphansOK, Coming
  <2>4. ASSUME NEW j \in Attempts, b[j].phase = "settled", b[j].orphaned # None
        PROVE  /\ b[b[j].orphaned].phase = "next"
               /\ \A o \in Outs : nx[o] # b[j].orphaned
               /\ \A k \in Attempts :
                     b[k].phase = "settled" /\ b[k].orphaned = b[j].orphaned => k = j
    BY <2>1, <2>4 DEF BuildsOK, OrphansOK, Coming
  <2>5. \A i \in Attempts : b[i].phase \in UnderWay => b[i].orphaned = None
    BY DEF BuildsOK, OrphansOK, Coming
  <2> QED  BY <2>3, <2>4, <2>5 DEF OrphansOK
<1>6. WaitersOK(b, after)
  BY <1>2 DEF WaitersOK
<1> QED  BY <1>3, <1>4, <1>5, <1>6 DEF BuildsOK

LEMMA CurrentFacts ==
    ASSUME Accounts, NEW o \in Outs, o \in m_in_flight
    PROVE  /\ Current(o) \in Attempts
           /\ att[Current(o)].out = o
           /\ att[Current(o)].phase \in UnderWay
<1> \E i \in Attempts : att[i].out = o /\ att[i].phase \in UnderWay
  BY DEF Accounts, BuildsOK, InFlightOK, Builds
<1> QED  BY DEF Current

LEMMA NextAttemptFacts ==
    ASSUME TypeOK, Accounts, NEW o \in Outs, NameLeft(o)
    PROVE  /\ NextAttempt(o) \in Attempts
           /\ next[o] # None => /\ NextAttempt(o) = next[o]
                                /\ att[next[o]].phase = "next"
                                /\ att[next[o]].out = o
           /\ next[o] = None => att[NextAttempt(o)].phase = "free"
<1>1. CASE next[o] # None
  BY <1>1 DEF NextAttempt, TypeOK, Accounts, BuildsOK, NextOK
<1>2. CASE next[o] = None
  BY <1>2 DEF NextAttempt, NameLeft
<1> QED  BY <1>1, <1>2

\* A build as it is when it is claimed.
LEMMA NewBuild ==
    ASSUME TypeOK, NEW o \in Outs
    PROVE  LET c == [Free EXCEPT !.phase = "running", !.out = o, !.command = m_commands[o],
                                 !.invalidations = m_invalidations[o]]
           IN  /\ c \in AttemptType /\ c.phase = "running" /\ c.out = o
               /\ c.target = None /\ c.orphaned = None
<1>1. m_commands[o] \in 0..2 /\ m_invalidations[o] \in Nat
  BY DEF TypeOK
<1> QED  BY <1>1, FreeType DEF AttemptType, Free, Phases, UnderWay

(* An idle output's build is claimed: it has no next build yet, so its     *)
(* name was free.                                                          *)
LEMMA ClaimFacts ==
    ASSUME TypeOK, Accounts, NEW o \in Outs, o \notin m_in_flight, NameLeft(o)
    PROVE  LET a == Claimed(o, att)
               n == NextAttempt(o)
           IN  /\ a \in [Attempts -> AttemptType]
               /\ n \in Attempts /\ att[n].phase = "free"
               /\ IsComing(a, n, o)
               /\ \A j \in Attempts \ {n} : a[j] = att[j]
               /\ BuildsOK(a, [next EXCEPT ![o] = None], m_in_flight \cup {o}, reader)
<1> DEFINE a  == Claimed(o, att)
           n  == NextAttempt(o)
           nx == [next EXCEPT ![o] = None]
           fl == m_in_flight \cup {o}
<1>1. next[o] = None
  BY DEF Accounts, BuildsOK, NextOK
<1>2. n \in Attempts /\ att[n].phase = "free"
  BY <1>1, NextAttemptFacts
<1> DEFINE c == [Free EXCEPT !.phase = "running", !.out = o, !.command = m_commands[o],
                             !.invalidations = m_invalidations[o]]
<1>3. /\ c \in AttemptType /\ c.phase = "running" /\ c.out = o
      /\ c.target = None /\ c.orphaned = None
  BY NewBuild
<1>4. a = [att EXCEPT ![n] = c]
  BY DEF Claimed
<1>5. a \in [Attempts -> AttemptType] /\ a[n] = c /\ \A j \in Attempts \ {n} : a[j] = att[j]
  BY <1>2, <1>3, <1>4 DEF TypeOK
<1>6. nx = next /\ next \in [Outs -> Attempts \cup {None}]
  BY <1>1 DEF TypeOK
<1> HIDE DEF c, a, nx, n
<1>7. \A t \in Attempts : \A p : IsComing(att, t, p) => IsComing(a, t, p)
  BY <1>2, <1>5 DEF IsComing, Coming, UnderWay
<1>8. IsComing(a, n, o)
  BY <1>2, <1>3, <1>5 DEF IsComing, Coming, UnderWay
<1>9. InFlightOK(a, fl)
  <2>1. \A p \in Outs \ {o} : Builds(a, p) = Builds(att, p)
    BY <1>2, <1>3, <1>5 DEF Builds, UnderWay
  <2>2. n \in Builds(a, o) /\ Builds(att, o) = {}
    BY <1>2, <1>3, <1>5 DEF Builds, UnderWay, Accounts, BuildsOK, InFlightOK
  <2>3. \A i \in Attempts : a[i].phase # "free" => a[i].out \in Outs
    BY <1>3, <1>5 DEF Accounts, BuildsOK, InFlightOK
  <2>4. ASSUME NEW i \in Attempts, NEW j \in Attempts, a[i].phase \in UnderWay,
               a[j].phase \in UnderWay, a[i].out = a[j].out
        PROVE  i = j
    BY <1>2, <1>3, <1>5, <2>2, <2>4 DEF Accounts, BuildsOK, InFlightOK, Builds
  <2> QED
    BY <2>1, <2>2, <2>3, <2>4 DEF InFlightOK, Accounts, BuildsOK
<1>10. NextOK(a, nx, fl)
  <2> SUFFICES ASSUME NEW p \in Outs, nx[p] # None
               PROVE  p \in fl /\ a[nx[p]].phase = "next" /\ a[nx[p]].out = p
    BY DEF NextOK
  <2>1. nx[p] \in Attempts /\ att[nx[p]].phase = "next" /\ att[nx[p]].out = p
        /\ p \in m_in_flight
    BY <1>6 DEF Accounts, BuildsOK, NextOK
  <2> QED  BY <1>2, <1>5, <2>1
<1>11. OrphansOK(a, nx)
  <2>1. \A j \in Attempts : a[j].phase = "settled" => j # n /\ a[j] = att[j]
    BY <1>3, <1>5
  <2>2. \A j \in Attempts : att[j].phase \in {"settled", "next"} => j # n /\ a[j] = att[j]
    BY <1>2, <1>5
  <2>3. \A i \in Attempts : a[i].phase = "next" =>
            \/ nx[a[i].out] = i
            \/ \E j \in Attempts : a[j].phase = "settled" /\ a[j].orphaned = i
    BY <1>3, <1>5, <1>6, <2>2 DEF Accounts, BuildsOK, OrphansOK
  <2>4. \A j \in Attempts : att[j].orphaned \in Attempts \cup {None}
    BY DEF TypeOK, AttemptType
  <2>5. ASSUME NEW j \in Attempts, a[j].phase = "settled", a[j].orphaned # None
        PROVE  /\ a[a[j].orphaned].phase = "next"
               /\ \A p \in Outs : nx[p] # a[j].orphaned
               /\ \A k \in Attempts :
                     a[k].phase = "settled" /\ a[k].orphaned = a[j].orphaned => k = j
    BY <1>6, <2>1, <2>2, <2>4, <2>5 DEF Accounts, BuildsOK, OrphansOK
  <2>6. \A j \in Attempts : a[j].phase \in UnderWay => a[j].orphaned = None
    BY <1>3, <1>5 DEF Accounts, BuildsOK, OrphansOK
  <2> QED  BY <2>3, <2>5, <2>6 DEF OrphansOK
<1>12. WaitersOK(a, reader)
  <2>1. \A i \in Attempts : a[i].phase \in {"asked", "opening"} => a[i] = att[i]
    BY <1>3, <1>5
  <2> QED  BY <1>7, <2>1 DEF WaitersOK, IsComing, Accounts, BuildsOK
<1> QED
  BY <1>2, <1>5, <1>8, <1>9, <1>10, <1>11, <1>12 DEF BuildsOK, a, n, nx

(* An open waits for the build after the one under way.                    *)
LEMMA AwaitFacts ==
    ASSUME TypeOK, Accounts, NEW o \in Outs, o \in m_in_flight, NameLeft(o)
    PROVE  LET n == NextAttempt(o)
               a == [att EXCEPT ![n] = [Free EXCEPT !.phase = "next", !.out = o]]
           IN  /\ a \in [Attempts -> AttemptType]
               /\ n \in Attempts /\ att[n].phase \in {"free", "next"}
               /\ IsComing(a, n, o)
               /\ \A j \in Attempts \ {n} : a[j] = att[j]
               /\ BuildsOK(a, [next EXCEPT ![o] = n], m_in_flight, reader)
<1> DEFINE n  == NextAttempt(o)
           c  == [Free EXCEPT !.phase = "next", !.out = o]
           a  == [att EXCEPT ![n] = c]
           nx == [next EXCEPT ![o] = n]
<1>1. /\ n \in Attempts
      /\ \/ next[o] = n /\ att[n].phase = "next" /\ att[n].out = o
         \/ next[o] = None /\ att[n].phase = "free"
  BY NextAttemptFacts
<1>2. c \in AttemptType /\ c.phase = "next" /\ c.out = o
  BY FreeType DEF AttemptType, Free, Phases
<1>3. a \in [Attempts -> AttemptType] /\ a[n] = c /\ \A j \in Attempts \ {n} : a[j] = att[j]
  BY <1>1, <1>2 DEF TypeOK
<1>4. /\ nx \in [Outs -> Attempts \cup {None}]
      /\ nx[o] = n
      /\ \A p \in Outs \ {o} : nx[p] = next[p] /\ next[p] \in Attempts \cup {None}
  BY <1>1 DEF TypeOK
<1> HIDE DEF c, a, nx, n
<1>5. \A t \in Attempts : \A p : IsComing(att, t, p) => IsComing(a, t, p)
  BY <1>1, <1>2, <1>3 DEF IsComing, Coming, UnderWay
<1>6. IsComing(a, n, o)
  BY <1>1, <1>2, <1>3 DEF IsComing, Coming
<1>7. \A j \in Attempts : /\ att[j].phase \in UnderWay \cup {"settled"} => a[j] = att[j]
                          /\ a[j].phase \in UnderWay \cup {"settled"} => a[j] = att[j]
  BY <1>1, <1>2, <1>3 DEF UnderWay
<1>8. InFlightOK(a, m_in_flight)
  <2>1. \A p \in Outs : Builds(a, p) = Builds(att, p)
    BY <1>7 DEF Builds
  <2>2. \A i \in Attempts : a[i].phase # "free" => a[i].out \in Outs
    BY <1>2, <1>3 DEF Accounts, BuildsOK, InFlightOK
  <2> QED
    BY <1>7, <2>1, <2>2 DEF InFlightOK, Accounts, BuildsOK
<1>9. NextOK(a, nx, m_in_flight)
  <2> SUFFICES ASSUME NEW p \in Outs, nx[p] # None
               PROVE  p \in m_in_flight /\ a[nx[p]].phase = "next" /\ a[nx[p]].out = p
    BY DEF NextOK
  <2>1. CASE p = o
    BY <1>2, <1>3, <1>4, <2>1
  <2>2. CASE p # o
    <3>1. nx[p] \in Attempts /\ att[nx[p]].phase = "next" /\ att[nx[p]].out = p
          /\ p \in m_in_flight
      BY <1>4, <2>2 DEF Accounts, BuildsOK, NextOK
    <3> QED  BY <1>1, <1>3, <2>2, <3>1
  <2> QED  BY <2>1, <2>2
<1>10. OrphansOK(a, nx)
  <2>1. \A j \in Attempts : att[j].orphaned \in Attempts \cup {None}
    BY DEF TypeOK, AttemptType
  <2>2. ASSUME NEW i \in Attempts, a[i].phase = "next"
        PROVE  \/ nx[a[i].out] = i
               \/ \E j \in Attempts : a[j].phase = "settled" /\ a[j].orphaned = i
    <3>1. CASE i = n
      BY <1>2, <1>3, <1>4, <3>1
    <3>2. CASE i # n
      <4>1. a[i] = att[i] /\ att[i].out \in Outs
        BY <1>3, <2>2, <3>2 DEF Accounts, BuildsOK, InFlightOK
      <4>2. CASE next[att[i].out] = i
        <5>1. att[i].out # o
          BY <1>1, <3>2, <4>2, NoneAssumption DEF NoneAssumption
        <5> QED  BY <1>4, <4>1, <4>2, <5>1
      <4>3. CASE next[att[i].out] # i
        <5>1. PICK j \in Attempts : att[j].phase = "settled" /\ att[j].orphaned = i
          BY <2>2, <4>1, <4>3 DEF Accounts, BuildsOK, OrphansOK
        <5> QED  BY <1>7, <5>1
      <4> QED  BY <4>2, <4>3
    <3> QED  BY <3>1, <3>2
  <2>3. ASSUME NEW j \in Attempts, a[j].phase = "settled", a[j].orphaned # None
        PROVE  /\ a[a[j].orphaned].phase = "next"
               /\ \A p \in Outs : nx[p] # a[j].orphaned
               /\ \A k \in Attempts :
                     a[k].phase = "settled" /\ a[k].orphaned = a[j].orphaned => k = j
    <3>1. a[j] = att[j]
      BY <1>7, <2>3
    <3>2. /\ att[j].orphaned \in Attempts
          /\ att[att[j].orphaned].phase = "next"
          /\ \A p \in Outs : next[p] # att[j].orphaned
          /\ \A k \in Attempts :
                att[k].phase = "settled" /\ att[k].orphaned = att[j].orphaned => k = j
      BY <2>1, <2>3, <3>1 DEF Accounts, BuildsOK, OrphansOK
    <3>3. att[j].orphaned # n
      BY <1>1, <3>2
    <3> QED  BY <1>3, <1>4, <1>7, <3>1, <3>2, <3>3
  <2>4. \A j \in Attempts : a[j].phase \in UnderWay => a[j].orphaned = None
    BY <1>7 DEF Accounts, BuildsOK, OrphansOK
  <2> QED  BY <2>2, <2>3, <2>4 DEF OrphansOK
<1>11. WaitersOK(a, reader)
  <2>1. \A i \in Attempts : a[i].phase \in {"asked", "opening"} => a[i] = att[i]
    BY <1>2, <1>3
  <2> QED  BY <1>5, <2>1 DEF WaitersOK, IsComing, Accounts, BuildsOK
<1> QED
  BY <1>1, <1>3, <1>6, <1>8, <1>9, <1>10, <1>11 DEF BuildsOK, a, n, nx, c

(* Bringing an output up to date, by whichever of its three ways.          *)
LEMMA OpenFacts ==
    ASSUME TypeOK, Accounts, NEW o \in Outs, bring_up_to_date(o)
    PROVE  /\ WithTarget(o) \in [Attempts -> AttemptType]
           /\ BuildsOK(WithTarget(o), next', m_in_flight', reader)
           /\ Target(o) # None => IsComing(WithTarget(o), Target(o), o)
           /\ \A i \in Attempts : att[i].phase \in UnderWay => WithTarget(o)[i] = att[i]
           /\ next' \in [Outs -> Attempts \cup {None}]
           /\ m_in_flight' \subseteq Outs
           /\ m_stale' \subseteq m_stale
           /\ m_materialized' \subseteq {p \in Outs : Declared(p)}
<1>0. m_materialized' \subseteq {p \in Outs : Declared(p)}
  BY DEF bring_up_to_date, Opened, TypeOK
<1>1. CASE Awaits(o)
  <2> DEFINE n == NextAttempt(o)
             c == [Free EXCEPT !.phase = "next", !.out = o]
  <2>1. /\ o \in m_in_flight /\ NameLeft(o) /\ ~Joins(o) /\ ~Claims(o)
        /\ next' = [next EXCEPT ![o] = n]
        /\ m_stale' = m_stale /\ m_in_flight' = m_in_flight
    BY <1>1 DEF bring_up_to_date, Awaits, Claims
  <2>2. WithTarget(o) = [att EXCEPT ![n] = c] /\ Target(o) = n
    BY <1>1, <2>1 DEF WithTarget, Target
  <2>3. /\ [att EXCEPT ![n] = c] \in [Attempts -> AttemptType]
        /\ n \in Attempts /\ att[n].phase \in {"free", "next"}
        /\ IsComing([att EXCEPT ![n] = c], n, o)
        /\ \A j \in Attempts \ {n} : [att EXCEPT ![n] = c][j] = att[j]
        /\ BuildsOK([att EXCEPT ![n] = c], [next EXCEPT ![o] = n], m_in_flight, reader)
    BY <2>1, AwaitFacts
  <2>4. next' \in [Outs -> Attempts \cup {None}] /\ m_in_flight' \subseteq Outs
    BY <2>1, <2>3 DEF TypeOK
  <2>5. \A i \in Attempts : att[i].phase \in UnderWay => WithTarget(o)[i] = att[i]
    BY <2>2, <2>3 DEF UnderWay
  <2> HIDE DEF n, c
  <2> QED  BY <1>0, <2>1, <2>2, <2>3, <2>4, <2>5
<1>2. CASE Claims(o)
  <2> DEFINE n == NextAttempt(o)
             a == Claimed(o, att)
  <2>1. /\ o \notin m_in_flight /\ NameLeft(o) /\ ~Joins(o) /\ ~Awaits(o)
        /\ next' = [next EXCEPT ![o] = None]
        /\ m_stale' = m_stale \ {o} /\ m_in_flight' = m_in_flight \cup {o}
    BY <1>2 DEF bring_up_to_date, claim_build, Awaits, Claims, Joins
  <2>2. WithTarget(o) = a /\ Target(o) = n
    BY <1>2, <2>1 DEF WithTarget, Target
  <2>3. /\ a \in [Attempts -> AttemptType]
        /\ n \in Attempts /\ att[n].phase = "free"
        /\ IsComing(a, n, o)
        /\ \A j \in Attempts \ {n} : a[j] = att[j]
        /\ BuildsOK(a, [next EXCEPT ![o] = None], m_in_flight \cup {o}, reader)
    BY <2>1, ClaimFacts
  <2>4. next' \in [Outs -> Attempts \cup {None}] /\ m_in_flight' \subseteq Outs
    BY <2>1 DEF TypeOK
  <2>5. \A i \in Attempts : att[i].phase \in UnderWay => WithTarget(o)[i] = att[i]
    BY <2>2, <2>3 DEF UnderWay
  <2> HIDE DEF n, a
  <2> QED  BY <1>0, <2>1, <2>2, <2>3, <2>4, <2>5
<1>3. CASE ~Awaits(o) /\ ~Claims(o)
  <2>1. next' = next /\ m_stale' = m_stale /\ m_in_flight' = m_in_flight
    BY <1>3 DEF bring_up_to_date
  <2>2. WithTarget(o) = att
    BY <1>3 DEF WithTarget
  <2>3. Target(o) # None => IsComing(att, Target(o), o)
    <3> SUFFICES ASSUME Target(o) # None PROVE IsComing(att, Target(o), o)
      OBVIOUS
    <3>1. Joins(o) /\ Target(o) = Current(o)
      BY <1>3 DEF Target
    <3> QED  BY <3>1, CurrentFacts DEF IsComing, Coming, Joins
  <2> QED  BY <1>0, <2>1, <2>2, <2>3 DEF TypeOK, Accounts
<1> QED  BY <1>1, <1>2, <1>3

-----------------------------------------------------------------------------
(* Each action keeps the invariant.  Opens first.                          *)

LEMMA TargetType ==
    ASSUME NEW o, Target(o) # None => IsComing(WithTarget(o), Target(o), o)
    PROVE  Target(o) \in Attempts \cup {None}
BY DEF IsComing

LEMMA OpenInv ==
    ASSUME Inv, NEW r \in Readers, NEW o \in Outs, open(r, o)
    PROVE  Inv'
<1> USE DEF Inv
<1>1. /\ WithTarget(o) \in [Attempts -> AttemptType]
      /\ BuildsOK(WithTarget(o), next', m_in_flight', reader)
      /\ Target(o) # None => IsComing(WithTarget(o), Target(o), o)
      /\ next' \in [Outs -> Attempts \cup {None}]
      /\ m_in_flight' \subseteq Outs /\ m_stale' \subseteq m_stale
      /\ m_materialized' \subseteq {p \in Outs : Declared(p)}
  BY OpenFacts DEF open
<1> DEFINE c == [state |-> IF Target(o) = None THEN "reading" ELSE "waiting",
                 out |-> o, target |-> Target(o), since |-> applied, bytes |-> {}]
<1>2. c \in ReaderType
  BY <1>1, TargetType DEF ReaderType, TypeOK
<1>3. reader' = [reader EXCEPT ![r] = c] /\ att' = WithTarget(o)
  BY DEF open
<1>4. /\ reader' \in [Readers -> ReaderType] /\ reader'[r] = c
      /\ \A s \in Readers \ {r} : reader'[s] = reader[s]
  BY <1>2, <1>3 DEF TypeOK
<1>5. TypeOK'
  BY <1>1, <1>3, <1>4
     DEF TypeOK, open, sourceVars, bookRest, fileVars, cacheVars, Declared
<1>6. Accounts'
  <2>1. ASSUME NEW s \in Readers
        PROVE  /\ reader'[s].state = "waiting"
                    => IsComing(WithTarget(o), reader'[s].target, reader'[s].out)
               /\ reader'[s].state = "reading" => reader'[s].out \in Outs
    <3>1. CASE s = r
      BY <1>1, <1>4, <3>1
    <3>2. CASE s # r
      BY <1>1, <1>4, <3>2 DEF BuildsOK, WaitersOK
    <3> QED  BY <3>1, <3>2
  <2>2. BuildsOK(WithTarget(o), next', m_in_flight', reader')
    BY <1>1, <2>1 DEF BuildsOK, WaitersOK
  <2> QED  BY <1>3, <2>2 DEF Accounts
<1>7. WatcherOK'
  BY DEF WatcherOK, open
<1> QED  BY <1>5, <1>6, <1>7

LEMMA OpenOutputInv ==
    ASSUME Inv, NEW i \in Attempts, OpenOutput(i)
    PROVE  Inv'
<1> USE DEF Inv
<1> DEFINE o == att[i].input
           a == WithTarget(o)
<1>0. att[i].phase = "asked" /\ o \in Outs
  BY DEF OpenOutput, Accounts, BuildsOK, WaitersOK
<1> HIDE DEF o
<1>1. /\ a \in [Attempts -> AttemptType]
      /\ BuildsOK(a, next', m_in_flight', reader)
      /\ Target(o) # None => IsComing(a, Target(o), o)
      /\ \A j \in Attempts : att[j].phase \in UnderWay => a[j] = att[j]
      /\ next' \in [Outs -> Attempts \cup {None}]
      /\ m_in_flight' \subseteq Outs /\ m_stale' \subseteq m_stale
      /\ m_materialized' \subseteq {p \in Outs : Declared(p)}
  BY <1>0, OpenFacts DEF OpenOutput, o
<1>2. a[i] = att[i] /\ a[i].phase = "asked" /\ a[i].input = o
  BY <1>0, <1>1 DEF UnderWay, o
<1> DEFINE c == [a[i] EXCEPT !.phase = "opening", !.target = Target(o)]
<1>3. c \in AttemptType /\ c.phase = "opening" /\ c.input = o /\ c.target = Target(o)
      /\ c.out = a[i].out /\ c.orphaned = a[i].orphaned
  <2>1. a[i] \in AttemptType /\ Target(o) \in Attempts \cup {None}
    BY <1>1, TargetType
  <2> HIDE DEF a
  <2> QED  BY <1>2, <2>1 DEF AttemptType, Phases, UnderWay
<1>4. att' = [a EXCEPT ![i] = c]
  BY <1>1 DEF OpenOutput, o
<1> HIDE DEF a, c
<1>5. att' \in [Attempts -> AttemptType] /\ att'[i] = c
      /\ \A j \in Attempts \ {i} : att'[j] = a[j]
  BY <1>1, <1>3, <1>4
<1>6. TypeOK'
  BY <1>1, <1>5 DEF TypeOK, OpenOutput, buildOnly, sourceVars, bookRest, fileVars, cacheVars,
                    Declared
<1>7. Accounts'
  <2>1. ASSUME NEW j \in Attempts
        PROVE  /\ att'[j].phase \in UnderWay <=> a[j].phase \in UnderWay
               /\ att'[j].phase = "next" <=> a[j].phase = "next"
               /\ att'[j].phase = "settled" <=> a[j].phase = "settled"
               /\ att'[j].phase # "free" => a[j].phase # "free" /\ att'[j].out = a[j].out
               /\ att'[j].phase \in Coming => att'[j].orphaned = a[j].orphaned
               /\ att'[j].phase \in {"asked", "opening"} => att'[j].input \in Outs
               /\ att'[j].phase = "opening" /\ att'[j].target # None
                     => IsComing(a, att'[j].target, att'[j].input)
    <3>1. CASE j = i
      BY <1>0, <1>1, <1>2, <1>3, <1>5, <3>1 DEF UnderWay, a
    <3>2. CASE j # i
      BY <1>1, <1>5, <3>2 DEF BuildsOK, WaitersOK
    <3> QED  BY <3>1, <3>2
  <2>2. \A r \in Readers :
            /\ reader[r].state = "waiting" => IsComing(a, reader[r].target, reader[r].out)
            /\ reader[r].state = "reading" => reader[r].out \in Outs
    BY <1>1 DEF BuildsOK, WaitersOK
  <2>3. BuildsOK(att', next', m_in_flight', reader)
    BY <1>1, <2>1, <2>2, Unmoved
  <2> QED  BY <2>3 DEF Accounts, OpenOutput, buildOnly
<1>8. WatcherOK'
  BY DEF WatcherOK, OpenOutput, buildOnly
<1> QED  BY <1>6, <1>7, <1>8

(* start_build, for materialize_all() and for the watcher.                 *)
LEMMA StartFacts ==
    ASSUME TypeOK, Accounts, NEW o \in Outs, start_build(o), reader' = reader
    PROVE  /\ att' \in [Attempts -> AttemptType]
           /\ Accounts'
           /\ next' \in [Outs -> Attempts \cup {None}]
           /\ m_in_flight' \subseteq Outs
           /\ m_stale' \subseteq m_stale
<1>1. CASE o \in m_stale /\ o \notin m_in_flight /\ Declared(o)
  <2>1. /\ NameLeft(o)
        /\ next' = [next EXCEPT ![o] = None]
        /\ m_stale' = m_stale \ {o}
        /\ m_in_flight' = m_in_flight \cup {o}
        /\ att' = Claimed(o, att)
    BY <1>1 DEF start_build, claim_build
  <2>2. /\ Claimed(o, att) \in [Attempts -> AttemptType]
        /\ BuildsOK(Claimed(o, att), [next EXCEPT ![o] = None], m_in_flight \cup {o}, reader)
    BY <1>1, <2>1, ClaimFacts
  <2> QED  BY <2>1, <2>2 DEF Accounts, TypeOK
<1>2. CASE ~(o \in m_stale /\ o \notin m_in_flight /\ Declared(o))
  BY <1>2 DEF start_build, Accounts, TypeOK
<1> QED  BY <1>1, <1>2

LEMMA MaterializeNextInv ==
    ASSUME Inv, NEW o \in Outs, MaterializeNext(o)
    PROVE  Inv'
<1> USE DEF Inv
<1>1. start_build(o) /\ reader' = reader
  BY DEF MaterializeNext
<1>2. TypeOK'
  BY <1>1, StartFacts DEF TypeOK, MaterializeNext, sourceVars, bookRest, fileVars, cacheVars,
                          Declared
<1>3. WatcherOK'
  BY DEF WatcherOK, MaterializeNext
<1> QED  BY <1>1, <1>2, <1>3, StartFacts

-----------------------------------------------------------------------------
(* Steps that move no build.                                               *)

(* b is what became of the build a, which goes on as what it was.          *)
SameKind(a, b) ==
    /\ b.phase \in UnderWay <=> a.phase \in UnderWay
    /\ b.phase = "next" <=> a.phase = "next"
    /\ b.phase = "settled" <=> a.phase = "settled"
    /\ b.phase # "free" => a.phase # "free" /\ b.out = a.out
    /\ b.phase \in Coming => b.orphaned = a.orphaned
    /\ b.phase = "asked" => b.input \in Outs \/ (a.phase = "asked" /\ b.input = a.input)
    /\ b.phase = "opening" => a.phase = "opening" /\ b.input = a.input /\ b.target = a.target

LEMMA GoOn ==
    ASSUME TypeOK, Accounts, next' = next, m_in_flight' = m_in_flight,
           \A i \in Attempts : SameKind(att[i], att'[i]),
           \A r \in Readers : /\ reader'[r].state \in {"waiting", "reading"}
                                    => reader'[r] = reader[r]
    PROVE  Accounts'
<1>1. /\ att \in [Attempts -> AttemptType] /\ next \in [Outs -> Attempts \cup {None}]
      /\ BuildsOK(att, next, m_in_flight, reader)
  BY DEF TypeOK, Accounts
<1>2. \A i \in Attempts :
          /\ att'[i].phase \in {"asked", "opening"} => att'[i].input \in Outs
          /\ att'[i].phase = "opening" /\ att'[i].target # None
                => IsComing(att, att'[i].target, att'[i].input)
  BY DEF SameKind, Accounts, BuildsOK, WaitersOK
<1>3. \A r \in Readers :
          /\ reader'[r].state = "waiting" => IsComing(att, reader'[r].target, reader'[r].out)
          /\ reader'[r].state = "reading" => reader'[r].out \in Outs
  BY DEF Accounts, BuildsOK, WaitersOK
<1>4. \A i \in Attempts :
          /\ att'[i].phase \in UnderWay <=> att[i].phase \in UnderWay
          /\ att'[i].phase = "next" <=> att[i].phase = "next"
          /\ att'[i].phase = "settled" <=> att[i].phase = "settled"
          /\ att'[i].phase # "free" => att[i].phase # "free" /\ att'[i].out = att[i].out
          /\ att'[i].phase \in Coming => att'[i].orphaned = att[i].orphaned
  BY DEF SameKind
<1>5. BuildsOK(att', next, m_in_flight, reader')
  BY <1>1, <1>2, <1>3, <1>4, Unmoved
<1> QED  BY <1>5 DEF Accounts

\* One build changes, and goes on as what it was.
LEMMA OneGoesOn ==
    ASSUME TypeOK, Accounts, next' = next, m_in_flight' = m_in_flight, reader' = reader,
           NEW i \in Attempts, NEW c \in AttemptType, SameKind(att[i], c),
           att' = [att EXCEPT ![i] = c]
    PROVE  att' \in [Attempts -> AttemptType] /\ Accounts'
<1>1. att' \in [Attempts -> AttemptType] /\ att'[i] = c
      /\ \A j \in Attempts \ {i} : att'[j] = att[j]
  BY DEF TypeOK
<1>2. \A j \in Attempts : SameKind(att[j], att'[j])
  BY <1>1 DEF SameKind
<1> QED  BY <1>1, <1>2, GoOn

LEMMA WorldInv ==
    ASSUME Inv,
           \/ \E s \in Sources : Change(s)
           \/ \E o \in Outs, rule \in 0..2 : EditManifest(o, rule)
           \/ Overflow
           \/ materialize_all
           \/ UNCHANGED vars
    PROVE  Inv'
<1> USE DEF Inv
<1>1. Accounts'
  BY DEF Accounts, Change, EditManifest, Overflow, materialize_all, vars, bookVars,
         threadVars
<1>2. WatcherOK'
  BY DEF WatcherOK, Change, EditManifest, Overflow, materialize_all, vars, threadVars
<1>3. TypeOK'
  <2>1. CASE \E s \in Sources : Change(s)
    <3>1. PICK s \in Sources : Change(s)
      BY <2>1
    <3>2. version' \in [Sources -> 0..MaxVersion]
      <4>1. version[s] \in 0..MaxVersion /\ version[s] + 1 \in 0..MaxVersion
        BY <3>1, BoundsAssumption DEF Change, TypeOK, BoundsAssumption
      <4> QED  BY <3>1, <4>1 DEF Change, TypeOK
    <3> QED
      BY <3>1, <3>2 DEF Change, TypeOK, bookVars, fileVars, cacheVars, threadVars, Declared
  <2>2. CASE \E o \in Outs, rule \in 0..2 : EditManifest(o, rule)
    <3>1. edits' \in 0..MaxEdits /\ manifest' \in [Outs -> 0..2]
      BY <2>2, BoundsAssumption DEF EditManifest, TypeOK, BoundsAssumption
    <3>2. pending' \subseteq Sources \cup {Manifest, Everything}
      BY <2>2 DEF EditManifest, TypeOK
    <3> QED
      BY <2>2, <3>1, <3>2
         DEF EditManifest, TypeOK, bookVars, fileVars, cacheVars, threadVars, Declared
  <2>3. CASE Overflow
    BY <2>3 DEF Overflow, TypeOK, bookVars, fileVars, cacheVars, threadVars, Declared
  <2>4. CASE materialize_all
    <3>1. m_materialized' \subseteq {o \in Outs : Declared(o)}
      BY <2>4 DEF materialize_all, TypeOK
    <3> QED
      BY <2>4, <3>1 DEF materialize_all, TypeOK, sourceVars, fileVars, cacheVars, Declared
  <2>5. CASE UNCHANGED vars
    BY <2>5 DEF vars, TypeOK, sourceVars, bookVars, fileVars, cacheVars, threadVars,
                Declared
  <2> QED  BY <2>1, <2>2, <2>3, <2>4, <2>5
<1> QED  BY <1>1, <1>2, <1>3

LEMMA ReadOpenedInv ==
    ASSUME Inv, NEW r \in Readers, ReadOpened(r)
    PROVE  Inv'
<1> USE DEF Inv
<1> DEFINE o == reader[r].out
           c == [reader[r] EXCEPT !.state = IF o \in files THEN "read" ELSE "error",
                                  !.bytes = content[o]]
<1>1. content[o] \in SUBSET Made
  BY DEF ReadOpened, Accounts, BuildsOK, WaitersOK, TypeOK
<1>2. c \in ReaderType /\ c.state \in {"read", "error"}
  <2>1. reader[r] \in ReaderType
    BY DEF TypeOK
  <2> QED  BY <1>1, <2>1 DEF ReaderType
<1>3. reader' = [reader EXCEPT ![r] = c]
  BY DEF ReadOpened, TypeOK
<1> HIDE DEF c
<1>4. /\ reader' \in [Readers -> ReaderType] /\ reader'[r] = c
      /\ \A s \in Readers \ {r} : reader'[s] = reader[s]
  BY <1>2, <1>3 DEF TypeOK
<1>5. TypeOK'
  BY <1>4 DEF TypeOK, ReadOpened, sourceVars, bookVars, fileVars, cacheVars, Declared
<1>6. Accounts'
  <2>1. \A s \in Readers : reader'[s].state \in {"waiting", "reading"}
            => reader'[s] = reader[s]
    BY <1>2, <1>4
  <2>2. att' = att /\ next' = next /\ m_in_flight' = m_in_flight
    BY DEF ReadOpened, bookVars
  <2>3. \A i \in Attempts : SameKind(att[i], att'[i])
    BY <2>2 DEF SameKind
  <2> QED  BY <2>1, <2>2, <2>3, GoOn
<1>7. WatcherOK'
  BY DEF WatcherOK, ReadOpened
<1> QED  BY <1>5, <1>6, <1>7

(* A build that reads, fails or publishes stays under way.                 *)
LEMMA BuildInv ==
    ASSUME Inv, NEW i \in Attempts,
           \/ \E s \in Sources : ReadSource(i, s)
           \/ \E o \in Outs : RecordRead(i, o)
           \/ ReadOutput(i)
           \/ Fail(i)
    PROVE  Inv'
<1> USE DEF Inv
<1>0. att[i] \in AttemptType
  BY DEF TypeOK
<1>1. PICK c \in AttemptType : SameKind(att[i], c) /\ att' = [att EXCEPT ![i] = c]
  <2>1. ASSUME NEW s \in Sources, ReadSource(i, s)
        PROVE  \E c \in AttemptType : SameKind(att[i], c) /\ att' = [att EXCEPT ![i] = c]
    <3> DEFINE c == [att[i] EXCEPT !.reads = @ \cup {s}, !.seen = @ \cup {s},
                                   !.bytes = @ \cup {<<s, version[s]>>}]
    <3>1. <<s, version[s]>> \in Made
      BY BoundsAssumption DEF Made, TypeOK, BoundsAssumption
    <3>2. c \in AttemptType
      BY <1>0, <3>1 DEF AttemptType
    <3>3. SameKind(att[i], c)
      BY <1>0 DEF SameKind, AttemptType
    <3>4. att' = [att EXCEPT ![i] = c]
      BY <2>1 DEF ReadSource, TypeOK
    <3> QED  BY <3>2, <3>3, <3>4
  <2>2. ASSUME ReadOutput(i)
        PROVE  \E c \in AttemptType : SameKind(att[i], c) /\ att' = [att EXCEPT ![i] = c]
    <3> DEFINE p == IF att[i].input \in files THEN "running" ELSE "failed"
               mark == IF att[i].input \in att[i].reads THEN {} ELSE {Unrecorded}
               c == [att[i] EXCEPT !.phase = p, !.seen = @ \cup {att[i].input},
                        !.bytes = @ \cup content[att[i].input] \cup mark, !.input = None]
    <3>1. /\ att[i].phase = "opening" /\ att[i].input \in Outs
          /\ content[att[i].input] \in SUBSET Made
      BY <2>2 DEF ReadOutput, Accounts, BuildsOK, WaitersOK, TypeOK
    <3>2. p \in {"running", "failed"} /\ mark \in SUBSET Made
      BY DEF Made
    <3> HIDE DEF p, mark
    <3>3. c \in AttemptType
      BY <1>0, <3>1, <3>2 DEF AttemptType, Phases, UnderWay
    <3>4. SameKind(att[i], c)
      BY <1>0, <3>1, <3>2 DEF SameKind, AttemptType, UnderWay
    <3>5. att' = [att EXCEPT ![i] = c]
      BY <2>2 DEF ReadOutput, TypeOK, p, mark
    <3> QED  BY <3>3, <3>4, <3>5
  <2>3. ASSUME Fail(i)
        PROVE  \E c \in AttemptType : SameKind(att[i], c) /\ att' = [att EXCEPT ![i] = c]
    <3> DEFINE c == [att[i] EXCEPT !.phase = "failed"]
    <3>1. c \in AttemptType
      BY <1>0 DEF AttemptType, Phases, UnderWay
    <3>2. SameKind(att[i], c)
      BY <1>0, <2>3 DEF SameKind, AttemptType, UnderWay, Fail, Running
    <3>3. att' = [att EXCEPT ![i] = c]
      BY <2>3 DEF Fail, TypeOK
    <3> QED  BY <3>1, <3>2, <3>3
  <2>4. ASSUME NEW o \in Outs, RecordRead(i, o)
        PROVE  \E c \in AttemptType : SameKind(att[i], c) /\ att' = [att EXCEPT ![i] = c]
    <3> DEFINE new == att[i].reads \cup {p \in {o} : Declared(p) \/ Copying(i)}
               c == [att[i] EXCEPT !.phase = "asked", !.input = o, !.reads = new]
    <3>1. new \in SUBSET (Sources \cup Outs)
      BY <1>0 DEF AttemptType
    <3>2. att' = [att EXCEPT ![i] = c]
      BY <2>4 DEF RecordRead, TypeOK
    <3> HIDE DEF new
    <3>3. c \in AttemptType
      BY <1>0, <3>1 DEF AttemptType, Phases, UnderWay
    <3>4. SameKind(att[i], c)
      BY <1>0, <2>4 DEF SameKind, AttemptType, UnderWay, RecordRead, Running
    <3> QED  BY <3>2, <3>3, <3>4
  <2> QED  BY <2>1, <2>2, <2>3, <2>4
<1>2. /\ UNCHANGED <<sourceVars, bookVars, fileVars, cacheVars, watcher, materializing,
                     reader, applied>>
  BY DEF ReadSource, RecordRead, ReadOutput, Fail, buildOnly
<1>3. att' \in [Attempts -> AttemptType] /\ Accounts'
  BY <1>1, <1>2, OneGoesOn DEF bookVars
<1>4. TypeOK'
  BY <1>2, <1>3 DEF TypeOK, sourceVars, bookVars, fileVars, cacheVars, Declared
<1>5. WatcherOK'
  BY <1>2 DEF WatcherOK
<1> QED  BY <1>3, <1>4, <1>5

LEMMA PublishInv ==
    ASSUME Inv, NEW i \in Attempts, Publish(i)
    PROVE  Inv'
<1> USE DEF Inv
<1> DEFINE o     == att[i].out
           bytes == att[i].bytes \cup {<<o, att[i].command>>}
           keep  == HasCache /\ Publishes(o)
           c     == [att[i] EXCEPT !.phase = "published", !.ok = TRUE, !.bytes = bytes,
                                   !.command = m_commands[o], !.keep = keep]
<1>1. att[i] \in AttemptType /\ att[i].phase = "running" /\ o \in Outs
  BY DEF Publish, Running, TypeOK, Accounts, BuildsOK, InFlightOK
<1>2. bytes \in SUBSET Made
  <2>1. <<o, att[i].command>> \in Made
    BY <1>1 DEF AttemptType, Made
  <2> QED  BY <1>1, <2>1 DEF AttemptType
<1>3. m_commands[o] \in 0..2 /\ keep \in BOOLEAN
  BY <1>1 DEF TypeOK, Publishes, Declared
<1>4. c \in AttemptType /\ SameKind(att[i], c)
  <2> HIDE DEF o, bytes, keep
  <2>1. c \in AttemptType
    <3>1. "published" \in Phases
      BY DEF Phases, UnderWay
    <3>2. PICK k \in BOOLEAN : k = keep
      BY <1>3
    <3>3. [att[i] EXCEPT !.phase = "published", !.ok = TRUE, !.bytes = bytes,
                         !.command = m_commands[o], !.keep = k] \in AttemptType
      BY <1>1, <1>2, <1>3, <3>1, ChangedType
    <3> QED  BY <3>2, <3>3
  <2>2. SameKind(att[i], c)
    BY <1>1 DEF SameKind, AttemptType, UnderWay
  <2> QED  BY <2>1, <2>2
<1>5. att' = [att EXCEPT ![i] = c]
  BY DEF Publish, TypeOK
<1>6. att' \in [Attempts -> AttemptType] /\ Accounts'
  BY <1>4, <1>5, OneGoesOn DEF Publish
<1>7. /\ m_hashes' \in [Outs -> (SUBSET Made) \cup {None}]
      /\ m_dependencies' \in [Outs -> SUBSET (Sources \cup Outs)]
      /\ content' \in [Outs -> SUBSET Made]
      /\ files' \subseteq Outs
  <2>1. CASE Publishes(o)
    <3>1. att[i].reads \in SUBSET (Sources \cup Outs)
      BY <1>1 DEF AttemptType
    <3>2. /\ m_hashes' = [m_hashes EXCEPT ![o] = IF HasCache THEN bytes ELSE @]
          /\ m_dependencies' = [m_dependencies EXCEPT ![o] = att[i].reads]
          /\ content' = [content EXCEPT ![o] = bytes]
          /\ files' = files \cup {o}
      BY <2>1 DEF Publish
    <3> HIDE DEF o, bytes
    <3> QED  BY <1>1, <1>2, <3>1, <3>2 DEF TypeOK
  <2>2. CASE ~Publishes(o)
    BY <2>2 DEF Publish, TypeOK
  <2> QED  BY <2>1, <2>2
<1>8. TypeOK'
  BY <1>6, <1>7 DEF TypeOK, Publish, sourceVars, cacheVars, Declared
<1>9. WatcherOK'
  BY DEF WatcherOK, Publish
<1> QED  BY <1>6, <1>8, <1>9

-----------------------------------------------------------------------------
(* The end of a build.                                                     *)

\* A build that settles is its output's only one under way.
LEMMA EndingFacts ==
    ASSUME TypeOK, Accounts, NEW i \in Attempts, att[i].phase \in {"published", "failed"}
    PROVE  /\ att[i] \in AttemptType
           /\ att[i].out \in Outs
           /\ att[i].out \in m_in_flight
           /\ Builds(att, att[i].out) = {i}
           /\ att[i].orphaned = None
<1>1. att[i] \in AttemptType /\ att[i].out \in Outs /\ att[i].phase \in UnderWay
  BY DEF TypeOK, Accounts, BuildsOK, InFlightOK, UnderWay
<1>2. Builds(att, att[i].out) = {i}
  BY <1>1 DEF Builds, Accounts, BuildsOK, InFlightOK
<1>3. att[i].orphaned = None
  BY <1>1 DEF Accounts, BuildsOK, OrphansOK
<1> QED  BY <1>1, <1>2, <1>3 DEF Accounts, BuildsOK, InFlightOK

(* It settles with nothing built after it: whoever waits for the next      *)
(* build waits on the one it has orphaned, if any.                         *)
LEMMA SettleLast ==
    ASSUME TypeOK, Accounts, NEW i \in Attempts, att[i].phase \in {"published", "failed"},
           NEW d \in AttemptType, d.phase = "settled", d.out = att[i].out,
           d.orphaned = next[att[i].out]
    PROVE  LET o == att[i].out
               a == [att EXCEPT ![i] = d]
           IN  BuildsOK(a, [next EXCEPT ![o] = None], m_in_flight \ {o}, reader)
<1> DEFINE o  == att[i].out
           a  == [att EXCEPT ![i] = d]
           nx == [next EXCEPT ![o] = None]
           fl == m_in_flight \ {o}
<1>1. /\ o \in Outs /\ o \in m_in_flight /\ Builds(att, o) = {i}
      /\ att[i].phase \in UnderWay
      /\ att[i].phase \notin {"free", "next", "settled", "asked", "opening"}
  BY EndingFacts DEF UnderWay
<1>2. a[i] = d /\ \A j \in Attempts \ {i} : a[j] = att[j]
  BY DEF TypeOK
<1>3. /\ nx[o] = None
      /\ \A p \in Outs \ {o} : nx[p] = next[p] /\ next[p] \in Attempts \cup {None}
      /\ next[o] \in Attempts \cup {None}
  BY <1>1 DEF TypeOK
<1>4. \A j \in Attempts : att[j].orphaned \in Attempts \cup {None}
  BY DEF TypeOK, AttemptType
<1>5. \A t \in Attempts : \A p : IsComing(att, t, p) => IsComing(a, t, p)
  BY <1>1, <1>2 DEF IsComing, Coming
<1> HIDE DEF a, nx
<1>6. InFlightOK(a, fl)
  <2>1. \A p \in Outs \ {o} : Builds(a, p) = Builds(att, p)
    BY <1>1, <1>2 DEF Builds
  <2>2. Builds(a, o) = {}
    BY <1>1, <1>2 DEF Builds, UnderWay
  <2>3. \A j \in Attempts : a[j].phase # "free" => a[j].out \in Outs
    BY <1>1, <1>2 DEF Accounts, BuildsOK, InFlightOK
  <2>4. \A j, k \in Attempts :
            a[j].phase \in UnderWay /\ a[k].phase \in UnderWay /\ a[j].out = a[k].out => j = k
    BY <1>2 DEF Accounts, BuildsOK, InFlightOK, UnderWay
  <2> QED  BY <2>1, <2>2, <2>3, <2>4 DEF InFlightOK, Accounts, BuildsOK
<1>7. NextOK(a, nx, fl)
  <2> SUFFICES ASSUME NEW p \in Outs, nx[p] # None
               PROVE  p \in fl /\ a[nx[p]].phase = "next" /\ a[nx[p]].out = p
    BY DEF NextOK
  <2>1. p # o /\ nx[p] \in Attempts /\ att[nx[p]].phase = "next" /\ att[nx[p]].out = p
        /\ p \in m_in_flight
    BY <1>3 DEF Accounts, BuildsOK, NextOK
  <2> QED  BY <1>1, <1>2, <2>1
<1>8. OrphansOK(a, nx)
  <2>1. ASSUME NEW j \in Attempts, a[j].phase = "next"
        PROVE  \/ nx[a[j].out] = j
               \/ \E k \in Attempts : a[k].phase = "settled" /\ a[k].orphaned = j
    <3>1. j # i /\ a[j] = att[j] /\ att[j].phase = "next" /\ att[j].out \in Outs
      BY <1>2, <2>1 DEF Accounts, BuildsOK, InFlightOK
    <3>2. CASE next[att[j].out] = j
      BY <1>2, <1>3, <3>1, <3>2
    <3>3. CASE next[att[j].out] # j
      <4>1. PICK k \in Attempts : att[k].phase = "settled" /\ att[k].orphaned = j
        BY <3>1, <3>3 DEF Accounts, BuildsOK, OrphansOK
      <4> QED  BY <1>1, <1>2, <4>1
    <3> QED  BY <3>2, <3>3
  <2>2. ASSUME NEW j \in Attempts, a[j].phase = "settled", a[j].orphaned # None
        PROVE  /\ a[a[j].orphaned].phase = "next"
               /\ \A p \in Outs : nx[p] # a[j].orphaned
               /\ \A k \in Attempts :
                     a[k].phase = "settled" /\ a[k].orphaned = a[j].orphaned => k = j
    <3>1. CASE j = i
      <4>1. /\ a[j].orphaned = next[o] /\ next[o] \in Attempts
            /\ att[next[o]].phase = "next" /\ att[next[o]].out = o
        BY <1>1, <1>2, <1>3, <2>2, <3>1 DEF Accounts, BuildsOK, NextOK
      <4>2. a[next[o]].phase = "next"
        BY <1>1, <1>2, <4>1
      <4>3. \A p \in Outs : nx[p] # next[o]
        <5> TAKE p \in Outs
        <5>1. CASE p = o
          BY <1>3, <4>1, <5>1, NoneAssumption DEF NoneAssumption
        <5>2. CASE p # o
          BY <1>3, <4>1, <5>2, NoneAssumption DEF NoneAssumption, Accounts, BuildsOK, NextOK
        <5> QED  BY <5>1, <5>2
      <4>4. \A k \in Attempts \ {i} : a[k].phase = "settled" => a[k].orphaned # next[o]
        BY <1>1, <1>2, <4>1, NoneAssumption
           DEF NoneAssumption, Accounts, BuildsOK, OrphansOK
      <4> QED  BY <3>1, <4>1, <4>2, <4>3, <4>4
    <3>2. CASE j # i
      <4>1. a[j] = att[j]
        BY <1>2, <3>2
      <4>2. /\ att[j].orphaned \in Attempts /\ att[att[j].orphaned].phase = "next"
            /\ \A p \in Outs : next[p] # att[j].orphaned
            /\ \A k \in Attempts :
                  att[k].phase = "settled" /\ att[k].orphaned = att[j].orphaned => k = j
        BY <1>4, <2>2, <4>1 DEF Accounts, BuildsOK, OrphansOK
      <4>3. a[att[j].orphaned].phase = "next"
        BY <1>1, <1>2, <4>2
      <4>4. \A p \in Outs : nx[p] # att[j].orphaned
        BY <1>3, <4>1, <4>2, NoneAssumption DEF NoneAssumption
      <4>5. d.orphaned # att[j].orphaned
        BY <1>1, <4>2
      <4> QED  BY <1>2, <4>1, <4>2, <4>3, <4>4, <4>5
    <3> QED  BY <3>1, <3>2
  <2>3. \A j \in Attempts : a[j].phase \in UnderWay => a[j].orphaned = None
    BY <1>2 DEF Accounts, BuildsOK, OrphansOK, UnderWay
  <2> QED  BY <2>1, <2>2, <2>3 DEF OrphansOK
<1>9. WaitersOK(a, reader)
  <2>1. \A j \in Attempts : a[j].phase \in {"asked", "opening"} => a[j] = att[j]
    BY <1>2
  <2> QED  BY <1>5, <2>1 DEF WaitersOK, IsComing, Accounts, BuildsOK
<1> QED  BY <1>6, <1>7, <1>8, <1>9 DEF BuildsOK, a, nx

(* It settles and the next build of its output is claimed at once.         *)
LEMMA SettleClaim ==
    ASSUME TypeOK, Accounts, NEW i \in Attempts, att[i].phase \in {"published", "failed"},
           NEW d \in AttemptType, d.phase = "settled", d.out = att[i].out,
           d.orphaned = None, NameLeft(att[i].out),
           NEW c \in AttemptType, c.phase = "running", c.out = att[i].out,
           c.orphaned = None
    PROVE  LET o == att[i].out
               a == [[att EXCEPT ![i] = d] EXCEPT ![NextAttempt(o)] = c]
           IN  BuildsOK(a, [next EXCEPT ![o] = None], (m_in_flight \ {o}) \cup {o}, reader)
<1> DEFINE o  == att[i].out
           n  == NextAttempt(o)
           a  == [[att EXCEPT ![i] = d] EXCEPT ![n] = c]
           nx == [next EXCEPT ![o] = None]
           fl == (m_in_flight \ {o}) \cup {o}
<1>1. /\ o \in Outs /\ o \in m_in_flight /\ Builds(att, o) = {i}
      /\ att[i].phase \in UnderWay
      /\ att[i].phase \notin {"free", "next", "settled", "asked", "opening"}
  BY EndingFacts DEF UnderWay
<1>2. /\ n \in Attempts
      /\ \/ next[o] = n /\ att[n].phase = "next" /\ att[n].out = o
         \/ next[o] = None /\ att[n].phase = "free"
  BY <1>1, NextAttemptFacts
<1>3. /\ n # i /\ a[i] = d /\ a[n] = c
      /\ \A j \in Attempts : j \notin {i, n} => a[j] = att[j]
  BY <1>1, <1>2 DEF TypeOK
<1>4. /\ nx[o] = None
      /\ \A p \in Outs \ {o} : nx[p] = next[p] /\ next[p] \in Attempts \cup {None}
      /\ next[o] \in Attempts \cup {None}
  BY <1>1 DEF TypeOK
<1>5. \A j \in Attempts : att[j].orphaned \in Attempts \cup {None}
  BY DEF TypeOK, AttemptType
<1> HIDE DEF a, nx, n
<1>6. \A t \in Attempts : \A p : IsComing(att, t, p) => IsComing(a, t, p)
  BY <1>1, <1>2, <1>3 DEF IsComing, Coming, UnderWay
<1>7. InFlightOK(a, fl)
  <2>1. \A p \in Outs \ {o} : Builds(a, p) = Builds(att, p)
    BY <1>1, <1>2, <1>3 DEF Builds, UnderWay
  <2>2. Builds(a, o) = {n}
    <3>1. n \in Builds(a, o)
      BY <1>2, <1>3 DEF Builds, UnderWay
    <3>2. \A j \in Builds(a, o) : j = n
      BY <1>1, <1>3 DEF Builds, UnderWay
    <3> QED  BY <3>1, <3>2
  <2>3. \A j \in Attempts : a[j].phase # "free" => a[j].out \in Outs
    BY <1>1, <1>3 DEF Accounts, BuildsOK, InFlightOK
  <2>4. ASSUME NEW j \in Attempts, NEW k \in Attempts, a[j].phase \in UnderWay,
               a[k].phase \in UnderWay, a[j].out = a[k].out
        PROVE  j = k
    <3>1. CASE a[j].out = o
      <4>1. j \in Builds(a, o) /\ k \in Builds(a, o)
        BY <2>4, <3>1 DEF Builds
      <4> QED  BY <2>2, <4>1
    <3>2. CASE a[j].out # o
      <4>1. a[j] = att[j] /\ a[k] = att[k]
        BY <1>3, <2>4, <3>2
      <4> QED  BY <2>4, <4>1 DEF Accounts, BuildsOK, InFlightOK
    <3> QED  BY <3>1, <3>2
  <2> QED  BY <2>1, <2>2, <2>3, <2>4 DEF InFlightOK, Accounts, BuildsOK
<1>8. NextOK(a, nx, fl)
  <2> SUFFICES ASSUME NEW p \in Outs, nx[p] # None
               PROVE  p \in fl /\ a[nx[p]].phase = "next" /\ a[nx[p]].out = p
    BY DEF NextOK
  <2>1. p # o /\ nx[p] \in Attempts /\ att[nx[p]].phase = "next" /\ att[nx[p]].out = p
        /\ p \in m_in_flight
    BY <1>4 DEF Accounts, BuildsOK, NextOK
  <2> QED  BY <1>1, <1>2, <1>3, <2>1
<1>9. OrphansOK(a, nx)
  <2>1. ASSUME NEW j \in Attempts, a[j].phase = "next"
        PROVE  \/ nx[a[j].out] = j
               \/ \E k \in Attempts : a[k].phase = "settled" /\ a[k].orphaned = j
    <3>1. j \notin {i, n} /\ a[j] = att[j] /\ att[j].phase = "next" /\ att[j].out \in Outs
      BY <1>3, <2>1 DEF Accounts, BuildsOK, InFlightOK
    <3>2. CASE next[att[j].out] = j
      <4>1. att[j].out # o
        BY <1>2, <3>1, <3>2, NoneAssumption DEF NoneAssumption
      <4> QED  BY <1>4, <3>1, <3>2, <4>1
    <3>3. CASE next[att[j].out] # j
      <4>1. PICK k \in Attempts : att[k].phase = "settled" /\ att[k].orphaned = j
        BY <3>1, <3>3 DEF Accounts, BuildsOK, OrphansOK
      <4> QED  BY <1>1, <1>2, <1>3, <4>1
    <3> QED  BY <3>2, <3>3
  <2>2. ASSUME NEW j \in Attempts, a[j].phase = "settled", a[j].orphaned # None
        PROVE  /\ a[a[j].orphaned].phase = "next"
               /\ \A p \in Outs : nx[p] # a[j].orphaned
               /\ \A k \in Attempts :
                     a[k].phase = "settled" /\ a[k].orphaned = a[j].orphaned => k = j
    <3>1. j \notin {i, n} /\ a[j] = att[j]
      BY <1>3, <2>2
    <3>2. /\ att[j].orphaned \in Attempts /\ att[att[j].orphaned].phase = "next"
          /\ \A p \in Outs : next[p] # att[j].orphaned
          /\ \A k \in Attempts :
                att[k].phase = "settled" /\ att[k].orphaned = att[j].orphaned => k = j
      BY <1>5, <2>2, <3>1 DEF Accounts, BuildsOK, OrphansOK
    <3>3. att[j].orphaned \notin {i, n}
      BY <1>1, <1>2, <3>2
    <3>4. a[att[j].orphaned].phase = "next"
      BY <1>3, <3>2, <3>3
    <3>5. \A p \in Outs : nx[p] # att[j].orphaned
      BY <1>4, <2>2, <3>1, <3>2
    <3>6. \A k \in Attempts : a[k].phase = "settled" /\ a[k].orphaned = att[j].orphaned => k = j
      BY <1>3, <2>2, <3>1, <3>2
    <3> QED  BY <3>1, <3>4, <3>5, <3>6
  <2>3. \A j \in Attempts : a[j].phase \in UnderWay => a[j].orphaned = None
    BY <1>3 DEF Accounts, BuildsOK, OrphansOK, UnderWay
  <2> QED  BY <2>1, <2>2, <2>3 DEF OrphansOK
<1>10. WaitersOK(a, reader)
  <2>1. \A j \in Attempts : a[j].phase \in {"asked", "opening"} => a[j] = att[j]
    BY <1>3
  <2> QED  BY <1>6, <2>1 DEF WaitersOK, IsComing, Accounts, BuildsOK
<1> QED  BY <1>7, <1>8, <1>9, <1>10 DEF BuildsOK, a, nx, n

LEMMA SettleInv ==
    ASSUME Inv, NEW i \in Attempts, Settle(i)
    PROVE  Inv'
<1> USE DEF Inv
<1> DEFINE o == att[i].out
           d == [att[i] EXCEPT !.phase = "settled"]
<1>1. /\ att[i] \in AttemptType /\ o \in Outs /\ att[i].orphaned = None
      /\ att[i].phase \in {"published", "failed"}
  BY EndingFacts DEF Settle
<1>2. d \in AttemptType /\ d.phase = "settled" /\ d.out = o /\ d.orphaned = None
  BY <1>1 DEF AttemptType, Phases
<1>3. [att EXCEPT ![i].phase = "settled"] = [att EXCEPT ![i] = d]
  BY DEF TypeOK
<1>4. m_dependencies' \in [Outs -> SUBSET (Sources \cup Outs)]
  <2>1. att[i].reads \in SUBSET (Sources \cup Outs)
    BY <1>1 DEF AttemptType
  <2> QED  BY <1>1, <2>1 DEF Settle, TypeOK
<1>5. /\ UNCHANGED <<sourceVars, m_commands, m_invalidations, m_materialized,
                     m_materialize_all, m_hashes, files, content, cacheVars,
                     watcher, materializing, reader, applied>>
      /\ unretried' \subseteq Outs
  <2>1. unretried \subseteq Outs /\ {p \in {o} : ~att[i].ok /\ ~Unmarked(att[i].bytes)}
            \subseteq Outs
    BY <1>1 DEF TypeOK
  <2> QED  BY <2>1 DEF Settle
<1>6. /\ att' \in [Attempts -> AttemptType]
      /\ next' \in [Outs -> Attempts \cup {None}]
      /\ m_in_flight' \subseteq Outs
      /\ m_stale' \subseteq {p \in Outs : Declared(p)}
      /\ BuildsOK(att', next', m_in_flight', reader)
  <2>1. CASE Declared(o) /\ Rebuilds(o)
    <3> DEFINE n == NextAttempt(o)
               e == [d EXCEPT !.launches = n]
               c == [Free EXCEPT !.phase = "running", !.out = o, !.command = m_commands[o],
                                 !.invalidations = m_invalidations[o]]
    <3>1. /\ NameLeft(o)
          /\ next' = [next EXCEPT ![o] = None]
          /\ m_stale' = StaleAfter(o, att[i].ok) \ {o}
          /\ m_in_flight' = (m_in_flight \ {o}) \cup {o}
          /\ att' = Claimed(o, [[att EXCEPT ![i].phase = "settled"] EXCEPT ![i].launches = n])
      BY <2>1 DEF Settle, claim_build
    <3>2. n \in Attempts
      BY <1>1, <3>1, NextAttemptFacts
    <3>3. e \in AttemptType /\ e.phase = "settled" /\ e.out = o /\ e.orphaned = None
      <4> HIDE DEF d, n, o
      <4>1. e \in AttemptType
        BY <1>2, <3>2, ChangedType
      <4>2. DOMAIN d = {"phase", "out", "command", "reads", "seen", "bytes", "input",
                        "target", "invalidations", "ok", "keep", "stamps", "orphaned",
                        "launches"}
        BY <1>2 DEF AttemptType
      <4>3. e.phase = "settled" /\ e.out = o /\ e.orphaned = None
        BY <1>2, <4>2
      <4> QED  BY <4>1, <4>3
    <3>4. c \in AttemptType /\ c.phase = "running" /\ c.out = o /\ c.orphaned = None
      BY <1>1, NewBuild
    <3>5. [[att EXCEPT ![i].phase = "settled"] EXCEPT ![i].launches = n]
            = [att EXCEPT ![i] = e]
      BY <1>3 DEF TypeOK
    <3>6. att' = [[att EXCEPT ![i] = e] EXCEPT ![n] = c]
      BY <3>1, <3>5 DEF Claimed
    <3> HIDE DEF e, c, d
    <3>7. att' \in [Attempts -> AttemptType]
      BY <3>2, <3>3, <3>4, <3>6 DEF TypeOK
    <3>8. BuildsOK(att', next', m_in_flight', reader)
      BY <1>1, <3>1, <3>3, <3>4, <3>6, SettleClaim
    <3>9. m_stale' \subseteq {p \in Outs : Declared(p)} /\ m_in_flight' \subseteq Outs
      BY <1>1, <2>1, <3>1 DEF StaleAfter, TypeOK
    <3> QED  BY <3>1, <3>7, <3>8, <3>9 DEF TypeOK
  <2>2. CASE Declared(o) /\ ~Rebuilds(o)
    <3>1. /\ m_stale' = StaleAfter(o, att[i].ok)
          /\ m_in_flight' = m_in_flight \ {o}
          /\ att' = [att EXCEPT ![i] = d]
          /\ next' = next
      BY <1>3, <2>2 DEF Settle
    <3>2. next[o] = None /\ next = [next EXCEPT ![o] = None]
      BY <1>1, <2>2 DEF Rebuilds, TypeOK
    <3> HIDE DEF d
    <3>3. BuildsOK(att', next', m_in_flight', reader)
      BY <1>1, <1>2, <3>1, <3>2, SettleLast
    <3>4. m_stale' \subseteq {p \in Outs : Declared(p)}
      BY <1>1, <2>2, <3>1 DEF StaleAfter, TypeOK
    <3> QED  BY <1>2, <3>1, <3>3, <3>4 DEF TypeOK
  <2>3. CASE ~Declared(o)
    <3> DEFINE e == [d EXCEPT !.orphaned = next[o]]
    <3>1. /\ m_in_flight' = m_in_flight \ {o}
          /\ att' = [[att EXCEPT ![i].phase = "settled"] EXCEPT ![i].orphaned = next[o]]
          /\ next' = [next EXCEPT ![o] = None]
          /\ m_stale' = m_stale
      BY <2>3 DEF Settle
    <3>2. next[o] \in Attempts \cup {None}
      BY <1>1 DEF TypeOK
    <3>3. e \in AttemptType /\ e.phase = "settled" /\ e.out = o /\ e.orphaned = next[o]
      <4> HIDE DEF d, o
      <4>1. e \in AttemptType
        BY <1>2, <3>2, ChangedType
      <4>2. DOMAIN d = {"phase", "out", "command", "reads", "seen", "bytes", "input",
                        "target", "invalidations", "ok", "keep", "stamps", "orphaned",
                        "launches"}
        BY <1>2 DEF AttemptType
      <4>3. e.phase = "settled" /\ e.out = o /\ e.orphaned = next[o]
        BY <1>2, <4>2
      <4> QED  BY <4>1, <4>3
    <3>4. att' = [att EXCEPT ![i] = e]
      BY <1>3, <3>1 DEF TypeOK
    <3> HIDE DEF e, d
    <3>5. BuildsOK(att', next', m_in_flight', reader)
      BY <1>1, <3>1, <3>3, <3>4, SettleLast
    <3> QED  BY <3>1, <3>3, <3>4, <3>5 DEF TypeOK
  <2> QED  BY <2>1, <2>2, <2>3
<1>7. TypeOK'
  BY <1>4, <1>5, <1>6 DEF TypeOK, sourceVars, fileVars, cacheVars, Declared
<1>8. Accounts' /\ WatcherOK'
  BY <1>5, <1>6 DEF Accounts, WatcherOK
<1> QED  BY <1>7, <1>8

LEMMA CompleteInv ==
    ASSUME Inv, NEW i \in Attempts, Complete(i)
    PROVE  Inv'
<1> USE DEF Inv
<1> DEFINE over  == Ends(i)
           ok(t) == t = i /\ att[i].ok
           left  == IF att[i].keep THEN [att[i] EXCEPT !.phase = "completed"] ELSE Free
           woken(j) == [att[j] EXCEPT !.target = None,
                           !.phase = IF ok(att[j].target) THEN "opening" ELSE "failed"]
           told(r)  == [reader[r] EXCEPT !.target = None,
                           !.state = IF ok(reader[r].target) THEN "reading" ELSE "error"]
<1>1. /\ att[i].phase = "settled"
      /\ \A j \in Attempts : att[j] \in AttemptType
      /\ \A r \in Readers : reader[r] \in ReaderType
  BY DEF Complete, TypeOK
<1>2. /\ i \in over
      /\ att[i].orphaned # None => att[i].orphaned \in over
      /\ \A t \in over : t # i => t = att[i].orphaned /\ t # None /\ att[t].phase = "next"
  <2>1. i # None
    BY NoneAssumption DEF NoneAssumption
  <2> QED  BY <1>1, <2>1 DEF Ends, Accounts, BuildsOK, OrphansOK
<1>3. left \in AttemptType /\ left.phase \in {"completed", "free"}
      /\ (left.phase # "free" => left.out = att[i].out)
  <2>1. [att[i] EXCEPT !.phase = "completed"] \in AttemptType
    <3>1. "completed" \in Phases
      BY DEF Phases
    <3> QED  BY <1>1, <3>1, ChangedType
  <2>2. /\ [att[i] EXCEPT !.phase = "completed"].phase = "completed"
        /\ [att[i] EXCEPT !.phase = "completed"].out = att[i].out
    BY <1>1 DEF AttemptType
  <2> QED  BY <2>1, <2>2, FreeType DEF Free
<1>4. \A j \in Attempts : /\ woken(j) \in AttemptType
                          /\ woken(j).target = None
                          /\ woken(j).phase \in {"opening", "failed"}
                          /\ woken(j).out = att[j].out /\ woken(j).input = att[j].input
                          /\ woken(j).orphaned = att[j].orphaned
  <2> TAKE j \in Attempts
  <2> DEFINE p == IF ok(att[j].target) THEN "opening" ELSE "failed"
  <2>1. p \in {"opening", "failed"} /\ p \in Phases
    BY DEF Phases, UnderWay
  <2> HIDE DEF p
  <2>2. att[j] \in AttemptType
    BY <1>1
  <2>3. woken(j) = [att[j] EXCEPT !.target = None, !.phase = p]
    BY DEF p
  <2>4. woken(j) \in AttemptType
    BY <2>1, <2>2, <2>3, ChangedType
  <2>5. /\ woken(j).target = None /\ woken(j).phase = p
        /\ woken(j).out = att[j].out /\ woken(j).input = att[j].input
        /\ woken(j).orphaned = att[j].orphaned
    BY <2>2, <2>3 DEF AttemptType
  <2> HIDE DEF woken
  <2> QED  BY <2>1, <2>4, <2>5
<1>5. \A r \in Readers : /\ told(r) \in ReaderType
                         /\ told(r).state \in {"reading", "error"}
                         /\ told(r).out = reader[r].out
  BY <1>1 DEF ReaderType
<1>6. att' = [j \in Attempts |->
                 CASE j = i -> left
                   [] j \in over \ {i} -> Free
                   [] att[j].phase = "opening" /\ att[j].target \in over -> woken(j)
                   [] OTHER -> att[j]]
  BY DEF Complete
<1>7. reader' = [r \in Readers |->
                    IF reader[r].state = "waiting" /\ reader[r].target \in over
                    THEN told(r) ELSE reader[r]]
  BY DEF Complete
<1> HIDE DEF left, woken, told, over
<1>8. /\ att'[i] = left
      /\ \A j \in over \cap Attempts : j # i => att'[j] = Free
      /\ \A j \in Attempts \ over :
            att[j].phase = "opening" /\ att[j].target \in over => att'[j] = woken(j)
      /\ \A j \in Attempts \ over :
            ~(att[j].phase = "opening" /\ att[j].target \in over) => att'[j] = att[j]
  <2>1. att'[i] = left
    BY <1>1, <1>2, <1>6
  <2>2. \A j \in over \cap Attempts : j # i => att'[j] = Free
    BY <1>2, <1>6
  <2>3. \A j \in Attempts \ over :
            att[j].phase = "opening" /\ att[j].target \in over => att'[j] = woken(j)
    BY <1>2, <1>6
  <2>4. \A j \in Attempts \ over :
            ~(att[j].phase = "opening" /\ att[j].target \in over) => att'[j] = att[j]
    BY <1>2, <1>6
  <2> QED  BY <2>1, <2>2, <2>3, <2>4
<1>9. att' \in [Attempts -> AttemptType]
  BY <1>3, <1>4, <1>6, <1>1, FreeType
<1>10. reader' \in [Readers -> ReaderType]
  BY <1>5, <1>7, <1>1
<1>11. Free.phase = "free"
  BY DEF Free
<1>12. \A j \in Attempts :
           /\ att[j].phase \in UnderWay =>
                 /\ j \notin over
                 /\ att'[j].phase \in UnderWay
                 /\ att'[j].out = att[j].out /\ att'[j].orphaned = att[j].orphaned
           /\ att'[j].phase \in UnderWay => att[j].phase \in UnderWay
           /\ att'[j].phase = "asked" => att'[j] = att[j]
           /\ att'[j].phase = "opening" =>
                 /\ att[j].phase = "opening" /\ att'[j].input = att[j].input
                 /\ att'[j].target # None =>
                       att'[j].target = att[j].target /\ att[j].target \notin over
           /\ att'[j].phase \in {"next", "settled"} => j \notin over /\ att'[j] = att[j]
           /\ att[j].phase \in {"next", "settled"} /\ j \notin over => att'[j] = att[j]
           /\ att'[j].phase # "free" => att[j].phase # "free" /\ att'[j].out = att[j].out
  <2> TAKE j \in Attempts
  <2>1. CASE j = i
    BY <1>1, <1>2, <1>3, <1>8, <2>1 DEF UnderWay
  <2>2. CASE j \in over /\ j # i
    BY <1>2, <1>8, <1>11, <2>2 DEF UnderWay
  <2>3. CASE j \notin over /\ att[j].phase = "opening" /\ att[j].target \in over
    BY <1>4, <1>8, <2>3 DEF UnderWay
  <2>4. CASE j \notin over /\ ~(att[j].phase = "opening" /\ att[j].target \in over)
    <3>1. att'[j] = att[j]
      BY <1>8, <2>4
    <3>2. att[j].phase = "opening" => att[j].target \notin over
      BY <2>4
    <3> QED  BY <2>4, <3>1, <3>2
  <2> QED  BY <1>2, <2>1, <2>2, <2>3, <2>4
<1>13. UNCHANGED <<sourceVars, bookVars, fileVars, cacheVars, watcher, materializing, applied>>
  BY DEF Complete
<1>14. InFlightOK(att', m_in_flight)
  <2>1. \A o \in Outs : Builds(att', o) = Builds(att, o)
    BY <1>12 DEF Builds
  <2> QED  BY <1>12, <2>1 DEF Accounts, BuildsOK, InFlightOK
<1>15. NextOK(att', next, m_in_flight)
  <2> SUFFICES ASSUME NEW o \in Outs, next[o] # None
               PROVE  o \in m_in_flight /\ att'[next[o]].phase = "next"
                      /\ att'[next[o]].out = o
    BY DEF NextOK
  <2>1. next[o] \in Attempts /\ o \in m_in_flight /\ att[next[o]].phase = "next"
        /\ att[next[o]].out = o
    BY DEF TypeOK, Accounts, BuildsOK, NextOK
  <2>2. next[o] \notin over
    <3>1. next[o] # i
      BY <1>1, <2>1
    <3>2. att[i].orphaned # None => next[o] # att[i].orphaned
      BY <1>1 DEF Accounts, BuildsOK, OrphansOK
    <3> QED  BY <1>2, <3>1, <3>2
  <2> QED  BY <1>12, <2>1, <2>2
<1>16. OrphansOK(att', next)
  <2>1. ASSUME NEW j \in Attempts, att'[j].phase = "next"
        PROVE  \/ next[att'[j].out] = j
               \/ \E k \in Attempts : att'[k].phase = "settled" /\ att'[k].orphaned = j
    <3>1. j \notin over /\ att'[j] = att[j]
      BY <1>12, <2>1
    <3>2. CASE next[att[j].out] # j
      <4>1. PICK k \in Attempts : att[k].phase = "settled" /\ att[k].orphaned = j
        BY <2>1, <3>1, <3>2 DEF Accounts, BuildsOK, OrphansOK
      <4>2. j # None
        BY NoneAssumption DEF NoneAssumption
      <4>3. k \notin over
        BY <1>2, <3>1, <4>1, <4>2
      <4> QED  BY <1>12, <4>1, <4>3
    <3> QED  BY <3>1, <3>2
  <2>2. ASSUME NEW j \in Attempts, att'[j].phase = "settled", att'[j].orphaned # None
        PROVE  /\ att'[att'[j].orphaned].phase = "next"
               /\ \A o \in Outs : next[o] # att'[j].orphaned
               /\ \A k \in Attempts :
                     att'[k].phase = "settled" /\ att'[k].orphaned = att'[j].orphaned
                        => k = j
    <3>1. j \notin over /\ att'[j] = att[j]
      BY <1>12, <2>2
    <3>2. /\ att[att[j].orphaned].phase = "next" /\ att[j].orphaned \in Attempts
          /\ \A o \in Outs : next[o] # att[j].orphaned
          /\ \A k \in Attempts :
                att[k].phase = "settled" /\ att[k].orphaned = att[j].orphaned => k = j
      BY <1>1, <2>2, <3>1 DEF Accounts, BuildsOK, OrphansOK, AttemptType
    <3>3. att[j].orphaned \notin over
      BY <1>1, <1>2, <3>1, <3>2
    <3>4. att'[att[j].orphaned].phase = "next"
      BY <1>12, <3>2, <3>3
    <3> QED  BY <1>12, <3>1, <3>2, <3>4
  <2>3. \A j \in Attempts : att'[j].phase \in UnderWay => att'[j].orphaned = None
    BY <1>12 DEF Accounts, BuildsOK, OrphansOK
  <2> QED  BY <2>1, <2>2, <2>3 DEF OrphansOK
<1>17. ASSUME NEW t, NEW o, t \notin over, IsComing(att, t, o)
       PROVE  IsComing(att', t, o)
  BY <1>12, <1>17 DEF IsComing, Coming
<1>18. WaitersOK(att', reader')
  <2>1. ASSUME NEW j \in Attempts
        PROVE  /\ att'[j].phase \in {"asked", "opening"} => att'[j].input \in Outs
               /\ att'[j].phase = "opening" /\ att'[j].target # None
                     => IsComing(att', att'[j].target, att'[j].input)
    BY <1>12, <1>17 DEF Accounts, BuildsOK, WaitersOK
  <2>2. ASSUME NEW r \in Readers
        PROVE  /\ reader'[r].state = "waiting"
                     => IsComing(att', reader'[r].target, reader'[r].out)
               /\ reader'[r].state = "reading" => reader'[r].out \in Outs
    <3>1. CASE reader[r].state = "waiting" /\ reader[r].target \in over
      <4>1. reader'[r] = told(r)
        BY <1>7, <3>1
      <4>2. reader[r].out \in Outs
        <5>1. IsComing(att, reader[r].target, reader[r].out)
          BY <3>1 DEF Accounts, BuildsOK, WaitersOK
        <5> QED  BY <5>1 DEF IsComing, Coming, UnderWay, Accounts, BuildsOK, InFlightOK
      <4> QED  BY <1>5, <4>1, <4>2
    <3>2. CASE ~(reader[r].state = "waiting" /\ reader[r].target \in over)
      <4>1. reader'[r] = reader[r]
        BY <1>7, <3>2
      <4> QED  BY <1>17, <3>2, <4>1 DEF Accounts, BuildsOK, WaitersOK
    <3> QED  BY <3>1, <3>2
  <2> QED  BY <2>1, <2>2 DEF WaitersOK
<1>19. Accounts'
  BY <1>13, <1>14, <1>15, <1>16, <1>18 DEF Accounts, BuildsOK, bookVars
<1>20. TypeOK'
  BY <1>9, <1>10, <1>13 DEF TypeOK, sourceVars, bookVars, fileVars, cacheVars, Declared
<1>21. WatcherOK'
  BY <1>13 DEF WatcherOK
<1> QED  BY <1>19, <1>20, <1>21

(* What is kept in the cache is kept after the end.                        *)
LEMMA KeepInv ==
    ASSUME Inv, NEW i \in Attempts, KeepCheck(i) \/ KeepStore(i)
    PROVE  Inv'
<1> USE DEF Inv
<1>0. att[i] \in AttemptType
  BY DEF TypeOK
<1>1. CASE KeepCheck(i)
  <2> DEFINE generated == att[i].reads \cap Outs
             keepable  == AsStarted(i) /\ \A o \in generated : m_hashes[o] # None
             stamps    == IF keepable THEN {<<o, m_hashes[o]>> : o \in generated} ELSE {}
             c == [att[i] EXCEPT !.phase = "keeping", !.keep = keepable, !.stamps = stamps]
  <2>1. stamps \in SUBSET (Outs \X SUBSET Made)
    BY DEF TypeOK
  <2>2. keepable \in BOOLEAN
    BY DEF AsStarted
  <2>3. att[i].phase = "completed" /\ att' = [att EXCEPT ![i] = c]
    BY <1>1 DEF KeepCheck, TypeOK
  <2> HIDE DEF stamps, keepable
  <2>4. c \in AttemptType
    <3>1. PICK k \in BOOLEAN : k = keepable
      BY <2>2
    <3>2. PICK st \in SUBSET (Outs \X SUBSET Made) : st = stamps
      BY <2>1
    <3>3. "keeping" \in Phases
      BY DEF Phases
    <3>4. [att[i] EXCEPT !.phase = "keeping", !.keep = k, !.stamps = st] \in AttemptType
      BY <1>0, <3>3, ChangedType
    <3> QED  BY <3>1, <3>2, <3>4
  <2>5. SameKind(att[i], c)
    BY <1>0, <2>3 DEF SameKind, AttemptType, UnderWay, Coming
  <2>6. UNCHANGED <<sourceVars, bookVars, fileVars, record, undropped, watcher,
                    materializing, reader, applied>> /\ m_cache_mutex' = i
    BY <1>1 DEF KeepCheck
  <2>7. att' \in [Attempts -> AttemptType] /\ Accounts'
    BY <2>3, <2>4, <2>5, <2>6, OneGoesOn DEF bookVars
  <2>8. TypeOK'
    BY <2>6, <2>7 DEF TypeOK, sourceVars, bookVars, fileVars, Declared
  <2>9. WatcherOK'
    BY <2>6 DEF WatcherOK
  <2> QED  BY <2>7, <2>8, <2>9
<1>2. CASE KeepStore(i)
  <2> DEFINE stamps == att[i].stamps
                         \cup {<<s, version[s]>> : s \in att[i].reads \cap Sources}
             new == IF att[i].keep THEN [command |-> att[i].command,
                                         bytes |-> att[i].bytes, inputs |-> stamps]
                                   ELSE None
  <2>1. att[i].phase = "keeping" /\ att' = [att EXCEPT ![i] = Free]
        /\ (record' = [record EXCEPT ![att[i].out] = new] \/ record' = record)
        /\ UNCHANGED <<sourceVars, bookVars, fileVars, watcher, materializing,
                       reader, applied>> /\ m_cache_mutex' = None
        /\ undropped' \subseteq undropped
    BY <1>2 DEF KeepStore
  <2>2. SameKind(att[i], Free)
    BY <2>1 DEF SameKind, Free, UnderWay, Coming
  <2>3. att' \in [Attempts -> AttemptType] /\ Accounts'
    BY <2>1, <2>2, FreeType, OneGoesOn DEF bookVars
  <2>4. att[i].out \in Outs
    BY <2>1 DEF Accounts, BuildsOK, InFlightOK
  <2>5. new \in RecordType \cup {None}
    <3>1. stamps \in SUBSET ((Sources \X Nat) \cup (Outs \X SUBSET Made))
      <4>1. \A s \in Sources : version[s] \in Nat
        BY BoundsAssumption DEF TypeOK, BoundsAssumption
      <4>2. att[i].stamps \in SUBSET (Outs \X SUBSET Made)
        BY <1>0 DEF AttemptType
      <4> QED  BY <4>1, <4>2
    <3>2. att[i].command \in 0..2 /\ att[i].bytes \in SUBSET Made
      BY <1>0 DEF AttemptType
    <3> HIDE DEF stamps
    <3> QED  BY <3>1, <3>2 DEF RecordType
  <2> HIDE DEF new
  <2>6. record' \in [Outs -> RecordType \cup {None}]
    BY <2>1, <2>4, <2>5 DEF TypeOK
  <2>7. TypeOK'
    BY <2>1, <2>3, <2>6 DEF TypeOK, sourceVars, bookVars, fileVars, Declared
  <2>8. WatcherOK'
    BY <2>1 DEF WatcherOK
  <2> QED  BY <2>3, <2>7, <2>8
<1> QED  BY <1>1, <1>2

-----------------------------------------------------------------------------
(* The watcher thread.                                                     *)

LEMMA OnwardType ==
    ASSUME NEW w \in WatcherType
    PROVE  Onward(w) \in WatcherType /\ Onward(w).at # "mark"
<1>1. CASE w.eager # {}
  <2>1. Onward(w) = [w EXCEPT !.at = "eager"]
    BY <1>1 DEF Onward
  <2> QED  BY <2>1 DEF WatcherType
<1>2. CASE w.eager = {} /\ w.then = "collect"
  <2>1. Onward(w) = [Idle EXCEPT !.at = "collect", !.diff = w.diff]
    BY <1>2 DEF Onward
  <2> QED  BY <2>1, IdleType DEF WatcherType, Idle
<1>3. CASE w.eager = {} /\ w.then # "collect"
  <2>1. Onward(w) = Idle
    BY <1>3 DEF Onward
  <2> QED  BY <2>1, IdleType DEF Idle
<1> QED  BY <1>1, <1>2, <1>3

LEMMA MissesFacts ==
    ASSUME TypeOK, NEW O, att' = Misses(O)
    PROVE  att' \in [Attempts -> AttemptType] /\ \A i \in Attempts : SameKind(att[i], att'[i])
<1> SUFFICES ASSUME NEW i \in Attempts
             PROVE  att'[i] \in AttemptType /\ SameKind(att[i], att'[i])
  BY DEF Misses
<1> DEFINE c == [att[i] EXCEPT !.bytes = @ \cup {Missed}]
<1>1. att[i] \in AttemptType
  BY DEF TypeOK
<1>2. att[i].bytes \cup {Missed} \in SUBSET Made
  BY <1>1 DEF AttemptType, Made
<1>3. c \in AttemptType /\ SameKind(att[i], c)
  BY <1>1, <1>2 DEF AttemptType, SameKind
<1>4. SameKind(att[i], att[i])
  BY DEF SameKind
<1>5. att'[i] \in {c, att[i]}
  BY DEF Misses
<1> QED  BY <1>1, <1>3, <1>4, <1>5

LEMMA ApplyRulesInv ==
    ASSUME Inv, NEW d \in {Manifest, Everything}, apply_rules(d)
    PROVE  Inv'
<1> USE DEF Inv
<1> DEFINE removed == {o \in Outs : Declared(o) /\ manifest[o] = 0}
           added   == {o \in Outs : ~Declared(o) /\ manifest[o] # 0}
           changed == {o \in Outs : Declared(o) /\ manifest[o] \notin {0, m_commands[o]}}
           eager   == IF m_materialize_all THEN added ELSE {}
           at == Laying(removed \cup added)
           w == [Idle EXCEPT !.at = at, !.diff = d, !.removed = removed, !.added = added,
                             !.left = removed \cup added, !.outputs = changed \cup eager]
<1>1. w \in WatcherType /\ w.at # "mark"
  <2>1. removed \in SUBSET Outs /\ added \in SUBSET Outs
        /\ changed \cup eager \in SUBSET Outs /\ at \in {"layout", "readers"}
    BY DEF Laying
  <2> HIDE DEF removed, added, changed, eager, at
  <2> QED  BY <2>1, IdleType DEF WatcherType, Idle
<1>2. next' = next
  <2>1. \A o \in Outs : o \notin m_in_flight => next[o] = None
    BY DEF Accounts, BuildsOK, NextOK
  <2>2. \A o \in Outs : next'[o] = next[o]
    BY <2>1 DEF apply_rules
  <2>3. next' = [o \in Outs |-> next'[o]] /\ next = [o \in Outs |-> next[o]]
    BY DEF apply_rules, TypeOK
  <2> QED  BY <2>2, <2>3
<1>3. m_stale' \cup m_materialized' \subseteq {o \in Outs : manifest[o] # 0}
  BY DEF apply_rules, TypeOK, Declared
<1>4. m_invalidations' \in [Outs -> Nat]
  BY DEF apply_rules, TypeOK
<1>5. /\ m_hashes' \in [Outs -> (SUBSET Made) \cup {None}]
      /\ m_dependencies' \in [Outs -> SUBSET (Sources \cup Outs)]
  BY DEF apply_rules, TypeOK
<1>6. pending' \subseteq Sources \cup {Manifest, Everything}
  BY DEF apply_rules, TypeOK
<1>7. /\ watcher' = w /\ m_commands' = manifest
      /\ UNCHANGED <<watcherOnly, m_in_flight, m_materialize_all, fileVars, cacheVars, att,
                     applied>>
  BY DEF apply_rules
<1> HIDE DEF w
<1>8. TypeOK'
  <2>1. m_stale' \cup m_materialized' \subseteq {o \in Outs : Declared(o)'}
    BY <1>3, <1>7 DEF Declared
  <2> QED  BY <1>1, <1>2, <1>4, <1>5, <1>6, <1>7, <2>1
           DEF TypeOK, watcherOnly, fileVars, cacheVars
<1>9. Accounts' /\ WatcherOK'
  BY <1>1, <1>2, <1>7 DEF Accounts, WatcherOK, watcherOnly
<1> QED  BY <1>8, <1>9

LEMMA PlaceFileInv ==
    ASSUME Inv, NEW o \in Outs, PlaceFile(o)
    PROVE  Inv'
<1> USE DEF Inv
<1> DEFINE at == Laying(watcher.left \ {o})
<1>1. /\ watcher' = [watcher EXCEPT !.at = at, !.left = @ \ {o}]
      /\ UNCHANGED <<watcherOnly, pending, bookVars, unretried, cacheVars, att, applied>>
  BY DEF PlaceFile, TypeOK
<1>2. at \in {"layout", "readers"}
  BY DEF Laying
<1> HIDE DEF at
<1>3. watcher' \in WatcherType /\ watcher'.at # "mark"
  BY <1>1, <1>2 DEF TypeOK, WatcherType
<1>4. files' \subseteq Outs /\ content' \in [Outs -> SUBSET Made]
  BY DEF PlaceFile, TypeOK
<1>5. TypeOK'
  BY <1>1, <1>3, <1>4 DEF TypeOK, watcherOnly, bookVars, cacheVars, Declared
<1>6. Accounts' /\ WatcherOK'
  BY <1>1, <1>3 DEF Accounts, WatcherOK, watcherOnly, bookVars
<1> QED  BY <1>5, <1>6

LEMMA CollectInv ==
    ASSUME Inv, FindReaders \/ \E d \in Sources \cup {Manifest, Everything} : Collect(d)
    PROVE  Inv'
<1> USE DEF Inv
<1>1. /\ UNCHANGED <<watcherOnly, bookVars, fileVars, cacheVars, applied>>
      /\ \E O : att' = Misses(O)
      /\ pending' \subseteq pending
      /\ watcher' \in WatcherType /\ WatcherOK'
  <2>1. CASE FindReaders
    <3> DEFINE readers == ReadersOf(watcher.removed \cup watcher.added)
    <3>1. /\ watcher' = [watcher EXCEPT !.at = "forget_removed", !.outputs = @ \cup readers]
          /\ \E O : att' = Misses(O)
          /\ UNCHANGED <<watcherOnly, pending, bookVars, fileVars, cacheVars, applied>>
      BY <2>1 DEF FindReaders
    <3>2. readers \in SUBSET Outs /\ watcher \in WatcherType
      BY DEF ReadersOf, m_dependents, TypeOK
    <3> HIDE DEF readers
    <3>3. watcher' \in WatcherType /\ watcher'.at = "forget_removed"
      BY <3>1, <3>2 DEF WatcherType
    <3> QED  BY <3>1, <3>3 DEF WatcherOK
  <2>2. CASE \E d \in Sources \cup {Manifest, Everything} : Collect(d)
    <3>1. PICK d \in Sources \cup {Manifest, Everything} : Collect(d)
      BY <2>2
    <3> DEFINE affected == IF d = Everything THEN {o \in Outs : Declared(o)}
                                             ELSE m_dependents(d)
    <3>2. /\ watcher' = [Idle EXCEPT !.at = "mark", !.diff = d, !.outputs = affected,
                                     !.upto = version]
          /\ \E O : att' = Misses(O)
          /\ pending' \subseteq pending
          /\ UNCHANGED <<watcherOnly, bookVars, fileVars, cacheVars, applied>>
      BY <3>1 DEF Collect
    <3>3. affected \in SUBSET Outs /\ version \in [Sources -> Nat]
      BY BoundsAssumption DEF m_dependents, TypeOK, BoundsAssumption
    <3> HIDE DEF affected
    <3>4. watcher' \in WatcherType /\ watcher'.upto = version
      BY <3>2, <3>3, IdleType DEF WatcherType, Idle
    <3>5. WatcherOK'
      BY <3>3, <3>4 DEF WatcherOK
    <3> QED  BY <3>2, <3>4, <3>5
  <2> QED  BY <2>1, <2>2
<1>2. att' \in [Attempts -> AttemptType] /\ \A i \in Attempts : SameKind(att[i], att'[i])
  BY <1>1, MissesFacts
<1>3. Accounts'
  BY <1>1, <1>2, GoOn DEF bookVars, watcherOnly
<1>4. TypeOK'
  BY <1>1, <1>2 DEF TypeOK, watcherOnly, bookVars, fileVars, cacheVars, Declared
<1> QED  BY <1>1, <1>3, <1>4

LEMMA MarkInv ==
    ASSUME Inv, Mark
    PROVE  Inv'
<1> USE DEF Inv
<1> DEFINE seen   == Downstream(watcher.outputs)
           eager  == (seen \cap m_materialized) \ m_in_flight
           marked == [watcher EXCEPT !.at = "forget", !.outputs = seen, !.upto = None,
                                     !.eager = eager]
<1>1. /\ watcher.at = "mark"
      /\ m_stale' = m_stale \cup seen
      /\ m_invalidations' = [o \in Outs |->
             m_invalidations[o] + (IF o \in seen THEN 1 ELSE 0)]
      /\ watcher' = IF HasCache /\ seen # {} THEN marked
                    ELSE Onward([marked EXCEPT !.outputs = {}])
      /\ att' = Misses(Reading(seen) \ seen)
      /\ applied' = [s \in Sources |->
             IF watcher.then = "idle" /\ watcher.diff \in {s, Everything}
             THEN watcher.upto[s] ELSE applied[s]]
      /\ UNCHANGED <<watcherOnly, pending, m_commands, m_in_flight, next,
                     m_materialized, m_materialize_all, m_dependencies,
                     m_hashes, fileVars, cacheVars>>
  BY DEF Mark
<1>2. seen \subseteq {o \in Outs : Declared(o)}
  BY DEF Downstream
<1> HIDE DEF seen
<1>3. watcher' \in WatcherType /\ watcher'.at # "mark"
  <2>1. watcher \in WatcherType /\ eager \in SUBSET Outs /\ seen \in SUBSET Outs
    BY <1>2 DEF TypeOK
  <2> HIDE DEF eager
  <2>2. marked \in WatcherType /\ marked.at = "forget"
    BY <2>1 DEF WatcherType
  <2>3. [marked EXCEPT !.outputs = {}] \in WatcherType
    BY <2>2 DEF WatcherType
  <2> QED  BY <1>1, <2>2, <2>3, OnwardType
<1>4. applied' \in [Sources -> Nat]
  <2>1. watcher.then = "idle" => watcher.upto \in [Sources -> Nat]
    BY <1>1 DEF WatcherOK
  <2> QED  BY <1>1, <2>1 DEF TypeOK
<1>5. m_invalidations' \in [Outs -> Nat]
  BY <1>1 DEF TypeOK
<1>6. att' \in [Attempts -> AttemptType] /\ \A i \in Attempts : SameKind(att[i], att'[i])
  BY <1>1, MissesFacts
<1>7. Accounts'
  BY <1>1, <1>6, GoOn DEF watcherOnly
<1>8. TypeOK'
  <2>1. m_stale' \cup m_materialized' \subseteq {o \in Outs : Declared(o)'}
    BY <1>1, <1>2 DEF TypeOK, Declared
  <2> QED  BY <1>1, <1>3, <1>4, <1>5, <1>6, <2>1 DEF TypeOK, watcherOnly, fileVars, cacheVars
<1> QED  BY <1>3, <1>7, <1>8 DEF WatcherOK

LEMMA ForgetInv ==
    ASSUME Inv, ForgetRemoved \/ Forget
    PROVE  Inv'
<1> USE DEF Inv
<1>1. /\ UNCHANGED <<sourceVars, bookVars, fileVars, att, materializing, reader, applied>>
      /\ m_cache_mutex' = m_cache_mutex
      /\ record' \in [Outs -> RecordType \cup {None}] /\ undropped' \subseteq Outs
  <2>1. watcher.removed \subseteq Outs /\ watcher.outputs \subseteq Outs
    BY DEF TypeOK, WatcherType
  <2> QED  BY <2>1 DEF ForgetRemoved, Forget, forget_in_cache, TypeOK
<1>2. watcher' \in WatcherType /\ WatcherOK'
  <2>1. watcher \in WatcherType
    BY DEF TypeOK
  <2>2. CASE ForgetRemoved
    <3>1. watcher' = [watcher EXCEPT !.at = "mark", !.then = "collect",
                                     !.removed = {}, !.added = {}]
      BY <2>2 DEF ForgetRemoved
    <3>2. watcher' \in WatcherType /\ watcher'.then = "collect"
      BY <2>1, <3>1 DEF WatcherType
    <3> QED  BY <3>2 DEF WatcherOK
  <2>3. CASE Forget
    <3>1. [watcher EXCEPT !.outputs = {}] \in WatcherType
      BY <2>1 DEF WatcherType
    <3> QED  BY <2>3, <3>1, OnwardType DEF Forget, WatcherOK
  <2> QED  BY <2>2, <2>3
<1>3. Accounts'
  BY <1>1 DEF Accounts, bookVars
<1>4. TypeOK'
  BY <1>1, <1>2 DEF TypeOK, sourceVars, bookVars, fileVars, Declared
<1> QED  BY <1>2, <1>3, <1>4

LEMMA StartEagerInv ==
    ASSUME Inv, NEW o \in Outs, StartEager(o)
    PROVE  Inv'
<1> USE DEF Inv
<1>1. /\ start_build(o)
      /\ watcher' = Onward([watcher EXCEPT !.eager = @ \ {o}])
      /\ UNCHANGED <<watcherOnly, pending, bookRest, m_materialized, fileVars, cacheVars,
                     applied>>
  BY DEF StartEager
<1>2. watcher' \in WatcherType /\ WatcherOK'
  <2>1. [watcher EXCEPT !.eager = @ \ {o}] \in WatcherType
    BY DEF TypeOK, WatcherType
  <2> QED  BY <1>1, <2>1, OnwardType DEF WatcherOK
<1>3. /\ att' \in [Attempts -> AttemptType]
      /\ Accounts'
      /\ next' \in [Outs -> Attempts \cup {None}]
      /\ m_in_flight' \subseteq Outs
      /\ m_stale' \subseteq m_stale
  BY <1>1, StartFacts DEF watcherOnly
<1>4. TypeOK'
  BY <1>1, <1>2, <1>3 DEF TypeOK, watcherOnly, bookRest, fileVars, cacheVars, Declared
<1> QED  BY <1>2, <1>3, <1>4

-----------------------------------------------------------------------------
LEMMA RestartInv ==
    ASSUME Inv, NEW restored \in SUBSET Outs, Restart(restored)
    PROVE  Inv'
<1> USE DEF Inv
<1>1. \A o \in restored : record[o] # None
  BY DEF Restart, Hold
<1>2. \A o \in restored : record[o] \in RecordType
  BY <1>1 DEF TypeOK
<1>3. ASSUME NEW o \in restored
      PROVE  /\ {e[1] : e \in record[o].inputs} \subseteq Sources \cup Outs
             /\ record[o].bytes \in SUBSET Made
  <2>1. record[o].inputs \in SUBSET ((Sources \X Nat) \cup (Outs \X SUBSET Made))
        /\ record[o].bytes \in SUBSET Made
    BY <1>2 DEF RecordType
  <2> QED  BY <2>1
<1>4. /\ m_dependencies' \in [Outs -> SUBSET (Sources \cup Outs)]
      /\ m_hashes' \in [Outs -> (SUBSET Made) \cup {None}]
      /\ content' \in [Outs -> SUBSET Made]
      /\ record' \in [Outs -> RecordType \cup {None}] /\ undropped' \subseteq Outs
  <2>1. m_dependencies' \in [Outs -> SUBSET (Sources \cup Outs)]
    BY <1>3 DEF Restart
  <2>2. /\ m_hashes' \in [Outs -> (SUBSET Made) \cup {None}]
        /\ content' \in [Outs -> SUBSET Made]
    BY <1>3 DEF Restart, Served, Made
  <2>3. record' \in [Outs -> RecordType \cup {None}] /\ undropped' \subseteq Outs
    BY <1>2 DEF Restart, TypeOK, Left
  <2> QED  BY <2>1, <2>2, <2>3
<1>5. /\ reader' \in [Readers -> ReaderType]
      /\ \A r \in Readers : reader'[r].state \notin {"waiting", "reading"}
  <2> SUFFICES ASSUME NEW r \in Readers
               PROVE  /\ reader'[r] \in ReaderType
                      /\ reader'[r].state \notin {"waiting", "reading"}
    BY DEF Restart
  <2>1. reader[r] \in ReaderType
    BY DEF TypeOK
  <2>2. CASE reader[r].state \in {"waiting", "reading"}
    <3>1. reader'[r] = [reader[r] EXCEPT !.state = "error", !.target = None]
      BY <2>2 DEF Restart
    <3> QED  BY <2>1, <3>1 DEF ReaderType
  <2>3. CASE reader[r].state \notin {"waiting", "reading"}
    BY <2>1, <2>3 DEF Restart
  <2> QED  BY <2>2, <2>3
<1>6. att' = [i \in Attempts |-> Free] /\ watcher' = Idle
  BY DEF Restart
<1>7. TypeOK'
  <2>1. applied' \in [Sources -> Nat] /\ version' \in [Sources -> 0..MaxVersion]
    <3>1. version' = version /\ applied' = version
      BY DEF Restart
    <3>2. version \in [Sources -> 0..MaxVersion] /\ version \in [Sources -> Nat]
      BY BoundsAssumption DEF TypeOK, BoundsAssumption
    <3> QED  BY <3>1, <3>2
  <2>2. m_stale' \cup m_materialized' \subseteq {o \in Outs : Declared(o)'}
    BY DEF Restart, Declared
  <2>3. att' \in [Attempts -> AttemptType] /\ watcher' \in WatcherType
    BY <1>6, FreeType, IdleType
  <2> QED  BY <1>4, <1>5, <2>1, <2>2, <2>3 DEF Restart, TypeOK
<1>8. Accounts'
  <2>1. \A i \in Attempts : att'[i].phase = "free"
    BY <1>6 DEF Free
  <2>2. m_in_flight' = {} /\ next' = [o \in Outs |-> None]
    BY DEF Restart
  <2>3. InFlightOK(att', m_in_flight')
    BY <2>1, <2>2 DEF InFlightOK, Builds, UnderWay
  <2>4. NextOK(att', next', m_in_flight') /\ OrphansOK(att', next')
    BY <2>1, <2>2 DEF NextOK, OrphansOK, UnderWay
  <2>5. WaitersOK(att', reader')
    BY <1>5, <2>1 DEF WaitersOK
  <2> QED  BY <2>3, <2>4, <2>5 DEF Accounts, BuildsOK
<1>9. WatcherOK'
  BY <1>6 DEF WatcherOK, Idle
<1> QED  BY <1>7, <1>8, <1>9

-----------------------------------------------------------------------------
LEMMA StepInv == Inv /\ [Next]_vars => Inv'
<1> SUFFICES ASSUME Inv, [Next]_vars PROVE Inv'
  OBVIOUS
<1>1. CASE \/ \E s \in Sources : Change(s)
           \/ \E o \in Outs, rule \in 0..2 : EditManifest(o, rule)
           \/ Overflow
           \/ materialize_all
           \/ UNCHANGED vars
  BY <1>1, WorldInv
<1>2. CASE \E r \in Readers : ReadOpened(r) \/ \E o \in Outs : open(r, o)
  BY <1>2, ReadOpenedInv, OpenInv
<1>3. CASE \E o \in Outs : MaterializeNext(o)
  BY <1>3, MaterializeNextInv
<1>4. ASSUME NEW i \in Attempts, Build(i) PROVE Inv'
  BY <1>4, BuildInv, OpenOutputInv DEF Build
<1>5. ASSUME NEW i \in Attempts, FinishBuild(i) PROVE Inv'
  BY <1>5, PublishInv, SettleInv, CompleteInv, KeepInv DEF FinishBuild
<1>6. CASE Watch
  BY <1>6, ApplyRulesInv, PlaceFileInv, CollectInv, MarkInv, ForgetInv, StartEagerInv DEF Watch
<1>7. CASE \E restored \in SUBSET Outs : Restart(restored)
  BY <1>7, RestartInv
<1> QED  BY <1>1, <1>2, <1>3, <1>4, <1>5, <1>6, <1>7 DEF Next

(* The invariant behind the theorems below holds in every reachable state  *)
(* of the tree, whichever way opens, builds, changes of sources and of the *)
(* manifest, and restarts interleave.                                      *)
THEOREM Invariance == Spec => []Inv
BY StepInv, InitInv, PTL DEF Spec

(* The tree's books are well formed: in particular, only outputs that are  *)
(* declared are stale or count as opened.                                  *)
THEOREM TypeCorrect == Spec => []TypeOK
<1>1. Inv => TypeOK
  BY DEF Inv
<1> QED  BY <1>1, Invariance, PTL

(* Exactly the outputs in flight have a build under way, and one; the next *)
(* build of an output has one ahead of it that starts or orphans it; and   *)
(* nobody waits on a build that is over or of another output, also when    *)
(* rules go away and come back while builds of them run and wait.          *)
THEOREM BuildsAlwaysAccountedFor == Spec => []BuildsAccountedFor
BY InvAccounts, Invariance, PTL

=============================================================================
