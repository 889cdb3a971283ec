------------------------ MODULE BuildCurrencyProofs ------------------------
(***************************************************************************)
(* That an output which counts as up to date is: for any sources, outputs, *)
(* rules, readers and changes, with builds that fail and a watcher that    *)
(* loses track, as long as the rules stay as they are and a tree is only   *)
(* created over a cache when no change is on its way; and that what is in  *)
(* the cache then is as it would be built, but for records that the cache  *)
(* failed to drop.                                                         *)
(*                                                                         *)
(* The invariant follows bytes from where they are read to where they are  *)
(* published.  An output that is Built has bytes made from inputs that are *)
(* all Built, and that are part of its own; a build under way has read     *)
(* only such inputs, unless it is Told of a change: its output is stale    *)
(* again, or its bytes carry the mark.  So what makes an input go out of   *)
(* date must reach what was made from it.  MarkOK says so of a change that *)
(* is collected and not yet applied: whatever has old bytes is reached     *)
(* from what was collected, also what is built in between.                 *)
(*                                                                         *)
(* What is in the cache is what is Built, until Mark says otherwise: then  *)
(* its record is the next thing the watcher drops (InWindow), or could not *)
(* be dropped and is left (undropped: what is restored from such a record, *)
(* or with one it is made from, carries the mark Missed), and a build      *)
(* that has yet to store one sees that its output was invalidated, unless  *)
(* it has looked already; if so it stores its record before the watcher    *)
(* drops it, for it holds m_cache_mutex until then (CacheInv).             *)
(*                                                                         *)
(* An open knows which outputs were built when it was made, and which have *)
(* been since, by builds that began after it or were not out of date then: *)
(* what it waits for is one of these or is about to be (SinceOK).          *)
(*                                                                         *)
(* An output that was opened and is stale has a build under way, or is     *)
(* about to get one from the watcher or from materialize_all(), or has an  *)
(* input that no rule makes (RestOK).                                      *)
(***************************************************************************)
EXTENDS BuildDirectoryTreeProofs

\* The rules never change, and nothing is pending when a tree is created over
\* the cache.
Static ==
    /\ MaxEdits = 0
    /\ HasCache => Restarts # "any"

(* What the rules make, and what is known of an output's bytes.            *)

\* An output that has been built and not gone out of date since: its file is
\* final until it does.
Published(o) == \E i \in Attempts : att[i].out = o /\ att[i].phase = "published"
Built(o) == Declared(o) /\ o \notin m_stale /\ (o \notin m_in_flight \/ Published(o))

\* No pair of b is older than what has been applied.
Fresh(b) == \A e \in b, s \in Sources : e[1] = s => e[2] >= applied[s]

\* The bytes b are made from what the command of o reads, all of it final.
Good(o, b) ==
    /\ <<o, FirstManifest[o]>> \in b
    /\ \A s \in Inputs[o] \cap Sources : \E e \in b : e[1] = s
    /\ \A p \in Inputs[o] \cap Outs : Built(p) /\ content[p] \subseteq b
    /\ \A e \in b : e[1] \in Reach(o)
    /\ \A e \in b : e[1] \in Outs => e[2] = FirstManifest[e[1]]
    /\ \A e \in b : e[1] \in Sources => e[2] \in 0..version[e[1]]
    /\ Fresh(b)

BuiltOK ==
    \A o \in Outs : Built(o) =>
        /\ m_dependencies[o] = Inputs[o]
        /\ Missed \notin content[o] => Good(o, content[o])

\* What a build has read to the end.
Done(i) == att[i].seen

Reads(i) == att[i].phase \in {"running", "asked", "opening"}

\* The build i sees what it reads go out of date: a mark or its output's
\* staleness tells.
Told(i) == Missed \in att[i].bytes \/ att[i].out \in m_stale

ReadOK(i) ==
    LET b == att[i].bytes
        o == att[i].out
    IN  /\ \A s \in att[i].reads \cap Sources : \E e \in b : e[1] = s
        /\ \A p \in Done(i) \cap Outs : Built(p) /\ content[p] \subseteq b
        /\ \A e \in b : \/ e[1] \in Inputs[o] \cap Sources
                        \/ \E p \in Done(i) \cap Outs : e \in content[p]
        /\ \A e \in b : e[1] \in Sources => e[2] \in 0..version[e[1]]
        /\ Fresh(b)

\* What an open of p, made by a build, waits for.
WaitOK(t, p) ==
    /\ t = None => Built(p) \/ ~Declared(p)
    /\ t # None =>
          /\ att[t].phase \in UnderWay => p \notin m_stale
          /\ att[t].phase = "settled" /\ att[t].ok => Built(p)

BuildOK(i) ==
    /\ att[i].phase # "free" => Declared(att[i].out)
    /\ Reads(i) => /\ att[i].command = FirstManifest[att[i].out]
                   /\ Done(i) \subseteq att[i].reads
                   /\ att[i].reads \subseteq Inputs[att[i].out]
    /\ Reads(i) /\ ~Told(i) => ReadOK(i)
    /\ att[i].phase \in {"asked", "opening"} =>
          /\ att[i].input \in Inputs[att[i].out]
          /\ Declared(att[i].input) => att[i].input \in att[i].reads
    /\ att[i].phase = "opening" /\ ~Told(i) => WaitOK(att[i].target, att[i].input)
    /\ att[i].phase = "published" =>
          att[i].ok /\ m_dependencies[att[i].out] = Inputs[att[i].out]
    /\ att[i].phase \in {"running", "asked", "opening", "failed"} => ~att[i].ok

RulesOK ==
    /\ manifest = FirstManifest /\ m_commands = FirstManifest
    /\ files = {o \in Outs : Declared(o)}
    /\ \A o \in Outs : next[o] # None => o \in m_stale

\* The watcher is about to apply what it collected.
Marking == watcher.at = "mark" /\ watcher.then = "idle"

VersionsOK ==
    \A s \in Sources :
        /\ applied[s] <= version[s]
        /\ Marking => applied[s] <= watcher.upto[s] /\ watcher.upto[s] <= version[s]

\* A pair that the change being applied makes old.
Old(e) == \E s \in Sources : /\ watcher.diff \in {s, Everything}
                             /\ e[1] = s
                             /\ e[2] < watcher.upto[s]

\* S has what was collected, and with an output what is made from it.
Covers(S) ==
    /\ {o \in watcher.outputs : Declared(o)} \subseteq S
    /\ \A o \in Outs : Built(o) /\ Inputs[o] \cap S # {} => o \in S

MarkOK ==
    Marking =>
        /\ \A S \in SUBSET Outs : Covers(S) =>
              \A o \in Outs : Built(o) /\ Missed \notin content[o]
                                  /\ (\E e \in content[o] : Old(e)) => o \in S
        /\ \A i \in Attempts : Reads(i) /\ ~Told(i) =>
              \A e \in att[i].bytes : Old(e) =>
                  \/ att[i].out \in watcher.outputs
                  \/ \E p \in Done(i) \cap Outs : e \in content[p]

\* Whatever has changed and is not applied is on its way.
Collecting ==
    watcher.at \in {"readers", "forget_removed", "collect"} \/ watcher.then = "collect"
ComingOK ==
    \A s \in Sources :
        \/ applied[s] = version[s]
        \/ s \in pending
        \/ Everything \in pending
        \/ Collecting /\ watcher.diff \in {s, Everything}
        \/ Marking /\ watcher.diff \in {s, Everything} /\ watcher.upto[s] = version[s]

IdleOK == /\ watcher.at # "layout"
          /\ watcher.at = "idle" => watcher.then = "idle"

CurrencyInv ==
    /\ RulesOK /\ BuiltOK /\ VersionsOK /\ MarkOK /\ ComingOK /\ IdleOK
    /\ \A i \in Attempts : BuildOK(i)

-----------------------------------------------------------------------------
(* Reach, and the outputs a change reaches.                                *)

LEMMA ReachFacts ==
    ASSUME NEW o \in Outs
    PROVE  /\ o \in Reach(o)
           /\ Inputs[o] \subseteq Reach(o)
           /\ \A p \in Inputs[o] \cap Outs : Reach(p) \subseteq Reach(o)
<1>1. Inputs[o] \subseteq Sources \cup Outs
  BY InputsAssumption DEF InputsAssumption
<1>2. o \in Reach(o)
  BY DEF Reach
<1>3. Inputs[o] \subseteq Reach(o)
  <2> SUFFICES ASSUME NEW x \in Inputs[o], NEW S \in SUBSET (Sources \cup Outs),
                      o \in S, \A p \in S \cap Outs : Inputs[p] \subseteq S
               PROVE  x \in S
    BY <1>1 DEF Reach
  <2> QED  OBVIOUS
<1>4. ASSUME NEW p \in Inputs[o] \cap Outs, NEW x \in Reach(p)
      PROVE  x \in Reach(o)
  <2> SUFFICES ASSUME NEW S \in SUBSET (Sources \cup Outs),
                      o \in S, \A q \in S \cap Outs : Inputs[q] \subseteq S
               PROVE  x \in S
    BY <1>4 DEF Reach
  <2> p \in S
    OBVIOUS
  <2> QED  BY <1>4 DEF Reach
<1> QED  BY <1>2, <1>3, <1>4

\* A set that has o, and with an output what its command reads, has all that
\* o is made from.
LEMMA ReachWithin ==
    ASSUME NEW o \in Outs, NEW T \in SUBSET (Sources \cup Outs), o \in T,
           \A p \in T \cap Outs : Inputs[p] \subseteq T
    PROVE  Reach(o) \subseteq T
BY DEF Reach

LEMMA DownstreamFacts ==
    ASSUME NEW O
    PROVE  /\ \A o \in O \cap Outs : Declared(o) => o \in Downstream(O)
           /\ \A p \in Downstream(O), o \in Outs :
                 Declared(o) /\ p \in m_dependencies[o] => o \in Downstream(O)
           /\ Downstream(O) \subseteq {o \in Outs : Declared(o)}
<1>1. \A o \in O \cap Outs : Declared(o) => o \in Downstream(O)
  BY DEF Downstream
<1>2. ASSUME NEW p \in Downstream(O), NEW o \in Outs, Declared(o), p \in m_dependencies[o]
      PROVE  o \in Downstream(O)
  <2> SUFFICES ASSUME NEW S \in SUBSET Outs, {q \in O : Declared(q)} \subseteq S,
                      \A q \in S : {r \in m_dependents(q) : Declared(r)} \subseteq S
               PROVE  o \in S
    BY <1>2 DEF Downstream
  <2>1. p \in S
    BY <1>2 DEF Downstream
  <2>2. o \in m_dependents(p)
    BY <1>2 DEF m_dependents
  <2> QED  BY <1>2, <2>1, <2>2
<1>3. Downstream(O) \subseteq {o \in Outs : Declared(o)}
  BY DEF Downstream
<1> QED  BY <1>1, <1>2, <1>3

-----------------------------------------------------------------------------
(* What the invariant says of outputs that are up to date.                 *)

LEMMA UpToDateIsBuilt ==
    ASSUME NEW o \in Outs, UpToDate(o)
    PROVE  Built(o)
BY DEF UpToDate, Built

\* Everything o is made from is in its bytes.
LEMMA AllPresent ==
    ASSUME TypeOK, BuiltOK, NEW o \in Outs, Built(o), Missed \notin content[o]
    PROVE  /\ \A s \in Reach(o) \cap Sources : \E e \in content[o] : e[1] = s
           /\ \A p \in Reach(o) \cap Outs : <<p, FirstManifest[p]>> \in content[o]
<1> DEFINE T == {x \in Sources : \E e \in content[o] : e[1] = x} \cup
                {x \in Outs : Built(x) /\ content[x] \subseteq content[o]}
<1>1. \A p \in T \cap Outs : Built(p) /\ content[p] \subseteq content[o]
  BY NamesAssumption DEF NamesAssumption
<1>2. ASSUME NEW p \in T \cap Outs PROVE Inputs[p] \subseteq T
  <2>1. Good(p, content[p]) /\ content[p] \subseteq content[o]
    BY <1>1 DEF BuiltOK
  <2>2. \A x \in Inputs[p] \cap Sources : x \in T
    BY <2>1 DEF Good
  <2>3. \A x \in Inputs[p] \cap Outs : x \in T
    BY <2>1 DEF Good
  <2> QED  BY <2>2, <2>3, InputsAssumption DEF InputsAssumption
<1>3. o \in T
  OBVIOUS
<1>4. Reach(o) \subseteq T
  <2>1. T \in SUBSET (Sources \cup Outs)
    OBVIOUS
  <2> HIDE DEF T
  <2> QED  BY <1>2, <1>3, <2>1, ReachWithin
<1>5. \A s \in Reach(o) \cap Sources : \E e \in content[o] : e[1] = s
  BY <1>4, NamesAssumption DEF NamesAssumption
<1>6. \A p \in Reach(o) \cap Outs : <<p, FirstManifest[p]>> \in content[o]
  BY <1>1, <1>4 DEF BuiltOK, Good
<1> QED  BY <1>5, <1>6

LEMMA CurrentWhenClean ==
    ASSUME TypeOK, BuiltOK
    PROVE  CleanIsCurrent
<1> SUFFICES ASSUME NEW o \in Outs, UpToDate(o), Missed \notin content[o]
             PROVE  Reflects(content[o], o, applied)
  BY DEF CleanIsCurrent
<1>1. Built(o)
  BY UpToDateIsBuilt
<1>2. \A s \in Reach(o) \cap Sources : \E e \in content[o] : e[1] = s
  BY <1>1, AllPresent
<1>3. \A s \in Sources : \A e \in content[o] : e[1] = s => e[2] >= applied[s]
  BY <1>1 DEF BuiltOK, Good, Fresh
<1> QED  BY <1>2, <1>3 DEF Reflects

LEMMA BuiltIsExact ==
    ASSUME TypeOK, CurrencyInv, Quiet, NEW o \in Outs, Built(o), Unmarked(content[o])
    PROVE  content[o] = Expected(o)
<1>1. \A s \in Sources : applied[s] = version[s]
  BY DEF Quiet, CurrencyInv, ComingOK, Collecting, Marking, Idle
<1>2. Good(o, content[o]) /\ manifest = FirstManifest
  BY DEF CurrencyInv, BuiltOK, RulesOK, Unmarked
<1>3. ASSUME NEW e \in content[o] PROVE e \in Expected(o)
  <2>1. PICK x \in Sources \cup Outs, n \in Nat : e = <<x, n>>
    BY <1>3 DEF TypeOK, Made, Unmarked
  <2>2. x \in Reach(o)
    BY <1>2, <2>1 DEF Good
  <2>3. CASE x \in Sources
    <3>1. version[x] \in Nat /\ n <= version[x] /\ n >= version[x]
      BY <1>1, <1>2, <2>1, <2>3, BoundsAssumption
         DEF Good, Fresh, TypeOK, BoundsAssumption
    <3>2. n = version[x]
      BY <3>1
    <3> QED  BY <2>1, <2>2, <2>3, <3>2 DEF Expected
  <2>4. CASE x \in Outs
    BY <1>2, <2>1, <2>2, <2>4 DEF Good, Expected
  <2> QED  BY <2>3, <2>4
<1>4. ASSUME NEW s \in Reach(o) \cap Sources PROVE <<s, version[s]>> \in content[o]
  <2>1. PICK e \in content[o] : e[1] = s
    BY AllPresent DEF CurrencyInv, Unmarked
  <2>2. PICK x \in Sources \cup Outs, n \in Nat : e = <<x, n>>
    BY <2>1 DEF TypeOK, Made, Unmarked
  <2>3. version[s] \in Nat /\ n <= version[s] /\ n >= version[s]
    BY <1>1, <1>2, <2>1, <2>2, BoundsAssumption DEF Good, Fresh, TypeOK, BoundsAssumption
  <2> QED  BY <2>1, <2>2, <2>3
<1>5. \A p \in Reach(o) \cap Outs : <<p, manifest[p]>> \in content[o]
  BY <1>2, AllPresent DEF CurrencyInv, Unmarked
<1> QED  BY <1>3, <1>4, <1>5 DEF Expected

LEMMA ExactWhenQuiet ==
    ASSUME TypeOK, CurrencyInv
    PROVE  QuietIsExact
BY UpToDateIsBuilt, BuiltIsExact DEF QuietIsExact

-----------------------------------------------------------------------------
(* Steps that leave what is built as it is, and those after which no more  *)
(* is built than before.                                                   *)

Grows ==
    /\ \A o \in Outs : Built(o) => /\ Built(o)'
                                   /\ content'[o] = content[o]
                                   /\ m_dependencies'[o] = m_dependencies[o]
    /\ applied' = applied
    /\ \A s \in Sources : /\ version[s] \in Nat /\ version'[s] \in Nat
                          /\ version[s] <= version'[s]

Frame == Grows /\ \A o \in Outs : Built(o)' => Built(o)

LEMMA FrameGrows == Frame => Grows
BY DEF Frame

LEMMA GrowsGood ==
    ASSUME Grows, NEW o \in Outs, NEW b, Good(o, b)
    PROVE  Good(o, b)'
<1>1. \A p \in Inputs[o] \cap Outs : Built(p)' /\ content'[p] \subseteq b
  BY DEF Good, Grows
<1>2. \A e \in b : e[1] \in Sources => e[2] \in 0..version'[e[1]]
  BY DEF Good, Grows
<1>3. Fresh(b)'
  BY DEF Good, Grows, Fresh
<1> QED  BY <1>1, <1>2, <1>3 DEF Good

LEMMA FrameBuilt ==
    ASSUME BuiltOK, Frame
    PROVE  BuiltOK'
<1> SUFFICES ASSUME NEW o \in Outs, Built(o)'
             PROVE  /\ m_dependencies'[o] = Inputs[o]
                    /\ Missed \notin content'[o] => Good(o, content[o])'
  BY DEF BuiltOK
<1>1. Built(o) /\ content'[o] = content[o] /\ m_dependencies'[o] = Inputs[o]
  BY DEF Frame, Grows, BuiltOK
<1> SUFFICES ASSUME Missed \notin content[o] PROVE Good(o, content[o])'
  BY <1>1
<1>2. PICK b : b = content[o]
  OBVIOUS
<1>3. Good(o, b)
  BY <1>1, <1>2 DEF BuiltOK
<1>4. Good(o, b)'
  BY <1>3, GrowsGood DEF Frame, Grows
<1> QED  BY <1>1, <1>2, <1>4

\* i has read what it had read.
SameReads(i) ==
    /\ att'[i].bytes = att[i].bytes
    /\ att'[i].reads \cap Sources = att[i].reads \cap Sources
    /\ att'[i].out = att[i].out
    /\ Done(i)' = Done(i)

LEMMA FrameReads ==
    ASSUME Grows, NEW i \in Attempts, SameReads(i), ReadOK(i)
    PROVE  ReadOK(i)'
<1>1. \A p \in Done(i) \cap Outs : Built(p)' /\ content'[p] = content[p]
  BY DEF ReadOK, Grows
<1>2. \A s \in att'[i].reads \cap Sources : \E e \in att'[i].bytes : e[1] = s
  BY DEF ReadOK, SameReads
<1>3. \A p \in Done(i)' \cap Outs : Built(p)' /\ content'[p] \subseteq att'[i].bytes
  BY <1>1 DEF ReadOK, SameReads
<1>4. \A e \in att'[i].bytes : \/ e[1] \in Inputs[att'[i].out] \cap Sources
                               \/ \E p \in Done(i)' \cap Outs : e \in content'[p]
  BY <1>1 DEF ReadOK, SameReads
<1>5. \A e \in att'[i].bytes : e[1] \in Sources => e[2] \in 0..version'[e[1]]
  BY DEF ReadOK, SameReads, Grows
<1>6. Fresh(att[i].bytes)'
  BY DEF ReadOK, SameReads, Grows, Fresh
<1> QED  BY <1>2, <1>3, <1>4, <1>5, <1>6 DEF ReadOK

(* A build that a step leaves alone, and that is told no less than before. *)
LEMMA FrameBuild ==
    ASSUME Grows, NEW i \in Attempts, BuildOK(i), att'[i] = att[i],
           m_commands' = m_commands,
           att[i].phase = "published" =>
               m_dependencies'[att[i].out] = m_dependencies[att[i].out],
           Reads(i) /\ Told(i) => Told(i)',
           att[i].phase = "opening" /\ ~Told(i)' => WaitOK(att[i].target, att[i].input)'
    PROVE  BuildOK(i)'
<1>1. SameReads(i)
  BY DEF SameReads, Done
<1>2. Reads(i)' /\ ~Told(i)' => ReadOK(i)'
  <2> SUFFICES ASSUME Reads(i)', ~Told(i)' PROVE ReadOK(i)'
    OBVIOUS
  <2>1. Reads(i) /\ ~Told(i)
    BY DEF Reads
  <2> QED  BY <1>1, <2>1, FrameReads DEF BuildOK
<1>3. \A o : Declared(o)' <=> Declared(o)
  BY DEF Declared
<1>4. PICK p, q : p = att[i].out /\ q = att[i].input
  OBVIOUS
<1>5. (Declared(p)' <=> Declared(p)) /\ (Declared(q)' <=> Declared(q))
  BY <1>3
<1>6. /\ att'[i].out = p /\ att'[i].input = q
      /\ Declared(att[i].out)' <=> Declared(p)'
      /\ Declared(att[i].input)' <=> Declared(q)'
  BY <1>4 DEF Declared
<1> QED  BY <1>2, <1>4, <1>5, <1>6 DEF BuildOK, Reads, Done

\* The second half of MarkOK.
MarkedReads(i) ==
    Marking /\ Reads(i) /\ ~Told(i) =>
        \A e \in att[i].bytes : Old(e) =>
            \/ att[i].out \in watcher.outputs
            \/ \E p \in Done(i) \cap Outs : e \in content[p]

LEMMA FrameMarkedReads ==
    ASSUME Grows, NEW i \in Attempts, BuildOK(i), SameReads(i), Reads(i)' => Reads(i),
           watcher' = watcher, Reads(i) /\ Told(i) => Told(i)', MarkedReads(i)
    PROVE  MarkedReads(i)'
<1> SUFFICES ASSUME Marking', Reads(i)', ~Told(i)'
             PROVE  \A e \in att'[i].bytes : Old(e)' =>
                        \/ att'[i].out \in watcher'.outputs
                        \/ \E p \in Done(i)' \cap Outs : e \in content'[p]
  BY DEF MarkedReads
<1>1. Marking /\ Reads(i) /\ ~Told(i)
  BY DEF Marking
<1>2. \A p \in Done(i) \cap Outs : content'[p] = content[p]
  BY <1>1 DEF BuildOK, ReadOK, Grows
<1>3. \A e : Old(e)' <=> Old(e)
  BY DEF Old
<1> QED  BY <1>1, <1>2, <1>3 DEF MarkedReads, SameReads

LEMMA FrameMark ==
    ASSUME Frame, MarkOK, m_commands' = m_commands, watcher' = watcher,
           \A i \in Attempts : MarkedReads(i) => MarkedReads(i)'
    PROVE  MarkOK'
<1> SUFFICES ASSUME Marking'
             PROVE  /\ \A S \in SUBSET Outs : Covers(S)' =>
                          \A o \in Outs : Built(o)' /\ Missed \notin content'[o]
                              /\ (\E e \in content'[o] : Old(e)') => o \in S
                    /\ \A i \in Attempts : MarkedReads(i)'
  BY DEF MarkOK, MarkedReads
<1>1. Marking
  BY DEF Marking
<1>2. \A i \in Attempts : MarkedReads(i)'
  BY <1>1 DEF MarkOK, MarkedReads
<1>3. ASSUME NEW S \in SUBSET Outs, Covers(S)', NEW o \in Outs, Built(o)',
             Missed \notin content'[o], \E e \in content'[o] : Old(e)'
      PROVE  o \in S
  <2>1. Covers(S)
    BY <1>3 DEF Covers, Frame, Grows, Declared
  <2>2. Built(o) /\ content'[o] = content[o]
    BY <1>3 DEF Frame, Grows
  <2>3. \A e : Old(e)' <=> Old(e)
    BY DEF Old
  <2> QED  BY <1>1, <1>3, <2>1, <2>2, <2>3 DEF MarkOK
<1> QED  BY <1>2, <1>3

\* Builds that are published stay so, and none is published.
LEMMA SamePublished ==
    ASSUME NEW o,
           \A i \in Attempts :
               /\ att'[i].phase = "published" <=> att[i].phase = "published"
               /\ att[i].phase = "published" => att'[i].out = att[i].out
    PROVE  Published(o)' <=> Published(o)
BY DEF Published

-----------------------------------------------------------------------------
(* The start.                                                              *)

LEMMA InitCurrency == Init => CurrencyInv
<1> SUFFICES ASSUME Init PROVE CurrencyInv
  OBVIOUS
<1>1. \A i \in Attempts : att[i] = Free
  BY DEF Init, InitWith
<1>2. \A o \in Outs : ~Built(o)
  BY DEF Init, InitWith, Built, Declared
<1>3. \A i \in Attempts : BuildOK(i)
  BY <1>1 DEF BuildOK, Free, Reads
<1>4. RulesOK
  BY DEF Init, InitWith, RulesOK, Declared
<1>5. BuiltOK
  BY <1>2 DEF BuiltOK
<1>6. ~Marking /\ IdleOK
  BY DEF Init, InitWith, Marking, IdleOK, Idle
<1>7. VersionsOK /\ ComingOK
  BY <1>6 DEF Init, InitWith, VersionsOK, ComingOK
<1>8. MarkOK
  BY <1>6 DEF MarkOK
<1> QED  BY <1>3, <1>4, <1>5, <1>6, <1>7, <1>8 DEF CurrencyInv

-----------------------------------------------------------------------------
(* What most steps share.                                                  *)

\* The books that say what is built are left alone.
LEMMA SameBooks ==
    ASSUME TypeOK, TypeOK',
           m_commands' = m_commands, m_stale' = m_stale, m_in_flight' = m_in_flight,
           content' = content, m_dependencies' = m_dependencies, applied' = applied,
           \A s \in Sources : version[s] <= version'[s],
           \A i \in Attempts :
               /\ att'[i].phase = "published" <=> att[i].phase = "published"
               /\ att[i].phase = "published" => att'[i].out = att[i].out
    PROVE  Frame
<1>1. \A o \in Outs : Published(o)' <=> Published(o)
  BY SamePublished
<1>2. \A o \in Outs : Built(o)' <=> Built(o)
  BY <1>1 DEF Built, Declared
<1>3. \A s \in Sources : version[s] \in Nat /\ version'[s] \in Nat
  BY BoundsAssumption DEF TypeOK, BoundsAssumption
<1> QED  BY <1>2, <1>3 DEF Frame, Grows

\* The watcher stays where it is.
LEMMA FrameVersions ==
    ASSUME TypeOK, WatcherOK, Frame, VersionsOK, watcher' = watcher
    PROVE  VersionsOK'
<1> SUFFICES ASSUME NEW s \in Sources
             PROVE  /\ applied'[s] <= version'[s]
                    /\ Marking' => /\ applied'[s] <= watcher'.upto[s]
                                   /\ watcher'.upto[s] <= version'[s]
  BY DEF VersionsOK
<1>1. Marking' <=> Marking
  BY DEF Marking
<1>2. /\ version[s] \in Nat /\ version'[s] \in Nat /\ applied[s] \in Nat
      /\ version[s] <= version'[s] /\ applied'[s] = applied[s]
  BY DEF TypeOK, Frame, Grows
<1>3. Marking => watcher.upto[s] \in Nat
  BY DEF Marking, WatcherOK
<1> QED  BY <1>1, <1>2, <1>3 DEF VersionsOK

\* The watcher goes to where it is not about to apply anything.
LEMMA UnmarkedVersions ==
    ASSUME TypeOK, Frame, VersionsOK, ~Marking'
    PROVE  VersionsOK' /\ MarkOK'
<1>1. MarkOK'
  BY DEF MarkOK
<1>2. \A s \in Sources : /\ version[s] \in Nat /\ version'[s] \in Nat /\ applied[s] \in Nat
                         /\ version[s] <= version'[s] /\ applied'[s] = applied[s]
  BY DEF TypeOK, Frame, Grows
<1>3. \A s \in Sources : applied'[s] <= version'[s]
  BY <1>2 DEF VersionsOK
<1> QED  BY <1>1, <1>3 DEF VersionsOK

LEMMA SameComing ==
    ASSUME ComingOK, version' = version, applied' = applied, watcher' = watcher,
           pending' = pending
    PROVE  ComingOK'
BY DEF ComingOK, Collecting, Marking

LEMMA SameIdle ==
    ASSUME IdleOK, watcher' = watcher
    PROVE  IdleOK'
BY DEF IdleOK

(* Who waits on t is answered, after the step, by what it waited for: a    *)
(* build that starts or goes on is not out of date, and one that settles   *)
(* has published.                                                          *)
Answers(t) ==
    att[t].phase \in Coming /\ WaitOK(t, att[t].out) =>
        /\ att'[t].phase \in UnderWay =>
              \/ att[t].out \notin m_stale'
              \/ att[t].phase \in UnderWay /\ att[t].out \notin m_stale' \ m_stale
        /\ att'[t].phase = "settled" /\ att'[t].ok =>
              /\ att'[t].out = att[t].out
              /\ Built(att[t].out)' \/ (att[t].phase = "settled" /\ att[t].ok)

LEMMA WaitKept ==
    ASSUME Grows, \A j \in Attempts : Answers(j), m_commands' = m_commands,
           NEW t, NEW p \in Outs, t # None => IsComing(att, t, p), WaitOK(t, p)
    PROVE  WaitOK(t, p)'
<1>1. Built(p) => Built(p)'
  BY DEF Grows
<1>2. Declared(p)' <=> Declared(p)
  BY DEF Declared
<1>3. CASE t = None
  BY <1>1, <1>2, <1>3 DEF WaitOK
<1>4. CASE t # None
  <2>1. t \in Attempts /\ att[t].out = p /\ att[t].phase \in Coming /\ Answers(t)
    BY <1>4 DEF IsComing
  <2>2. att'[t].phase \in UnderWay => p \notin m_stale'
    BY <1>4, <2>1 DEF WaitOK, Answers
  <2>3. ASSUME att'[t].phase = "settled", att'[t].ok PROVE Built(p)'
    <3>1. /\ att'[t].out = p
          /\ Built(att[t].out)' \/ (att[t].phase = "settled" /\ att[t].ok)
      BY <2>1, <2>3 DEF Answers
    <3> QED  BY <1>1, <1>4, <2>1, <3>1 DEF WaitOK
  <2> QED  BY <1>4, <2>2, <2>3 DEF WaitOK
<1> QED  BY <1>3, <1>4

\* The step does not touch i, which is told no less than before.
Spared(i) ==
    /\ att'[i] = att[i]
    /\ att[i].phase \in {"running", "asked", "opening", "published"} =>
          /\ m_dependencies'[att[i].out] = m_dependencies[att[i].out]
          /\ att[i].out \in m_stale => att[i].out \in m_stale'

LEMMA SparedTold ==
    ASSUME NEW i \in Attempts, Spared(i)
    PROVE  /\ SameReads(i)
           /\ Reads(i)' => Reads(i)
           /\ Reads(i) /\ Told(i) => Told(i)'
<1>1. SameReads(i) /\ (Reads(i)' => Reads(i))
  BY DEF Spared, SameReads, Done, Reads
<1>2. Reads(i) /\ Told(i) => Told(i)'
  BY DEF Spared, Reads, Told
<1> QED  BY <1>1, <1>2

LEMMA SparedBuild ==
    ASSUME Accounts, Grows, \A j \in Attempts : Answers(j), m_commands' = m_commands,
           NEW i \in Attempts, Spared(i), BuildOK(i)
    PROVE  BuildOK(i)'
<1>1. Reads(i) /\ Told(i) => Told(i)'
  BY SparedTold
<1>2. ASSUME att[i].phase = "opening", ~Told(i)'
      PROVE  WaitOK(att[i].target, att[i].input)'
  <2>1. ~Told(i) /\ WaitOK(att[i].target, att[i].input)
    BY <1>1, <1>2 DEF BuildOK, Reads
  <2>2. /\ att[i].input \in Outs
        /\ att[i].target # None => IsComing(att, att[i].target, att[i].input)
    BY <1>2 DEF Accounts, BuildsOK, WaitersOK
  <2>3. PICK t, p : t = att[i].target /\ p = att[i].input
    OBVIOUS
  <2>4. WaitOK(t, p)'
    BY <2>1, <2>2, <2>3, WaitKept
  <2>5. att'[i].target = t /\ att'[i].input = p
    BY <2>3 DEF Spared
  <2> QED  BY <2>4, <2>5
<1> QED  BY <1>1, <1>2, FrameBuild DEF Spared

LEMMA SparedMark ==
    ASSUME Grows, NEW i \in Attempts, Spared(i), BuildOK(i), watcher' = watcher,
           MarkedReads(i)
    PROVE  MarkedReads(i)'
BY SparedTold, FrameMarkedReads

LEMMA SameRules ==
    ASSUME RulesOK, manifest' = manifest, m_commands' = m_commands, files' = files,
           \A o \in Outs : next'[o] # None => o \in m_stale'
    PROVE  RulesOK'
<1> files' = {o \in Outs : Declared(o)'}
  BY DEF RulesOK, Declared
<1> QED  BY DEF RulesOK

-----------------------------------------------------------------------------
(* Each action keeps the invariant.  First those that leave the books and  *)
(* the builds alone.                                                       *)

LEMMA SparedAll ==
    ASSUME Inv, Inv', CurrencyInv, att' = att, next' = next, m_commands' = m_commands,
           manifest' = manifest, m_stale' = m_stale, m_in_flight' = m_in_flight,
           files' = files, content' = content, m_dependencies' = m_dependencies,
           applied' = applied, \A s \in Sources : version[s] <= version'[s]
    PROVE  /\ Frame /\ RulesOK' /\ BuiltOK'
           /\ \A i \in Attempts : BuildOK(i)'
           /\ watcher' = watcher => VersionsOK' /\ MarkOK' /\ IdleOK'
<1>1. Frame
  BY SameBooks DEF Inv
<1>2. RulesOK'
  BY SameRules DEF CurrencyInv, RulesOK
<1>3. BuiltOK'
  BY <1>1, FrameBuilt DEF CurrencyInv
<1>4. \A i \in Attempts : Spared(i) /\ Answers(i)
  BY DEF Spared, Answers
<1>5. \A i \in Attempts : BuildOK(i)'
  BY <1>1, <1>4, SparedBuild, FrameGrows DEF Inv, CurrencyInv
<1>6. ASSUME watcher' = watcher PROVE VersionsOK' /\ MarkOK' /\ IdleOK'
  <2>1. VersionsOK'
    BY <1>1, <1>6, FrameVersions DEF Inv, CurrencyInv
  <2>2. MarkOK'
    BY <1>1, <1>4, <1>6, SparedMark, FrameGrows, FrameMark DEF CurrencyInv
  <2> QED  BY <1>6, <2>1, <2>2, SameIdle DEF CurrencyInv
<1> QED  BY <1>1, <1>2, <1>3, <1>5, <1>6

LEMMA ChangeCurrency ==
    ASSUME Inv, Inv', CurrencyInv, NEW s \in Sources, Change(s)
    PROVE  CurrencyInv'
<1>1. /\ pending' = pending \cup {s} /\ version' = [version EXCEPT ![s] = @ + 1]
      /\ UNCHANGED <<manifest, edits, bookVars, fileVars, cacheVars, threadVars, applied>>
  BY DEF Change
<1>2. \A x \in Sources : version[x] \in Nat /\ version'[x] = IF x = s THEN version[x] + 1
                                                                     ELSE version[x]
  BY <1>1, BoundsAssumption DEF Inv, TypeOK, BoundsAssumption
<1>3. \A x \in Sources : version[x] <= version'[x]
  BY <1>2
<1>4. /\ RulesOK' /\ BuiltOK' /\ VersionsOK' /\ MarkOK' /\ IdleOK'
      /\ \A i \in Attempts : BuildOK(i)'
  BY <1>1, <1>3, SparedAll DEF bookVars, fileVars, threadVars
<1>5. ComingOK'
  <2> SUFFICES ASSUME NEW x \in Sources, x # s
               PROVE  \/ applied'[x] = version'[x]
                      \/ x \in pending'
                      \/ Everything \in pending'
                      \/ Collecting' /\ watcher'.diff \in {x, Everything}
                      \/ /\ Marking' /\ watcher'.diff \in {x, Everything}
                         /\ watcher'.upto[x] = version'[x]
    BY <1>1 DEF ComingOK
  <2>1. version'[x] = version[x] /\ applied' = applied /\ watcher' = watcher
    BY <1>1, <1>2 DEF threadVars
  <2> QED  BY <1>1, <2>1 DEF CurrencyInv, ComingOK, Collecting, Marking
<1> QED  BY <1>4, <1>5 DEF CurrencyInv

LEMMA OverflowCurrency ==
    ASSUME Inv, Inv', CurrencyInv, Overflow
    PROVE  CurrencyInv'
<1>1. /\ pending' = {Everything}
      /\ UNCHANGED <<version, manifest, edits, bookVars, fileVars, cacheVars, threadVars,
                     applied>>
  BY DEF Overflow
<1>2. \A x \in Sources : version[x] <= version'[x]
  BY <1>1, BoundsAssumption DEF Inv, TypeOK, BoundsAssumption
<1>3. /\ RulesOK' /\ BuiltOK' /\ VersionsOK' /\ MarkOK' /\ IdleOK'
      /\ \A i \in Attempts : BuildOK(i)'
  BY <1>1, <1>2, SparedAll DEF bookVars, fileVars, threadVars
<1>4. ComingOK'
  BY <1>1 DEF ComingOK
<1> QED  BY <1>3, <1>4 DEF CurrencyInv

LEMMA RestCurrency ==
    ASSUME Inv, Inv', CurrencyInv,
           materialize_all \/ (\E r \in Readers : ReadOpened(r)) \/ UNCHANGED vars
    PROVE  CurrencyInv'
<1>1. UNCHANGED <<sourceVars, m_commands, m_stale, m_in_flight, next, m_dependencies,
                  fileVars, att, watcher, applied>>
  BY DEF materialize_all, ReadOpened, vars, sourceVars, bookVars, fileVars, threadVars
<1>2. \A x \in Sources : version[x] <= version'[x]
  BY <1>1, BoundsAssumption DEF Inv, TypeOK, BoundsAssumption, sourceVars
<1>3. /\ RulesOK' /\ BuiltOK' /\ VersionsOK' /\ MarkOK' /\ IdleOK'
      /\ \A i \in Attempts : BuildOK(i)'
  BY <1>1, <1>2, SparedAll DEF sourceVars, fileVars
<1>4. ComingOK'
  BY <1>1, SameComing DEF CurrencyInv, sourceVars
<1> QED  BY <1>3, <1>4 DEF CurrencyInv

\* Where the watcher goes on to: what it has still to collect stays so.
LEMMA OnwardFacts ==
    ASSUME NEW w \in WatcherType
    PROVE  /\ Onward(w).at \notin {"mark", "layout", "readers", "forget_removed"}
           /\ Onward(w).at = "idle" => Onward(w).then = "idle"
           /\ w.then = "collect" =>
                 /\ Onward(w).at = "collect" \/ Onward(w).then = "collect"
                 /\ Onward(w).diff = w.diff
<1>1. CASE w.eager # {}
  <2>1. Onward(w) = [w EXCEPT !.at = "eager"]
    BY <1>1 DEF Onward
  <2>2. Onward(w).at = "eager" /\ Onward(w).then = w.then /\ Onward(w).diff = w.diff
    BY <2>1 DEF WatcherType
  <2> QED  BY <2>2
<1>2. CASE w.eager = {} /\ w.then = "collect"
  <2>1. Onward(w) = [Idle EXCEPT !.at = "collect", !.diff = w.diff]
    BY <1>2 DEF Onward
  <2>2. Onward(w).at = "collect" /\ Onward(w).diff = w.diff
    BY <2>1 DEF Idle
  <2> QED  BY <2>2
<1>3. CASE w.eager = {} /\ w.then # "collect"
  <2>1. Onward(w) = Idle
    BY <1>3 DEF Onward
  <2>2. Onward(w).at = "idle" /\ Onward(w).then = "idle"
    BY <2>1 DEF Idle
  <2> QED  BY <1>3, <2>2
<1> QED  BY <1>1, <1>2, <1>3

(* The watcher goes on to w from a place where it has applied or has not   *)
(* begun to apply a change.                                                *)
LEMMA WatcherGoesOn ==
    ASSUME TypeOK, CurrencyInv, Frame, version' = version, pending' = pending,
           ~Marking, ~Marking', IdleOK',
           Collecting => Collecting' /\ watcher'.diff = watcher.diff
    PROVE  VersionsOK' /\ MarkOK' /\ ComingOK'
<1>1. VersionsOK' /\ MarkOK'
  BY UnmarkedVersions DEF CurrencyInv
<1>2. ComingOK'
  BY DEF CurrencyInv, ComingOK, Frame, Grows
<1> QED  BY <1>1, <1>2

LEMMA ForgetCurrency ==
    ASSUME Inv, Inv', CurrencyInv, ForgetRemoved \/ Forget
    PROVE  CurrencyInv'
<1>1. UNCHANGED <<sourceVars, bookVars, fileVars, att, materializing, reader, applied>>
  BY DEF ForgetRemoved, Forget
<1>2. \A x \in Sources : version[x] <= version'[x]
  BY <1>1, BoundsAssumption DEF Inv, TypeOK, BoundsAssumption, sourceVars
<1>3. Frame /\ RulesOK' /\ BuiltOK' /\ \A i \in Attempts : BuildOK(i)'
  BY <1>1, <1>2, SparedAll DEF sourceVars, bookVars, fileVars
<1>4. /\ ~Marking /\ ~Marking' /\ IdleOK'
      /\ Collecting => Collecting' /\ watcher'.diff = watcher.diff
  <2>1. watcher \in WatcherType
    BY DEF Inv, TypeOK
  <2>2. CASE ForgetRemoved
    <3>1. watcher' = [watcher EXCEPT !.at = "mark", !.then = "collect",
                                     !.removed = {}, !.added = {}]
          /\ watcher.at = "forget_removed"
      BY <2>2 DEF ForgetRemoved
    <3>2. watcher'.at = "mark" /\ watcher'.then = "collect" /\ watcher'.diff = watcher.diff
      BY <2>1, <3>1 DEF WatcherType
    <3> QED  BY <3>1, <3>2 DEF Marking, Collecting, IdleOK
  <2>3. CASE Forget
    <3>1. PICK w : w = [watcher EXCEPT !.outputs = {}]
      OBVIOUS
    <3>2. w \in WatcherType /\ w.then = watcher.then /\ w.diff = watcher.diff
      BY <2>1, <3>1 DEF WatcherType
    <3>3. watcher' = Onward(w) /\ watcher.at = "forget"
      BY <2>3, <3>1 DEF Forget
    <3> QED  BY <3>2, <3>3, OnwardFacts DEF Marking, Collecting, IdleOK
  <2> QED  BY <2>2, <2>3
<1>5. VersionsOK' /\ MarkOK' /\ ComingOK'
  BY <1>1, <1>3, <1>4, WatcherGoesOn DEF Inv, sourceVars
<1> QED  BY <1>3, <1>4, <1>5 DEF CurrencyInv

\* The manifest is reloaded and is what it was.
LEMMA RulesStay ==
    ASSUME Inv, CurrencyInv, NEW d \in {Manifest, Everything}, apply_rules(d)
    PROVE  /\ UNCHANGED <<watcherOnly, m_commands, m_stale, m_in_flight, m_materialized,
                          m_invalidations, next, m_dependencies, fileVars,
                          cacheVars, att, applied>>
           /\ watcher.at = "idle" /\ d \in pending /\ pending' = pending \ {d}
           /\ watcher'.at = "readers" /\ watcher'.diff = d
           /\ \A s \in Sources : version[s] <= version'[s]
<1> DEFINE removed == {o \in Outs : Declared(o) /\ manifest[o] = 0}
           added   == {o \in Outs : ~Declared(o) /\ manifest[o] # 0}
<1>1. manifest = m_commands
  BY DEF CurrencyInv, RulesOK
<1>2. removed = {} /\ added = {}
  BY <1>1 DEF Declared
<1>3. /\ m_commands' = m_commands
      /\ m_stale' = (m_stale \cup added) \ removed
      /\ m_materialized' = (m_materialized \cup (IF m_materialize_all THEN added ELSE {}))
                              \ removed
      /\ m_dependencies' = [o \in Outs |->
             IF o \in removed THEN {} ELSE m_dependencies[o]]
      /\ m_invalidations' = [o \in Outs |->
             m_invalidations[o] + (IF o \in removed THEN 1 ELSE 0)]
      /\ next' = [o \in Outs |->
             IF o \in removed \ m_in_flight THEN None ELSE next[o]]
      /\ watcher.at = "idle" /\ d \in pending /\ pending' = pending \ {d}
      /\ UNCHANGED <<watcherOnly, m_in_flight, fileVars, cacheVars, att, applied>>
  BY <1>1 DEF apply_rules
<1>4. watcher'.at = "readers" /\ watcher'.diff = d
  <2>1. watcher'.at = Laying(removed \cup added) /\ watcher'.diff = d
    BY DEF apply_rules, Idle
  <2> QED  BY <1>2, <2>1 DEF Laying
<1> HIDE DEF removed, added
<1>5. m_stale' = m_stale /\ m_materialized' = m_materialized
  BY <1>2, <1>3
<1>6. next' = next /\ m_dependencies' = m_dependencies
  <2>1. /\ next' = [o \in Outs |-> next[o]]
        /\ m_dependencies' = [o \in Outs |-> m_dependencies[o]]
    BY <1>2, <1>3
  <2> QED  BY <2>1 DEF Inv, TypeOK
<1>7. m_invalidations' = m_invalidations
  <2>1. \A o \in Outs : m_invalidations[o] \in Nat
    BY DEF Inv, TypeOK
  <2>2. \A o \in Outs : m_invalidations[o] + (IF o \in removed THEN 1 ELSE 0)
                            = m_invalidations[o]
    BY <1>2, <2>1
  <2>3. m_invalidations' = [o \in Outs |-> m_invalidations[o]]
    BY <1>3, <2>2
  <2> QED  BY <2>3 DEF Inv, TypeOK
<1>8. \A s \in Sources : version[s] <= version'[s]
  BY <1>3, BoundsAssumption DEF Inv, TypeOK, BoundsAssumption, watcherOnly
<1> QED  BY <1>3, <1>4, <1>5, <1>6, <1>7, <1>8

LEMMA ApplyRulesCurrency ==
    ASSUME Inv, Inv', CurrencyInv, NEW d \in {Manifest, Everything}, apply_rules(d)
    PROVE  CurrencyInv'
<1>1. /\ UNCHANGED <<watcherOnly, m_commands, m_stale, m_in_flight, next, m_dependencies,
                     fileVars, att, applied>>
      /\ watcher.at = "idle" /\ d \in pending /\ pending' = pending \ {d}
      /\ watcher'.at = "readers" /\ watcher'.diff = d
      /\ \A s \in Sources : version[s] <= version'[s]
  BY RulesStay
<1>2. Frame /\ RulesOK' /\ BuiltOK' /\ \A i \in Attempts : BuildOK(i)'
  BY <1>1, SparedAll DEF watcherOnly, fileVars
<1>3. ~Marking' /\ IdleOK' /\ Collecting' /\ ~Marking /\ ~Collecting
  BY <1>1 DEF Marking, Collecting, CurrencyInv, IdleOK
<1>4. VersionsOK' /\ MarkOK'
  BY <1>2, <1>3, UnmarkedVersions DEF Inv, CurrencyInv
<1>5. ComingOK'
  <2> SUFFICES ASSUME NEW s \in Sources
               PROVE  \/ applied'[s] = version'[s]
                      \/ s \in pending'
                      \/ Everything \in pending'
                      \/ Collecting' /\ watcher'.diff \in {s, Everything}
    BY DEF ComingOK
  <2>1. s # d
    BY NamesAssumption DEF NamesAssumption
  <2>2. applied[s] = version[s] \/ s \in pending \/ Everything \in pending
    BY <1>3 DEF CurrencyInv, ComingOK
  <2> QED  BY <1>1, <1>3, <2>1, <2>2 DEF watcherOnly
<1> QED  BY <1>2, <1>3, <1>4, <1>5 DEF CurrencyInv

-----------------------------------------------------------------------------
(* Builds go on.                                                           *)

buildStep == <<sourceVars, bookVars, fileVars, watcher, applied>>

LEMMA BooksStay ==
    ASSUME Inv, Inv', CurrencyInv, UNCHANGED buildStep,
           \A i \in Attempts :
               /\ att'[i].phase = "published" <=> att[i].phase = "published"
               /\ att[i].phase = "published" => att'[i].out = att[i].out
    PROVE  /\ Frame /\ watcher' = watcher /\ m_commands' = m_commands
           /\ RulesOK' /\ BuiltOK' /\ VersionsOK' /\ ComingOK' /\ IdleOK'
<1>1. \A x \in Sources : version[x] <= version'[x]
  BY BoundsAssumption DEF Inv, TypeOK, BoundsAssumption, buildStep, sourceVars
<1>2. Frame
  BY <1>1, SameBooks DEF Inv, buildStep, bookVars, fileVars
<1>3. RulesOK'
  BY SameRules DEF CurrencyInv, RulesOK, buildStep, sourceVars, bookVars, fileVars
<1>4. BuiltOK' /\ VersionsOK'
  BY <1>2, FrameBuilt, FrameVersions DEF Inv, CurrencyInv, buildStep
<1>5. ComingOK' /\ IdleOK'
  BY SameComing, SameIdle DEF CurrencyInv, buildStep, sourceVars
<1> QED  BY <1>2, <1>3, <1>4, <1>5 DEF buildStep, bookVars

\* A build that is under way stays so, or leaves; none comes.
LEMMA OneBuild ==
    ASSUME Inv, Inv', CurrencyInv, UNCHANGED buildStep, NEW i \in Attempts,
           NEW c, att' = [att EXCEPT ![i] = c],
           att[i].phase # "published", c.phase # "published",
           c.phase \in UnderWay => att[i].phase \in UnderWay,
           c.phase # "settled",
           Frame => BuildOK(i)' /\ (MarkedReads(i) => MarkedReads(i)')
    PROVE  CurrencyInv'
<1>1. att'[i] = c /\ \A j \in Attempts \ {i} : att'[j] = att[j]
  BY DEF Inv, TypeOK
<1>2. /\ Frame /\ watcher' = watcher /\ m_commands' = m_commands
      /\ RulesOK' /\ BuiltOK' /\ VersionsOK' /\ ComingOK' /\ IdleOK'
  <2>1. \A j \in Attempts :
               /\ att'[j].phase = "published" <=> att[j].phase = "published"
               /\ att[j].phase = "published" => att'[j].out = att[j].out
    BY <1>1
  <2> QED  BY <2>1, BooksStay
<1>3. \A j \in Attempts : Answers(j)
  <2> TAKE j \in Attempts
  <2>1. CASE j = i
    BY <1>1, <2>1 DEF Answers, buildStep, bookVars
  <2>2. CASE j # i
    BY <1>1, <2>2 DEF Answers, buildStep, bookVars
  <2> QED  BY <2>1, <2>2
<1>4. \A j \in Attempts \ {i} : Spared(j)
  BY <1>1 DEF Spared, buildStep, bookVars
<1>5. \A j \in Attempts : BuildOK(j)'
  <2> TAKE j \in Attempts
  <2>1. CASE j = i
    BY <1>2, <2>1
  <2>2. CASE j # i
    BY <1>2, <1>3, <1>4, <2>2, SparedBuild, FrameGrows DEF Inv, CurrencyInv
  <2> QED  BY <2>1, <2>2
<1>6. \A j \in Attempts : MarkedReads(j) => MarkedReads(j)'
  <2> TAKE j \in Attempts
  <2>1. CASE j = i
    BY <1>2, <2>1
  <2>2. CASE j # i
    BY <1>2, <1>4, <2>2, SparedMark, FrameGrows DEF CurrencyInv
  <2> QED  BY <2>1, <2>2
<1>7. MarkOK'
  BY <1>2, <1>6, FrameMark DEF CurrencyInv
<1> QED  BY <1>2, <1>5, <1>7 DEF CurrencyInv

\* A build that reads nothing more has nothing left to answer for.
LEMMA LeavesOff ==
    ASSUME NEW i \in Attempts,
           att'[i].phase \notin {"running", "asked", "opening", "published"},
           att'[i].phase # "free" => Declared(att[i].out)',
           att'[i].phase = "failed" => ~att'[i].ok
    PROVE  BuildOK(i)' /\ MarkedReads(i)'
<1>1. ~Reads(i)'
  BY DEF Reads
<1>2. BuildOK(i)'
  BY <1>1 DEF BuildOK
<1> QED  BY <1>1, <1>2 DEF MarkedReads

LEMMA FailCurrency ==
    ASSUME Inv, Inv', CurrencyInv, NEW i \in Attempts, Fail(i)
    PROVE  CurrencyInv'
<1> DEFINE c == [att[i] EXCEPT !.phase = "failed"]
<1>1. att[i] \in AttemptType /\ att[i].phase = "running"
  BY DEF Inv, TypeOK, Fail, Running
<1>2. c.phase = "failed" /\ c.out = att[i].out /\ c.ok = att[i].ok
  BY <1>1 DEF AttemptType
<1>3. att' = [att EXCEPT ![i] = c] /\ UNCHANGED buildStep
  BY DEF Inv, TypeOK, Fail, buildOnly, buildStep
<1> HIDE DEF c
<1>4. att'[i] = c
  BY <1>3 DEF Inv, TypeOK
<1>5. Declared(att[i].out)' /\ ~att[i].ok
  <2>1. BuildOK(i)
    BY DEF CurrencyInv
  <2>2. Declared(att[i].out) /\ ~att[i].ok /\ att'[i].out = att[i].out
    BY <1>1, <1>2, <1>4, <2>1 DEF BuildOK
  <2> QED  BY <1>3, <2>2 DEF Declared, buildStep, bookVars
<1>6. BuildOK(i)' /\ MarkedReads(i)'
  BY <1>2, <1>4, <1>5, LeavesOff
<1> QED  BY <1>1, <1>2, <1>3, <1>6, OneBuild DEF UnderWay

LEMMA KeepCurrency ==
    ASSUME Inv, Inv', CurrencyInv, NEW i \in Attempts, KeepCheck(i) \/ KeepStore(i)
    PROVE  CurrencyInv'
<1>1. att[i] \in AttemptType /\ att[i].phase \in {"completed", "keeping"}
  BY DEF Inv, TypeOK, KeepCheck, KeepStore
<1>2. PICK c : /\ att' = [att EXCEPT ![i] = c]
               /\ c.phase \in {"keeping", "free"}
               /\ c.phase = "keeping" => c.out = att[i].out
  <2>1. CASE KeepCheck(i)
    <3>1. PICK k, st : att' = [att EXCEPT ![i].phase = "keeping", ![i].keep = k,
                                          ![i].stamps = st]
      BY <2>1 DEF KeepCheck
    <3> DEFINE c == [att[i] EXCEPT !.phase = "keeping", !.keep = k, !.stamps = st]
    <3>2. att' = [att EXCEPT ![i] = c]
      BY <3>1 DEF Inv, TypeOK
    <3>3. c.phase = "keeping" /\ c.out = att[i].out
      BY <1>1 DEF AttemptType
    <3> QED  BY <3>2, <3>3
  <2>2. CASE KeepStore(i)
    <3>1. att' = [att EXCEPT ![i] = Free] /\ Free.phase = "free"
      BY <2>2 DEF KeepStore, Free
    <3> QED  BY <3>1
  <2> QED  BY <2>1, <2>2
<1>3. UNCHANGED buildStep
  BY DEF KeepCheck, KeepStore, buildStep
<1>4. att'[i] = c
  BY <1>2 DEF Inv, TypeOK
<1>5. c.phase # "free" => Declared(att[i].out)'
  <2>1. BuildOK(i)
    BY DEF CurrencyInv
  <2>2. Declared(att[i].out)
    BY <1>1, <2>1 DEF BuildOK
  <2> QED  BY <1>2, <1>3, <1>4, <2>2 DEF Declared, buildStep, bookVars
<1>6. BuildOK(i)' /\ MarkedReads(i)'
  BY <1>2, <1>4, <1>5, LeavesOff
<1> QED  BY <1>1, <1>2, <1>3, <1>6, OneBuild DEF UnderWay

\* A running build has read more, and its bytes have more: what they have is
\* of what it has read.
LEMMA HasRead ==
    ASSUME NEW i \in Attempts, BuildOK(i), Frame, m_commands' = m_commands,
           att'[i].phase = "running", Reads(i),
           att'[i].out = att[i].out, att'[i].command = att[i].command,
           att'[i].ok = att[i].ok, att'[i].reads \subseteq Inputs[att[i].out],
           Done(i)' \subseteq att'[i].reads,
           Told(i) => Told(i)', ~Told(i)' => ReadOK(i)'
    PROVE  BuildOK(i)'
<1>1. Declared(att[i].out)' /\ ~att'[i].ok /\ att'[i].command = FirstManifest[att'[i].out]
  BY DEF BuildOK, Reads, Declared
<1> QED  BY <1>1 DEF BuildOK, Reads

LEMMA ReadSourceCurrency ==
    ASSUME Inv, Inv', CurrencyInv, NEW i \in Attempts, NEW s \in Sources, ReadSource(i, s)
    PROVE  CurrencyInv'
<1> DEFINE e == <<s, version[s]>>
           c == [att[i] EXCEPT !.reads = @ \cup {s}, !.seen = @ \cup {s},
                               !.bytes = @ \cup {e}]
<1>1. /\ att[i] \in AttemptType /\ att[i].phase = "running" /\ s \in Inputs[att[i].out]
      /\ att[i].out \in Outs
  BY DEF Inv, TypeOK, ReadSource, Running, Accounts, BuildsOK, InFlightOK
<1>2. /\ c.phase = "running" /\ c.out = att[i].out /\ c.command = att[i].command
      /\ c.ok = att[i].ok /\ c.reads = att[i].reads \cup {s}
      /\ c.seen = att[i].seen \cup {s} /\ c.bytes = att[i].bytes \cup {e}
  BY <1>1 DEF AttemptType
<1>3. att' = [att EXCEPT ![i] = c] /\ UNCHANGED buildStep
  BY DEF Inv, TypeOK, ReadSource, buildOnly, buildStep
<1>4. /\ e[1] = s /\ e[2] = version[s] /\ version[s] \in Nat /\ applied[s] \in Nat
      /\ applied[s] <= version[s]
  BY BoundsAssumption DEF Inv, TypeOK, BoundsAssumption, CurrencyInv, VersionsOK
<1> HIDE DEF c, e
<1>5. att'[i] = c
  BY <1>3 DEF Inv, TypeOK
<1>6. BuildOK(i) /\ Reads(i) /\ (Told(i) => Told(i)')
  BY <1>1, <1>2, <1>3, <1>5 DEF CurrencyInv, Reads, Told, buildStep, bookVars
<1>7. Done(i)' = Done(i) \cup {s} /\ s \notin Outs
  BY <1>2, <1>5, NamesAssumption DEF Done, NamesAssumption
<1>8. content' = content /\ version' = version /\ applied' = applied /\ watcher' = watcher
  BY <1>3 DEF buildStep, fileVars, sourceVars
<1>9. ASSUME Frame, ~Told(i)' PROVE ReadOK(i)'
  <2>1. ReadOK(i)
    BY <1>6, <1>9 DEF BuildOK
  <2>2. \A x \in att'[i].reads \cap Sources : \E f \in att'[i].bytes : f[1] = x
    BY <1>2, <1>4, <1>5, <2>1 DEF ReadOK
  <2>3. \A p \in Done(i)' \cap Outs : Built(p)' /\ content'[p] \subseteq att'[i].bytes
    BY <1>2, <1>5, <1>7, <1>8, <1>9, <2>1 DEF ReadOK, Frame, Grows
  <2>4. \A f \in att'[i].bytes : \/ f[1] \in Inputs[att'[i].out] \cap Sources
                                 \/ \E p \in Done(i)' \cap Outs : f \in content'[p]
    BY <1>1, <1>2, <1>4, <1>5, <1>7, <1>8, <2>1 DEF ReadOK
  <2>5. \A f \in att'[i].bytes : f[1] \in Sources => f[2] \in 0..version'[f[1]]
    BY <1>2, <1>4, <1>5, <1>8, <2>1 DEF ReadOK
  <2>6. Fresh(att[i].bytes)'
    BY <1>2, <1>4, <1>5, <1>8, <2>1 DEF ReadOK, Fresh
  <2> QED  BY <2>2, <2>3, <2>4, <2>5, <2>6 DEF ReadOK
<1>10. /\ Inputs[att[i].out] \subseteq Sources \cup Outs
       /\ Done(i) \subseteq att[i].reads /\ att[i].reads \subseteq Inputs[att[i].out]
  BY <1>1, <1>6, InputsAssumption DEF InputsAssumption, BuildOK
<1>11. ASSUME Frame PROVE BuildOK(i)'
  <2>1. Done(i)' \subseteq att'[i].reads /\ att'[i].reads \subseteq Inputs[att[i].out]
    BY <1>1, <1>2, <1>5, <1>7, <1>10
  <2>2. m_commands' = m_commands
    BY <1>3 DEF buildStep, bookVars
  <2> QED  BY <1>1, <1>2, <1>5, <1>6, <1>9, <1>11, <2>1, <2>2, HasRead
<1>12. ASSUME Frame, MarkedReads(i) PROVE MarkedReads(i)'
  <2> SUFFICES ASSUME Marking', ~Told(i)', NEW f \in att'[i].bytes, Old(f)'
               PROVE  \/ att'[i].out \in watcher'.outputs
                      \/ \E p \in Done(i)' \cap Outs : f \in content'[p]
    BY DEF MarkedReads
  <2>1. Old(f) /\ Marking
    BY <1>8 DEF Old, Marking
  <2>2. f # e
    BY <1>4, <2>1 DEF Old, Inv, WatcherOK, CurrencyInv, VersionsOK, Marking
  <2> QED  BY <1>2, <1>5, <1>6, <1>7, <1>8, <1>12, <2>1, <2>2 DEF MarkedReads
<1> QED  BY <1>1, <1>2, <1>3, <1>11, <1>12, OneBuild DEF UnderWay

\* What an output is recorded for: a rule makes it, or it is copied.
LEMMA RecordReadFacts ==
    ASSUME Inv, NEW i \in Attempts, NEW o \in Outs, RecordRead(i, o)
    PROVE  /\ UNCHANGED buildStep
           /\ att[i] \in AttemptType /\ att[i].phase = "running"
           /\ o \in Inputs[att[i].out]
           /\ \E c : /\ att' = [att EXCEPT ![i] = c] /\ att'[i] = c
                    /\ c.phase = "asked" /\ c.out = att[i].out
                    /\ c.command = att[i].command /\ c.ok = att[i].ok
                    /\ c.bytes = att[i].bytes /\ c.seen = att[i].seen
                    /\ c.keep = att[i].keep /\ c.invalidations = att[i].invalidations
                    /\ c.input = o /\ (Declared(o) => o \in c.reads)
                    /\ c.reads \in {att[i].reads, att[i].reads \cup {o}}
<1>1. PICK R : /\ att' = [att EXCEPT ![i].phase = "asked", ![i].input = o,
                                     ![i].reads = @ \cup R]
               /\ R = {p \in {o} : Declared(p) \/ Copying(i)}
  BY DEF RecordRead
<1>2. /\ UNCHANGED buildStep /\ att[i] \in AttemptType /\ att[i].phase = "running"
      /\ o \in Inputs[att[i].out]
  BY DEF Inv, TypeOK, RecordRead, Running, buildOnly, buildStep
<1>3. R \in {{}, {o}} /\ (Declared(o) => R = {o})
  BY <1>1
<1> DEFINE c == [att[i] EXCEPT !.phase = "asked", !.input = o, !.reads = @ \cup R]
<1>4. att' = [att EXCEPT ![i] = c] /\ att'[i] = c
  BY <1>1 DEF Inv, TypeOK
<1>5. /\ c.phase = "asked" /\ c.out = att[i].out /\ c.command = att[i].command
      /\ c.ok = att[i].ok /\ c.bytes = att[i].bytes /\ c.seen = att[i].seen
      /\ c.keep = att[i].keep /\ c.invalidations = att[i].invalidations
      /\ c.input = o /\ c.reads = att[i].reads \cup R
  BY <1>2 DEF AttemptType
<1>6. /\ Declared(o) => o \in c.reads
      /\ c.reads \in {att[i].reads, att[i].reads \cup {o}}
  BY <1>3, <1>5
<1> HIDE DEF c
<1> QED  BY <1>2, <1>4, <1>5, <1>6

LEMMA RecordReadCurrency ==
    ASSUME Inv, Inv', CurrencyInv, NEW i \in Attempts, NEW o \in Outs, RecordRead(i, o)
    PROVE  CurrencyInv'
<1>1. /\ UNCHANGED buildStep /\ att[i] \in AttemptType /\ att[i].phase = "running"
      /\ o \in Inputs[att[i].out]
  BY RecordReadFacts
<1>2. PICK c : /\ att' = [att EXCEPT ![i] = c] /\ att'[i] = c
               /\ c.phase = "asked" /\ c.out = att[i].out
               /\ c.command = att[i].command /\ c.ok = att[i].ok
               /\ c.bytes = att[i].bytes /\ c.seen = att[i].seen
               /\ c.input = o /\ (Declared(o) => o \in c.reads)
               /\ c.reads \in {att[i].reads, att[i].reads \cup {o}}
  BY RecordReadFacts
<1>3. SameReads(i)
  BY <1>2, NamesAssumption DEF SameReads, Done, NamesAssumption
<1>4. /\ BuildOK(i) /\ Reads(i) /\ Reads(i)' /\ (Told(i)' <=> Told(i))
      /\ watcher' = watcher /\ m_commands' = m_commands
  BY <1>1, <1>2 DEF CurrencyInv, Reads, Told, buildStep, bookVars
<1>5. ASSUME Frame PROVE BuildOK(i)'
  <2>1. ~Told(i)' => ReadOK(i)'
    BY <1>3, <1>4, <1>5, FrameReads, FrameGrows DEF BuildOK
  <2>2. /\ att'[i].command = FirstManifest[att'[i].out] /\ ~att'[i].ok
        /\ Done(i)' \subseteq att'[i].reads
        /\ att'[i].reads \subseteq Inputs[att'[i].out]
    BY <1>1, <1>2, <1>4 DEF BuildOK, Done, Reads
  <2>3. Declared(att[i].out)' /\ (Declared(o)' => o \in att'[i].reads)
    BY <1>1, <1>2, <1>4 DEF BuildOK, Declared
  <2> QED  BY <1>1, <1>2, <2>1, <2>2, <2>3 DEF BuildOK
<1>6. ASSUME Frame, MarkedReads(i) PROVE MarkedReads(i)'
  BY <1>3, <1>4, <1>6, FrameMarkedReads, FrameGrows
<1> QED  BY <1>1, <1>2, <1>5, <1>6, OneBuild DEF UnderWay

LEMMA ReadOutputCurrency ==
    ASSUME Inv, Inv', CurrencyInv, NEW i \in Attempts, ReadOutput(i)
    PROVE  CurrencyInv'
<1> DEFINE p == att[i].input
           k == IF p \in files THEN "running" ELSE "failed"
           m == IF p \in att[i].reads THEN {} ELSE {Unrecorded}
           c == [att[i] EXCEPT !.phase = k, !.seen = @ \cup {p},
                               !.bytes = @ \cup content[p] \cup m, !.input = None]
<1>1. /\ att[i] \in AttemptType /\ att[i].phase = "opening" /\ p \in Outs
      /\ att[i].out \in Outs /\ att[i].target = None
  BY DEF Inv, TypeOK, ReadOutput, Accounts, BuildsOK, InFlightOK, WaitersOK
<1>2. k = (IF p \in files THEN "running" ELSE "failed") /\ (p \in att[i].reads => m = {})
  OBVIOUS
<1> HIDE DEF k, m
<1>3. /\ c.phase = k /\ c.out = att[i].out /\ c.command = att[i].command
      /\ c.ok = att[i].ok /\ c.reads = att[i].reads /\ c.seen = att[i].seen \cup {p}
      /\ c.bytes = att[i].bytes \cup content[p] \cup m
  BY <1>1 DEF AttemptType
<1>4. att' = [att EXCEPT ![i] = c] /\ UNCHANGED buildStep
  BY DEF Inv, TypeOK, ReadOutput, buildOnly, buildStep, k, m
<1> HIDE DEF c, p
<1>5. att'[i] = c
  BY <1>4 DEF Inv, TypeOK
<1>6. BuildOK(i) /\ Reads(i) /\ (Told(i) => Told(i)')
  BY <1>1, <1>3, <1>4, <1>5 DEF CurrencyInv, Reads, Told, buildStep, bookVars
<1>7. content' = content /\ version' = version /\ applied' = applied /\ watcher' = watcher
  BY <1>4 DEF buildStep, fileVars, sourceVars
<1>8. CASE p \notin files
  <2>1. att'[i].phase = "failed" /\ ~att'[i].ok
    BY <1>1, <1>2, <1>3, <1>5, <1>6, <1>8 DEF BuildOK
  <2>2. Declared(att[i].out)'
    BY <1>1, <1>3, <1>4, <1>5, <1>6 DEF BuildOK, Declared, buildStep, bookVars
  <2>3. BuildOK(i)' /\ MarkedReads(i)'
    BY <2>1, <2>2, LeavesOff
  <2> QED  BY <1>1, <1>4, <1>5, <2>1, <2>3, OneBuild DEF UnderWay
<1>9. CASE p \in files
  <2>1. Declared(p) /\ p \in att[i].reads /\ att'[i].phase = "running"
    BY <1>1, <1>2, <1>3, <1>5, <1>6, <1>9 DEF CurrencyInv, RulesOK, BuildOK, p
  <2>2. Done(i)' = Done(i) \cup {p} /\ att'[i].bytes = att[i].bytes \cup content[p]
    BY <1>2, <1>3, <1>5, <2>1 DEF Done
  <2>3. ASSUME Frame, ~Told(i)' PROVE ReadOK(i)'
    <3>1. ReadOK(i) /\ Built(p)
      BY <1>1, <1>6, <2>1, <2>3 DEF BuildOK, WaitOK, p
    <3>2. Good(p, content[p])
      <4>1. Missed \notin content[p]
        BY <1>3, <1>5, <2>2, <2>3 DEF Told
      <4> QED  BY <1>1, <3>1, <4>1 DEF CurrencyInv, BuiltOK
    <3>3. \A x \in att'[i].reads \cap Sources : \E f \in att'[i].bytes : f[1] = x
      BY <1>3, <1>5, <2>2, <3>1 DEF ReadOK
    <3>4. \A q \in Done(i)' \cap Outs : Built(q)' /\ content'[q] \subseteq att'[i].bytes
      BY <1>3, <1>5, <1>7, <2>2, <2>3, <3>1 DEF ReadOK, Frame, Grows
    <3>5. \A f \in att'[i].bytes : \/ f[1] \in Inputs[att'[i].out] \cap Sources
                                   \/ \E q \in Done(i)' \cap Outs : f \in content'[q]
      BY <1>1, <1>3, <1>5, <1>7, <2>1, <2>2, <3>1 DEF ReadOK
    <3>6. \A f \in att'[i].bytes : f[1] \in Sources => f[2] \in 0..version'[f[1]]
      BY <1>3, <1>5, <2>2, <1>7, <3>1, <3>2 DEF ReadOK, Good
    <3>7. Fresh(att[i].bytes)'
      BY <1>3, <1>5, <2>2, <1>7, <3>1, <3>2 DEF ReadOK, Good, Fresh
    <3> QED  BY <3>3, <3>4, <3>5, <3>6, <3>7 DEF ReadOK
  <2>4. Done(i)' \subseteq att'[i].reads /\ att'[i].reads \subseteq Inputs[att[i].out]
    BY <1>3, <1>5, <1>6, <2>1, <2>2 DEF BuildOK
  <2>5. ASSUME Frame PROVE BuildOK(i)'
    BY <1>3, <1>4, <1>5, <1>6, <2>1, <2>3, <2>4, <2>5, HasRead DEF buildStep, bookVars
  <2>6. ASSUME MarkedReads(i) PROVE MarkedReads(i)'
    <3> SUFFICES ASSUME Marking', ~Told(i)', NEW f \in att'[i].bytes, Old(f)'
                 PROVE  \/ att'[i].out \in watcher'.outputs
                        \/ \E q \in Done(i)' \cap Outs : f \in content'[q]
      BY DEF MarkedReads
    <3>1. Old(f) /\ Marking /\ ~Told(i)
      BY <1>6, <1>7 DEF Old, Marking
    <3>2. CASE f \in att[i].bytes
      <4>1. \/ att[i].out \in watcher.outputs
            \/ \E q \in Done(i) \cap Outs : f \in content[q]
        BY <1>6, <2>6, <3>1, <3>2 DEF MarkedReads
      <4> QED  BY <1>3, <1>5, <1>7, <2>2, <4>1
    <3>3. CASE f \in content[p]
      BY <1>1, <1>7, <2>1, <2>2, <3>3
    <3>4. f \in att[i].bytes \/ f \in content[p]
      BY <1>3, <1>5, <2>2
    <3> QED  BY <3>2, <3>3, <3>4
  <2> QED  BY <1>1, <1>4, <1>5, <2>1, <2>5, <2>6, OneBuild DEF UnderWay
<1> QED  BY <1>8, <1>9

\* What waited on the build i, or on the one it orphaned, goes on or fails.
Wakes(i, j) ==
    /\ att[j].phase = "opening" /\ att[j].target \in {i, att[i].orphaned} \ {None}
    /\ att'[j].phase \in {"opening", "failed"} /\ att'[j].target = None
    /\ att'[j].phase = "opening" <=> att[j].target = i /\ att[i].ok
    /\ att'[j].out = att[j].out /\ att'[j].command = att[j].command
    /\ att'[j].reads = att[j].reads /\ att'[j].bytes = att[j].bytes
    /\ att'[j].input = att[j].input /\ att'[j].ok = att[j].ok /\ att'[j].seen = att[j].seen

LEMMA CompleteFacts ==
    ASSUME Inv, NEW i \in Attempts, Complete(i)
    PROVE  /\ UNCHANGED buildStep /\ att[i].phase = "settled"
           /\ att'[i].phase \in {"completed", "free"}
           /\ att'[i].phase # "free" => att'[i].out = att[i].out
           /\ \A j \in Attempts \ {i} :
                 \/ att'[j] = att[j]
                 \/ att[j].phase = "next" /\ att'[j].phase = "free"
                 \/ Wakes(i, j)
<1> DEFINE woken(j) == [att[j] EXCEPT !.target = None,
                           !.phase = IF att[j].target = i /\ att[i].ok THEN "opening"
                                                                       ELSE "failed"]
<1>1. /\ att[i].phase = "settled" /\ att[i].orphaned \in Attempts \cup {None}
      /\ \A j \in Attempts : att[j] \in AttemptType
      /\ att[i].orphaned # None => att[att[i].orphaned].phase = "next"
  <2>1. att[i].phase = "settled" /\ \A j \in Attempts : att[j] \in AttemptType
    BY DEF Inv, TypeOK, Complete
  <2>2. att[i].orphaned \in Attempts \cup {None}
    BY <2>1 DEF AttemptType
  <2> QED  BY <2>1, <2>2 DEF Inv, Accounts, BuildsOK, OrphansOK
<1>2. UNCHANGED buildStep
  BY DEF Complete, buildStep
<1>3. /\ att'[i].phase \in {"completed", "free"}
      /\ att'[i].phase # "free" => att'[i].out = att[i].out
  <2>1. att'[i] = IF att[i].keep THEN [att[i] EXCEPT !.phase = "completed"] ELSE Free
    BY DEF Complete
  <2>2. /\ [att[i] EXCEPT !.phase = "completed"].phase = "completed"
        /\ [att[i] EXCEPT !.phase = "completed"].out = att[i].out
    BY <1>1 DEF AttemptType
  <2> QED  BY <2>1, <2>2 DEF Free
<1>4. ASSUME NEW j \in Attempts \ {i}, j = att[i].orphaned
      PROVE  att[j].phase = "next" /\ att'[j].phase = "free"
  <2>1. j \in Ends(i) \ {i} /\ att[j].phase = "next"
    BY <1>1, <1>4, NoneAssumption DEF Ends, NoneAssumption
  <2> QED  BY <2>1 DEF Complete, Free
<1>5. ASSUME NEW j \in Attempts \ {i, att[i].orphaned}
      PROVE  att'[j] = att[j] \/ Wakes(i, j)
  <2>1. \/ att'[j] = att[j]
        \/ /\ att[j].phase = "opening" /\ att'[j] = woken(j)
           /\ att[j].target \in {i, att[i].orphaned} \ {None}
    BY DEF Complete, Ends
  <2> DEFINE k == IF att[j].target = i /\ att[i].ok THEN "opening" ELSE "failed"
  <2>2. /\ k \in {"opening", "failed"}
        /\ k = "opening" <=> att[j].target = i /\ att[i].ok
    OBVIOUS
  <2>3. woken(j) = [att[j] EXCEPT !.target = None, !.phase = k]
    OBVIOUS
  <2> HIDE DEF k
  <2>4. /\ woken(j).phase = k /\ woken(j).target = None /\ woken(j).out = att[j].out
        /\ woken(j).reads = att[j].reads /\ woken(j).bytes = att[j].bytes
        /\ woken(j).input = att[j].input /\ woken(j).ok = att[j].ok
        /\ woken(j).command = att[j].command /\ woken(j).seen = att[j].seen
    <3>1. PICK e \in AttemptType : e = att[j]
      BY <1>1
    <3>2. woken(j) = [e EXCEPT !.target = None, !.phase = k]
      BY <2>3, <3>1
    <3> HIDE DEF woken
    <3>3. /\ woken(j).phase = k /\ woken(j).target = None /\ woken(j).out = e.out
          /\ woken(j).reads = e.reads /\ woken(j).bytes = e.bytes
          /\ woken(j).input = e.input /\ woken(j).ok = e.ok
          /\ woken(j).command = e.command /\ woken(j).seen = e.seen
      <4>1. DOMAIN e = {"phase", "out", "target", "input", "reads", "bytes", "ok",
                        "command", "orphaned", "launches", "keep", "stamps",
                        "invalidations", "seen"}
        BY DEF AttemptType
      <4> QED  BY <3>2, <4>1
    <3> QED  BY <3>1, <3>3
  <2> HIDE DEF woken
  <2> QED  BY <2>1, <2>2, <2>4 DEF Wakes
<1> QED  BY <1>1, <1>2, <1>3, <1>4, <1>5

(* complete(): what waited on the build goes on, or fails with it.         *)
LEMMA CompleteCurrency ==
    ASSUME Inv, Inv', CurrencyInv, NEW i \in Attempts, Complete(i)
    PROVE  CurrencyInv'
<1>1. /\ UNCHANGED buildStep /\ att[i].phase = "settled"
      /\ att'[i].phase \in {"completed", "free"}
      /\ att'[i].phase # "free" => att'[i].out = att[i].out
      /\ \A j \in Attempts \ {i} :
            \/ att'[j] = att[j]
            \/ att[j].phase = "next" /\ att'[j].phase = "free"
            \/ Wakes(i, j)
  BY CompleteFacts
<1>2. \A j \in Attempts : BuildOK(j)
  BY DEF CurrencyInv
<1>3. /\ Frame /\ watcher' = watcher /\ m_commands' = m_commands
      /\ RulesOK' /\ BuiltOK' /\ VersionsOK' /\ ComingOK' /\ IdleOK'
  <2>1. \A j \in Attempts :
               /\ att'[j].phase = "published" <=> att[j].phase = "published"
               /\ att[j].phase = "published" => att'[j].out = att[j].out
    <3> TAKE j \in Attempts
    <3>1. CASE j = i
      BY <1>1, <3>1
    <3>2. CASE j # i
      BY <1>1, <3>2 DEF Wakes
    <3> QED  BY <3>1, <3>2
  <2> QED  BY <1>1, <2>1, BooksStay
<1>4. \A j \in Attempts : Answers(j)
  <2> TAKE j \in Attempts
  <2>1. CASE j = i
    BY <1>1, <2>1 DEF Answers, UnderWay
  <2>2. CASE j # i
    BY <1>1, <2>2 DEF Answers, UnderWay, Wakes, buildStep, bookVars
  <2> QED  BY <2>1, <2>2
<1>5. ASSUME NEW j \in Attempts
      PROVE  BuildOK(j)' /\ (MarkedReads(j) => MarkedReads(j)')
  <2>1. CASE j = i
    <3>1. Declared(att[i].out)' \/ att'[i].phase = "free"
      BY <1>1, <1>2 DEF BuildOK, Declared, buildStep, bookVars
    <3> QED  BY <1>1, <2>1, <3>1, LeavesOff
  <2>2. CASE j # i /\ att'[j].phase = "free"
    BY <2>2, LeavesOff
  <2>3. CASE j # i /\ att'[j] = att[j]
    <3>1. Spared(j)
      BY <1>1, <2>3 DEF Spared, buildStep, bookVars
    <3> QED  BY <1>2, <1>3, <1>4, <3>1, SparedBuild, FrameGrows, SparedMark DEF Inv
  <2>4. CASE j # i /\ Wakes(i, j)
    <3>1. /\ Declared(att[j].out)' /\ ~att'[j].ok
          /\ att'[j].command = FirstManifest[att'[j].out]
          /\ Done(j)' \subseteq att'[j].reads
          /\ att'[j].reads \subseteq Inputs[att'[j].out]
          /\ att'[j].input \in Inputs[att'[j].out]
      BY <1>1, <1>2, <2>4 DEF Wakes, BuildOK, Done, Reads, Declared, buildStep, bookVars
    <3>2. CASE att'[j].phase # "opening"
      BY <2>4, <3>1, <3>2, LeavesOff DEF Wakes
    <3>3. CASE att'[j].phase = "opening"
      <4>1. att[j].target = i /\ att[i].ok /\ att'[j].target = None
        BY <2>4, <3>3 DEF Wakes
      <4>2. SameReads(j) /\ Reads(j) /\ (Told(j)' <=> Told(j))
        BY <1>1, <2>4, <3>3 DEF Wakes, SameReads, Done, Reads, Told, buildStep, bookVars
      <4>3. ~Told(j)' => ReadOK(j)'
        BY <1>2, <1>3, <4>2, FrameReads, FrameGrows DEF BuildOK
      <4>4. ASSUME ~Told(j)' PROVE WaitOK(att[j].target, att[j].input)'
        <5>1. Built(att[j].input) /\ att[j].input \in Outs
          BY <1>1, <1>2, <2>4, <4>1, <4>2, <4>4, NoneAssumption
             DEF Wakes, BuildOK, WaitOK, NoneAssumption, Inv, Accounts, BuildsOK, WaitersOK
        <5>2. PICK p : p = att[j].input
          OBVIOUS
        <5>3. Built(p)' /\ att'[j].input = p
          BY <1>3, <2>4, <5>1, <5>2 DEF Wakes, Frame, Grows
        <5> QED  BY <4>1, <5>3 DEF WaitOK
      <4>5. Declared(att[j].input)' => att'[j].input \in att'[j].reads
        BY <1>1, <1>2, <2>4 DEF Wakes, BuildOK, Declared, buildStep, bookVars
      <4>6. BuildOK(j)'
        BY <3>1, <3>3, <4>3, <4>4, <4>5 DEF BuildOK
      <4>7. MarkedReads(j) => MarkedReads(j)'
        BY <1>2, <1>3, <4>2, FrameMarkedReads, FrameGrows
      <4> QED  BY <4>6, <4>7
    <3> QED  BY <3>2, <3>3
  <2> QED  BY <1>1, <2>1, <2>2, <2>3, <2>4
<1>6. MarkOK'
  BY <1>3, <1>5, FrameMark DEF CurrencyInv
<1> QED  BY <1>3, <1>5, <1>6 DEF CurrencyInv

-----------------------------------------------------------------------------
(* An output is brought up to date: b is what becomes of the builds.       *)

IsNew(c, o) ==
    /\ c.phase = "running" /\ c.out = o /\ c.command = m_commands[o]
    /\ c.reads = {} /\ c.seen = {} /\ c.bytes = {} /\ ~c.ok
    /\ c.invalidations = m_invalidations[o] /\ ~c.keep

Queues(o, b, n) ==
    /\ att[n].phase \in {"free", "next"}
    /\ b[n].phase = "next" /\ b[n].out = o /\ ~b[n].keep
    /\ \A j \in Attempts \ {n} : b[j] = att[j]
    /\ o \in m_stale /\ next' = [next EXCEPT ![o] = n]
    /\ m_stale' = m_stale /\ m_in_flight' = m_in_flight

Begins(o, b, n) ==
    /\ att[n].phase = "free" /\ IsNew(b[n], o)
    /\ \A j \in Attempts \ {n} : b[j] = att[j]
    /\ o \in m_stale /\ o \notin m_in_flight
    /\ next' = [next EXCEPT ![o] = None]
    /\ m_stale' = m_stale \ {o} /\ m_in_flight' = m_in_flight \cup {o}

Brought(o, b) ==
    \/ b = att /\ next' = next /\ m_stale' = m_stale /\ m_in_flight' = m_in_flight
    \/ Declared(o) /\ \E n \in Attempts : Queues(o, b, n) \/ Begins(o, b, n)

LEMMA NewIsNew ==
    ASSUME TypeOK, Accounts, NEW o \in Outs, o \notin m_in_flight, NameLeft(o)
    PROVE  /\ NextAttempt(o) \in Attempts /\ att[NextAttempt(o)].phase = "free"
           /\ IsNew(Claimed(o, att)[NextAttempt(o)], o)
           /\ \A j \in Attempts \ {NextAttempt(o)} : Claimed(o, att)[j] = att[j]
<1>1. /\ NextAttempt(o) \in Attempts /\ att[NextAttempt(o)].phase = "free"
      /\ \A j \in Attempts \ {NextAttempt(o)} : Claimed(o, att)[j] = att[j]
  BY ClaimFacts
<1>2. Claimed(o, att)[NextAttempt(o)] =
        [Free EXCEPT !.phase = "running", !.out = o, !.command = m_commands[o],
                     !.invalidations = m_invalidations[o]]
  BY <1>1 DEF Claimed, TypeOK
<1> QED  BY <1>1, <1>2 DEF IsNew, Free

LEMMA OpenBrings ==
    ASSUME TypeOK, Accounts, NEW o \in Outs, bring_up_to_date(o)
    PROVE  Brought(o, WithTarget(o))
<1>1. CASE Awaits(o)
  <2> DEFINE n == NextAttempt(o)
             c == [Free EXCEPT !.phase = "next", !.out = o]
  <2>1. /\ o \in m_in_flight /\ o \in m_stale /\ Declared(o) /\ NameLeft(o) /\ ~Claims(o)
        /\ next' = [next EXCEPT ![o] = n]
        /\ m_stale' = m_stale /\ m_in_flight' = m_in_flight
    BY <1>1 DEF bring_up_to_date, Awaits, Claims, Joins
  <2>2. WithTarget(o) = [att EXCEPT ![n] = c]
    BY <1>1, <2>1 DEF WithTarget
  <2>3. n \in Attempts /\ att[n].phase \in {"free", "next"}
    BY <2>1, AwaitFacts
  <2>4. c.phase = "next" /\ c.out = o /\ ~c.keep
    BY DEF Free
  <2> HIDE DEF n, c
  <2>5. Queues(o, WithTarget(o), n)
    BY <2>1, <2>2, <2>3, <2>4 DEF Queues, TypeOK
  <2> QED  BY <2>1, <2>3, <2>5 DEF Brought
<1>2. CASE Claims(o)
  <2>1. /\ o \notin m_in_flight /\ o \in m_stale /\ Declared(o) /\ NameLeft(o) /\ ~Awaits(o)
        /\ next' = [next EXCEPT ![o] = None]
        /\ m_stale' = m_stale \ {o} /\ m_in_flight' = m_in_flight \cup {o}
    BY <1>2 DEF bring_up_to_date, claim_build, Awaits, Claims
  <2>2. WithTarget(o) = Claimed(o, att)
    BY <1>2, <2>1 DEF WithTarget
  <2> QED  BY <2>1, <2>2, NewIsNew DEF Brought, Begins
<1>3. CASE ~Awaits(o) /\ ~Claims(o)
  BY <1>3 DEF bring_up_to_date, WithTarget, Brought
<1> QED  BY <1>1, <1>2, <1>3

LEMMA StartBrings ==
    ASSUME TypeOK, Accounts, NEW o \in Outs, start_build(o)
    PROVE  Brought(o, att')
<1>1. CASE o \in m_stale /\ o \notin m_in_flight /\ Declared(o)
  BY <1>1, NewIsNew DEF start_build, claim_build, Brought, Begins
<1>2. CASE ~(o \in m_stale /\ o \notin m_in_flight /\ Declared(o))
  BY <1>2 DEF start_build, Brought
<1> QED  BY <1>1, <1>2

\* Builds go on as b has them, but for one that waits for the output.
Opens(j) ==
    /\ att[j].phase = "asked" /\ att'[j].phase = "opening" /\ att'[j].out = att[j].out

bookStay == <<sourceVars, bookRest, fileVars, applied>>

LEMMA BroughtFrame ==
    ASSUME Inv, Inv', CurrencyInv, NEW o \in Outs, NEW b, Brought(o, b), UNCHANGED bookStay,
           \A j \in Attempts : att'[j] = b[j] \/ (b[j] = att[j] /\ Opens(j))
    PROVE  Frame
<1>1. \A j \in Attempts : /\ att'[j].phase = "published" <=> att[j].phase = "published"
                          /\ att[j].phase = "published" => att'[j].out = att[j].out
  BY DEF Brought, Queues, Begins, IsNew, Opens
<1>2. \A p \in Outs : Published(p)' <=> Published(p)
  BY <1>1, SamePublished
<1>3. \A p \in Outs : Built(p)' <=> Built(p)
  <2>1. CASE m_stale' = m_stale /\ m_in_flight' = m_in_flight
    BY <1>2, <2>1 DEF Built, Declared, bookStay, bookRest
  <2>2. CASE /\ o \in m_stale /\ o \notin m_in_flight
             /\ m_stale' = m_stale \ {o} /\ m_in_flight' = m_in_flight \cup {o}
    <3>1. ~Published(o)
      BY <2>2 DEF Published, Inv, Accounts, BuildsOK, InFlightOK, Builds, UnderWay
    <3>2. ~Built(o) /\ ~Built(o)'
      BY <1>2, <2>2, <3>1 DEF Built
    <3> QED  BY <1>2, <2>2, <3>2 DEF Built, Declared, bookStay, bookRest
  <2> QED  BY <2>1, <2>2 DEF Brought, Queues, Begins
<1>4. \A s \in Sources : version[s] \in Nat /\ version'[s] \in Nat /\ version[s] <= version'[s]
  BY BoundsAssumption DEF Inv, TypeOK, BoundsAssumption, bookStay, sourceVars
<1> QED  BY <1>3, <1>4 DEF Frame, Grows, bookStay, bookRest, fileVars

LEMMA BroughtFacts ==
    ASSUME Inv, Inv', CurrencyInv, NEW o \in Outs, NEW b, Brought(o, b), UNCHANGED bookStay,
           \A j \in Attempts : att'[j] = b[j] \/ (b[j] = att[j] /\ Opens(j))
    PROVE  /\ RulesOK'
           /\ \A j \in Attempts : Answers(j)
           /\ \A j \in Attempts :
                 Reads(j) => (att[j].out \in m_stale => att[j].out \in m_stale')
           /\ \A j \in Attempts : att'[j] = b[j] =>
                 BuildOK(j)' /\ (watcher' = watcher /\ MarkedReads(j) => MarkedReads(j)')
<1>1. Frame
  BY BroughtFrame
<1>2. UNCHANGED <<manifest, m_commands, files, m_dependencies>>
  BY DEF bookStay, bookRest, sourceVars, fileVars
<1>3. RulesOK'
  <2>1. \A p \in Outs : next'[p] # None => p \in m_stale'
    BY DEF Brought, Queues, Begins, CurrencyInv, RulesOK, Inv, TypeOK
  <2> QED  BY <1>2, <2>1, SameRules DEF CurrencyInv
<1>4. \A j \in Attempts : att[j].phase \in UnderWay =>
          (att[j].out \in m_stale => att[j].out \in m_stale')
  BY DEF Brought, Queues, Begins, Inv, Accounts, BuildsOK, InFlightOK, Builds
<1>5. \A j \in Attempts : Answers(j)
  <2> SUFFICES ASSUME NEW j \in Attempts, att[j].phase \in Coming
               PROVE  Answers(j)
    BY DEF Answers
  <2>1. m_stale' \subseteq m_stale
    BY DEF Brought, Queues, Begins
  <2>2. \/ att'[j] = att[j]
        \/ Opens(j)
        \/ att'[j].phase = "next"
    BY DEF Brought, Queues, Begins, Coming, UnderWay
  <2> QED  BY <2>1, <2>2 DEF Answers, Opens, UnderWay
<1>6. ASSUME NEW j \in Attempts, att'[j] = b[j]
      PROVE  BuildOK(j)' /\ (watcher' = watcher /\ MarkedReads(j) => MarkedReads(j)')
  <2>1. CASE att'[j] = att[j]
    <3>1. Spared(j)
      BY <1>2, <1>4, <2>1 DEF Spared, UnderWay
    <3> QED  BY <1>1, <1>2, <1>5, <3>1, SparedBuild, FrameGrows, SparedMark DEF Inv, CurrencyInv
  <2>2. CASE att'[j] # att[j]
    <3>1. Declared(o) /\ (Queues(o, b, j) \/ Begins(o, b, j))
      BY <1>6, <2>2 DEF Brought, Queues, Begins
    <3>2. CASE Queues(o, b, j)
      <4>1. att'[j].phase = "next" /\ Declared(att[j].out)'
        BY <1>2, <1>6, <3>1, <3>2 DEF Queues, Declared
      <4> QED  BY <4>1, LeavesOff
    <3>3. CASE Begins(o, b, j)
      <4>1. /\ IsNew(att'[j], o) /\ Declared(att[j].out)'
            /\ att'[j].command = FirstManifest[att'[j].out]
        BY <1>2, <1>6, <3>1, <3>3 DEF Begins, IsNew, Declared, CurrencyInv, RulesOK
      <4>2. ReadOK(j)'
        BY <4>1 DEF IsNew, ReadOK, Done, Fresh
      <4>3. BuildOK(j)'
        BY <4>1, <4>2 DEF IsNew, BuildOK, Done
      <4> QED  BY <4>1, <4>3 DEF MarkedReads, IsNew
    <3> QED  BY <3>1, <3>2, <3>3
  <2> QED  BY <2>1, <2>2
<1> QED  BY <1>3, <1>4, <1>5, <1>6 DEF Reads, UnderWay

LEMMA BroughtCurrency ==
    ASSUME Inv, Inv', CurrencyInv, NEW o \in Outs, NEW b, Brought(o, b), UNCHANGED bookStay,
           watcher' = watcher,
           \A j \in Attempts : \/ att'[j] = b[j]
                               \/ /\ b[j] = att[j] /\ Opens(j)
                                  /\ BuildOK(j)' /\ (MarkedReads(j) => MarkedReads(j)')
    PROVE  CurrencyInv'
<1>1. \A j \in Attempts : att'[j] = b[j] \/ (b[j] = att[j] /\ Opens(j))
  OBVIOUS
<1>2. Frame
  BY <1>1, BroughtFrame
<1>3. /\ RulesOK'
      /\ \A j \in Attempts : att'[j] = b[j] =>
            BuildOK(j)' /\ (MarkedReads(j) => MarkedReads(j)')
  BY <1>1, BroughtFacts
<1>4. BuiltOK' /\ VersionsOK'
  BY <1>2, FrameBuilt, FrameVersions DEF Inv, CurrencyInv
<1>5. ComingOK' /\ IdleOK'
  BY SameComing, SameIdle DEF CurrencyInv, bookStay, sourceVars
<1>6. MarkOK'
  BY <1>2, <1>3, FrameMark DEF CurrencyInv, bookStay, bookRest
<1> QED  BY <1>3, <1>4, <1>5, <1>6 DEF CurrencyInv

LEMMA OpenCurrency ==
    ASSUME Inv, Inv', CurrencyInv, NEW r \in Readers, NEW o \in Outs, open(r, o)
    PROVE  CurrencyInv'
<1>1. Brought(o, WithTarget(o)) /\ att' = WithTarget(o) /\ watcher' = watcher
  BY OpenBrings DEF Inv, open
<1>2. UNCHANGED bookStay
  BY DEF open, bookStay
<1> QED  BY <1>1, <1>2, BroughtCurrency

LEMMA MaterializeNextCurrency ==
    ASSUME Inv, Inv', CurrencyInv, NEW o \in Outs, MaterializeNext(o)
    PROVE  CurrencyInv'
<1>1. Brought(o, att') /\ watcher' = watcher
  BY StartBrings DEF Inv, MaterializeNext
<1>2. UNCHANGED bookStay
  BY DEF MaterializeNext, bookStay
<1> QED  BY <1>1, <1>2, BroughtCurrency

LEMMA StartEagerCurrency ==
    ASSUME Inv, Inv', CurrencyInv, NEW o \in Outs, StartEager(o)
    PROVE  CurrencyInv'
<1>1. Brought(o, att') /\ UNCHANGED bookStay
  BY StartBrings DEF Inv, StartEager, bookStay, watcherOnly, sourceVars
<1>2. Frame /\ RulesOK' /\ \A j \in Attempts : BuildOK(j)'
  BY <1>1, BroughtFrame, BroughtFacts
<1>3. BuiltOK'
  BY <1>2, FrameBuilt DEF CurrencyInv
<1>4. /\ ~Marking /\ ~Marking' /\ IdleOK'
      /\ Collecting => Collecting' /\ watcher'.diff = watcher.diff
  <2>1. PICK w : w = [watcher EXCEPT !.eager = @ \ {o}]
    OBVIOUS
  <2>2. w \in WatcherType /\ w.then = watcher.then /\ w.diff = watcher.diff
    BY <2>1 DEF Inv, TypeOK, WatcherType
  <2>3. watcher' = Onward(w) /\ watcher.at = "eager"
    BY <2>1 DEF StartEager
  <2> QED  BY <2>2, <2>3, OnwardFacts DEF Marking, Collecting, IdleOK
<1>5. VersionsOK' /\ MarkOK' /\ ComingOK'
  BY <1>1, <1>2, <1>4, WatcherGoesOn DEF Inv, bookStay, sourceVars
<1> QED  BY <1>2, <1>3, <1>4, <1>5 DEF CurrencyInv

\* What a build that opens an output waits for.
LEMMA TargetAnswers ==
    ASSUME Inv, NEW o \in Outs, bring_up_to_date(o), Frame, m_commands' = m_commands,
           \A j \in Attempts : \/ att'[j] = WithTarget(o)[j]
                               \/ WithTarget(o)[j] = att[j] /\ Opens(j)
    PROVE  \A t : t = Target(o) => WaitOK(t, o)'
<1> SUFFICES ASSUME NEW t, t = Target(o) PROVE WaitOK(t, o)'
  OBVIOUS
<1>1. CASE Awaits(o)
  <2>1. NameLeft(o) /\ o \in m_in_flight /\ ~Joins(o) /\ ~Claims(o)
    BY <1>1 DEF bring_up_to_date, Awaits, Claims
  <2>2. t \in Attempts /\ t = NextAttempt(o) /\ att[t].phase # "asked"
    BY <1>1, <2>1, AwaitFacts DEF Target, Inv
  <2>3. WithTarget(o)[t].phase = "next"
    BY <1>1, <2>1, <2>2 DEF WithTarget, Inv, TypeOK, Free
  <2>4. att'[t].phase = "next"
    BY <2>2, <2>3 DEF Opens
  <2> QED  BY <2>2, <2>4, NoneAssumption DEF WaitOK, UnderWay, NoneAssumption
<1>2. CASE Claims(o)
  <2>1. NameLeft(o) /\ o \notin m_in_flight /\ ~Joins(o) /\ ~Awaits(o) /\ o \notin m_stale'
    BY <1>2 DEF bring_up_to_date, claim_build, Awaits, Claims, Joins
  <2>2. t \in Attempts /\ t = NextAttempt(o) /\ att[t].phase = "free"
    BY <1>2, <2>1, NewIsNew DEF Target, Inv
  <2>3. WithTarget(o)[t].phase = "running"
    BY <1>2, <2>1, <2>2, NewIsNew DEF WithTarget, IsNew, Inv
  <2>4. att'[t].phase = "running"
    BY <2>2, <2>3 DEF Opens
  <2> QED  BY <2>1, <2>2, <2>4, NoneAssumption DEF WaitOK, NoneAssumption
<1>3. CASE ~Awaits(o) /\ ~Claims(o)
  <2>1. m_stale' = m_stale /\ m_in_flight' = m_in_flight /\ WithTarget(o) = att
    BY <1>3 DEF bring_up_to_date, WithTarget
  <2>2. CASE Declared(o) /\ Joins(o)
    <3>1. t = Current(o) /\ o \notin m_stale' /\ o \in m_in_flight
      BY <1>3, <2>1, <2>2 DEF Target, Joins
    <3>2. t \in Attempts /\ att[t].phase \in UnderWay
      BY <3>1, CurrentFacts DEF Inv
    <3>3. att'[t].phase \in UnderWay
      BY <2>1, <3>2 DEF Opens, UnderWay
    <3> QED  BY <3>1, <3>2, <3>3, NoneAssumption DEF WaitOK, UnderWay, NoneAssumption
  <2>3. CASE ~(Declared(o) /\ Joins(o))
    <3>1. t = None
      BY <1>3, <2>3 DEF Target
    <3>2. Declared(o) => Built(o)
      BY <1>3, <2>3 DEF Awaits, Claims, Joins, Built
    <3>3. Declared(o)' => Built(o)'
      BY <3>2 DEF Declared, Frame, Grows
    <3> QED  BY <3>1, <3>3 DEF WaitOK
  <2> QED  BY <2>2, <2>3
<1> QED  BY <1>1, <1>2, <1>3

LEMMA OpenOutputCurrency ==
    ASSUME Inv, Inv', CurrencyInv, NEW i \in Attempts, OpenOutput(i)
    PROVE  CurrencyInv'
<1>0. PICK o \in Outs : o = att[i].input
  BY DEF OpenOutput, Inv, Accounts, BuildsOK, WaitersOK
<1> DEFINE b == WithTarget(o)
<1>1. bring_up_to_date(o) /\ Brought(o, b) /\ UNCHANGED bookStay /\ watcher' = watcher
  BY <1>0, OpenBrings DEF Inv, OpenOutput, bookStay, buildOnly
<1>2. /\ b \in [Attempts -> AttemptType]
      /\ \A j \in Attempts : att[j].phase \in UnderWay => b[j] = att[j]
      /\ Target(o) # None => IsComing(b, Target(o), o)
  BY <1>1, OpenFacts DEF Inv
<1>3. att[i].phase = "asked" /\ b[i] = att[i] /\ b[i] \in AttemptType
  BY <1>2 DEF OpenOutput, UnderWay
<1> DEFINE c == [b[i] EXCEPT !.phase = "opening", !.target = Target(o)]
<1>4. att' = [b EXCEPT ![i] = c]
  BY <1>0, <1>2 DEF OpenOutput
<1> HIDE DEF b
<1>5. /\ c.phase = "opening" /\ c.input = o /\ c.target = Target(o)
      /\ c.out = att[i].out /\ c.command = att[i].command /\ c.ok = att[i].ok
      /\ c.bytes = att[i].bytes /\ c.reads = att[i].reads /\ c.seen = att[i].seen
  BY <1>0, <1>3 DEF AttemptType
<1> HIDE DEF c
<1>6. att'[i] = c /\ \A j \in Attempts \ {i} : att'[j] = b[j]
  BY <1>2, <1>4
<1>7. Opens(i) /\ \A j \in Attempts : att'[j] = b[j] \/ (b[j] = att[j] /\ Opens(j))
  BY <1>3, <1>5, <1>6 DEF Opens
<1>8. Frame /\ (Reads(i) => (att[i].out \in m_stale => att[i].out \in m_stale'))
  BY <1>1, <1>7, BroughtFrame, BroughtFacts
<1>9. BuildOK(i) /\ Reads(i) /\ (Told(i) => Told(i)')
  BY <1>3, <1>5, <1>6, <1>8 DEF CurrencyInv, Reads, Told
<1>10. Done(i)' = Done(i)
  BY <1>3, <1>5, <1>6 DEF Done
<1>11. m_commands' = m_commands
  BY <1>1 DEF bookStay, bookRest
<1>12. ASSUME ~Told(i)' PROVE ReadOK(i)'
  <2>1. ReadOK(i)
    BY <1>9, <1>12 DEF BuildOK
  <2>2. /\ att'[i].reads \cap Sources = att[i].reads \cap Sources
        /\ att'[i].bytes = att[i].bytes /\ att'[i].out = att[i].out
    BY <1>5, <1>6
  <2>3. \A p \in Done(i) \cap Outs : Built(p)' /\ content'[p] = content[p]
    BY <1>8, <2>1 DEF ReadOK, Frame, Grows
  <2>4. version' = version /\ applied' = applied
    BY <1>1 DEF bookStay, sourceVars
  <2>5. Fresh(att[i].bytes)'
    BY <2>1, <2>2, <2>4 DEF ReadOK, Fresh
  <2>6. \A e \in att'[i].bytes : \/ e[1] \in Inputs[att'[i].out] \cap Sources
                                 \/ \E p \in Done(i)' \cap Outs : e \in content'[p]
    BY <1>10, <2>1, <2>2, <2>3 DEF ReadOK
  <2>7. \A p \in Done(i)' \cap Outs : Built(p)' /\ content'[p] \subseteq att'[i].bytes
    BY <1>10, <2>1, <2>2, <2>3 DEF ReadOK
  <2>8. /\ \A s \in att'[i].reads \cap Sources : \E e \in att'[i].bytes : e[1] = s
        /\ \A e \in att'[i].bytes : e[1] \in Sources => e[2] \in 0..version'[e[1]]
    BY <2>1, <2>2, <2>4 DEF ReadOK
  <2> QED  BY <2>5, <2>6, <2>7, <2>8 DEF ReadOK
<1>13. WaitOK(att[i].target, att[i].input)'
  <2>1. PICK t : t = Target(o)
    OBVIOUS
  <2>2. WaitOK(t, o)'
    BY <1>1, <1>7, <1>8, <1>11, <2>1, TargetAnswers DEF b
  <2> QED  BY <1>5, <1>6, <2>1, <2>2
<1>14. /\ Declared(att[i].out)' /\ ~att'[i].ok
       /\ att'[i].command = FirstManifest[att'[i].out]
       /\ Done(i)' \subseteq att'[i].reads /\ att'[i].reads \subseteq Inputs[att'[i].out]
       /\ att'[i].input \in Inputs[att'[i].out]
       /\ Declared(att[i].input)' => att'[i].input \in att'[i].reads
  BY <1>0, <1>3, <1>5, <1>6, <1>9, <1>10, <1>11 DEF BuildOK, Declared
<1>15. BuildOK(i)'
  BY <1>5, <1>6, <1>12, <1>13, <1>14 DEF BuildOK
<1>16. ASSUME MarkedReads(i) PROVE MarkedReads(i)'
  <2> SUFFICES ASSUME Marking', ~Told(i)', NEW e \in att'[i].bytes, Old(e)'
               PROVE  \/ att'[i].out \in watcher'.outputs
                      \/ \E p \in Done(i)' \cap Outs : e \in content'[p]
    BY DEF MarkedReads
  <2>1. Old(e) /\ Marking /\ content' = content
    BY <1>1 DEF Old, Marking, bookStay, fileVars
  <2> QED  BY <1>1, <1>5, <1>6, <1>9, <1>10, <1>16, <2>1 DEF MarkedReads
<1> QED  BY <1>1, <1>3, <1>6, <1>7, <1>15, <1>16, BroughtCurrency

-----------------------------------------------------------------------------
(* A build settles.                                                        *)

\* What Settle(i) does, as far as the invariant looks, n the build claimed.
Settles(i) ==
    /\ att'[i].phase = "settled" /\ att'[i].out = att[i].out /\ att'[i].ok = att[i].ok
    /\ att'[i].keep = att[i].keep /\ att'[i].bytes = att[i].bytes
    /\ att'[i].reads = att[i].reads /\ att'[i].invalidations = att[i].invalidations
    /\ att'[i].orphaned = att[i].orphaned
    /\ \A p \in Outs \ {att[i].out} : m_dependencies'[p] = m_dependencies[p]
    /\ att[i].ok => m_dependencies' = m_dependencies
    /\ \A p \in Outs : next'[p] # None => next'[p] = next[p] /\ p # att[i].out

SettlesLast(i) ==
    /\ Settles(i) /\ ~Rebuilds(att[i].out)
    /\ \A j \in Attempts \ {i} : att'[j] = att[j]
    /\ m_stale' = StaleAfter(att[i].out, att[i].ok)
    /\ m_in_flight' = m_in_flight \ {att[i].out}

Reclaims(i, n) ==
    /\ Settles(i)
    /\ n # i /\ att[n].phase \in {"free", "next"}
    /\ att[n].phase = "next" => att[n].out = att[i].out
    /\ IsNew(att'[n], att[i].out)
    /\ \A j \in Attempts \ {i, n} : att'[j] = att[j]
    /\ att[i].out \in m_stale
    /\ m_stale' = m_stale \ {att[i].out} /\ m_in_flight' = m_in_flight

LEMMA SettleFacts ==
    ASSUME Inv, CurrencyInv, NEW i \in Attempts, Settle(i)
    PROVE  SettlesLast(i) \/ \E n \in Attempts : Reclaims(i, n)
<1> DEFINE o == att[i].out
           d == [att[i] EXCEPT !.phase = "settled"]
<1>1. /\ att[i] \in AttemptType /\ o \in Outs /\ o \in m_in_flight
      /\ att[i].phase \in {"published", "failed"}
  BY EndingFacts DEF Settle, Inv
<1>2. Declared(o)
  <2>1. BuildOK(i)
    BY DEF CurrencyInv
  <2> QED  BY <1>1, <2>1 DEF BuildOK
<1>3. /\ d.phase = "settled" /\ d.out = o /\ d.ok = att[i].ok /\ d \in AttemptType
      /\ d.keep = att[i].keep /\ d.bytes = att[i].bytes
      /\ d.reads = att[i].reads /\ d.invalidations = att[i].invalidations
      /\ d.orphaned = att[i].orphaned
  BY <1>1 DEF AttemptType, Phases
<1>4. [att EXCEPT ![i].phase = "settled"] = [att EXCEPT ![i] = d]
  BY DEF Inv, TypeOK
<1>5. /\ \A p \in Outs \ {o} : m_dependencies'[p] = m_dependencies[p]
      /\ att[i].ok => m_dependencies' = m_dependencies
  BY <1>1 DEF Settle, Inv, TypeOK
<1>6. CASE ~Rebuilds(o)
  <2>1. /\ m_stale' = StaleAfter(o, att[i].ok)
        /\ m_in_flight' = m_in_flight \ {o}
        /\ att' = [att EXCEPT ![i] = d]
        /\ next' = next
    BY <1>2, <1>4, <1>6 DEF Settle
  <2>2. next[o] = None
    BY <1>6 DEF Rebuilds
  <2> HIDE DEF d
  <2>3. att'[i] = d /\ \A j \in Attempts \ {i} : att'[j] = att[j]
    BY <2>1 DEF Inv, TypeOK
  <2> QED  BY <1>3, <1>5, <1>6, <2>1, <2>2, <2>3 DEF Settles, SettlesLast
<1>7. CASE Rebuilds(o)
  <2> DEFINE n == NextAttempt(o)
             e == [d EXCEPT !.launches = n]
             c == [Free EXCEPT !.phase = "running", !.out = o, !.command = m_commands[o],
                               !.invalidations = m_invalidations[o]]
  <2>1. /\ NameLeft(o)
        /\ next' = [next EXCEPT ![o] = None]
        /\ m_stale' = StaleAfter(o, att[i].ok) \ {o}
        /\ m_in_flight' = (m_in_flight \ {o}) \cup {o}
        /\ att' = Claimed(o, [[att EXCEPT ![i].phase = "settled"] EXCEPT ![i].launches = n])
    BY <1>2, <1>7 DEF Settle, claim_build
  <2>2. /\ n \in Attempts /\ att[n].phase \in {"free", "next"} /\ n # i
        /\ att[n].phase = "next" => att[n].out = o
    BY <1>1, <2>1, NextAttemptFacts DEF Inv
  <2>3. [[att EXCEPT ![i].phase = "settled"] EXCEPT ![i].launches = n] = [att EXCEPT ![i] = e]
    BY <1>4 DEF Inv, TypeOK
  <2>4. att' = [[att EXCEPT ![i] = e] EXCEPT ![n] = c]
    BY <2>1, <2>3 DEF Claimed
  <2>5. /\ e.phase = "settled" /\ e.out = o /\ e.ok = att[i].ok
        /\ e.keep = att[i].keep /\ e.bytes = att[i].bytes
        /\ e.reads = att[i].reads /\ e.invalidations = att[i].invalidations
        /\ e.orphaned = att[i].orphaned
    <3> HIDE DEF d, n
    <3> QED  BY <1>3 DEF AttemptType
  <2>6. IsNew(c, o)
    BY DEF IsNew, Free
  <2> HIDE DEF e, c, d, n
  <2>7. att'[i] = e /\ att'[n] = c /\ \A j \in Attempts \ {i, n} : att'[j] = att[j]
    BY <2>2, <2>4 DEF Inv, TypeOK
  <2>8. o \in m_stale
    BY <1>1, <1>7 DEF Rebuilds, CurrencyInv, RulesOK
  <2>9. m_stale' = m_stale \ {o} /\ m_in_flight' = m_in_flight
    BY <1>1, <2>1 DEF StaleAfter
  <2>10. \A p \in Outs : next'[p] # None => next'[p] = next[p] /\ p # o
    BY <1>1, <2>1 DEF Inv, TypeOK
  <2>11. Settles(i)
    BY <1>5, <2>5, <2>7, <2>10 DEF Settles
  <2>12. Reclaims(i, n)
    BY <2>2, <2>6, <2>7, <2>8, <2>9, <2>11 DEF Reclaims
  <2> QED  BY <2>2, <2>12
<1> QED  BY <1>6, <1>7

LEMMA SettleFrame ==
    ASSUME Inv, Inv', CurrencyInv, NEW i \in Attempts, att[i].phase \in {"published", "failed"},
           SettlesLast(i) \/ \E n \in Attempts : Reclaims(i, n),
           UNCHANGED <<sourceVars, m_commands, files, content, applied>>
    PROVE  Frame
<1>1. PICK o : o = att[i].out
  OBVIOUS
<1>2. /\ o \in Outs /\ o \in m_in_flight /\ Builds(att, o) = {i}
      /\ att[i].phase \in UnderWay /\ BuildOK(i)
  BY <1>1, EndingFacts DEF Inv, CurrencyInv, UnderWay
<1>3. \A j \in Attempts \ {i} : att[j].phase = "published" => att[j].out # o
  BY <1>1, <1>2 DEF Builds, UnderWay
<1>4. \A j \in Attempts \ {i} : /\ att'[j].phase = "published" <=> att[j].phase = "published"
                                /\ att[j].phase = "published" => att'[j].out = att[j].out
  BY DEF SettlesLast, Reclaims, IsNew
<1>5. att'[i].phase = "settled" /\ att'[i].out = o
  BY <1>1 DEF SettlesLast, Reclaims, Settles
<1>6. ~Published(o)' /\ \A p \in Outs \ {o} : Published(p)' <=> Published(p)
  <2>1. \A j \in Attempts : att'[j].phase = "published" =>
            j # i /\ att[j].phase = "published" /\ att'[j].out = att[j].out /\ att[j].out # o
    BY <1>3, <1>4, <1>5
  <2>2. \A j \in Attempts : att[j].phase = "published" /\ att[j].out # o =>
            att'[j].phase = "published" /\ att'[j].out = att[j].out
    BY <1>1, <1>4
  <2>3. ~Published(o)'
    BY <2>1 DEF Published
  <2>4. \A p \in Outs \ {o} : Published(p)' <=> Published(p)
    BY <2>1, <2>2 DEF Published
  <2> QED  BY <2>3, <2>4
<1>7. \A p \in Outs \ {o} : Built(p)' <=> Built(p)
  <2>1. \A p \in Outs \ {o} : /\ p \in m_stale' <=> p \in m_stale
                              /\ p \in m_in_flight' <=> p \in m_in_flight
    BY <1>1 DEF SettlesLast, Reclaims, StaleAfter
  <2> QED  BY <1>6, <2>1 DEF Built, Declared
<1>8. Built(o)' <=> Built(o)
  <2>1. CASE SettlesLast(i)
    <3>1. o \notin m_in_flight' /\ m_stale' = StaleAfter(o, att[i].ok)
      BY <1>1, <2>1 DEF SettlesLast
    <3>2. CASE att[i].phase = "published"
      <4>1. att[i].ok /\ Published(o)
        BY <1>1, <1>2, <3>2 DEF BuildOK, Published
      <4> QED  BY <3>1, <4>1 DEF Built, Declared, StaleAfter
    <3>3. CASE att[i].phase = "failed"
      <4>1. ~att[i].ok /\ ~Published(o)
        BY <1>1, <1>2, <1>3, <3>3 DEF BuildOK, Published
      <4> QED  BY <1>2, <3>1, <4>1 DEF Built, StaleAfter
    <3> QED  BY <3>2, <3>3
  <2>2. CASE \E n \in Attempts : Reclaims(i, n)
    <3>1. o \in m_stale /\ o \in m_in_flight'
      BY <1>1, <1>2, <2>2 DEF Reclaims
    <3> QED  BY <1>6, <3>1 DEF Built
  <2> QED  BY <2>1, <2>2
<1>9. \A p \in Outs : Built(p) => m_dependencies'[p] = m_dependencies[p]
  <2>1. \A p \in Outs \ {o} : m_dependencies'[p] = m_dependencies[p]
    BY <1>1 DEF SettlesLast, Reclaims, Settles
  <2>2. Built(o) => att[i].ok
    <3>1. CASE att[i].phase = "published"
      BY <1>2, <3>1 DEF BuildOK
    <3>2. CASE att[i].phase = "failed"
      BY <1>1, <1>2, <1>3, <3>2 DEF Built, Published
    <3> QED  BY <3>1, <3>2
  <2>3. att[i].ok => m_dependencies' = m_dependencies
    BY DEF SettlesLast, Reclaims, Settles
  <2> QED  BY <2>1, <2>2, <2>3
<1>10. \A s \in Sources : version[s] \in Nat /\ version'[s] \in Nat /\ version[s] <= version'[s]
  BY BoundsAssumption DEF Inv, TypeOK, BoundsAssumption, sourceVars
<1> QED  BY <1>7, <1>8, <1>9, <1>10 DEF Frame, Grows

LEMMA SettleCurrency ==
    ASSUME Inv, Inv', CurrencyInv, NEW i \in Attempts, Settle(i)
    PROVE  CurrencyInv'
<1>1. PICK o : o = att[i].out
  OBVIOUS
<1>2. SettlesLast(i) \/ \E n \in Attempts : Reclaims(i, n)
  BY SettleFacts
<1>3. /\ att[i].phase \in {"published", "failed"}
      /\ UNCHANGED <<sourceVars, m_commands, files, content, watcher, applied>>
  BY DEF Settle
<1>4. /\ o \in Outs /\ o \in m_in_flight /\ Builds(att, o) = {i}
      /\ att[i].phase \in UnderWay /\ Declared(o) /\ BuildOK(i)
  <2>1. BuildOK(i)
    BY DEF CurrencyInv
  <2>2. o \in Outs /\ o \in m_in_flight /\ Builds(att, o) = {i}
    BY <1>1, <1>3, EndingFacts DEF Inv
  <2> QED  BY <1>1, <1>3, <2>1, <2>2 DEF UnderWay, BuildOK
<1>5. Frame
  BY <1>2, <1>3, SettleFrame
<1>6. RulesOK'
  <2>1. \A p \in Outs : next'[p] # None => p \in m_stale'
    BY <1>2 DEF SettlesLast, Reclaims, Settles, StaleAfter, CurrencyInv, RulesOK
  <2> QED  BY <1>3, <2>1, SameRules DEF CurrencyInv, sourceVars
<1>7. BuiltOK' /\ VersionsOK' /\ ComingOK' /\ IdleOK'
  BY <1>3, <1>5, FrameBuilt, FrameVersions, SameComing, SameIdle
     DEF Inv, CurrencyInv, sourceVars
<1>8. \A j \in Attempts \ {i} : att[j].phase \in UnderWay => att[j].out # o
  BY <1>4 DEF Builds
<1>9. m_stale' \subseteq m_stale \cup {o} /\ m_stale \ {o} \subseteq m_stale'
  BY <1>1, <1>2 DEF SettlesLast, Reclaims, StaleAfter
<1>10. att'[i].phase = "settled" /\ att'[i].out = o /\ att'[i].ok = att[i].ok
  BY <1>1, <1>2 DEF SettlesLast, Reclaims, Settles
<1>11. \A j \in Attempts \ {i} : att'[j] = att[j] \/ Reclaims(i, j)
  BY <1>2 DEF SettlesLast, Reclaims
<1>12. ASSUME NEW j \in Attempts PROVE Answers(j)
  <2>1. CASE j = i
    <3> SUFFICES ASSUME WaitOK(i, o), att[i].ok
                 PROVE  Built(o)'
      <4>1. PICK q : q = att[i].out
        OBVIOUS
      <4> QED  BY <1>1, <1>10, <2>1 DEF Answers, UnderWay
    <3>1. o \notin m_stale
      BY <1>4, NoneAssumption DEF WaitOK, NoneAssumption
    <3>2. SettlesLast(i)
      BY <1>1, <1>2, <3>1 DEF Reclaims
    <3>3. o \notin m_stale' /\ o \notin m_in_flight'
      BY <1>1, <3>1, <3>2 DEF SettlesLast, StaleAfter
    <3> QED  BY <1>3, <1>4, <3>3 DEF Built, Declared
  <2>2. CASE j # i /\ Reclaims(i, j)
    BY <1>1, <2>2 DEF Reclaims, IsNew, Answers, Coming, UnderWay
  <2>3. CASE j # i /\ att'[j] = att[j]
    BY <1>8, <1>9, <2>3 DEF Answers
  <2> QED  BY <1>11, <2>1, <2>2, <2>3
<1>13. ASSUME NEW j \in Attempts
       PROVE  BuildOK(j)' /\ (MarkedReads(j) => MarkedReads(j)')
  <2>1. CASE j = i
    <3>1. Declared(att[i].out)'
      BY <1>3, <1>4, <1>10 DEF Declared
    <3> QED  BY <1>10, <2>1, <3>1, LeavesOff
  <2>2. CASE j # i /\ Reclaims(i, j)
    <3>1. /\ IsNew(att'[j], o) /\ Declared(att[j].out)'
          /\ att'[j].command = FirstManifest[att'[j].out]
      BY <1>1, <1>3, <1>4, <2>2 DEF Reclaims, IsNew, Declared, CurrencyInv, RulesOK
    <3>2. ReadOK(j)'
      BY <3>1 DEF IsNew, ReadOK, Done, Fresh
    <3>3. BuildOK(j)'
      BY <3>1, <3>2 DEF IsNew, BuildOK, Done
    <3> QED  BY <3>1, <3>3 DEF MarkedReads, IsNew
  <2>3. CASE j # i /\ att'[j] = att[j]
    <3>1. Spared(j)
      <4> SUFFICES ASSUME att[j].phase \in {"running", "asked", "opening", "published"}
                   PROVE  /\ m_dependencies'[att[j].out] = m_dependencies[att[j].out]
                          /\ att[j].out \in m_stale => att[j].out \in m_stale'
        BY <2>3 DEF Spared
      <4>1. att[j].out \in Outs \ {o}
        BY <1>8, <2>3 DEF Inv, Accounts, BuildsOK, InFlightOK, UnderWay
      <4>2. m_dependencies'[att[j].out] = m_dependencies[att[j].out]
        BY <1>1, <1>2, <4>1 DEF SettlesLast, Reclaims, Settles
      <4> QED  BY <1>9, <4>1, <4>2
    <3> QED  BY <1>3, <1>5, <1>12, <3>1, SparedBuild, FrameGrows, SparedMark
                DEF Inv, CurrencyInv
  <2> QED  BY <1>11, <2>1, <2>2, <2>3
<1>14. MarkOK'
  BY <1>3, <1>5, <1>13, FrameMark DEF CurrencyInv
<1> QED  BY <1>6, <1>7, <1>13, <1>14 DEF CurrencyInv

-----------------------------------------------------------------------------
(* A build publishes: the output is built, unless it went out of date.     *)

LEMMA PublishFacts ==
    ASSUME Inv, CurrencyInv, NEW i \in Attempts, Publish(i), NEW o, o = att[i].out,
           NEW b, b = att[i].bytes \cup {<<o, FirstManifest[o]>>}
    PROVE  /\ o \in Outs /\ att[i].phase = "running"
           /\ att[i].reads = Inputs[o] /\ att[i].seen = Inputs[o]
           /\ Declared(o) /\ BuildOK(i) /\ ~Built(o)
           /\ \A j \in Attempts \ {i} : att[j].phase \in UnderWay => att[j].out # o
           /\ att'[i].phase = "published" /\ att'[i].ok /\ att'[i].out = o
           /\ att'[i].bytes = b /\ att'[i].reads = att[i].reads
           /\ att'[i].invalidations = att[i].invalidations /\ (att'[i].keep => HasCache)
           /\ \A j \in Attempts \ {i} : att'[j] = att[j]
           /\ content'[o] = b /\ m_dependencies'[o] = Inputs[o]
           /\ \A p \in Outs \ {o} : /\ content'[p] = content[p]
                                    /\ m_dependencies'[p] = m_dependencies[p]
           /\ UNCHANGED <<sourceVars, m_commands, m_stale, m_in_flight, next, files, watcher,
                          applied>>
<1>0. /\ att[i] \in AttemptType /\ o \in Outs /\ att[i].phase = "running"
      /\ att[i].seen = Inputs[o] /\ BuildOK(i)
  BY DEF Inv, TypeOK, Accounts, BuildsOK, InFlightOK, Publish, Running, CurrencyInv
<1>1. /\ att[i] \in AttemptType /\ o \in Outs /\ att[i].phase = "running"
      /\ att[i].seen = Inputs[o] /\ att[i].reads = Inputs[o] /\ BuildOK(i)
  BY <1>0 DEF BuildOK, Reads, Done
<1>2. Declared(o) /\ att[i].command = FirstManifest[o]
  BY <1>1 DEF BuildOK, Reads
<1>3. \A j \in Attempts \ {i} : att[j].phase \in UnderWay => att[j].out # o
  BY <1>1 DEF Inv, Accounts, BuildsOK, InFlightOK, UnderWay
<1>4. ~Built(o)
  <2>1. o \in m_in_flight
    BY <1>1 DEF Inv, Accounts, BuildsOK, InFlightOK, UnderWay, Builds
  <2>2. ~Published(o)
    BY <1>1, <1>3 DEF Published, UnderWay
  <2> QED  BY <2>1, <2>2 DEF Built
<1>5. /\ att'[i].phase = "published" /\ att'[i].ok /\ att'[i].out = o
      /\ att'[i].bytes = b /\ att'[i].reads = att[i].reads
      /\ att'[i].invalidations = att[i].invalidations /\ (att'[i].keep => HasCache)
      /\ \A j \in Attempts \ {i} : att'[j] = att[j]
  <2> DEFINE y == att[i].bytes \cup {<<o, att[i].command>>}
             c == m_commands[o]
             k == HasCache /\ Publishes(o)
  <2>1. att' = [att EXCEPT ![i].phase = "published", ![i].ok = TRUE,
                           ![i].bytes = y, ![i].command = c, ![i].keep = k]
    BY DEF Publish
  <2>0. y = b /\ (k => HasCache)
    BY <1>2 DEF Publishes
  <2> HIDE DEF y, c, k
  <2> DEFINE d == [att[i] EXCEPT !.phase = "published", !.ok = TRUE,
                                 !.bytes = y, !.command = c, !.keep = k]
  <2>2. att' = [att EXCEPT ![i] = d]
    BY <2>1 DEF Inv, TypeOK
  <2>3. /\ d.phase = "published" /\ d.ok /\ d.out = o /\ d.bytes = y /\ d.keep = k
        /\ d.reads = att[i].reads /\ d.invalidations = att[i].invalidations
    BY <1>1 DEF AttemptType
  <2> HIDE DEF d
  <2> QED  BY <2>0, <2>2, <2>3 DEF Inv, TypeOK
<1>6. /\ m_dependencies' = [m_dependencies EXCEPT ![o] = att[i].reads]
      /\ content' = [content EXCEPT ![o] = b]
      /\ files' = files \cup {o}
      /\ UNCHANGED <<sourceVars, m_commands, m_stale, m_in_flight, next, watcher, applied>>
  BY <1>2 DEF Publish, Publishes
<1>7. files' = files
  BY <1>1, <1>2, <1>6 DEF CurrencyInv, RulesOK
<1>8. /\ content'[o] = b /\ m_dependencies'[o] = Inputs[o]
      /\ \A p \in Outs \ {o} : /\ content'[p] = content[p]
                               /\ m_dependencies'[p] = m_dependencies[p]
  BY <1>1, <1>6 DEF Inv, TypeOK
<1> QED  BY <1>1, <1>2, <1>3, <1>4, <1>5, <1>6, <1>7, <1>8

\* What a build has read to the end makes good bytes.
LEMMA PublishGood ==
    ASSUME Inv, CurrencyInv, NEW i \in Attempts, NEW o \in Outs, o = att[i].out,
           att[i].phase = "running", att[i].reads = Inputs[o], att[i].seen = Inputs[o],
           ReadOK(i), Missed \notin att[i].bytes
    PROVE  Good(o, att[i].bytes \cup {<<o, FirstManifest[o]>>})
<1> DEFINE f == <<o, FirstManifest[o]>>
           b == att[i].bytes
<1>1. Done(i) = Inputs[o] /\ Inputs[o] \subseteq Sources \cup Outs
  BY InputsAssumption DEF Done, InputsAssumption
<1>2. f[1] = o /\ f[2] = FirstManifest[o] /\ o \notin Sources
  BY NamesAssumption DEF NamesAssumption
<1> HIDE DEF f
<1>3. \A p \in Inputs[o] \cap Outs : Built(p) /\ content[p] \subseteq b /\ Good(p, content[p])
  BY <1>1 DEF ReadOK, CurrencyInv, BuiltOK
<1>4. \A s \in Inputs[o] \cap Sources : \E e \in b : e[1] = s
  BY DEF ReadOK
<1>5. ASSUME NEW e \in b
      PROVE  e[1] \in Reach(o) /\ (e[1] \in Outs => e[2] = FirstManifest[e[1]])
  <2>1. CASE e[1] \in Inputs[o] \cap Sources
    BY <2>1, ReachFacts, NamesAssumption DEF NamesAssumption
  <2>2. CASE \E p \in Inputs[o] \cap Outs : e \in content[p]
    <3>1. PICK p \in Inputs[o] \cap Outs : e \in content[p]
      BY <2>2
    <3>2. Good(p, content[p]) /\ Reach(p) \subseteq Reach(o)
      BY <1>3, ReachFacts
    <3> QED  BY <3>1, <3>2 DEF Good
  <2> QED  BY <1>1, <1>5, <2>1, <2>2 DEF ReadOK
<1>6. \A e \in b \cup {f} : e[1] \in Reach(o) /\ (e[1] \in Outs => e[2] = FirstManifest[e[1]])
  BY <1>2, <1>5, ReachFacts
<1>7. \A e \in b \cup {f} : e[1] \in Sources => e[2] \in 0..version[e[1]]
  BY <1>2 DEF ReadOK
<1>8. Fresh(b \cup {f})
  BY <1>2 DEF ReadOK, Fresh
<1>9. Good(o, b \cup {f})
  BY <1>3, <1>4, <1>6, <1>7, <1>8 DEF Good, f
<1> QED  BY <1>9 DEF f

LEMMA PublishCurrency ==
    ASSUME Inv, Inv', CurrencyInv, NEW i \in Attempts, Publish(i)
    PROVE  CurrencyInv'
<1>1. PICK o : o = att[i].out
  OBVIOUS
<1>2. PICK b : b = att[i].bytes \cup {<<o, FirstManifest[o]>>}
  OBVIOUS
<1>3. /\ o \in Outs /\ att[i].phase = "running"
      /\ att[i].reads = Inputs[o] /\ att[i].seen = Inputs[o]
      /\ Declared(o) /\ BuildOK(i) /\ ~Built(o)
      /\ \A j \in Attempts \ {i} : att[j].phase \in UnderWay => att[j].out # o
      /\ att'[i].phase = "published" /\ att'[i].ok /\ att'[i].out = o
      /\ \A j \in Attempts \ {i} : att'[j] = att[j]
      /\ content'[o] = b /\ m_dependencies'[o] = Inputs[o]
      /\ \A p \in Outs \ {o} : /\ content'[p] = content[p]
                               /\ m_dependencies'[p] = m_dependencies[p]
      /\ UNCHANGED <<sourceVars, m_commands, m_stale, m_in_flight, next, files, watcher,
                     applied>>
  BY <1>1, <1>2, PublishFacts
<1>4. \A p \in Outs \ {o} : Built(p)' <=> Built(p)
  <2>1. \A p \in Outs \ {o} : Published(p)' <=> Published(p)
    BY <1>1, <1>3 DEF Published
  <2> QED  BY <1>3, <2>1 DEF Built, Declared
<1>5. Grows
  <2>1. \A s \in Sources : version[s] \in Nat /\ version'[s] \in Nat
                           /\ version[s] <= version'[s]
    BY <1>3, BoundsAssumption DEF Inv, TypeOK, BoundsAssumption, sourceVars
  <2> QED  BY <1>3, <1>4, <2>1 DEF Grows
<1>6. RulesOK'
  BY <1>3, SameRules DEF CurrencyInv, RulesOK, sourceVars
<1>7. ComingOK' /\ IdleOK'
  BY <1>3, SameComing, SameIdle DEF CurrencyInv, sourceVars
<1>8. VersionsOK'
  BY <1>3 DEF CurrencyInv, VersionsOK, Marking, sourceVars
<1>9. ASSUME Built(o)', Missed \notin b PROVE ~Told(i) /\ ReadOK(i) /\ Good(o, b)
  <2>1. ~Told(i)
    BY <1>1, <1>2, <1>3, <1>9 DEF Told, Built
  <2>2. ReadOK(i)
    BY <1>3, <2>1 DEF BuildOK, Reads
  <2> QED  BY <1>1, <1>2, <1>3, <2>1, <2>2, PublishGood DEF Told
<1>10. BuiltOK'
  <2> SUFFICES ASSUME NEW p \in Outs, Built(p)'
               PROVE  /\ m_dependencies'[p] = Inputs[p]
                      /\ Missed \notin content'[p] => Good(p, content[p])'
    BY DEF BuiltOK
  <2>1. CASE p = o
    <3> SUFFICES ASSUME Missed \notin b PROVE Good(o, b)'
      BY <1>3, <2>1
    <3> QED  BY <1>3, <1>5, <1>9, <2>1, GrowsGood
  <2>2. CASE p # o
    <3>1. Built(p) /\ content'[p] = content[p] /\ m_dependencies'[p] = Inputs[p]
      BY <1>3, <1>4, <2>2 DEF CurrencyInv, BuiltOK
    <3> SUFFICES ASSUME Missed \notin content[p] PROVE Good(p, content[p])'
      BY <3>1
    <3>2. PICK y : y = content[p]
      OBVIOUS
    <3>3. Good(p, y)'
      BY <1>5, <3>1, <3>2, GrowsGood DEF CurrencyInv, BuiltOK
    <3> QED  BY <3>1, <3>2, <3>3
  <2> QED  BY <2>1, <2>2
<1>11. \A j \in Attempts \ {i} : Spared(j)
  <2> SUFFICES ASSUME NEW j \in Attempts \ {i},
                      att[j].phase \in {"running", "asked", "opening", "published"}
               PROVE  m_dependencies'[att[j].out] = m_dependencies[att[j].out]
    BY <1>3 DEF Spared
  <2>1. att[j].out \in Outs \ {o}
    BY <1>3 DEF Inv, Accounts, BuildsOK, InFlightOK, UnderWay
  <2> QED  BY <1>3, <2>1
<1>12. \A j \in Attempts : Answers(j)
  BY <1>3 DEF Answers, UnderWay
<1>13. \A j \in Attempts : BuildOK(j)'
  <2> TAKE j \in Attempts
  <2>1. CASE j = i
    BY <1>3, <2>1 DEF BuildOK, Reads, Declared
  <2>2. CASE j # i
    BY <1>3, <1>5, <1>11, <1>12, <2>2, SparedBuild DEF Inv, CurrencyInv
  <2> QED  BY <2>1, <2>2
<1>14. MarkOK'
  <2> SUFFICES ASSUME Marking'
               PROVE  /\ \A S \in SUBSET Outs : Covers(S)' =>
                            \A p \in Outs : Built(p)' /\ Missed \notin content'[p]
                                /\ (\E e \in content'[p] : Old(e)') => p \in S
                      /\ \A j \in Attempts : MarkedReads(j)'
    BY DEF MarkOK, MarkedReads
  <2>1. Marking /\ \A j \in Attempts : MarkedReads(j)
    BY <1>3 DEF Marking, CurrencyInv, MarkOK, MarkedReads
  <2>2. \A j \in Attempts : MarkedReads(j)'
    <3> TAKE j \in Attempts
    <3>1. CASE j = i
      BY <1>3, <3>1 DEF MarkedReads, Reads
    <3>2. CASE j # i
      BY <1>3, <1>5, <1>11, <2>1, <3>2, SparedMark DEF CurrencyInv
    <3> QED  BY <3>1, <3>2
  <2>3. ASSUME NEW S \in SUBSET Outs, Covers(S)', NEW p \in Outs, Built(p)',
               Missed \notin content'[p], NEW e \in content'[p], Old(e)'
        PROVE  p \in S
    <3>1. Covers(S)
      BY <1>3, <1>5, <2>3 DEF Covers, Grows, Declared
    <3>2. Old(e)
      BY <1>3, <2>3 DEF Old
    <3>3. CASE p # o
      <4>1. Built(p) /\ content'[p] = content[p]
        BY <1>3, <1>4, <2>3, <3>3
      <4> QED  BY <2>1, <2>3, <3>1, <3>2, <4>1 DEF CurrencyInv, MarkOK
    <3>4. CASE p = o
      <4>1. ~Told(i) /\ ReadOK(i) /\ Missed \notin b /\ e \in b
        BY <1>3, <1>9, <2>3, <3>4
      <4>2. e \in att[i].bytes
        <5>1. <<o, FirstManifest[o]>>[1] \notin Sources
          BY <1>3, NamesAssumption DEF NamesAssumption
        <5> QED  BY <1>2, <3>2, <4>1, <5>1 DEF Old
      <4>3. \/ o \in watcher.outputs
            \/ \E q \in Done(i) \cap Outs : e \in content[q]
        BY <1>1, <1>3, <2>1, <3>2, <4>1, <4>2 DEF MarkedReads, Reads
      <4>4. CASE o \in watcher.outputs
        BY <1>3, <3>1, <3>4, <4>4 DEF Covers
      <4>5. CASE \E q \in Done(i) \cap Outs : e \in content[q]
        <5>1. PICK q \in Done(i) \cap Outs : e \in content[q]
          BY <4>5
        <5>2. Built(q) /\ Missed \notin content[q] /\ q \in Inputs[o]
          BY <1>2, <1>3, <4>1, <5>1 DEF ReadOK, Done
        <5>3. q \in S
          BY <2>1, <2>3, <3>1, <3>2, <5>1, <5>2 DEF CurrencyInv, MarkOK
        <5> QED  BY <2>3, <3>4, <5>2, <5>3 DEF Covers
      <4> QED  BY <4>3, <4>4, <4>5
    <3> QED  BY <3>3, <3>4
  <2> QED  BY <2>2, <2>3
<1> QED  BY <1>6, <1>7, <1>8, <1>10, <1>13, <1>14 DEF CurrencyInv

-----------------------------------------------------------------------------
(* The watcher finds what a change concerns.                               *)

\* A build that is told of what it missed: it reads, or has failed.
Hears(i) == Reads(i) \/ att[i].phase = "failed"

\* A build is left alone, or is told that it missed a change.
LEMMA MissesCases ==
    ASSUME TypeOK, NEW O, att' = Misses(O), NEW i \in Attempts
    PROVE  /\ att'[i].phase = att[i].phase /\ att'[i].out = att[i].out
           /\ att'[i].reads = att[i].reads /\ att'[i].input = att[i].input
           /\ att'[i].command = att[i].command /\ att'[i].ok = att[i].ok
           /\ att'[i].invalidations = att[i].invalidations /\ att'[i].keep = att[i].keep
           /\ att'[i].seen = att[i].seen /\ att'[i].orphaned = att[i].orphaned
           /\ \/ att'[i] = att[i] /\ ~(Reads(i) /\ att[i].out \in O)
              \/ Missed \in att'[i].bytes /\ Hears(i)
<1>1. att[i] \in AttemptType
  BY DEF TypeOK
<1>2. CASE Hears(i) /\ att[i].out \in O
  <2>1. att'[i] = [att[i] EXCEPT !.bytes = @ \cup {Missed}]
    BY <1>2 DEF Misses, Hears, Reads, UnderWay
  <2> QED  BY <1>1, <1>2, <2>1 DEF AttemptType
<1>3. CASE ~(Hears(i) /\ att[i].out \in O)
  BY <1>3 DEF Misses, Hears, Reads, UnderWay
<1> QED  BY <1>2, <1>3

LEMMA MissedBuild ==
    ASSUME TypeOK, NEW O, att' = Misses(O), NEW i \in Attempts, BuildOK(i),
           m_commands' = m_commands, m_dependencies' = m_dependencies,
           Missed \in att'[i].bytes /\ Hears(i)
    PROVE  BuildOK(i)'
<1>1. /\ att'[i].phase = att[i].phase /\ att'[i].out = att[i].out
      /\ att'[i].reads = att[i].reads /\ att'[i].input = att[i].input
      /\ att'[i].command = att[i].command /\ att'[i].ok = att[i].ok
      /\ Done(i)' = Done(i)
  BY MissesCases DEF Done
<1>2. Told(i)' /\ (Reads(i)' <=> Reads(i)) /\ att[i].phase \notin {"free", "published"}
  BY <1>1 DEF Told, Hears, Reads
<1>3. att[i].phase # "free" /\ Declared(att[i].out)
  BY <1>2 DEF BuildOK, Hears, Reads
<1>4. Declared(att[i].out)' /\ (Declared(att[i].input)' <=> Declared(att[i].input))
  BY <1>1, <1>3 DEF Declared
<1> QED  BY <1>1, <1>2, <1>4 DEF BuildOK, Reads

watcherStep == <<watcherOnly, bookVars, fileVars, applied>>

LEMMA MissesCurrency ==
    ASSUME Inv, Inv', CurrencyInv, NEW O, att' = Misses(O), UNCHANGED watcherStep
    PROVE  Frame /\ RulesOK' /\ BuiltOK' /\ \A i \in Attempts : BuildOK(i)'
<1>0. \A i \in Attempts :
          /\ att'[i].phase = att[i].phase /\ att'[i].out = att[i].out /\ att'[i].ok = att[i].ok
          /\ att'[i] = att[i] \/ (Missed \in att'[i].bytes /\ Hears(i))
  <2> TAKE i \in Attempts
  <2>1. TypeOK
    BY DEF Inv
  <2>2. /\ att'[i].phase = att[i].phase /\ att'[i].out = att[i].out
        /\ att'[i].ok = att[i].ok
    BY <2>1, MissesCases
  <2>3. \/ att'[i] = att[i] /\ ~(Reads(i) /\ att[i].out \in O)
        \/ Missed \in att'[i].bytes /\ Hears(i)
    BY <2>1, MissesCases
  <2> QED  BY <2>2, <2>3
<1>1. \A x \in Sources : version[x] <= version'[x]
  BY BoundsAssumption DEF Inv, TypeOK, BoundsAssumption, watcherStep, watcherOnly
<1>2. Frame
  BY <1>0, <1>1, SameBooks DEF Inv, watcherStep, bookVars, fileVars
<1>3. RulesOK'
  BY SameRules DEF CurrencyInv, RulesOK, watcherStep, watcherOnly, bookVars, fileVars
<1>4. BuiltOK'
  BY <1>2, FrameBuilt DEF CurrencyInv
<1>5. \A i \in Attempts : Answers(i)
  BY <1>0 DEF Answers, watcherStep, bookVars
<1>6. ASSUME NEW i \in Attempts PROVE BuildOK(i)'
  <2>1. CASE att'[i] = att[i]
    <3>1. Spared(i)
      BY <2>1 DEF Spared, watcherStep, bookVars
    <3> QED
      BY <1>2, <1>5, <3>1, SparedBuild, FrameGrows DEF Inv, CurrencyInv, watcherStep, bookVars
  <2>2. CASE Missed \in att'[i].bytes /\ Hears(i)
    BY <2>2, MissedBuild DEF Inv, CurrencyInv, watcherStep, bookVars
  <2> QED  BY <1>0, <2>1, <2>2
<1> QED  BY <1>2, <1>3, <1>4, <1>6

LEMMA FindReadersCurrency ==
    ASSUME Inv, Inv', CurrencyInv, FindReaders
    PROVE  CurrencyInv'
<1>1. PICK O : att' = Misses(O)
  BY DEF FindReaders
<1>2. UNCHANGED watcherStep /\ pending' = pending
  BY DEF FindReaders, watcherStep
<1>3. Frame /\ RulesOK' /\ BuiltOK' /\ \A i \in Attempts : BuildOK(i)'
  BY <1>1, <1>2, MissesCurrency
<1>4. /\ ~Marking /\ ~Marking' /\ IdleOK'
      /\ Collecting => Collecting' /\ watcher'.diff = watcher.diff
  <2>1. PICK w : watcher' = [watcher EXCEPT !.at = "forget_removed", !.outputs = w]
    BY DEF FindReaders
  <2>2. watcher \in WatcherType /\ watcher.at = "readers"
    BY DEF Inv, TypeOK, FindReaders
  <2>3. watcher'.at = "forget_removed" /\ watcher'.diff = watcher.diff
    BY <2>1, <2>2 DEF WatcherType
  <2> QED  BY <2>2, <2>3 DEF Marking, Collecting, IdleOK
<1>5. VersionsOK' /\ MarkOK' /\ ComingOK'
  BY <1>2, <1>3, <1>4, WatcherGoesOn DEF Inv, watcherStep, watcherOnly
<1> QED  BY <1>3, <1>4, <1>5 DEF CurrencyInv

LEMMA CollectCurrency ==
    ASSUME Inv, Inv', CurrencyInv, NEW d \in Sources \cup {Manifest, Everything}, Collect(d)
    PROVE  CurrencyInv'
<1>1. PICK W : W = IF d = Everything THEN {o \in Outs : Declared(o)} ELSE m_dependents(d)
  OBVIOUS
<1>2. /\ \/ watcher.at = "idle" /\ d \in pending \cap Sources
         \/ watcher.at = "collect" /\ d = watcher.diff
      /\ pending' = pending \ (IF watcher.at = "idle" THEN {d} ELSE {})
      /\ watcher' = [Idle EXCEPT !.at = "mark", !.diff = d, !.outputs = W, !.upto = version]
      /\ att' = Misses(Reading({d}) \ W)
      /\ UNCHANGED watcherStep
  BY <1>1 DEF Collect, watcherStep
<1>3. Frame /\ RulesOK' /\ BuiltOK' /\ \A i \in Attempts : BuildOK(i)'
  BY <1>2, MissesCurrency
<1>4. /\ watcher'.at = "mark" /\ watcher'.then = "idle" /\ watcher'.diff = d
      /\ watcher'.outputs = W /\ watcher'.upto = version
  BY <1>2 DEF Idle
<1>5. /\ content' = content /\ version' = version /\ applied' = applied
      /\ m_dependencies' = m_dependencies /\ m_commands' = m_commands
  BY <1>2 DEF watcherStep, watcherOnly, bookVars, fileVars
<1>6. IdleOK' /\ Marking'
  BY <1>4 DEF IdleOK, Marking
<1>7. VersionsOK'
  <2>1. \A s \in Sources : version[s] \in Nat /\ applied[s] <= version[s]
    BY BoundsAssumption DEF Inv, TypeOK, BoundsAssumption, CurrencyInv, VersionsOK
  <2> QED  BY <1>4, <1>5, <2>1 DEF VersionsOK
<1>8. ComingOK'
  <2> SUFFICES ASSUME NEW s \in Sources, d \notin {s, Everything}
               PROVE  \/ applied[s] = version[s]
                      \/ s \in pending'
                      \/ Everything \in pending'
    BY <1>4, <1>5, <1>6 DEF ComingOK
  <2>1. \/ applied[s] = version[s] \/ s \in pending \/ Everything \in pending
        \/ (Collecting \/ Marking) /\ watcher.diff \in {s, Everything}
    BY DEF CurrencyInv, ComingOK
  <2>2. (Collecting \/ Marking) => watcher.at = "collect"
    BY <1>2 DEF Collecting, Marking, CurrencyInv, IdleOK
  <2> QED  BY <1>2, <2>1, <2>2
<1>9. ASSUME NEW e, Old(e)' PROVE d = Everything \/ (d \in Sources /\ e[1] = d)
  BY <1>4, <1>9 DEF Old
<1>10. ASSUME NEW S \in SUBSET Outs, Covers(S)', NEW o \in Outs, Built(o)',
              Missed \notin content'[o], NEW e \in content'[o], Old(e)', o \notin S
       PROVE  FALSE
  <2>1. /\ \A p \in Outs : p \in W /\ Declared(p) => p \in S
        /\ \A p \in Outs : Built(p) /\ Inputs[p] \cap S # {} => p \in S
    <3>1. \A p \in Outs : Built(p) => Built(p)'
      BY <1>3 DEF Frame, Grows
    <3>2. \A p : Declared(p)' <=> Declared(p)
      BY <1>5 DEF Declared
    <3> QED  BY <1>4, <1>10, <3>1, <3>2 DEF Covers
  <2>2. Built(o) /\ Missed \notin content[o] /\ e \in content[o]
    BY <1>3, <1>5, <1>10 DEF Frame
  <2>3. d # Everything /\ d \in Sources /\ e[1] = d
    BY <1>1, <1>9, <1>10, <2>1, <2>2 DEF Built
  <2> DEFINE U == {x \in Outs : Built(x) /\ Missed \notin content[x] /\ x \notin S}
             T == U \cup (Sources \ {d})
  <2>4. ASSUME NEW p \in U PROVE Inputs[p] \subseteq T
    <3>1. m_dependencies[p] = Inputs[p] /\ Good(p, content[p]) /\ Declared(p)
      BY DEF CurrencyInv, BuiltOK, Built
    <3>2. d \notin Inputs[p]
      BY <1>1, <2>1, <2>3, <3>1 DEF m_dependents
    <3>3. \A q \in Inputs[p] \cap Outs : q \in U
      BY <2>1, <3>1 DEF Good
    <3> QED  BY <3>2, <3>3, InputsAssumption DEF InputsAssumption
  <2>5. T \cap Outs \subseteq U
    BY NamesAssumption DEF NamesAssumption
  <2>6. T \in SUBSET (Sources \cup Outs) /\ o \in T
    BY <1>10, <2>2
  <2>7. e[1] \in Reach(o)
    BY <2>2 DEF CurrencyInv, BuiltOK, Good
  <2>8. d \notin T
    BY <2>3, NamesAssumption DEF NamesAssumption
  <2> HIDE DEF T, U
  <2>9. Reach(o) \subseteq T
    BY <2>4, <2>5, <2>6, ReachWithin
  <2> QED  BY <2>3, <2>7, <2>8, <2>9
<1>11. ASSUME NEW i \in Attempts, Reads(i)', ~Told(i)', NEW e \in att'[i].bytes, Old(e)'
       PROVE  \/ att'[i].out \in watcher'.outputs
              \/ \E p \in Done(i)' \cap Outs : e \in content'[p]
  <2>1. att'[i] = att[i] /\ ~(Reads(i) /\ att[i].out \in Reading({d}) \ W)
    BY <1>2, <1>11, MissesCases DEF Told, Inv
  <2>2. Reads(i) /\ ~Told(i) /\ BuildOK(i)
    BY <1>2, <1>11, <2>1 DEF Reads, Told, CurrencyInv, watcherStep, bookVars
  <2>3. ReadOK(i) /\ Done(i)' = Done(i) /\ Declared(att[i].out) /\ att[i].out \in Outs
    BY <2>1, <2>2 DEF BuildOK, Done, Reads, Inv, Accounts, BuildsOK, InFlightOK
  <2>4. CASE \E p \in Done(i) \cap Outs : e \in content[p]
    BY <1>5, <2>3, <2>4
  <2>5. CASE e[1] \in Inputs[att[i].out]
    <3>1. CASE d = Everything
      BY <1>1, <1>4, <2>1, <2>3, <3>1
    <3>2. CASE d # Everything
      <4>1. d \in Inputs[att[i].out]
        BY <1>9, <1>11, <2>5, <3>2
      <4>2. att[i].out \in Reading({d})
        BY <2>3, <4>1 DEF Reading
      <4> QED  BY <1>4, <2>1, <2>2, <4>2
    <3> QED  BY <3>1, <3>2
  <2> QED  BY <1>11, <2>1, <2>3, <2>4, <2>5 DEF ReadOK
<1>12. MarkOK'
  BY <1>10, <1>11 DEF MarkOK
<1> QED  BY <1>3, <1>6, <1>7, <1>8, <1>12 DEF CurrencyInv

\* What Mark makes stale, and what it leaves as it is.
LEMMA MarkFacts ==
    ASSUME Inv, CurrencyInv, Mark
    PROVE  \E seen \in SUBSET Outs :
              /\ watcher.at = "mark" /\ m_stale' = m_stale \cup seen /\ Covers(seen)
              /\ att' = Misses(Reading(seen) \ seen)
              /\ content' = content /\ files' = files /\ version' = version
              /\ manifest' = manifest /\ pending' = pending /\ next' = next
              /\ m_commands' = m_commands /\ m_in_flight' = m_in_flight
              /\ m_dependencies' = m_dependencies
              /\ \A s \in Sources :
                    applied'[s] = IF watcher.then = "idle" /\ watcher.diff \in {s, Everything}
                                  THEN watcher.upto[s] ELSE applied[s]
              /\ \A o \in Outs : Built(o)' <=> Built(o) /\ o \notin seen
              /\ \A o \in Outs : m_invalidations'[o] =
                                   m_invalidations[o] + (IF o \in seen THEN 1 ELSE 0)
              /\ HasCache /\ seen # {} => watcher'.at = "forget" /\ watcher'.outputs = seen
<1>1. PICK seen : seen = Downstream(watcher.outputs)
  OBVIOUS
<1>2. /\ watcher.at = "mark" /\ m_stale' = m_stale \cup seen
      /\ att' = Misses(Reading(seen) \ seen)
      /\ content' = content /\ files' = files /\ version' = version
      /\ manifest' = manifest /\ pending' = pending /\ next' = next
      /\ m_commands' = m_commands /\ m_in_flight' = m_in_flight
      /\ m_dependencies' = m_dependencies
      /\ \A s \in Sources :
            applied'[s] = IF watcher.then = "idle" /\ watcher.diff \in {s, Everything}
                          THEN watcher.upto[s] ELSE applied[s]
  BY <1>1 DEF Mark, watcherOnly, fileVars
<1>3. seen \in SUBSET Outs
  BY <1>1, DownstreamFacts
<1>4. Covers(seen)
  <2>1. {o \in watcher.outputs : Declared(o)} \subseteq seen
    BY <1>1, DownstreamFacts DEF Inv, TypeOK, WatcherType
  <2>2. ASSUME NEW o \in Outs, Built(o), NEW p \in Inputs[o] \cap seen PROVE o \in seen
    <3>1. Declared(o) /\ p \in m_dependencies[o]
      BY <2>2 DEF Built, CurrencyInv, BuiltOK
    <3> QED  BY <1>1, <3>1, DownstreamFacts
  <2> QED  BY <2>1, <2>2 DEF Covers
<1>5. \A o \in Outs : Built(o)' <=> Built(o) /\ o \notin seen
  <2> TAKE o \in Outs
  <2>1. \A i \in Attempts : att'[i].phase = att[i].phase /\ att'[i].out = att[i].out
    <3> TAKE i \in Attempts
    <3> QED  BY <1>2, MissesCases DEF Inv
  <2>2. Published(o)' <=> Published(o)
    BY <2>1, SamePublished
  <2>3. Declared(o)' <=> Declared(o)
    BY <1>2 DEF Declared
  <2> QED  BY <1>2, <2>2, <2>3 DEF Built
<1>6. \A o \in Outs : m_invalidations'[o] =
                       m_invalidations[o] + (IF o \in seen THEN 1 ELSE 0)
  BY <1>1 DEF Mark
<1>7. ASSUME HasCache, seen # {} PROVE watcher'.at = "forget" /\ watcher'.outputs = seen
  <2> DEFINE early == (seen \cap m_materialized) \ m_in_flight
  <2>1. watcher' = [watcher EXCEPT !.at = "forget", !.outputs = seen, !.upto = None,
                                   !.eager = early]
    BY <1>1, <1>7 DEF Mark
  <2> HIDE DEF early
  <2> QED  BY <2>1 DEF Inv, TypeOK, WatcherType
<1> QED  BY <1>2, <1>3, <1>4, <1>5, <1>6, <1>7

\* What Mark leaves unmarked has no bytes older than what it applies.
LEMMA MarkFresh ==
    ASSUME Inv, CurrencyInv, watcher.at = "mark",
           \A s \in Sources :
               applied'[s] = IF watcher.then = "idle" /\ watcher.diff \in {s, Everything}
                             THEN watcher.upto[s] ELSE applied[s],
           NEW b, Fresh(b), Marking => \A e \in b : ~Old(e),
           \A e \in b : e[1] \in Sources => e[2] \in Nat
    PROVE  Fresh(b)'
<1> SUFFICES ASSUME NEW e \in b, NEW s \in Sources, e[1] = s
             PROVE  e[2] >= applied'[s]
  BY DEF Fresh
<1>1. CASE watcher.then = "idle" /\ watcher.diff \in {s, Everything}
  <2>1. Marking /\ applied'[s] = watcher.upto[s]
    BY <1>1 DEF Marking
  <2>2. watcher.upto[s] \in Nat
    BY <2>1 DEF Marking, Inv, WatcherOK
  <2>3. ~(e[2] < watcher.upto[s])
    BY <1>1, <2>1 DEF Old
  <2> QED  BY <2>1, <2>2, <2>3
<1>2. CASE ~(watcher.then = "idle" /\ watcher.diff \in {s, Everything})
  BY <1>2 DEF Fresh
<1> QED  BY <1>1, <1>2

LEMMA MarkBuild ==
    ASSUME Inv, CurrencyInv, NEW seen \in SUBSET Outs, NEW i \in Attempts,
           watcher.at = "mark", m_stale' = m_stale \cup seen, Covers(seen),
           att' = Misses(Reading(seen) \ seen), content' = content, version' = version,
           m_commands' = m_commands, m_dependencies' = m_dependencies,
           \A s \in Sources :
               applied'[s] = IF watcher.then = "idle" /\ watcher.diff \in {s, Everything}
                             THEN watcher.upto[s] ELSE applied[s],
           \A o \in Outs : Built(o)' <=> Built(o) /\ o \notin seen
    PROVE  BuildOK(i)'
<1>1. TypeOK /\ BuildOK(i)
  BY DEF Inv, CurrencyInv
<1>2. CASE Missed \in att'[i].bytes /\ Hears(i)
  BY <1>1, <1>2, MissedBuild
<1>3. CASE att'[i] = att[i] /\ ~(Reads(i) /\ att[i].out \in Reading(seen) \ seen)
  <2>1. Reads(i)' <=> Reads(i)
    BY <1>3 DEF Reads
  <2>2. Told(i) => Told(i)'
    BY <1>3 DEF Told
  <2>3. ASSUME Reads(i), ~Told(i)'
        PROVE  /\ ReadOK(i) /\ Declared(att[i].out) /\ att[i].out \in Outs
               /\ att[i].out \notin seen /\ Inputs[att[i].out] \cap seen = {}
               /\ Done(i) \subseteq Inputs[att[i].out]
    <3>1. ReadOK(i) /\ Declared(att[i].out) /\ att[i].out \notin seen
          /\ Done(i) \subseteq Inputs[att[i].out]
      BY <1>1, <1>3, <2>2, <2>3 DEF BuildOK, Reads, Told
    <3>2. att[i].out \in Outs
      BY <2>3 DEF Reads, Inv, Accounts, BuildsOK, InFlightOK
    <3> QED  BY <1>3, <2>3, <3>1, <3>2 DEF Reading
  <2>4. ASSUME Reads(i), ~Told(i)' PROVE ReadOK(i)'
    <3>1. /\ ReadOK(i) /\ Declared(att[i].out) /\ att[i].out \notin seen
          /\ Inputs[att[i].out] \cap seen = {} /\ Done(i) \subseteq Inputs[att[i].out]
          /\ Missed \notin att[i].bytes /\ ~Told(i)
      BY <1>3, <2>2, <2>3, <2>4 DEF Told
    <3>2. PICK b, o, D : b = att[i].bytes /\ o = att[i].out /\ D = Done(i)
      OBVIOUS
    <3>3. att'[i].bytes = b /\ att'[i].out = o /\ Done(i)' = D /\ att'[i].reads = att[i].reads
      BY <1>3, <3>2 DEF Done
    <3>4. /\ \A s \in att[i].reads \cap Sources : \E e \in b : e[1] = s
          /\ \A p \in D \cap Outs : Built(p) /\ content[p] \subseteq b
          /\ \A e \in b : \/ e[1] \in Inputs[o] \cap Sources
                          \/ \E p \in D \cap Outs : e \in content[p]
          /\ \A e \in b : e[1] \in Sources => e[2] \in 0..version[e[1]]
          /\ Fresh(b)
      BY <3>1, <3>2 DEF ReadOK
    <3>5. \A p \in D \cap Outs : p \notin seen /\ Built(p)'
      BY <3>1, <3>2, <3>4
    <3>6. ASSUME Marking, NEW e \in b PROVE ~Old(e)
      <4> SUFFICES ASSUME Old(e) PROVE FALSE
        OBVIOUS
      <4>1. o \in watcher.outputs \/ \E p \in D \cap Outs : e \in content[p]
        BY <2>4, <3>1, <3>2, <3>6 DEF CurrencyInv, MarkOK
      <4>2. CASE o \in watcher.outputs
        BY <3>1, <3>2, <4>2 DEF Covers
      <4>3. CASE \E p \in D \cap Outs : e \in content[p]
        <5>1. PICK p \in D \cap Outs : e \in content[p]
          BY <4>3
        <5>2. Built(p) /\ Missed \notin content[p]
          BY <3>1, <3>2, <3>4
        <5>3. p \in seen
          BY <3>6, <5>1, <5>2 DEF CurrencyInv, MarkOK
        <5> QED  BY <3>5, <5>3
      <4> QED  BY <4>1, <4>2, <4>3
    <3>7. \A e \in b : e[1] \in Sources => e[2] \in Nat
      BY <3>4
    <3>8. Fresh(b)'
      BY <3>4, <3>6, <3>7, MarkFresh
    <3> QED  BY <3>3, <3>4, <3>5, <3>8 DEF ReadOK
  <2>5. ASSUME att[i].phase = "opening", ~Told(i)'
        PROVE  WaitOK(att[i].target, att[i].input)'
    <3>1. PICK t, p : t = att[i].target /\ p = att[i].input
      OBVIOUS
    <3>2. Reads(i) /\ ~Told(i)
      BY <2>2, <2>5 DEF Reads
    <3>3. p \in Inputs[att[i].out] /\ WaitOK(t, p)
      BY <1>1, <2>5, <3>1, <3>2 DEF BuildOK
    <3>4. p \in Outs /\ p \notin seen /\ (t # None => IsComing(att, t, p))
      BY <2>3, <2>5, <3>1, <3>2, <3>3 DEF Inv, Accounts, BuildsOK, WaitersOK
    <3>5. Built(p) => Built(p)'
      BY <3>4
    <3>6. Declared(p)' <=> Declared(p)
      BY DEF Declared
    <3>7. t # None => att'[t].phase = att[t].phase /\ att'[t].ok = att[t].ok
      <4> SUFFICES ASSUME t # None PROVE att'[t].phase = att[t].phase /\ att'[t].ok = att[t].ok
        OBVIOUS
      <4>1. t \in Attempts
        BY <3>4 DEF IsComing
      <4> QED  BY <1>1, <4>1, MissesCases
    <3>8. WaitOK(t, p)'
      BY <3>3, <3>4, <3>5, <3>6, <3>7 DEF WaitOK
    <3>9. att'[i].target = t /\ att'[i].input = p
      BY <1>3, <3>1
    <3> QED  BY <3>8, <3>9
  <2>6. \A o : Declared(o)' <=> Declared(o)
    BY DEF Declared
  <2> QED  BY <1>1, <1>3, <2>1, <2>2, <2>4, <2>5, <2>6 DEF BuildOK, Done
<1> QED  BY <1>1, <1>2, <1>3, MissesCases

LEMMA MarkCurrency ==
    ASSUME Inv, Inv', CurrencyInv, Mark
    PROVE  CurrencyInv'
<1>1. PICK seen \in SUBSET Outs :
         /\ watcher.at = "mark" /\ m_stale' = m_stale \cup seen /\ Covers(seen)
         /\ att' = Misses(Reading(seen) \ seen)
         /\ content' = content /\ files' = files /\ version' = version
         /\ manifest' = manifest /\ pending' = pending /\ next' = next
         /\ m_commands' = m_commands /\ m_in_flight' = m_in_flight
         /\ m_dependencies' = m_dependencies
         /\ \A s \in Sources :
               applied'[s] = IF watcher.then = "idle" /\ watcher.diff \in {s, Everything}
                             THEN watcher.upto[s] ELSE applied[s]
         /\ \A o \in Outs : Built(o)' <=> Built(o) /\ o \notin seen
  BY MarkFacts
<1>2. /\ ~Marking' /\ IdleOK'
      /\ Collecting => watcher.then = "collect"
      /\ watcher.then = "collect" => Collecting' /\ watcher'.diff = watcher.diff
  <2>1. watcher \in WatcherType
    BY DEF Inv, TypeOK
  <2>2. PICK w, v \in WatcherType :
           /\ w.at = "forget" /\ w.then = watcher.then /\ w.diff = watcher.diff
           /\ v.then = watcher.then /\ v.diff = watcher.diff
           /\ watcher' = w \/ watcher' = Onward(v)
    <3> DEFINE seen0 == Downstream(watcher.outputs)
               w == [watcher EXCEPT !.at = "forget", !.outputs = seen0, !.upto = None,
                                    !.eager = (seen0 \cap m_materialized) \ m_in_flight]
               v == [w EXCEPT !.outputs = {}]
    <3>1. watcher' = w \/ watcher' = Onward(v)
      BY DEF Mark
    <3>2. seen0 \in SUBSET Outs /\ (seen0 \cap m_materialized) \ m_in_flight \in SUBSET Outs
      BY DownstreamFacts
    <3>3. w \in WatcherType /\ w.at = "forget" /\ w.then = watcher.then /\ w.diff = watcher.diff
      <4> HIDE DEF seen0
      <4> QED  BY <2>1, <3>2 DEF WatcherType
    <3>4. v \in WatcherType /\ v.then = watcher.then /\ v.diff = watcher.diff
      <4> HIDE DEF w
      <4> QED  BY <3>3 DEF WatcherType
    <3> HIDE DEF w, v
    <3> QED  BY <3>1, <3>3, <3>4
  <2>3. CASE watcher' = w
    BY <1>1, <2>2, <2>3 DEF Marking, IdleOK, Collecting
  <2>4. CASE watcher' = Onward(v)
    BY <1>1, <2>2, <2>4, OnwardFacts DEF Marking, IdleOK, Collecting
  <2> QED  BY <2>2, <2>3, <2>4
<1>3. RulesOK'
  BY <1>1, SameRules DEF CurrencyInv, RulesOK
<1>4. VersionsOK' /\ MarkOK'
  <2>1. \A s \in Sources : applied'[s] <= version'[s]
    BY <1>1 DEF CurrencyInv, VersionsOK, Marking
  <2> QED  BY <1>2, <2>1 DEF VersionsOK, MarkOK
<1>5. ComingOK'
  <2> SUFFICES ASSUME NEW s \in Sources
               PROVE  \/ applied'[s] = version[s]
                      \/ s \in pending
                      \/ Everything \in pending
                      \/ Collecting' /\ watcher'.diff \in {s, Everything}
    BY <1>1 DEF ComingOK
  <2>1. \/ applied[s] = version[s] \/ s \in pending \/ Everything \in pending
        \/ Collecting /\ watcher.diff \in {s, Everything}
        \/ Marking /\ watcher.diff \in {s, Everything} /\ watcher.upto[s] = version[s]
    BY DEF CurrencyInv, ComingOK
  <2>2. CASE Collecting /\ watcher.diff \in {s, Everything}
    BY <1>2, <2>2
  <2>3. CASE Marking /\ watcher.diff \in {s, Everything} /\ watcher.upto[s] = version[s]
    BY <1>1, <2>3 DEF Marking
  <2>4. CASE applied[s] = version[s]
    <3>1. CASE watcher.then = "idle" /\ watcher.diff \in {s, Everything}
      <4>1. Marking /\ applied'[s] = watcher.upto[s]
        BY <1>1, <3>1 DEF Marking
      <4>2. /\ version[s] \in Nat /\ watcher.upto[s] \in Nat
            /\ version[s] <= watcher.upto[s] /\ watcher.upto[s] <= version[s]
        BY <2>4, <4>1, BoundsAssumption
           DEF Marking, CurrencyInv, VersionsOK, Inv, TypeOK, WatcherOK, BoundsAssumption
      <4> QED  BY <4>1, <4>2
    <3>2. CASE ~(watcher.then = "idle" /\ watcher.diff \in {s, Everything})
      BY <1>1, <2>4, <3>2
    <3> QED  BY <3>1, <3>2
  <2> QED  BY <2>1, <2>2, <2>3, <2>4
<1>6. BuiltOK'
  <2> SUFFICES ASSUME NEW o \in Outs, Built(o)'
               PROVE  /\ m_dependencies'[o] = Inputs[o]
                      /\ Missed \notin content'[o] => Good(o, content[o])'
    BY DEF BuiltOK
  <2>1. Built(o) /\ o \notin seen /\ m_dependencies'[o] = Inputs[o]
    BY <1>1 DEF CurrencyInv, BuiltOK
  <2> SUFFICES ASSUME Missed \notin content[o] PROVE Good(o, content[o])'
    BY <1>1, <2>1
  <2>2. PICK b : b = content[o]
    OBVIOUS
  <2>3. Good(o, b)
    BY <2>1, <2>2 DEF CurrencyInv, BuiltOK
  <2>4. \A p \in Inputs[o] \cap Outs : Built(p)' /\ content'[p] \subseteq b
    BY <1>1, <2>1, <2>3 DEF Good, Covers
  <2>5. Marking => \A e \in b : ~Old(e)
    BY <1>1, <2>1, <2>2 DEF CurrencyInv, MarkOK
  <2>6. Fresh(b) /\ \A e \in b : e[1] \in Sources => e[2] \in Nat
    BY <2>3 DEF Good
  <2>7. Fresh(b)'
    BY <1>1, <2>5, <2>6, MarkFresh
  <2>8. Good(o, b)'
    BY <1>1, <2>3, <2>4, <2>7 DEF Good
  <2> QED  BY <1>1, <2>2, <2>8
<1>7. \A i \in Attempts : BuildOK(i)'
  BY <1>1, MarkBuild
<1> QED  BY <1>2, <1>3, <1>4, <1>5, <1>6, <1>7 DEF CurrencyInv

-----------------------------------------------------------------------------
(* What is kept for the next run.                                          *)

\* Mark has made o stale, and its record is about to be dropped.
InWindow(o) == watcher.at = "forget" /\ o \in watcher.outputs

\* Its record is about to be dropped, or could not be.
Dropping(o) == InWindow(o) \/ o \in undropped

\* The file of o is final, and its bytes are b.
Kept(o, b) == Built(o) /\ content[o] = b

RecordsOK ==
    \A o \in Outs : record[o] # None =>
        /\ HasCache
        /\ {e[1] : e \in record[o].inputs} = Inputs[o]
        /\ Dropping(o) \/ Kept(o, record[o].bytes)

KeepOK(i) ==
    LET o == att[i].out
    IN  att[i].keep =>
          /\ HasCache /\ o \in Outs /\ att[i].reads = Inputs[o]
          /\ att[i].phase \in {"published", "settled", "completed", "keeping"}
          /\ att[i].invalidations <= m_invalidations[o]
          /\ att[i].phase # "keeping" /\ AsStarted(i) => Kept(o, att[i].bytes)
          /\ att[i].phase = "keeping" =>
                /\ InWindow(o) \/ Kept(o, att[i].bytes)
                /\ {e[1] : e \in att[i].stamps} = Inputs[o] \cap Outs

\* The output of a build under way went out of date only if it was
\* invalidated since.
StartOK(i) ==
    att[i].phase \in UnderWay =>
        /\ att[i].invalidations <= m_invalidations[att[i].out]
        /\ AsStarted(i) => att[i].out \notin m_stale

MutexOK ==
    \A i \in Attempts : /\ att[i].phase = "keeping" => m_cache_mutex = i
                        /\ att[i].phase = "completed" => att[i].keep

CacheInv ==
    /\ RecordsOK /\ MutexOK
    /\ \A i \in Attempts : KeepOK(i) /\ StartOK(i)

LEMMA InitCache == Init => CacheInv
<1> SUFFICES ASSUME Init PROVE CacheInv
  OBVIOUS
<1>1. \A i \in Attempts : att[i].phase = "free" /\ ~att[i].keep
  BY DEF Init, InitWith, Free
<1>2. RecordsOK
  BY DEF Init, InitWith, RecordsOK
<1> QED  BY <1>1, <1>2 DEF CacheInv, MutexOK, KeepOK, StartOK, UnderWay

\* What is to be kept of a build stays as it was, or its end goes on.
Keeps(i) ==
    /\ att'[i].keep =>
          \/ att'[i] = att[i]
          \/ /\ att[i].keep /\ att[i].phase \in {"published", "settled"}
             /\ att'[i].phase \in {"settled", "completed"}
             /\ att'[i].out = att[i].out /\ att'[i].reads = att[i].reads
             /\ att'[i].bytes = att[i].bytes /\ att'[i].invalidations = att[i].invalidations
    /\ att'[i].phase = "keeping" => att[i].phase = "keeping"
    /\ att'[i].phase = "completed" => att'[i] = att[i] \/ att'[i].keep

\* A build under way was so before, or begins.
Starts(i) ==
    att'[i].phase \in UnderWay =>
        \/ /\ att[i].phase \in UnderWay
           /\ att'[i].out = att[i].out /\ att'[i].invalidations = att[i].invalidations
           /\ att[i].out \in m_stale' => att[i].out \in m_stale
        \/ att'[i].invalidations = m_invalidations[att'[i].out] /\ att'[i].out \notin m_stale'

LEMMA KeptStays ==
    ASSUME Grows, NEW o \in Outs, NEW b, Kept(o, b)
    PROVE  Kept(o, b)'
BY DEF Kept, Grows

LEMMA KeepFrame ==
    ASSUME Grows, m_invalidations' = m_invalidations, NEW i \in Attempts, KeepOK(i), Keeps(i),
           att[i].phase = "keeping" => \A o \in Outs : InWindow(o) => InWindow(o)'
    PROVE  KeepOK(i)'
<1> SUFFICES ASSUME att'[i].keep PROVE KeepOK(i)'
  BY DEF KeepOK
<1>1. PICK o, b : o = att[i].out /\ b = att[i].bytes
  OBVIOUS
<1>2. /\ att[i].keep /\ att'[i].out = o /\ att'[i].bytes = b
      /\ att'[i].reads = att[i].reads /\ att'[i].invalidations = att[i].invalidations
      /\ \/ att'[i] = att[i]
         \/ att[i].phase # "keeping" /\ att'[i].phase \in {"settled", "completed"}
  BY <1>1 DEF Keeps
<1>3. /\ HasCache /\ o \in Outs /\ att[i].reads = Inputs[o]
      /\ att[i].phase \in {"published", "settled", "completed", "keeping"}
      /\ att[i].invalidations <= m_invalidations[o]
      /\ att[i].phase # "keeping" /\ AsStarted(i) => Kept(o, b)
      /\ att[i].phase = "keeping" =>
            /\ InWindow(o) \/ Kept(o, b)
            /\ {e[1] : e \in att[i].stamps} = Inputs[o] \cap Outs
  BY <1>1, <1>2 DEF KeepOK
<1>4. AsStarted(i)' <=> AsStarted(i)
  BY <1>1, <1>2 DEF AsStarted
<1>5. Kept(o, b) => Kept(o, b)'
  BY <1>3, KeptStays
<1>6. /\ att'[i].phase \in {"published", "settled", "completed", "keeping"}
      /\ att'[i].phase # "keeping" /\ AsStarted(i)' => Kept(o, b)'
      /\ att'[i].phase = "keeping" =>
            /\ InWindow(o)' \/ Kept(o, b)'
            /\ {e[1] : e \in att'[i].stamps} = Inputs[o] \cap Outs
  BY <1>2, <1>3, <1>4, <1>5
<1>7. Kept(att[i].out, att[i].bytes)' <=> Kept(o, b)'
  BY <1>2 DEF Kept, Built, Declared, Published
<1>8. InWindow(att[i].out)' <=> InWindow(o)'
  BY <1>2 DEF InWindow
<1> QED  BY <1>2, <1>3, <1>6, <1>7, <1>8 DEF KeepOK

LEMMA StartFrame ==
    ASSUME Inv, Inv', m_invalidations' = m_invalidations, NEW i \in Attempts,
           StartOK(i), Starts(i)
    PROVE  StartOK(i)'
<1> SUFFICES ASSUME att'[i].phase \in UnderWay PROVE StartOK(i)'
  BY DEF StartOK
<1>1. att'[i].out \in Outs /\ m_invalidations \in [Outs -> Nat]
  BY DEF Inv, TypeOK, Accounts, BuildsOK, InFlightOK, UnderWay
<1> QED  BY <1>1 DEF Starts, StartOK, AsStarted

LEMMA RecordsFrame ==
    ASSUME Grows, RecordsOK,
           \A o \in Outs : record'[o] # None =>
               record'[o] = record[o] /\ (Dropping(o) => Dropping(o)')
    PROVE  RecordsOK'
<1> SUFFICES ASSUME NEW o \in Outs, record'[o] # None
             PROVE  /\ HasCache /\ {e[1] : e \in record'[o].inputs} = Inputs[o]
                    /\ Dropping(o)' \/ Kept(o, record[o].bytes)'
  BY DEF RecordsOK
<1>1. PICK b : b = record[o].bytes
  OBVIOUS
<1>2. /\ HasCache /\ {e[1] : e \in record[o].inputs} = Inputs[o]
      /\ Dropping(o) \/ Kept(o, b)
  BY <1>1 DEF RecordsOK
<1>3. Dropping(o)' \/ Kept(o, b)'
  BY <1>2, KeptStays
<1>4. record'[o].bytes = b
  BY <1>1
<1> QED  BY <1>2, <1>3, <1>4

\* Builds that may be kept are kept as they were made, whatever else goes on.
LEMMA CacheFrame ==
    ASSUME Inv, Inv', CacheInv, Grows,
           record' = record, m_invalidations' = m_invalidations,
           m_cache_mutex' = m_cache_mutex, undropped' = undropped,
           \A o \in Outs : InWindow(o) => InWindow(o)',
           \A i \in Attempts : Keeps(i) /\ Starts(i)
    PROVE  CacheInv'
<1>1. RecordsOK'
  BY RecordsFrame DEF CacheInv, Dropping
<1>2. MutexOK'
  BY DEF CacheInv, MutexOK, Keeps
<1>3. \A i \in Attempts : KeepOK(i)' /\ StartOK(i)'
  BY KeepFrame, StartFrame DEF CacheInv
<1> QED  BY <1>1, <1>2, <1>3 DEF CacheInv

\* The step touches no build that is kept or under way, and no record.
LEMMA CacheStays ==
    ASSUME Inv, Inv', CacheInv, Grows, att' = att, m_stale' = m_stale,
           UNCHANGED cacheVars, m_invalidations' = m_invalidations,
           \A o \in Outs : InWindow(o) => InWindow(o)'
    PROVE  CacheInv'
<1>1. \A i \in Attempts : Keeps(i) /\ Starts(i)
  BY DEF Keeps, Starts
<1> QED  BY <1>1, CacheFrame DEF cacheVars

\* Whatever comes and goes that the builds do not see.
LEMMA RestCache ==
    ASSUME Inv, Inv', CurrencyInv, CacheInv,
           \/ \E s \in Sources : Change(s)
           \/ Overflow \/ materialize_all \/ (\E r \in Readers : ReadOpened(r))
           \/ UNCHANGED vars
    PROVE  CacheInv'
<1>1. /\ UNCHANGED <<cacheVars, m_invalidations, m_stale, att, watcher>>
      /\ UNCHANGED <<manifest, m_commands, m_in_flight, next, m_dependencies, fileVars,
                     applied>>
  BY DEF Change, Overflow, materialize_all, ReadOpened, vars, sourceVars, bookVars,
         fileVars, threadVars
<1>2. \A x \in Sources : version[x] <= version'[x]
  <2> SUFFICES ASSUME NEW x \in Sources PROVE version[x] <= version'[x]
    OBVIOUS
  <2>1. version[x] \in Nat
    BY BoundsAssumption DEF Inv, TypeOK, BoundsAssumption
  <2>2. CASE \E s \in Sources : Change(s)
    <3>1. PICK s \in Sources : version' = [version EXCEPT ![s] = @ + 1]
      BY <2>2 DEF Change
    <3> QED  BY <2>1, <3>1 DEF Inv, TypeOK
  <2>3. CASE version' = version
    BY <2>1, <2>3
  <2> QED  BY <2>2, <2>3 DEF Overflow, materialize_all, ReadOpened, vars, sourceVars
<1>3. Grows
  BY <1>1, <1>2, SparedAll, FrameGrows DEF fileVars
<1> QED  BY <1>1, <1>3, CacheStays DEF InWindow

\* A build that reads is not one to be kept.
LEMMA ReadsNoKeep ==
    ASSUME CacheInv, NEW i \in Attempts,
           att[i].phase \in {"running", "asked", "opening", "failed"}
    PROVE  ~att[i].keep
<1> KeepOK(i)
  BY DEF CacheInv
<1> QED  BY DEF KeepOK

LEMMA OneBuildCache ==
    ASSUME Inv, Inv', CurrencyInv, CacheInv, UNCHANGED buildStep, UNCHANGED cacheVars,
           NEW i \in Attempts, NEW c, att' = [att EXCEPT ![i] = c],
           att[i].phase \in {"running", "asked", "opening"},
           c.phase \in {"running", "asked", "opening", "failed"},
           c.out = att[i].out, c.keep = att[i].keep, c.invalidations = att[i].invalidations
    PROVE  CacheInv'
<1>1. att'[i] = c /\ \A j \in Attempts \ {i} : att'[j] = att[j]
  BY DEF Inv, TypeOK
<1>2. Grows
  <2>1. \A j \in Attempts :
               /\ att'[j].phase = "published" <=> att[j].phase = "published"
               /\ att[j].phase = "published" => att'[j].out = att[j].out
    BY <1>1
  <2> QED  BY <2>1, BooksStay, FrameGrows
<1>3. \A j \in Attempts : Keeps(j) /\ Starts(j)
  BY <1>1, ReadsNoKeep DEF Keeps, Starts, UnderWay, buildStep, bookVars
<1>4. \A o \in Outs : InWindow(o) => InWindow(o)'
  BY DEF InWindow, buildStep
<1> QED  BY <1>2, <1>3, <1>4, CacheFrame DEF buildStep, bookVars, cacheVars

LEMMA ReadCache ==
    ASSUME Inv, Inv', CurrencyInv, CacheInv, NEW i \in Attempts,
           \/ Fail(i) \/ ReadOutput(i)
           \/ \E s \in Sources : ReadSource(i, s)
           \/ \E o \in Outs : RecordRead(i, o)
    PROVE  CacheInv'
<1>1. att[i] \in AttemptType /\ att[i].phase \in {"running", "asked", "opening"}
  BY DEF Inv, TypeOK, Fail, ReadOutput, ReadSource, RecordRead, Running
<1>2. UNCHANGED buildStep /\ UNCHANGED cacheVars
  BY DEF Fail, ReadOutput, ReadSource, RecordRead, buildOnly, buildStep
<1>3. PICK c : /\ att' = [att EXCEPT ![i] = c]
               /\ c.phase \in {"running", "asked", "failed"} /\ c.out = att[i].out
               /\ c.keep = att[i].keep /\ c.invalidations = att[i].invalidations
  <2>1. CASE Fail(i)
    <3> DEFINE c == [att[i] EXCEPT !.phase = "failed"]
    <3>1. att' = [att EXCEPT ![i] = c]
      BY <2>1 DEF Fail, Inv, TypeOK
    <3>2. /\ c.phase = "failed" /\ c.out = att[i].out /\ c.keep = att[i].keep
          /\ c.invalidations = att[i].invalidations
      BY <1>1 DEF AttemptType
    <3> HIDE DEF c
    <3> QED  BY <3>1, <3>2
  <2>2. CASE ReadOutput(i)
    <3> DEFINE k == IF att[i].input \in files THEN "running" ELSE "failed"
               x == att[i].seen \cup {att[i].input}
               y == att[i].bytes \cup content[att[i].input]
                       \cup (IF att[i].input \in att[i].reads THEN {} ELSE {Unrecorded})
               c == [att[i] EXCEPT !.phase = k, !.seen = x, !.bytes = y, !.input = None]
    <3>1. att' = [att EXCEPT ![i] = c]
      BY <2>2 DEF ReadOutput, Inv, TypeOK
    <3>2. k \in {"running", "failed"}
      OBVIOUS
    <3> HIDE DEF k, x, y
    <3>3. /\ c.phase = k /\ c.out = att[i].out /\ c.keep = att[i].keep
          /\ c.invalidations = att[i].invalidations
      BY <1>1 DEF AttemptType
    <3> HIDE DEF c
    <3> QED  BY <3>1, <3>2, <3>3
  <2>3. CASE \E s \in Sources : ReadSource(i, s)
    <3>1. PICK s \in Sources : ReadSource(i, s)
      BY <2>3
    <3> DEFINE x == att[i].reads \cup {s}
               z == att[i].seen \cup {s}
               y == att[i].bytes \cup {<<s, version[s]>>}
               c == [att[i] EXCEPT !.reads = x, !.seen = z, !.bytes = y]
    <3>2. att' = [att EXCEPT ![i] = c] /\ att[i].phase = "running"
      BY <3>1 DEF ReadSource, Running, Inv, TypeOK
    <3> HIDE DEF x, y, z
    <3>3. /\ c.phase = "running" /\ c.out = att[i].out /\ c.keep = att[i].keep
          /\ c.invalidations = att[i].invalidations
      BY <1>1, <3>2 DEF AttemptType
    <3> HIDE DEF c
    <3> QED  BY <3>2, <3>3
  <2>4. CASE \E o \in Outs : RecordRead(i, o)
    <3>1. PICK o \in Outs : RecordRead(i, o)
      BY <2>4
    <3> DEFINE x == att[i].reads \cup {p \in {o} : Declared(p) \/ Copying(i)}
               c == [att[i] EXCEPT !.phase = "asked", !.input = o, !.reads = x]
    <3>2. att' = [att EXCEPT ![i] = c]
      BY <3>1 DEF RecordRead, Inv, TypeOK
    <3> HIDE DEF x
    <3>3. /\ c.phase = "asked" /\ c.out = att[i].out /\ c.keep = att[i].keep
          /\ c.invalidations = att[i].invalidations
      BY <1>1 DEF AttemptType
    <3> HIDE DEF c
    <3> QED  BY <3>2, <3>3
  <2> QED  BY <2>1, <2>2, <2>3, <2>4
<1> QED  BY <1>1, <1>2, <1>3, OneBuildCache

\* Builds that begin have not been invalidated yet.
LEMMA BroughtCache ==
    ASSUME Inv, Inv', CurrencyInv, CacheInv, NEW o \in Outs, NEW b, Brought(o, b),
           UNCHANGED bookStay, UNCHANGED cacheVars,
           \A p \in Outs : InWindow(p) => InWindow(p)',
           \A j \in Attempts : \/ att'[j] = b[j]
                               \/ /\ b[j] = att[j] /\ Opens(j)
                                  /\ att'[j].keep = att[j].keep
                                  /\ att'[j].invalidations = att[j].invalidations
    PROVE  CacheInv'
<1>1. \A j \in Attempts : att'[j] = b[j] \/ (b[j] = att[j] /\ Opens(j))
  OBVIOUS
<1>2. Grows
  BY <1>1, BroughtFrame, FrameGrows
<1>3. m_invalidations' = m_invalidations /\ m_stale' \subseteq m_stale
  BY DEF bookStay, bookRest, Brought, Queues, Begins
<1>4. ASSUME NEW j \in Attempts
      PROVE  Keeps(j) /\ Starts(j)
  <2>1. CASE att'[j] = att[j]
    BY <1>3, <2>1 DEF Keeps, Starts
  <2>2. CASE b[j] = att[j] /\ Opens(j) /\ att'[j].keep = att[j].keep
             /\ att'[j].invalidations = att[j].invalidations
    BY <1>3, <2>2, ReadsNoKeep DEF Keeps, Starts, Opens, UnderWay
  <2>3. CASE att'[j] = b[j] /\ b[j] # att[j]
    <3>1. Queues(o, b, j) \/ Begins(o, b, j)
      BY <2>3 DEF Brought, Queues, Begins
    <3> QED  BY <1>3, <2>3, <3>1 DEF Queues, Begins, IsNew, Keeps, Starts, UnderWay
  <2> QED  BY <2>1, <2>2, <2>3
<1> QED  BY <1>2, <1>3, <1>4, CacheFrame DEF cacheVars

LEMMA OpenCache ==
    ASSUME Inv, Inv', CurrencyInv, CacheInv, NEW o \in Outs,
           \/ \E r \in Readers : open(r, o)
           \/ MaterializeNext(o) \/ StartEager(o)
    PROVE  CacheInv'
<1>1. PICK b : Brought(o, b) /\ att' = b
  BY OpenBrings, StartBrings DEF Inv, open, MaterializeNext, StartEager
<1>2. UNCHANGED bookStay /\ UNCHANGED cacheVars
  BY DEF open, MaterializeNext, StartEager, bookStay, watcherOnly, sourceVars
<1>3. \A p \in Outs : InWindow(p) => InWindow(p)'
  BY DEF open, MaterializeNext, StartEager, InWindow
<1> QED  BY <1>1, <1>2, <1>3, BroughtCache

LEMMA OpenOutputCache ==
    ASSUME Inv, Inv', CurrencyInv, CacheInv, NEW i \in Attempts, OpenOutput(i)
    PROVE  CacheInv'
<1>0. PICK o \in Outs : o = att[i].input
  BY DEF OpenOutput, Inv, Accounts, BuildsOK, WaitersOK
<1> DEFINE b == WithTarget(o)
<1>1. bring_up_to_date(o) /\ Brought(o, b)
  BY <1>0, OpenBrings DEF Inv, OpenOutput
<1>2. /\ b \in [Attempts -> AttemptType]
      /\ \A j \in Attempts : att[j].phase \in UnderWay => b[j] = att[j]
  BY <1>1, OpenFacts DEF Inv
<1>3. att[i].phase = "asked" /\ b[i] = att[i] /\ b[i] \in AttemptType
  BY <1>2 DEF OpenOutput, UnderWay
<1> DEFINE c == [b[i] EXCEPT !.phase = "opening", !.target = Target(o)]
<1>4. att' = [b EXCEPT ![i] = c]
  BY <1>0, <1>2 DEF OpenOutput
<1> HIDE DEF b
<1>5. /\ c.phase = "opening" /\ c.out = att[i].out /\ c.keep = att[i].keep
      /\ c.invalidations = att[i].invalidations
  BY <1>3 DEF AttemptType
<1> HIDE DEF c
<1>6. att'[i] = c /\ \A j \in Attempts \ {i} : att'[j] = b[j]
  BY <1>2, <1>4
<1>7. UNCHANGED bookStay /\ UNCHANGED cacheVars /\ \A p \in Outs : InWindow(p) => InWindow(p)'
  BY DEF OpenOutput, bookStay, buildOnly, InWindow
<1> QED  BY <1>1, <1>3, <1>5, <1>6, <1>7, BroughtCache DEF Opens

LEMMA SettleCache ==
    ASSUME Inv, Inv', CurrencyInv, CacheInv, NEW i \in Attempts, Settle(i)
    PROVE  CacheInv'
<1>1. SettlesLast(i) \/ \E n \in Attempts : Reclaims(i, n)
  BY SettleFacts
<1>2. /\ att[i].phase \in {"published", "failed"}
      /\ UNCHANGED <<sourceVars, m_commands, m_invalidations, files, content, cacheVars,
                     watcher, applied>>
  BY DEF Settle
<1>3. Grows
  BY <1>1, <1>2, SettleFrame, FrameGrows
<1>4. /\ att[i].out \in Outs
      /\ \A j \in Attempts \ {i} : att[j].phase \in UnderWay => att[j].out # att[i].out
  BY <1>2, EndingFacts DEF Inv, Builds, UnderWay
<1>5. \A p \in Outs \ {att[i].out} : p \in m_stale' => p \in m_stale
  BY <1>1 DEF SettlesLast, Reclaims, StaleAfter
<1>6. ASSUME NEW j \in Attempts
      PROVE  Keeps(j) /\ Starts(j)
  <2>1. CASE j = i
    <3>1. /\ att'[i].phase = "settled" /\ att'[i].out = att[i].out
          /\ att'[i].keep = att[i].keep /\ att'[i].bytes = att[i].bytes
          /\ att'[i].reads = att[i].reads /\ att'[i].invalidations = att[i].invalidations
      BY <1>1 DEF SettlesLast, Reclaims, Settles
    <3> QED  BY <1>2, <2>1, <3>1, ReadsNoKeep DEF Keeps, Starts, UnderWay
  <2>2. CASE j # i /\ att'[j] = att[j]
    <3>1. att[j].phase \in UnderWay => att[j].out \in Outs \ {att[i].out}
      BY <1>4, <2>2 DEF Inv, Accounts, BuildsOK, InFlightOK, UnderWay
    <3> QED  BY <1>5, <2>2, <3>1 DEF Keeps, Starts
  <2>3. CASE j # i /\ Reclaims(i, j)
    BY <2>3 DEF Reclaims, IsNew, Keeps, Starts
  <2> QED  BY <1>1, <2>1, <2>2, <2>3 DEF SettlesLast, Reclaims
<1> QED  BY <1>2, <1>3, <1>6, CacheFrame DEF InWindow, cacheVars

LEMMA CompleteCache ==
    ASSUME Inv, Inv', CurrencyInv, CacheInv, NEW i \in Attempts, Complete(i)
    PROVE  CacheInv'
<1>1. /\ UNCHANGED buildStep /\ UNCHANGED cacheVars /\ att[i].phase = "settled"
      /\ att[i].orphaned # None =>
            att[i].orphaned \in Attempts /\ att[att[i].orphaned].phase = "next"
  <2>1. UNCHANGED buildStep /\ UNCHANGED cacheVars /\ att[i].phase = "settled"
    BY DEF Complete, buildStep
  <2>2. att[i] \in AttemptType
    BY DEF Inv, TypeOK
  <2>3. att[i].orphaned \in Attempts \cup {None}
    BY <2>2 DEF AttemptType
  <2> QED  BY <2>1, <2>3 DEF Inv, Accounts, BuildsOK, OrphansOK
<1>2. ASSUME NEW j \in Attempts
      PROVE  /\ Keeps(j) /\ Starts(j)
             /\ att'[j].phase = "published" <=> att[j].phase = "published"
             /\ att[j].phase = "published" => att'[j].out = att[j].out
  <2>1. att[j] \in AttemptType /\ att[i] \in AttemptType
    BY DEF Inv, TypeOK
  <2>2. CASE j = i
    <3>1. att'[i] = IF att[i].keep THEN [att[i] EXCEPT !.phase = "completed"] ELSE Free
      BY DEF Complete
    <3>2. CASE att[i].keep
      <4> DEFINE c == [att[i] EXCEPT !.phase = "completed"]
      <4>1. /\ c.phase = "completed" /\ c.out = att[i].out /\ c.reads = att[i].reads
            /\ c.bytes = att[i].bytes /\ c.invalidations = att[i].invalidations
            /\ c.keep = att[i].keep
        BY <2>1 DEF AttemptType
      <4>2. att'[i] = c
        BY <3>1, <3>2
      <4> HIDE DEF c
      <4> QED  BY <1>1, <2>2, <3>2, <4>1, <4>2 DEF Keeps, Starts, UnderWay
    <3>3. CASE ~att[i].keep
      <4>1. att'[i].phase = "free" /\ ~att'[i].keep
        BY <3>1, <3>3 DEF Free
      <4> QED  BY <1>1, <2>2, <4>1 DEF Keeps, Starts, UnderWay
    <3> QED  BY <3>2, <3>3
  <2>3. CASE j # i /\ j \in Ends(i)
    <3>0. j \in Ends(i) \ {i} /\ att[j].phase = "next"
      BY <1>1, <2>3 DEF Ends
    <3>3. att'[j] = Free
      BY <3>0 DEF Complete
    <3>1. att'[j].phase = "free" /\ ~att'[j].keep
      BY <3>3 DEF Free
    <3> QED  BY <3>0, <3>1 DEF Keeps, Starts, UnderWay
  <2>4. CASE j # i /\ j \notin Ends(i) /\ att[j].phase = "opening"
    <3> DEFINE k == IF att[j].target = i /\ att[i].ok THEN "opening" ELSE "failed"
               c == [att[j] EXCEPT !.target = None, !.phase = k]
    <3>1. att'[j] = att[j] \/ att'[j] = c
      BY <2>4 DEF Complete
    <3>2. k \in {"opening", "failed"}
      OBVIOUS
    <3> HIDE DEF k
    <3>3. /\ c.phase = k /\ c.out = att[j].out /\ c.keep = att[j].keep
          /\ c.invalidations = att[j].invalidations
      BY <2>1 DEF AttemptType
    <3> HIDE DEF c
    <3>4. ~att[j].keep
      BY <2>4, ReadsNoKeep
    <3> QED
      BY <1>1, <2>4, <3>1, <3>2, <3>3, <3>4 DEF Keeps, Starts, UnderWay, buildStep, bookVars
  <2>5. CASE j # i /\ j \notin Ends(i) /\ att[j].phase # "opening"
    <3>1. att'[j] = att[j]
      BY <2>5 DEF Complete
    <3> QED  BY <1>1, <3>1 DEF Keeps, Starts, buildStep, bookVars
  <2> QED  BY <2>2, <2>3, <2>4, <2>5
<1>3. Grows
  BY <1>1, <1>2, BooksStay, FrameGrows
<1>4. \A o \in Outs : InWindow(o) => InWindow(o)'
  BY <1>1 DEF InWindow, buildStep
<1> QED  BY <1>1, <1>2, <1>3, <1>4, CacheFrame DEF buildStep, bookVars, cacheVars

LEMMA ApplyRulesCache ==
    ASSUME Inv, Inv', CurrencyInv, CacheInv, NEW d \in {Manifest, Everything}, apply_rules(d)
    PROVE  CacheInv'
<1>1. /\ UNCHANGED <<watcherOnly, m_commands, m_stale, m_in_flight, m_invalidations, next,
                     m_dependencies, files, content, cacheVars, att, applied>>
      /\ watcher.at = "idle" /\ \A s \in Sources : version[s] <= version'[s]
  BY RulesStay DEF fileVars
<1>2. Grows
  BY <1>1, SparedAll, FrameGrows DEF watcherOnly
<1>3. \A o \in Outs : ~InWindow(o)
  BY <1>1 DEF InWindow
<1> QED  BY <1>1, <1>2, <1>3, CacheStays

LEMMA MissedKeeps ==
    ASSUME Inv, CacheInv, NEW O, att' = Misses(O), NEW i \in Attempts
    PROVE  /\ Keeps(i)
           /\ att'[i].phase = att[i].phase /\ att'[i].out = att[i].out
           /\ att'[i].invalidations = att[i].invalidations /\ att'[i].keep = att[i].keep
           /\ att[i].keep => att'[i] = att[i]
<1>1. /\ att'[i].phase = att[i].phase /\ att'[i].out = att[i].out
      /\ att'[i].invalidations = att[i].invalidations /\ att'[i].keep = att[i].keep
      /\ att'[i] = att[i] \/ Hears(i)
  <2>1. TypeOK
    BY DEF Inv
  <2> QED  BY <2>1, MissesCases
<1>2. Hears(i) => ~att[i].keep
  BY ReadsNoKeep DEF Hears, Reads
<1> QED  BY <1>1, <1>2 DEF Keeps, Hears, Reads

LEMMA CollectCache ==
    ASSUME Inv, Inv', CurrencyInv, CacheInv,
           FindReaders \/ \E d \in Sources \cup {Manifest, Everything} : Collect(d)
    PROVE  CacheInv'
<1>1. PICK O : att' = Misses(O)
  BY DEF FindReaders, Collect
<1>2. UNCHANGED watcherStep /\ UNCHANGED cacheVars /\ \A o \in Outs : ~InWindow(o)
  BY DEF FindReaders, Collect, watcherStep, InWindow
<1>3. Grows
  BY <1>1, <1>2, MissesCurrency, FrameGrows
<1>4. \A i \in Attempts : Keeps(i) /\ Starts(i)
  BY <1>1, <1>2, MissedKeeps DEF Starts, watcherStep, bookVars
<1> QED  BY <1>2, <1>3, <1>4, CacheFrame DEF watcherStep, bookVars, cacheVars

(* What a build publishes may be kept, if its output did not go out of     *)
(* date since it began.                                                    *)
LEMMA PublishCache ==
    ASSUME Inv, Inv', CurrencyInv, CacheInv, NEW i \in Attempts, Publish(i)
    PROVE  CacheInv'
<1>1. PICK o : o = att[i].out
  OBVIOUS
<1>2. PICK b : b = att[i].bytes \cup {<<o, FirstManifest[o]>>}
  OBVIOUS
<1>3. /\ o \in Outs /\ att[i].phase = "running" /\ att[i].reads = Inputs[o]
      /\ Declared(o) /\ ~Built(o)
      /\ \A j \in Attempts \ {i} : att[j].phase \in UnderWay => att[j].out # o
      /\ att'[i].phase = "published" /\ att'[i].out = o
      /\ att'[i].bytes = b /\ att'[i].reads = att[i].reads
      /\ att'[i].invalidations = att[i].invalidations /\ (att'[i].keep => HasCache)
      /\ \A j \in Attempts \ {i} : att'[j] = att[j]
      /\ content'[o] = b
      /\ \A p \in Outs \ {o} : /\ content'[p] = content[p]
                               /\ m_dependencies'[p] = m_dependencies[p]
      /\ UNCHANGED <<sourceVars, m_commands, m_stale, m_in_flight, watcher, applied>>
  BY <1>1, <1>2, PublishFacts
<1>4. UNCHANGED <<m_invalidations, record, m_cache_mutex, undropped>>
  BY DEF Publish, cacheVars
<1>5. \A p \in Outs \ {o} : Built(p)' <=> Built(p)
  <2>1. \A p \in Outs \ {o} : Published(p)' <=> Published(p)
    BY <1>1, <1>3 DEF Published
  <2> QED  BY <1>3, <2>1 DEF Built, Declared
<1>6. Grows
  <2>1. \A s \in Sources : version[s] \in Nat /\ version'[s] \in Nat
                           /\ version[s] <= version'[s]
    BY <1>3, BoundsAssumption DEF Inv, TypeOK, BoundsAssumption, sourceVars
  <2> QED  BY <1>3, <1>5, <2>1 DEF Grows
<1>7. \A p \in Outs : InWindow(p) => InWindow(p)'
  BY <1>3 DEF InWindow
<1>8. \A j \in Attempts \ {i} : Keeps(j) /\ Starts(j)
  BY <1>3 DEF Keeps, Starts
<1>9. StartOK(i) /\ att[i].phase \in UnderWay
  BY <1>3 DEF CacheInv, UnderWay
<1>10. KeepOK(i)'
  <2> SUFFICES ASSUME att'[i].keep PROVE KeepOK(i)'
    BY DEF KeepOK
  <2>1. att'[i].invalidations <= m_invalidations'[o]
    BY <1>1, <1>3, <1>4, <1>9 DEF StartOK
  <2>2. AsStarted(i)' => Kept(o, b)'
    <3> SUFFICES ASSUME AsStarted(i)' PROVE Built(o)'
      BY <1>3 DEF Kept
    <3>1. o \notin m_stale
      BY <1>1, <1>3, <1>4, <1>9 DEF StartOK, AsStarted
    <3>2. Published(o)' /\ Declared(o)'
      BY <1>3 DEF Published, Declared
    <3> QED  BY <1>3, <3>1, <3>2 DEF Built
  <2>3. Kept(att[i].out, att[i].bytes)' <=> Kept(o, b)'
    BY <1>3 DEF Kept, Built, Declared, Published
  <2> QED  BY <1>3, <2>1, <2>2, <2>3 DEF KeepOK
<1>11. Starts(i)
  BY <1>1, <1>3, <1>9 DEF Starts
<1>12. \A j \in Attempts : KeepOK(j)' /\ StartOK(j)'
  <2> TAKE j \in Attempts
  <2>1. StartOK(j)'
    BY <1>4, <1>8, <1>11, StartFrame DEF CacheInv
  <2>2. CASE j = i
    BY <1>10, <2>1, <2>2
  <2>3. CASE j # i
    BY <1>4, <1>6, <1>7, <1>8, <2>1, <2>3, KeepFrame DEF CacheInv
  <2> QED  BY <2>2, <2>3
<1>13. RecordsOK' /\ MutexOK'
  BY <1>3, <1>4, <1>6, <1>7, RecordsFrame DEF CacheInv, MutexOK, Dropping
<1> QED  BY <1>12, <1>13 DEF CacheInv

-----------------------------------------------------------------------------
(* Records are made and dropped.                                           *)

\* A build that is kept is looked at, and holds the cache's lock from then on.
LEMMA KeepCheckCache ==
    ASSUME Inv, Inv', CurrencyInv, CacheInv, NEW i \in Attempts, KeepCheck(i)
    PROVE  CacheInv'
<1> DEFINE generated == att[i].reads \cap Outs
           keepable == AsStarted(i) /\ \A p \in generated : m_hashes[p] # None
           stamps == IF keepable THEN {<<p, m_hashes[p]>> : p \in generated} ELSE {}
           c == [att[i] EXCEPT !.phase = "keeping", !.keep = keepable, !.stamps = stamps]
<1>1. /\ att[i].phase = "completed" /\ m_cache_mutex = None /\ m_cache_mutex' = i
      /\ att' = [att EXCEPT ![i] = c] /\ att[i] \in AttemptType
      /\ UNCHANGED buildStep /\ record' = record /\ undropped' = undropped
  BY DEF KeepCheck, Inv, TypeOK, buildStep
<1>2. /\ keepable => AsStarted(i)
      /\ keepable => {e[1] : e \in stamps} = generated
  <2>1. ASSUME keepable PROVE {e[1] : e \in stamps} = generated
    <3>1. stamps = {<<p, m_hashes[p]>> : p \in generated}
      BY <2>1
    <3> HIDE DEF stamps
    <3>2. \A x : x \in {e[1] : e \in stamps} => x \in generated
      BY <3>1
    <3>3. ASSUME NEW x \in generated PROVE x \in {e[1] : e \in stamps}
      <4>1. <<x, m_hashes[x]>> \in stamps /\ <<x, m_hashes[x]>>[1] = x
        BY <3>1
      <4> QED  BY <4>1
    <3> QED  BY <3>2, <3>3
  <2> QED  BY <2>1
<1> HIDE DEF keepable, stamps
<1>3. /\ c.phase = "keeping" /\ c.keep = keepable /\ c.stamps = stamps
      /\ c.out = att[i].out /\ c.reads = att[i].reads /\ c.bytes = att[i].bytes
      /\ c.invalidations = att[i].invalidations
  BY <1>1 DEF AttemptType
<1> HIDE DEF c
<1>4. att'[i] = c /\ \A j \in Attempts \ {i} : att'[j] = att[j]
  BY <1>1 DEF Inv, TypeOK
<1>5. Grows
  <2>1. \A j \in Attempts :
               /\ att'[j].phase = "published" <=> att[j].phase = "published"
               /\ att[j].phase = "published" => att'[j].out = att[j].out
    BY <1>1, <1>3, <1>4
  <2> QED  BY <1>1, <2>1, BooksStay, FrameGrows
<1>6. \A p \in Outs : InWindow(p) => InWindow(p)'
  BY <1>1 DEF InWindow, buildStep
<1>7. \A j \in Attempts : att[j].phase # "keeping"
  BY <1>1, NoneAssumption DEF CacheInv, MutexOK, NoneAssumption
<1>8. att[i].keep /\ KeepOK(i)
  BY <1>1 DEF CacheInv, MutexOK
<1>9. ASSUME keepable PROVE KeepOK(i)'
  <2>1. PICK o, b : o = att[i].out /\ b = att[i].bytes
    OBVIOUS
  <2>2. /\ HasCache /\ o \in Outs /\ att[i].reads = Inputs[o]
        /\ att[i].invalidations <= m_invalidations[o] /\ Kept(o, b)
    BY <1>1, <1>2, <1>8, <1>9, <2>1 DEF KeepOK
  <2>3. Kept(o, b)'
    BY <1>5, <2>2, KeptStays
  <2>4. Kept(att[i].out, att[i].bytes)' <=> Kept(o, b)'
    BY <1>3, <1>4, <2>1 DEF Kept, Built, Declared, Published
  <2>5. m_invalidations' = m_invalidations
    BY <1>1 DEF buildStep, bookVars
  <2> QED  BY <1>2, <1>3, <1>4, <1>9, <2>1, <2>2, <2>3, <2>4, <2>5 DEF KeepOK
<1>10. \A j \in Attempts : KeepOK(j)' /\ StartOK(j)'
  <2> TAKE j \in Attempts
  <2>1. StartOK(j)'
    BY <1>1, <1>3, <1>4 DEF CacheInv, StartOK, AsStarted, UnderWay, buildStep, bookVars
  <2>2. CASE j = i /\ keepable
    BY <1>9, <2>1, <2>2
  <2>3. CASE j = i /\ ~keepable
    BY <1>3, <1>4, <2>1, <2>3 DEF KeepOK
  <2>4. CASE j # i
    <3>1. Keeps(j) /\ KeepOK(j) /\ m_invalidations' = m_invalidations
      BY <1>1, <1>4, <2>4 DEF Keeps, CacheInv, buildStep, bookVars
    <3> QED  BY <1>5, <1>6, <2>1, <3>1, KeepFrame
  <2> QED  BY <2>2, <2>3, <2>4
<1>11. MutexOK'
  BY <1>1, <1>3, <1>4, <1>7 DEF CacheInv, MutexOK
<1>12. RecordsOK'
  BY <1>1, <1>5, <1>6, RecordsFrame DEF CacheInv, Dropping
<1> QED  BY <1>10, <1>11, <1>12 DEF CacheInv

\* Its record is stored, of inputs that are all final, whichever change has
\* come in since; or the one it had stays, which is as good as before.
LEMMA KeepStoreCache ==
    ASSUME Inv, Inv', CurrencyInv, CacheInv, NEW i \in Attempts, KeepStore(i)
    PROVE  CacheInv'
<1> DEFINE stamps == att[i].stamps \cup {<<s, version[s]>> : s \in att[i].reads \cap Sources}
<1>1. PICK o, b : o = att[i].out /\ b = att[i].bytes
  OBVIOUS
<1>2. PICK rec : rec = IF att[i].keep THEN [command |-> att[i].command, bytes |-> b,
                                            inputs |-> stamps]
                                      ELSE None
  OBVIOUS
<1>3. /\ att[i].phase = "keeping" /\ m_cache_mutex' = None
      /\ \/ record' = [record EXCEPT ![o] = rec] /\ undropped' = undropped \ {o}
         \/ record' = record /\ undropped' = undropped
      /\ att' = [att EXCEPT ![i] = Free] /\ UNCHANGED buildStep
  BY <1>1, <1>2 DEF KeepStore, buildStep
<1>4. /\ att'[i] = Free /\ Free.phase = "free" /\ ~Free.keep
      /\ \A j \in Attempts \ {i} : att'[j] = att[j]
  BY <1>3 DEF Inv, TypeOK, Free
<1>5. Grows
  <2>1. \A j \in Attempts :
               /\ att'[j].phase = "published" <=> att[j].phase = "published"
               /\ att[j].phase = "published" => att'[j].out = att[j].out
    BY <1>3, <1>4
  <2> QED  BY <1>3, <2>1, BooksStay, FrameGrows
<1>6. \A p \in Outs : InWindow(p) => InWindow(p)'
  BY <1>3 DEF InWindow, buildStep
<1>7. m_invalidations' = m_invalidations /\ m_stale' = m_stale
  BY <1>3 DEF buildStep, bookVars
<1>8. RecordsOK'
  <2> SUFFICES ASSUME NEW p \in Outs, record'[p] # None
               PROVE  /\ HasCache /\ {e[1] : e \in record'[p].inputs} = Inputs[p]
                      /\ Dropping(p)' \/ Kept(p, record[p].bytes)'
    BY DEF RecordsOK
  <2>1. CASE p # o \/ (record' = record /\ undropped' = undropped)
    <3>1. record'[p] = record[p]
      BY <1>3, <2>1 DEF Inv, TypeOK
    <3>2. PICK y : y = record[p].bytes
      OBVIOUS
    <3>3. /\ HasCache /\ {e[1] : e \in record[p].inputs} = Inputs[p]
          /\ Dropping(p) \/ Kept(p, y)
      BY <3>1, <3>2 DEF CacheInv, RecordsOK
    <3>4. Dropping(p) => Dropping(p)'
      BY <1>3, <1>6, <2>1 DEF Dropping
    <3>5. Dropping(p)' \/ Kept(p, y)'
      BY <1>5, <3>3, <3>4, KeptStays
    <3>6. record'[p].bytes = y
      BY <3>1, <3>2
    <3> QED  BY <3>1, <3>3, <3>5, <3>6
  <2>2. CASE p = o /\ record' = [record EXCEPT ![o] = rec]
    <3>1. record'[o] = rec /\ att[i].keep
      BY <1>2, <1>3, <2>2 DEF Inv, TypeOK
    <3>2. /\ HasCache /\ att[i].reads = Inputs[o] /\ (InWindow(o) \/ Kept(o, b))
          /\ {e[1] : e \in att[i].stamps} = Inputs[o] \cap Outs
      <4>1. KeepOK(i)
        BY DEF CacheInv
      <4> QED  BY <1>1, <1>3, <3>1, <4>1 DEF KeepOK
    <3>3. {e[1] : e \in stamps} = Inputs[o]
      <4>1. Inputs[o] \subseteq Sources \cup Outs
        BY <2>2, InputsAssumption DEF InputsAssumption
      <4>2. {e[1] : e \in {<<s, version[s]>> : s \in att[i].reads \cap Sources}} =
                Inputs[o] \cap Sources
        <5> DEFINE Y == {<<s, version[s]>> : s \in att[i].reads \cap Sources}
        <5>1. \A x : x \in {e[1] : e \in Y} => x \in Inputs[o] \cap Sources
          BY <3>2
        <5>2. ASSUME NEW x \in Inputs[o] \cap Sources PROVE x \in {e[1] : e \in Y}
          <6>1. <<x, version[x]>> \in Y /\ <<x, version[x]>>[1] = x
            BY <3>2
          <6> HIDE DEF Y
          <6> QED  BY <6>1
        <5> QED  BY <5>1, <5>2
      <4> QED  BY <3>2, <4>1, <4>2
    <3>4. record'[o].bytes = b /\ record'[o].inputs = stamps
      <4> HIDE DEF stamps
      <4> QED  BY <1>2, <3>1
    <3>5. InWindow(o)' \/ Kept(o, b)'
      BY <1>5, <1>6, <2>2, <3>2, KeptStays
    <3> HIDE DEF stamps
    <3>6. {e[1] : e \in record'[o].inputs} = Inputs[o]
      BY <3>3, <3>4
    <3>7. record'[p] = record'[o] /\ Inputs[p] = Inputs[o]
      BY <2>2
    <3>8. Kept(p, record[p].bytes)' <=> Kept(o, record[o].bytes)'
      BY <2>2
    <3>9. Kept(o, record[o].bytes)' <=> Kept(o, b)'
      BY <3>4 DEF Kept, Built, Declared, Published
    <3>10. InWindow(o)' => Dropping(p)'
      BY <2>2 DEF Dropping
    <3> QED  BY <3>2, <3>5, <3>6, <3>7, <3>8, <3>9, <3>10
  <2> QED  BY <1>3, <2>1, <2>2
<1>9. MutexOK'
  BY <1>3, <1>4 DEF CacheInv, MutexOK
<1>10. \A j \in Attempts : KeepOK(j)' /\ StartOK(j)'
  <2> TAKE j \in Attempts
  <2>1. Keeps(j) /\ Starts(j) /\ KeepOK(j) /\ StartOK(j)
    BY <1>4, <1>7 DEF Keeps, Starts, CacheInv, UnderWay
  <2> QED  BY <1>5, <1>6, <1>7, <2>1, KeepFrame, StartFrame
<1> QED  BY <1>8, <1>9, <1>10 DEF CacheInv

\* Records are dropped while nobody is about to store one.
LEMMA ForgetCache ==
    ASSUME Inv, Inv', CurrencyInv, CacheInv, ForgetRemoved \/ Forget
    PROVE  CacheInv'
<1>1. UNCHANGED <<sourceVars, bookVars, fileVars, att, applied, m_cache_mutex>>
      /\ m_cache_mutex = None
  BY DEF ForgetRemoved, Forget, forget_in_cache
<1>2. \A x \in Sources : version[x] <= version'[x]
  BY <1>1, BoundsAssumption DEF Inv, TypeOK, BoundsAssumption, sourceVars
<1>3. Grows
  BY <1>1, <1>2, SparedAll, FrameGrows DEF sourceVars, bookVars, fileVars
<1>4. \A j \in Attempts : att[j].phase # "keeping"
  BY <1>1, NoneAssumption DEF CacheInv, MutexOK, NoneAssumption
<1>5. \A o \in Outs : record'[o] # None =>
          record'[o] = record[o] /\ (Dropping(o) => Dropping(o)')
  <2> SUFFICES ASSUME NEW o \in Outs, record'[o] # None
               PROVE  record'[o] = record[o] /\ (Dropping(o) => Dropping(o)')
    OBVIOUS
  <2>1. PICK O : /\ forget_in_cache(O)
                 /\ InWindow(o) => o \in O
    BY DEF ForgetRemoved, Forget, InWindow
  <2>2. record'[o] = record[o]
    BY <2>1 DEF forget_in_cache
  <2>3. o \in undropped \/ o \in O => o \in undropped'
    BY <2>1, <2>2 DEF forget_in_cache
  <2> QED  BY <2>1, <2>2, <2>3 DEF Dropping
<1>6. RecordsOK'
  BY <1>3, <1>5, RecordsFrame DEF CacheInv
<1>7. \A j \in Attempts : KeepOK(j)' /\ StartOK(j)'
  <2> TAKE j \in Attempts
  <2>1. /\ Keeps(j) /\ Starts(j) /\ KeepOK(j) /\ StartOK(j)
        /\ m_invalidations' = m_invalidations
    BY <1>1 DEF Keeps, Starts, CacheInv, bookVars
  <2> QED  BY <1>3, <1>4, <2>1, KeepFrame, StartFrame
<1> QED  BY <1>1, <1>6, <1>7 DEF CacheInv, MutexOK

(* What Mark makes stale is not kept any more, and what was kept of it is  *)
(* dropped before anything else happens to it.                             *)
LEMMA MarkCache ==
    ASSUME Inv, Inv', CurrencyInv, CacheInv, Mark
    PROVE  CacheInv'
<1>1. PICK seen \in SUBSET Outs :
         /\ watcher.at = "mark" /\ m_stale' = m_stale \cup seen
         /\ att' = Misses(Reading(seen) \ seen)
         /\ content' = content
         /\ \A o \in Outs : Built(o)' <=> Built(o) /\ o \notin seen
         /\ \A o \in Outs : m_invalidations'[o] =
                              m_invalidations[o] + (IF o \in seen THEN 1 ELSE 0)
         /\ HasCache /\ seen # {} => watcher'.at = "forget" /\ watcher'.outputs = seen
  BY MarkFacts
<1>2. UNCHANGED cacheVars
  BY DEF Mark
<1>3. /\ m_invalidations \in [Outs -> Nat]
      /\ \A o \in Outs : o \notin seen => m_invalidations'[o] = m_invalidations[o]
      /\ \A o \in Outs : o \in seen => m_invalidations'[o] = m_invalidations[o] + 1
  BY <1>1 DEF Inv, TypeOK
<1>4. ASSUME HasCache, NEW o \in Outs, NEW b, InWindow(o) \/ Kept(o, b)
      PROVE  InWindow(o)' \/ Kept(o, b)'
  BY <1>1, <1>4 DEF InWindow, Kept
<1>5. RecordsOK'
  <2> SUFFICES ASSUME NEW o \in Outs, record'[o] # None
               PROVE  /\ HasCache /\ {e[1] : e \in record'[o].inputs} = Inputs[o]
                      /\ Dropping(o)' \/ Kept(o, record[o].bytes)'
    BY DEF RecordsOK
  <2>1. PICK b : b = record[o].bytes
    OBVIOUS
  <2>2. /\ HasCache /\ {e[1] : e \in record[o].inputs} = Inputs[o]
        /\ Dropping(o) \/ Kept(o, b)
    BY <1>2, <2>1 DEF CacheInv, RecordsOK, cacheVars
  <2>3. Dropping(o)' \/ Kept(o, b)'
    BY <1>2, <1>4, <2>2 DEF Dropping, cacheVars
  <2>4. record'[o] = record[o] /\ record'[o].bytes = b
    BY <1>2, <2>1 DEF cacheVars
  <2> QED  BY <2>2, <2>3, <2>4
<1>6. \A j \in Attempts :
          /\ att'[j].phase = att[j].phase /\ att'[j].out = att[j].out
          /\ att'[j].invalidations = att[j].invalidations /\ att'[j].keep = att[j].keep
          /\ att[j].keep => att'[j] = att[j]
  BY <1>1, MissedKeeps
<1>7. MutexOK'
  BY <1>2, <1>6 DEF CacheInv, MutexOK, cacheVars
<1>8. ASSUME NEW j \in Attempts, att'[j].keep PROVE KeepOK(j)'
  <2>1. PICK o, b : o = att[j].out /\ b = att[j].bytes
    OBVIOUS
  <2>2. att'[j] = att[j] /\ att[j].keep /\ KeepOK(j)
    BY <1>6, <1>8 DEF CacheInv
  <2>3. /\ HasCache /\ o \in Outs /\ att[j].reads = Inputs[o]
        /\ att[j].phase \in {"published", "settled", "completed", "keeping"}
        /\ att[j].invalidations <= m_invalidations[o] /\ att[j].invalidations \in Nat
        /\ att[j].phase # "keeping" /\ AsStarted(j) => Kept(o, b)
        /\ att[j].phase = "keeping" =>
              /\ InWindow(o) \/ Kept(o, b)
              /\ {e[1] : e \in att[j].stamps} = Inputs[o] \cap Outs
    BY <2>1, <2>2 DEF KeepOK, Inv, TypeOK, AttemptType
  <2>4. m_invalidations[o] \in Nat /\ att[j].invalidations <= m_invalidations'[o]
    BY <1>3, <2>3
  <2>5. AsStarted(j)' => AsStarted(j) /\ o \notin seen
    BY <1>3, <2>1, <2>2, <2>3, <2>4 DEF AsStarted
  <2>6. att[j].phase # "keeping" /\ AsStarted(j)' => Kept(o, b)'
    BY <1>1, <2>3, <2>5 DEF Kept
  <2>7. att[j].phase = "keeping" => InWindow(o)' \/ Kept(o, b)'
    BY <1>4, <2>3
  <2>8. Kept(att[j].out, att[j].bytes)' <=> Kept(o, b)'
    BY <2>1, <2>2 DEF Kept, Built, Declared, Published
  <2>9. InWindow(att[j].out)' <=> InWindow(o)'
    BY <2>1, <2>2 DEF InWindow
  <2> QED  BY <2>1, <2>2, <2>3, <2>4, <2>6, <2>7, <2>8, <2>9 DEF KeepOK
<1>9. ASSUME NEW j \in Attempts, att'[j].phase \in UnderWay PROVE StartOK(j)'
  <2>1. PICK o : o = att[j].out
    OBVIOUS
  <2>2. /\ att'[j].out = o /\ att'[j].invalidations = att[j].invalidations
        /\ att[j].phase \in UnderWay /\ o \in Outs /\ att[j].invalidations \in Nat
    BY <1>6, <1>9, <2>1 DEF Inv, Accounts, BuildsOK, InFlightOK, UnderWay, TypeOK, AttemptType
  <2>3. /\ att[j].invalidations <= m_invalidations[o]
        /\ m_invalidations[o] = att[j].invalidations => o \notin m_stale
    BY <2>1, <2>2 DEF CacheInv, StartOK, AsStarted
  <2>4. /\ att[j].invalidations <= m_invalidations'[o]
        /\ m_invalidations'[o] = att[j].invalidations => o \notin m_stale'
    BY <1>1, <1>3, <2>2, <2>3
  <2> QED  BY <2>2, <2>4 DEF StartOK, AsStarted
<1>10. \A j \in Attempts : KeepOK(j)' /\ StartOK(j)'
  BY <1>8, <1>9 DEF KeepOK, StartOK
<1> QED  BY <1>5, <1>7, <1>10 DEF CacheInv

-----------------------------------------------------------------------------
(* A tree is created over the cache.                                       *)

\* What is restored is built and its bytes are those of its record, unless
\* that was to be dropped; and what it was made from is restored with it.
LEMMA HoldFacts ==
    ASSUME Inv, CurrencyInv, CacheInv, Quiet, NEW H \in SUBSET Outs, Hold(H), NEW o \in H
    PROVE  /\ o \in Outs /\ manifest[o] # 0 /\ record[o] # None
           /\ {e[1] : e \in record[o].inputs} = Inputs[o]
           /\ o \notin undropped => Kept(o, record[o].bytes)
           /\ Inputs[o] \cap Outs \subseteq H
<1>1. /\ record[o] # None /\ manifest[o] # 0
      /\ \A e \in record[o].inputs : e[1] \in Outs => e[1] \in H
  BY DEF Hold
<1>2. ~InWindow(o)
  BY DEF Quiet, Idle, InWindow
<1>3. /\ {e[1] : e \in record[o].inputs} = Inputs[o]
      /\ o \notin undropped => Kept(o, record[o].bytes)
  BY <1>1, <1>2 DEF CacheInv, RecordsOK, Dropping
<1>4. ASSUME NEW p \in Inputs[o] \cap Outs PROVE p \in H
  <2>1. PICK e \in record[o].inputs : e[1] = p
    BY <1>3
  <2> QED  BY <1>1, <2>1
<1> QED  BY <1>1, <1>3, <1>4

LEMMA RestartFacts ==
    ASSUME Inv, Inv', CurrencyInv, CacheInv, Quiet,
           NEW H \in SUBSET Outs, Restart(H)
    PROVE  /\ UNCHANGED <<version, manifest>> /\ m_commands' = m_commands
           /\ applied' = version /\ \A s \in Sources : applied[s] = version[s]
           /\ watcher' = Idle /\ m_cache_mutex' = None
           /\ \A i \in Attempts : att'[i].phase = "free" /\ ~att'[i].keep
           /\ \A o \in Outs : next'[o] = None /\ (Built(o)' <=> o \in H)
           /\ \A o \in H : m_dependencies'[o] = Inputs[o] /\ record'[o] = record[o]
           /\ \A o \in Left(H) : Missed \in content'[o] /\ o \in undropped'
           /\ \A o \in H \ Left(H) :
                 /\ Built(o) /\ content'[o] = content[o] /\ content[o] = record[o].bytes
                 /\ Inputs[o] \cap Outs \subseteq H \ Left(H)
           /\ \A o \in Outs \ H : record'[o] # None =>
                 record'[o] = record[o] /\ o \in undropped'
<1>1. /\ UNCHANGED <<version, manifest>> /\ m_commands' = manifest
      /\ applied' = version /\ watcher' = Idle /\ m_cache_mutex' = None
      /\ att' = [i \in Attempts |-> Free]
      /\ \A o \in Outs : next'[o] = None /\ o \notin m_in_flight'
  BY DEF Restart
<1>2. m_commands' = m_commands
  BY <1>1 DEF CurrencyInv, RulesOK
<1>3. \A i \in Attempts : att'[i].phase = "free" /\ ~att'[i].keep
  BY <1>1 DEF Free
<1>4. \A s \in Sources : applied[s] = version[s]
  BY DEF Quiet, CurrencyInv, ComingOK, Collecting, Marking, Idle
<1>5. /\ m_stale' = {o \in Outs : manifest[o] # 0} \ H
      /\ \A o \in H : /\ content'[o] = Served(o, H)
                      /\ m_dependencies'[o] = {e[1] : e \in record[o].inputs}
  <2>1. /\ m_stale' = {o \in Outs : manifest[o] # 0} \ H
        /\ m_dependencies' = [o \in Outs |->
               IF o \in H THEN {e[1] : e \in record[o].inputs} ELSE {}]
        /\ content' = [o \in Outs |-> IF o \in H THEN Served(o, H) ELSE {}]
    BY DEF Restart
  <2> QED  BY <2>1
<1>6. \/ /\ record' = [o \in Outs |-> IF o \in H THEN record[o] ELSE None]
         /\ undropped' = Left(H)
      \/ /\ record' = record
         /\ undropped' = Left(H) \cup {o \in Outs \ H : record[o] # None}
  BY DEF Restart
<1>7. /\ \A o \in H : record'[o] = record[o]
      /\ Left(H) \subseteq undropped'
      /\ \A o \in Outs \ H : record'[o] # None => record'[o] = record[o] /\ o \in undropped'
  BY <1>6
<1>8. \A o \in H : /\ o \in Outs /\ manifest[o] # 0
                   /\ {e[1] : e \in record[o].inputs} = Inputs[o]
                   /\ o \notin undropped => Built(o) /\ content[o] = record[o].bytes
                   /\ Inputs[o] \cap Outs \subseteq H
  <2> Hold(H)
    BY DEF Restart
  <2> QED  BY HoldFacts DEF Kept
<1>9. \A o \in Outs : Built(o)' <=> o \in H
  <2> TAKE o \in Outs
  <2>1. Declared(o)' <=> manifest[o] # 0
    BY <1>1 DEF Declared
  <2> QED  BY <1>1, <1>5, <1>8, <2>1 DEF Built
<1>10. \A o \in Left(H) : o \in H /\ Missed \in content'[o]
  BY <1>5 DEF Left, Served
<1>11. ASSUME NEW o \in H \ Left(H)
       PROVE  /\ Built(o) /\ content'[o] = content[o] /\ content[o] = record[o].bytes
              /\ Inputs[o] \cap Outs \subseteq H \ Left(H)
  <2>1. Reach(o) \cap undropped = {}
    BY DEF Left
  <2>2. o \notin undropped /\ \A p \in Inputs[o] \cap Outs : Reach(p) \cap undropped = {}
    BY <2>1, ReachFacts
  <2>3. content'[o] = record[o].bytes
    BY <1>5 DEF Served
  <2> QED  BY <1>8, <2>2, <2>3 DEF Left
<1>12. \A o \in H : m_dependencies'[o] = Inputs[o]
  BY <1>5, <1>8
<1> QED  BY <1>1, <1>2, <1>3, <1>4, <1>7, <1>9, <1>10, <1>11, <1>12

\* What is served from the cache is as it was when it was built, or marked.
LEMMA RestartCurrency ==
    ASSUME Inv, Inv', CurrencyInv, CacheInv, Quiet,
           NEW H \in SUBSET Outs, Restart(H)
    PROVE  CurrencyInv'
<1>1. /\ UNCHANGED <<version, manifest>> /\ m_commands' = m_commands
      /\ applied' = version /\ \A s \in Sources : applied[s] = version[s]
      /\ watcher' = Idle
      /\ \A i \in Attempts : att'[i].phase = "free" /\ ~att'[i].keep
      /\ \A o \in Outs : next'[o] = None /\ (Built(o)' <=> o \in H)
      /\ \A o \in H : m_dependencies'[o] = Inputs[o]
      /\ \A o \in Left(H) : Missed \in content'[o]
      /\ \A o \in H \ Left(H) : /\ Built(o) /\ content'[o] = content[o]
                                /\ Inputs[o] \cap Outs \subseteq H \ Left(H)
  BY RestartFacts
<1>2. \A i \in Attempts : BuildOK(i)'
  BY <1>1 DEF BuildOK, Reads
<1>3. RulesOK'
  <2>1. files' = {o \in Outs : Declared(o)'}
    BY <1>1 DEF Restart, Declared
  <2> QED  BY <1>1, <2>1 DEF CurrencyInv, RulesOK
<1>4. ~Marking' /\ IdleOK'
  BY <1>1 DEF Marking, IdleOK, Idle
<1>5. \A s \in Sources : version[s] \in Nat
  BY BoundsAssumption DEF Inv, TypeOK, BoundsAssumption
<1>6. VersionsOK' /\ MarkOK' /\ ComingOK'
  BY <1>1, <1>4, <1>5 DEF VersionsOK, MarkOK, ComingOK
<1>7. BuiltOK'
  <2> SUFFICES ASSUME NEW o \in Outs, Built(o)'
               PROVE  /\ m_dependencies'[o] = Inputs[o]
                      /\ Missed \notin content'[o] => Good(o, content[o])'
    BY DEF BuiltOK
  <2>1. o \in H /\ m_dependencies'[o] = Inputs[o]
    BY <1>1
  <2> SUFFICES ASSUME Missed \notin content'[o] PROVE Good(o, content[o])'
    BY <2>1
  <2>2. /\ Built(o) /\ content'[o] = content[o]
        /\ Inputs[o] \cap Outs \subseteq H \ Left(H)
    BY <1>1, <2>1
  <2>3. PICK b : b = content[o]
    OBVIOUS
  <2>4. Good(o, b)
    BY <2>2, <2>3 DEF CurrencyInv, BuiltOK
  <2>5. \A p \in Inputs[o] \cap Outs : Built(p)' /\ content'[p] \subseteq b
    BY <1>1, <2>2, <2>4 DEF Good
  <2>6. Fresh(b)'
    BY <1>1, <2>4 DEF Good, Fresh
  <2>7. Good(o, b)'
    BY <1>1, <2>4, <2>5, <2>6 DEF Good
  <2> QED  BY <2>2, <2>3, <2>7
<1> QED  BY <1>2, <1>3, <1>4, <1>6, <1>7 DEF CurrencyInv

LEMMA RestartCache ==
    ASSUME Inv, Inv', CurrencyInv, CacheInv, Quiet,
           NEW H \in SUBSET Outs, Restart(H)
    PROVE  CacheInv'
<1>1. /\ \A i \in Attempts : att'[i].phase = "free" /\ ~att'[i].keep
      /\ \A o \in Outs : Built(o)' <=> o \in H
      /\ \A o \in H : record'[o] = record[o]
      /\ \A o \in Left(H) : o \in undropped'
      /\ \A o \in H \ Left(H) : content'[o] = content[o] /\ content[o] = record[o].bytes
      /\ \A o \in Outs \ H : record'[o] # None =>
            record'[o] = record[o] /\ o \in undropped'
  BY RestartFacts
<1>2. MutexOK' /\ \A i \in Attempts : KeepOK(i)' /\ StartOK(i)'
  BY <1>1 DEF MutexOK, KeepOK, StartOK, UnderWay
<1>3. RecordsOK'
  <2> SUFFICES ASSUME NEW o \in Outs, record'[o] # None
               PROVE  /\ HasCache /\ {e[1] : e \in record'[o].inputs} = Inputs[o]
                      /\ Dropping(o)' \/ Kept(o, record[o].bytes)'
    BY DEF RecordsOK
  <2>1. record'[o] = record[o]
    BY <1>1
  <2>2. HasCache /\ {e[1] : e \in record[o].inputs} = Inputs[o]
    BY <2>1 DEF CacheInv, RecordsOK
  <2>3. {e[1] : e \in record'[o].inputs} = Inputs[o]
    BY <2>1, <2>2
  <2>4. CASE o \in H \ Left(H)
    <3>1. Built(o)' /\ content'[o] = record'[o].bytes
      BY <1>1, <2>1, <2>4
    <3> QED  BY <2>2, <2>3, <3>1 DEF Kept
  <2>5. CASE o \notin H \ Left(H)
    <3>1. o \in undropped'
      BY <1>1, <2>5
    <3> QED  BY <2>2, <2>3, <3>1 DEF Dropping
  <2> QED  BY <2>4, <2>5
<1> QED  BY <1>2, <1>3 DEF CacheInv

\* Once no change is on its way, a record is that of an output built from
\* everything as it is.
LEMMA RecordsWhenQuiet ==
    ASSUME Inv, CurrencyInv, CacheInv
    PROVE  RecordsHold
<1> SUFFICES ASSUME Quiet, NEW H \in SUBSET Outs, Hold(H), NEW o \in H,
                    o \notin undropped, Unmarked(record[o].bytes)
             PROVE  record[o].bytes = Expected(o)
  BY DEF RecordsHold, Holding
<1>1. o \in Outs /\ Built(o) /\ content[o] = record[o].bytes
  BY HoldFacts DEF Kept
<1> QED  BY <1>1, BuiltIsExact DEF Inv

-----------------------------------------------------------------------------
(* What an open gets.                                                      *)

\* b has each source that o is made from.
Has(o, b) == \A s \in Reach(o) \cap Sources : \E e \in b : e[1] = s
\* b has no source older than f says.
AtLeast(b, f) == \A e \in b, s \in Sources : e[1] = s => e[2] >= f[s]

\* What a build has read is no older than f, or it missed a change.
ReadSince(i, f) ==
    LET b == att[i].bytes
    IN  Missed \notin b =>
          /\ AtLeast(b, f)
          /\ \A s \in att[i].reads \cap Sources : \E e \in b : e[1] = s
          /\ \A p \in Done(i) \cap Outs : Has(p, b)

(* What an open of p waits for, t, will leave p with bytes no older than   *)
(* when C and D were true.                                                 *)
WaitSince(t, p, C, D) ==
    /\ t = None => p \in C \/ ~Declared(p)
    /\ t # None =>
          /\ t \notin D
          /\ att[t].phase \in {"published", "settled"} /\ att[t].ok => p \in C

(* Of an open made when f was what had been applied: D are the builds that *)
(* were under way then of outputs out of date, which may make anything; C  *)
(* the outputs that were built then or have been since by other builds.    *)
SinceOK(f, C, D) ==
    /\ \A s \in Sources : f[s] <= applied[s]
    /\ \A i \in D : att[i].phase \in UnderWay /\ att[i].out \in m_stale
    /\ \A p \in C : /\ Missed \notin content[p] => AtLeast(content[p], f) /\ Has(p, content[p])
                    /\ \A i \in D : att[i].out # p
    /\ \A p \in Outs : Built(p) => p \in C
    /\ \A i \in Attempts \ D : Reads(i) => ReadSince(i, f)
    /\ \A i \in Attempts \ D : att[i].phase = "opening" /\ Missed \notin att[i].bytes =>
          WaitSince(att[i].target, att[i].input, C, D)

ReaderOK(r) ==
    /\ reader[r].state \in {"waiting", "reading"} =>
          \E C \in SUBSET Outs, D \in SUBSET Attempts :
              /\ SinceOK(reader[r].since, C, D)
              /\ WaitSince(reader[r].target, reader[r].out, C, D)
    /\ reader[r].state = "reading" => reader[r].target = None
    /\ reader[r].state = "read" /\ Missed \notin reader[r].bytes =>
          Reflects(reader[r].bytes, reader[r].out, reader[r].since)

\* Every state has such an open: one that is made now.
BuiltNow == {p \in Outs : Built(p)}
StaleBuilds == {i \in Attempts : att[i].phase \in UnderWay /\ att[i].out \in m_stale}

LEMMA BuiltHas ==
    ASSUME TypeOK, BuiltOK, NEW p \in Outs, Built(p), NEW b, content[p] \subseteq b,
           Missed \notin b
    PROVE  Has(p, b)
BY AllPresent DEF Has

LEMMA StartSince ==
    ASSUME Inv, CurrencyInv
    PROVE  SinceOK(applied, BuiltNow, StaleBuilds)
<1> DEFINE C == BuiltNow
           D == StaleBuilds
<1>1. \A s \in Sources : applied[s] <= applied[s]
  BY DEF Inv, TypeOK
<1>2. ASSUME NEW p \in C
      PROVE  /\ Missed \notin content[p] =>
                   AtLeast(content[p], applied) /\ Has(p, content[p])
             /\ \A i \in D : att[i].out # p
  <2>1. p \in Outs /\ Built(p)
    BY DEF BuiltNow
  <2>2. Missed \notin content[p] => AtLeast(content[p], applied)
    BY <2>1 DEF CurrencyInv, BuiltOK, Good, Fresh, AtLeast
  <2>3. Missed \notin content[p] => Has(p, content[p])
    BY <2>1, BuiltHas DEF Inv, CurrencyInv
  <2> QED  BY <2>1, <2>2, <2>3 DEF Built, StaleBuilds
<1>3. ASSUME NEW i \in Attempts \ D, Reads(i), Missed \notin att[i].bytes
      PROVE  ~Told(i) /\ BuildOK(i)
  BY <1>3 DEF StaleBuilds, Reads, UnderWay, Told, CurrencyInv
<1>4. ASSUME NEW i \in Attempts \ D, Reads(i)
      PROVE  ReadSince(i, applied)
  <2> SUFFICES ASSUME Missed \notin att[i].bytes
               PROVE  /\ AtLeast(att[i].bytes, applied)
                      /\ \A s \in att[i].reads \cap Sources : \E e \in att[i].bytes : e[1] = s
                      /\ \A p \in Done(i) \cap Outs : Has(p, att[i].bytes)
    BY DEF ReadSince
  <2>1. ReadOK(i)
    BY <1>3, <1>4 DEF BuildOK
  <2>2. \A p \in Done(i) \cap Outs : Has(p, att[i].bytes)
    BY <2>1, BuiltHas DEF Inv, CurrencyInv, ReadOK
  <2> QED  BY <2>1, <2>2 DEF ReadOK, Fresh, AtLeast
<1>5. ASSUME NEW i \in Attempts \ D, att[i].phase = "opening", Missed \notin att[i].bytes
      PROVE  WaitSince(att[i].target, att[i].input, C, D)
  <2>1. PICK t, p : t = att[i].target /\ p = att[i].input
    OBVIOUS
  <2>2. WaitOK(t, p)
    BY <1>3, <1>5, <2>1 DEF BuildOK, Reads
  <2>3. p \in Outs /\ (t # None => IsComing(att, t, p))
    BY <1>5, <2>1 DEF Inv, Accounts, BuildsOK, WaitersOK
  <2>4. CASE t = None
    BY <2>1, <2>2, <2>3, <2>4 DEF WaitOK, WaitSince, BuiltNow
  <2>5. CASE t # None
    <3>1. t \in Attempts /\ att[t].out = p /\ BuildOK(t)
      BY <2>3, <2>5 DEF IsComing, CurrencyInv
    <3>2. t \notin D
      BY <2>2, <2>5, <3>1 DEF WaitOK, StaleBuilds
    <3>3. att[t].phase = "published" => Built(p)
      BY <2>2, <2>5, <3>1 DEF WaitOK, UnderWay, BuildOK, Built, Published
    <3>4. att[t].phase = "settled" /\ att[t].ok => Built(p)
      BY <2>2, <2>5 DEF WaitOK
    <3> QED  BY <2>1, <2>3, <2>5, <3>2, <3>3, <3>4 DEF WaitSince, BuiltNow
  <2> QED  BY <2>1, <2>4, <2>5
<1>6. /\ \A i \in D : att[i].phase \in UnderWay /\ att[i].out \in m_stale
      /\ \A p \in Outs : Built(p) => p \in C
  BY DEF BuiltNow, StaleBuilds
<1> HIDE DEF C, D
<1>7. SinceOK(applied, C, D)
  BY <1>1, <1>2, <1>4, <1>5, <1>6 DEF SinceOK
<1> QED  BY <1>7 DEF C, D

-----------------------------------------------------------------------------
(* Steps that publish nothing: what was built is what it was, or less.     *)

\* What is left of D.
Surviving(D, E) == E = {i \in D : att'[i].phase \in UnderWay}

\* i reads no more than it did, or it missed a change.
LeftAlone(i) == att'[i] = att[i] \/ ~Reads(i)' \/ Missed \in att'[i].bytes

\* Who waits for p on t gets it, after the step, from C and E.
Waits(t, p, C, D, E) ==
    (t # None => IsComing(att, t, p)) /\ WaitSince(t, p, C, D) => WaitSince(t, p, C, E)'

Quiets ==
    /\ content' = content /\ m_commands' = m_commands
    /\ \A s \in Sources : applied[s] <= applied'[s]
    /\ \A p \in Outs : Built(p)' => Built(p)
    /\ \A i \in Attempts : att[i].phase \in UnderWay /\ att'[i].phase \in UnderWay =>
          att'[i].out = att[i].out /\ (att[i].out \in m_stale => att[i].out \in m_stale')
    /\ \A t \in Attempts : att'[t].phase \in {"published", "settled"} /\ att'[t].ok =>
          att[t].phase \in {"published", "settled"} /\ att[t].ok

LEMMA QuietWaits ==
    ASSUME Quiets, NEW f, NEW C, NEW D, NEW E, SinceOK(f, C, D), Surviving(D, E)
    PROVE  \A t : \A p \in Outs : Waits(t, p, C, D, E)
<1> SUFFICES ASSUME NEW t, NEW p \in Outs, t # None => IsComing(att, t, p),
                    WaitSince(t, p, C, D)
             PROVE  WaitSince(t, p, C, E)'
  BY DEF Waits
<1>1. Declared(p)' <=> Declared(p)
  BY DEF Quiets, Declared
<1>2. t # None => t \in Attempts
  BY DEF IsComing
<1> QED  BY <1>1, <1>2 DEF Quiets, Surviving, WaitSince

\* What a build that goes on has read, and what it waits for.
GoesOn(i, f, C, E) ==
    /\ Reads(i)' => ReadSince(i, f)'
    /\ att'[i].phase = "opening" /\ Missed \notin att'[i].bytes =>
          WaitSince(att[i].target, att[i].input, C, E)'

LEMMA LeftGoesOn ==
    ASSUME Accounts, Quiets, NEW f, NEW C, NEW D, NEW E, SinceOK(f, C, D), Surviving(D, E),
           NEW i \in Attempts \ D, LeftAlone(i)
    PROVE  GoesOn(i, f, C, E)
<1>1. CASE att'[i] = att[i]
  <2>1. ASSUME Reads(i)' PROVE ReadSince(i, f)'
    <3>1. ReadSince(i, f)
      BY <1>1, <2>1 DEF SinceOK, Reads
    <3>2. Done(i)' = Done(i)
      BY <1>1 DEF Done
    <3> QED  BY <1>1, <3>1, <3>2 DEF ReadSince
  <2>2. ASSUME att'[i].phase = "opening", Missed \notin att'[i].bytes
        PROVE  WaitSince(att[i].target, att[i].input, C, E)'
    <3>1. PICK t, p : t = att[i].target /\ p = att[i].input
      OBVIOUS
    <3>2. /\ p \in Outs /\ (t # None => IsComing(att, t, p))
          /\ WaitSince(t, p, C, D)
      BY <1>1, <2>2, <3>1 DEF SinceOK, Accounts, BuildsOK, WaitersOK
    <3>3. WaitSince(t, p, C, E)'
      BY <3>2, QuietWaits DEF Waits
    <3>4. att'[i].target = t /\ att'[i].input = p
      BY <1>1, <3>1
    <3> QED  BY <3>3, <3>4
  <2> QED  BY <2>1, <2>2 DEF GoesOn
<1>2. CASE ~Reads(i)'
  BY <1>2 DEF GoesOn, Reads
<1>3. CASE Missed \in att'[i].bytes
  BY <1>3 DEF GoesOn, ReadSince
<1> QED  BY <1>1, <1>2, <1>3 DEF LeftAlone

LEMMA QuietSince ==
    ASSUME TypeOK, TypeOK', Accounts, Quiets, NEW f \in [Sources -> Nat], NEW C \in SUBSET Outs,
           NEW D \in SUBSET Attempts, NEW E, SinceOK(f, C, D), Surviving(D, E),
           \A i \in Attempts \ D : LeftAlone(i) \/ GoesOn(i, f, C, E)
    PROVE  SinceOK(f, C, E)'
<1>1. \A i \in Attempts \ D : GoesOn(i, f, C, E)
  BY LeftGoesOn
<1>2. \A i \in Attempts \ E : GoesOn(i, f, C, E)
  <2> SUFFICES ASSUME NEW i \in D, i \notin E, i \in Attempts PROVE GoesOn(i, f, C, E)
    BY <1>1
  <2>1. ~Reads(i)'
    BY DEF Surviving, Reads, UnderWay
  <2> QED  BY <2>1 DEF GoesOn, Reads
<1>3. \A s \in Sources : f[s] <= applied'[s]
  BY DEF SinceOK, Quiets, TypeOK
<1>4. \A i \in E : att'[i].phase \in UnderWay /\ att'[i].out \in m_stale'
                     /\ att'[i].out = att[i].out /\ i \in D
  BY DEF Surviving, SinceOK, Quiets
<1> QED  BY <1>2, <1>3, <1>4 DEF SinceOK, Quiets, GoesOn

\* An open goes on as it was if the step carries what it knew.
CarriedOn(f, C, D, C2, E) ==
    SinceOK(f, C2, E)' /\ \A t : \A p \in Outs :
        (t # None => IsComing(att, t, p)) /\ WaitSince(t, p, C, D) => WaitSince(t, p, C2, E)'

Carries ==
    \A f \in [Sources -> Nat], C \in SUBSET Outs, D \in SUBSET Attempts :
        SinceOK(f, C, D) =>
            \E C2 \in SUBSET Outs, E \in SUBSET Attempts : CarriedOn(f, C, D, C2, E)

\* The usual case: every build but those of D is left alone or goes on.
LEMMA QuietCarries ==
    ASSUME Inv, Inv', Quiets,
           \A f \in [Sources -> Nat], C \in SUBSET Outs, D, E \in SUBSET Attempts :
               SinceOK(f, C, D) /\ Surviving(D, E) =>
                   \A i \in Attempts \ D : LeftAlone(i) \/ GoesOn(i, f, C, E)
    PROVE  Carries
<1> SUFFICES ASSUME NEW f \in [Sources -> Nat], NEW C \in SUBSET Outs,
                    NEW D \in SUBSET Attempts, SinceOK(f, C, D)
             PROVE  \E C2 \in SUBSET Outs, E \in SUBSET Attempts : CarriedOn(f, C, D, C2, E)
  BY DEF Carries
<1>1. PICK E \in SUBSET Attempts : Surviving(D, E)
  BY DEF Surviving
<1>2. SinceOK(f, C, E)'
  BY <1>1, QuietSince DEF Inv
<1>3. \A t : \A p \in Outs : Waits(t, p, C, D, E)
  BY <1>1, QuietWaits
<1> QED  BY <1>2, <1>3 DEF CarriedOn, Waits

-----------------------------------------------------------------------------
(* Steps that leave every build alone.                                     *)

LEMMA AloneCarries ==
    ASSUME Inv, Inv', Quiets, \A i \in Attempts : LeftAlone(i)
    PROVE  Carries
BY QuietCarries

\* The books stay, and the builds do, or miss something.
LEMMA FrameQuiets ==
    ASSUME Inv, Inv', Frame, content' = content, m_commands' = m_commands
    PROVE  /\ content' = content /\ m_commands' = m_commands
           /\ \A s \in Sources : applied[s] <= applied'[s]
           /\ \A p \in Outs : Built(p)' => Built(p)
BY DEF Frame, Grows, Inv, TypeOK

LEMMA SameBuildsQuiet ==
    ASSUME Inv, Inv', Frame, content' = content, m_commands' = m_commands,
           m_stale' = m_stale,
           \A i \in Attempts : /\ att'[i].phase = att[i].phase /\ att'[i].out = att[i].out
                               /\ att'[i].ok = att[i].ok
    PROVE  Quiets
BY FrameQuiets DEF Quiets

LEMMA RestCarries ==
    ASSUME Inv, Inv', CurrencyInv,
           \/ \E s \in Sources : Change(s)
           \/ Overflow \/ materialize_all \/ (\E r \in Readers : ReadOpened(r))
           \/ ForgetRemoved \/ Forget \/ UNCHANGED vars
    PROVE  Carries
<1>1. UNCHANGED <<att, m_stale, m_in_flight, m_commands, content, m_dependencies, applied>>
  BY DEF Change, Overflow, materialize_all, ReadOpened, ForgetRemoved, Forget, bookVars,
         fileVars, threadVars, vars
<1>2. \A s \in Sources : version[s] <= version'[s]
  <2>1. \A s \in Sources : version[s] \in Nat
    BY BoundsAssumption DEF Inv, TypeOK, BoundsAssumption
  <2>2. CASE \E s \in Sources : Change(s)
    BY <2>1, <2>2 DEF Change, Inv, TypeOK
  <2>3. CASE UNCHANGED version
    BY <2>1, <2>3
  <2> QED  BY <2>2, <2>3 DEF Overflow, materialize_all, ReadOpened, ForgetRemoved, Forget,
                             sourceVars, vars
<1>3. Frame
  BY <1>1, <1>2, SameBooks DEF Inv
<1>4. Quiets
  BY <1>1, <1>3, SameBuildsQuiet
<1> QED  BY <1>1, <1>4, AloneCarries DEF LeftAlone

LEMMA ApplyRulesCarries ==
    ASSUME Inv, Inv', CurrencyInv, NEW d \in {Manifest, Everything}, apply_rules(d)
    PROVE  Carries
<1>1. /\ UNCHANGED <<m_commands, m_stale, m_in_flight, m_dependencies, content, att, applied>>
      /\ \A s \in Sources : version[s] <= version'[s]
  BY RulesStay DEF fileVars
<1>2. Frame
  BY <1>1, SameBooks DEF Inv
<1>3. Quiets
  BY <1>1, <1>2, SameBuildsQuiet
<1> QED  BY <1>1, <1>3, AloneCarries DEF LeftAlone

LEMMA MissesAlone ==
    ASSUME TypeOK, NEW O, att' = Misses(O), NEW i \in Attempts
    PROVE  /\ LeftAlone(i) /\ att'[i].phase = att[i].phase /\ att'[i].out = att[i].out
           /\ att'[i].ok = att[i].ok
BY MissesCases DEF LeftAlone

LEMMA CollectCarries ==
    ASSUME Inv, Inv', CurrencyInv,
           FindReaders \/ \E d \in Sources \cup {Manifest, Everything} : Collect(d)
    PROVE  Carries
<1>1. PICK O : att' = Misses(O)
  BY DEF FindReaders, Collect
<1>2. UNCHANGED watcherStep
  BY DEF FindReaders, Collect, watcherStep
<1>3. Frame
  BY <1>1, <1>2, MissesCurrency
<1>4. \A i \in Attempts :
          /\ LeftAlone(i) /\ att'[i].phase = att[i].phase /\ att'[i].out = att[i].out
          /\ att'[i].ok = att[i].ok
  BY <1>1, MissesAlone DEF Inv
<1>5. Quiets
  BY <1>2, <1>3, <1>4, SameBuildsQuiet DEF watcherStep, bookVars, fileVars
<1> QED  BY <1>4, <1>5, AloneCarries

LEMMA MarkCarries ==
    ASSUME Inv, Inv', CurrencyInv, Mark
    PROVE  Carries
<1>1. PICK seen \in SUBSET Outs :
          /\ watcher.at = "mark" /\ m_stale' = m_stale \cup seen
          /\ att' = Misses(Reading(seen) \ seen)
          /\ content' = content /\ m_commands' = m_commands
          /\ \A s \in Sources :
                applied'[s] = IF watcher.then = "idle" /\ watcher.diff \in {s, Everything}
                              THEN watcher.upto[s] ELSE applied[s]
          /\ \A o \in Outs : Built(o)' <=> Built(o) /\ o \notin seen
  BY MarkFacts
<1>2. \A i \in Attempts :
          /\ LeftAlone(i) /\ att'[i].phase = att[i].phase /\ att'[i].out = att[i].out
          /\ att'[i].ok = att[i].ok
  BY <1>1, MissesAlone DEF Inv
<1>3. \A s \in Sources : applied[s] <= applied'[s]
  <2>1. VersionsOK /\ \A s \in Sources : applied[s] <= applied[s]
    BY DEF CurrencyInv, VersionsOK, Inv, TypeOK
  <2> QED  BY <1>1, <2>1 DEF VersionsOK, Marking
<1>4. Quiets
  BY <1>1, <1>2, <1>3 DEF Quiets
<1> QED  BY <1>2, <1>4, AloneCarries

-----------------------------------------------------------------------------
(* Builds go on, and settle.                                               *)

\* One build changes, which was not published and does not become so.
LEMMA OneQuiet ==
    ASSUME Inv, Inv', CurrencyInv, UNCHANGED buildStep, NEW i \in Attempts,
           NEW c, att' = [att EXCEPT ![i] = c],
           att[i].phase # "published", c.phase \notin {"published", "settled"},
           c.phase \in UnderWay => c.out = att[i].out
    PROVE  Quiets /\ att'[i] = c /\ \A j \in Attempts \ {i} : att'[j] = att[j]
<1>1. att'[i] = c /\ \A j \in Attempts \ {i} : att'[j] = att[j]
  BY DEF Inv, TypeOK
<1>2. \A j \in Attempts : /\ att'[j].phase = "published" <=> att[j].phase = "published"
                          /\ att[j].phase = "published" => att'[j].out = att[j].out
  BY <1>1
<1>3. Frame
  BY <1>2, BooksStay
<1>4. UNCHANGED <<content, m_commands, m_stale>>
  BY DEF buildStep, bookVars, fileVars
<1>5. /\ \A s \in Sources : applied[s] <= applied'[s]
      /\ \A p \in Outs : Built(p)' => Built(p)
  BY <1>3, <1>4, FrameQuiets
<1>6. \A j \in Attempts : att[j].phase \in UnderWay /\ att'[j].phase \in UnderWay =>
          att'[j].out = att[j].out /\ (att[j].out \in m_stale => att[j].out \in m_stale')
  BY <1>1, <1>4
<1>7. \A j \in Attempts : att'[j].phase \in {"published", "settled"} /\ att'[j].ok =>
          att[j].phase \in {"published", "settled"} /\ att[j].ok
  BY <1>1
<1> QED  BY <1>1, <1>4, <1>5, <1>6, <1>7 DEF Quiets

LEMMA EndsCarries ==
    ASSUME Inv, Inv', CurrencyInv, NEW i \in Attempts, Fail(i) \/ KeepCheck(i) \/ KeepStore(i)
    PROVE  Carries
<1>1. att[i] \in AttemptType /\ att[i].phase \in {"running", "completed", "keeping"}
  BY DEF Inv, TypeOK, Fail, Running, KeepCheck, KeepStore
<1>2. PICK c : /\ att' = [att EXCEPT ![i] = c]
               /\ c.phase \in {"failed", "keeping", "free"}
               /\ c.phase = "failed" => c.out = att[i].out
  <2>1. CASE Fail(i)
    <3> DEFINE c == [att[i] EXCEPT !.phase = "failed"]
    <3>1. c.phase = "failed" /\ c.out = att[i].out
      BY <1>1 DEF AttemptType
    <3>2. att' = [att EXCEPT ![i] = c]
      BY <2>1 DEF Inv, TypeOK, Fail
    <3> QED  BY <3>1, <3>2
  <2>2. CASE KeepCheck(i)
    <3>1. PICK k, st : att' = [att EXCEPT ![i].phase = "keeping", ![i].keep = k,
                                          ![i].stamps = st]
      BY <2>2 DEF KeepCheck
    <3> DEFINE c == [att[i] EXCEPT !.phase = "keeping", !.keep = k, !.stamps = st]
    <3>2. att' = [att EXCEPT ![i] = c]
      BY <3>1 DEF Inv, TypeOK
    <3>3. c.phase = "keeping"
      BY <1>1 DEF AttemptType
    <3> QED  BY <3>2, <3>3
  <2>3. CASE KeepStore(i)
    <3>1. att' = [att EXCEPT ![i] = Free] /\ Free.phase = "free"
      BY <2>3 DEF KeepStore, Free
    <3> QED  BY <3>1
  <2> QED  BY <2>1, <2>2, <2>3
<1>3. UNCHANGED buildStep
  BY DEF Fail, KeepCheck, KeepStore, buildOnly, buildStep
<1>4. Quiets /\ att'[i] = c /\ \A j \in Attempts \ {i} : att'[j] = att[j]
  BY <1>1, <1>2, <1>3, OneQuiet DEF UnderWay
<1>5. \A j \in Attempts : LeftAlone(j)
  <2> TAKE j \in Attempts
  <2>1. CASE j = i
    BY <1>2, <1>4, <2>1 DEF LeftAlone, Reads
  <2>2. CASE j # i
    BY <1>4, <2>2 DEF LeftAlone
  <2> QED  BY <2>1, <2>2
<1> QED  BY <1>4, <1>5, AloneCarries

LEMMA ReadSourceCarries ==
    ASSUME Inv, Inv', CurrencyInv, NEW i \in Attempts, NEW s \in Sources, ReadSource(i, s)
    PROVE  Carries
<1> DEFINE e == <<s, version[s]>>
           c == [att[i] EXCEPT !.reads = @ \cup {s}, !.seen = @ \cup {s},
                               !.bytes = @ \cup {e}]
<1>1. att[i] \in AttemptType /\ att[i].phase = "running"
  BY DEF Inv, TypeOK, ReadSource, Running
<1>2. /\ c.phase = "running" /\ c.out = att[i].out /\ c.reads = att[i].reads \cup {s}
      /\ c.seen = att[i].seen \cup {s} /\ c.bytes = att[i].bytes \cup {e}
  BY <1>1 DEF AttemptType
<1>3. att' = [att EXCEPT ![i] = c] /\ UNCHANGED buildStep
  BY DEF Inv, TypeOK, ReadSource, buildOnly, buildStep
<1>4. /\ e[1] = s /\ e[2] = version[s] /\ version[s] \in Nat /\ applied[s] \in Nat
      /\ applied[s] <= version[s]
  BY BoundsAssumption DEF Inv, TypeOK, BoundsAssumption, CurrencyInv, VersionsOK
<1> HIDE DEF c, e
<1>5. Quiets /\ att'[i] = c /\ \A j \in Attempts \ {i} : att'[j] = att[j]
  BY <1>1, <1>2, <1>3, OneQuiet DEF UnderWay
<1>6. Done(i)' = Done(i) \cup {s} /\ s \notin Outs
  BY <1>2, <1>5, NamesAssumption DEF Done, NamesAssumption
<1>7. ASSUME NEW f \in [Sources -> Nat], NEW C \in SUBSET Outs, NEW D \in SUBSET Attempts,
             NEW E \in SUBSET Attempts, SinceOK(f, C, D), i \notin D
      PROVE  GoesOn(i, f, C, E)
  <2> SUFFICES ASSUME Missed \notin att'[i].bytes
               PROVE  /\ AtLeast(att[i].bytes, f)'
                      /\ \A x \in att'[i].reads \cap Sources : \E d \in att'[i].bytes : d[1] = x
                      /\ \A p \in Done(i)' \cap Outs : Has(p, att[i].bytes)'
    BY <1>2, <1>5 DEF GoesOn, ReadSince
  <2>1. ReadSince(i, f) /\ Missed \notin att[i].bytes
    BY <1>1, <1>2, <1>5, <1>7 DEF SinceOK, Reads
  <2>2. f[s] \in Nat /\ f[s] <= applied[s]
    BY <1>7 DEF SinceOK
  <2>3. e[2] >= f[s]
    BY <1>4, <2>2
  <2>4. AtLeast(att[i].bytes, f)'
    BY <1>2, <1>4, <1>5, <2>1, <2>3 DEF ReadSince, AtLeast
  <2>5. \A x \in att'[i].reads \cap Sources : \E d \in att'[i].bytes : d[1] = x
    BY <1>2, <1>4, <1>5, <2>1 DEF ReadSince
  <2>6. \A p \in Done(i)' \cap Outs : Has(p, att[i].bytes)'
    BY <1>2, <1>5, <1>6, <2>1 DEF ReadSince, Has
  <2> QED  BY <2>4, <2>5, <2>6
<1> QED  BY <1>5, <1>7, QuietCarries DEF LeftAlone

\* What a build opens is not read yet.
LEMMA RecordReadCarries ==
    ASSUME Inv, Inv', CurrencyInv, NEW i \in Attempts, NEW o \in Outs, RecordRead(i, o)
    PROVE  Carries
<1> DEFINE x == att[i].reads \cup {p \in {o} : Declared(p) \/ Copying(i)}
           c == [att[i] EXCEPT !.phase = "asked", !.input = o, !.reads = x]
<1>1. att[i] \in AttemptType /\ att[i].phase = "running" /\ o \notin Sources
  BY NamesAssumption DEF Inv, TypeOK, RecordRead, Running, NamesAssumption
<1>2. x \cap Sources = att[i].reads \cap Sources
  BY <1>1
<1>3. att' = [att EXCEPT ![i] = c] /\ UNCHANGED buildStep
  BY DEF Inv, TypeOK, RecordRead, buildOnly, buildStep
<1> HIDE DEF x
<1>4. /\ c.phase = "asked" /\ c.out = att[i].out /\ c.reads = x
      /\ c.seen = att[i].seen /\ c.bytes = att[i].bytes
  BY <1>1 DEF AttemptType
<1> HIDE DEF c
<1>5. Quiets /\ att'[i] = c /\ \A j \in Attempts \ {i} : att'[j] = att[j]
  BY <1>1, <1>3, <1>4, OneQuiet DEF UnderWay
<1>6. Done(i)' = Done(i)
  BY <1>4, <1>5 DEF Done
<1>7. ASSUME NEW f \in [Sources -> Nat], NEW C \in SUBSET Outs, NEW D \in SUBSET Attempts,
             NEW E \in SUBSET Attempts, SinceOK(f, C, D), i \notin D
      PROVE  GoesOn(i, f, C, E)
  <2>1. ReadSince(i, f)
    BY <1>1, <1>7 DEF SinceOK, Reads
  <2>2. ReadSince(i, f)'
    BY <1>2, <1>4, <1>5, <1>6, <2>1 DEF ReadSince
  <2> QED  BY <1>4, <1>5, <2>2 DEF GoesOn
<1> QED  BY <1>5, <1>7, QuietCarries DEF LeftAlone

LEMMA ReadOutputCarries ==
    ASSUME Inv, Inv', CurrencyInv, NEW i \in Attempts, ReadOutput(i)
    PROVE  Carries
<1> DEFINE p == att[i].input
           k == IF p \in files THEN "running" ELSE "failed"
           mark == IF p \in att[i].reads THEN {} ELSE {Unrecorded}
           c == [att[i] EXCEPT !.phase = k, !.seen = @ \cup {p},
                               !.bytes = @ \cup content[p] \cup mark, !.input = None]
<1>1. /\ att[i] \in AttemptType /\ att[i].phase = "opening" /\ p \in Outs
      /\ att[i].target = None /\ BuildOK(i)
  BY DEF Inv, TypeOK, ReadOutput, Accounts, BuildsOK, WaitersOK, CurrencyInv
<1>2. k = (IF p \in files THEN "running" ELSE "failed")
  OBVIOUS
<1> HIDE DEF k
<1>3. /\ c.phase = k /\ c.out = att[i].out /\ c.reads = att[i].reads
      /\ c.seen = att[i].seen \cup {p} /\ c.bytes = att[i].bytes \cup content[p] \cup mark
  BY <1>1 DEF AttemptType
<1>4. att' = [att EXCEPT ![i] = c] /\ UNCHANGED buildStep
  BY DEF Inv, TypeOK, ReadOutput, buildOnly, buildStep, k
<1> HIDE DEF c
<1>5. Quiets /\ att'[i] = c /\ \A j \in Attempts \ {i} : att'[j] = att[j]
  BY <1>1, <1>2, <1>3, <1>4, OneQuiet DEF UnderWay
<1>6. CASE p \notin files
  <2>1. ~Reads(i)'
    BY <1>2, <1>3, <1>5, <1>6 DEF Reads
  <2> QED  BY <1>5, <2>1, AloneCarries DEF LeftAlone
<1>7. CASE p \in files
  <2>1. Declared(p) /\ mark = {} /\ att'[i].phase = "running"
    BY <1>1, <1>2, <1>3, <1>5, <1>7 DEF CurrencyInv, RulesOK, BuildOK
  <2>2. Done(i)' = Done(i) \cup {p}
    BY <1>3, <1>5 DEF Done
  <2> HIDE DEF p, mark
  <2>3. ASSUME NEW f \in [Sources -> Nat], NEW C \in SUBSET Outs, NEW D \in SUBSET Attempts,
               NEW E \in SUBSET Attempts, SinceOK(f, C, D), i \notin D
        PROVE  GoesOn(i, f, C, E)
    <3> SUFFICES ASSUME Missed \notin att'[i].bytes
                 PROVE  /\ AtLeast(att[i].bytes, f)'
                        /\ \A x \in att'[i].reads \cap Sources :
                              \E d \in att'[i].bytes : d[1] = x
                        /\ \A q \in Done(i)' \cap Outs : Has(q, att[i].bytes)'
      BY <2>1 DEF GoesOn, ReadSince
    <3>1. /\ ReadSince(i, f) /\ Missed \notin att[i].bytes /\ Missed \notin content[p]
          /\ WaitSince(att[i].target, att[i].input, C, D)
      BY <1>1, <1>3, <1>5, <2>1, <2>3 DEF SinceOK, Reads
    <3>2. p \in C
      BY <1>1, <2>1, <3>1 DEF WaitSince, p
    <3>3. AtLeast(content[p], f) /\ Has(p, content[p])
      BY <2>3, <3>1, <3>2 DEF SinceOK
    <3>4. AtLeast(att[i].bytes, f)'
      BY <1>3, <1>5, <2>1, <3>1, <3>3 DEF ReadSince, AtLeast
    <3>5. \A x \in att'[i].reads \cap Sources : \E d \in att'[i].bytes : d[1] = x
      BY <1>3, <1>5, <3>1 DEF ReadSince
    <3>6. \A q \in Done(i)' \cap Outs : Has(q, att[i].bytes)'
      BY <1>3, <1>5, <2>1, <2>2, <3>1, <3>3 DEF ReadSince, Has
    <3> QED  BY <3>4, <3>5, <3>6
  <2> QED  BY <1>5, <2>3, QuietCarries DEF LeftAlone
<1> QED  BY <1>6, <1>7

LEMMA CompleteCarries ==
    ASSUME Inv, Inv', CurrencyInv, NEW i \in Attempts, Complete(i)
    PROVE  Carries
<1>1. /\ UNCHANGED buildStep /\ att[i].phase = "settled"
      /\ att'[i].phase \in {"completed", "free"}
      /\ \A j \in Attempts \ {i} :
            \/ att'[j] = att[j]
            \/ att[j].phase = "next" /\ att'[j].phase = "free"
            \/ Wakes(i, j)
  BY CompleteFacts
<1>2. \A j \in Attempts : /\ att'[j].phase = "published" <=> att[j].phase = "published"
                          /\ att[j].phase = "published" => att'[j].out = att[j].out
  <2> TAKE j \in Attempts
  <2>1. CASE j = i
    BY <1>1, <2>1
  <2>2. CASE j # i
    BY <1>1, <2>2 DEF Wakes
  <2> QED  BY <2>1, <2>2
<1>3. Frame
  BY <1>1, <1>2, BooksStay
<1>4. UNCHANGED <<content, m_commands, m_stale>>
  BY <1>1 DEF buildStep, bookVars, fileVars
<1>5. Quiets
  <2>1. \A j \in Attempts : att[j].phase \in UnderWay /\ att'[j].phase \in UnderWay =>
            att'[j].out = att[j].out /\ (att[j].out \in m_stale => att[j].out \in m_stale')
    <3> TAKE j \in Attempts
    <3>1. CASE j = i
      BY <1>1, <3>1 DEF UnderWay
    <3>2. CASE j # i
      BY <1>1, <1>4, <3>2 DEF Wakes, UnderWay
    <3> QED  BY <3>1, <3>2
  <2>2. \A j \in Attempts : att'[j].phase \in {"published", "settled"} /\ att'[j].ok =>
            att[j].phase \in {"published", "settled"} /\ att[j].ok
    <3> TAKE j \in Attempts
    <3>1. CASE j = i
      BY <1>1, <3>1
    <3>2. CASE j # i
      BY <1>1, <3>2 DEF Wakes
    <3> QED  BY <3>1, <3>2
  <2> QED  BY <1>3, <1>4, <2>1, <2>2, FrameQuiets DEF Quiets
<1>6. ASSUME NEW f \in [Sources -> Nat], NEW C \in SUBSET Outs, NEW D \in SUBSET Attempts,
             NEW E \in SUBSET Attempts, SinceOK(f, C, D), NEW j \in Attempts \ D
      PROVE  LeftAlone(j) \/ GoesOn(j, f, C, E)
  <2>1. CASE j = i
    BY <1>1, <2>1 DEF LeftAlone, Reads
  <2>2. CASE j # i /\ Wakes(i, j) /\ att'[j].phase = "opening"
    <3>1. Done(j)' = Done(j) /\ Reads(j)
      BY <2>2 DEF Wakes, Done, Reads
    <3>2. ReadSince(j, f)'
      <4>1. ReadSince(j, f)
        BY <1>6, <3>1 DEF SinceOK
      <4> QED  BY <2>2, <3>1, <4>1 DEF ReadSince, Wakes
    <3>3. ASSUME Missed \notin att'[j].bytes
          PROVE  WaitSince(att[j].target, att[j].input, C, E)'
      <4>1. WaitSince(att[j].target, att[j].input, C, D)
        BY <1>6, <2>2, <3>3 DEF SinceOK, Wakes
      <4>2. att[j].target = i /\ att[i].ok /\ i # None
        BY <2>2, NoneAssumption DEF Wakes, NoneAssumption
      <4>3. att[j].input \in C
        BY <1>1, <4>1, <4>2 DEF WaitSince
      <4>4. att'[j].target = None /\ att'[j].input \in C
        BY <2>2, <4>3 DEF Wakes
      <4> QED  BY <4>4 DEF WaitSince
    <3> QED  BY <3>2, <3>3 DEF GoesOn
  <2>3. CASE j # i /\ ~(Wakes(i, j) /\ att'[j].phase = "opening")
    BY <1>1, <2>3 DEF LeftAlone, Reads, Wakes
  <2> QED  BY <2>1, <2>2, <2>3
<1> QED  BY <1>5, <1>6, QuietCarries

\* A build that has only begun has read nothing.
LEMMA NewGoesOn ==
    ASSUME NEW j \in Attempts, NEW o, IsNew(att'[j], o), NEW f, NEW C, NEW E
    PROVE  GoesOn(j, f, C, E)
<1>1. /\ att'[j].phase = "running" /\ att'[j].reads = {} /\ att'[j].bytes = {}
      /\ Done(j)' = {}
  BY DEF IsNew, Done
<1> QED  BY <1>1 DEF GoesOn, ReadSince, AtLeast

LEMMA SettleCarries ==
    ASSUME Inv, Inv', CurrencyInv, NEW i \in Attempts, Settle(i)
    PROVE  Carries
<1>1. SettlesLast(i) \/ \E n \in Attempts : Reclaims(i, n)
  BY SettleFacts
<1>2. /\ att[i].phase \in {"published", "failed"}
      /\ UNCHANGED <<sourceVars, m_commands, files, content, applied>>
  BY DEF Settle
<1>3. Frame
  BY <1>1, <1>2, SettleFrame
<1>4. /\ Settles(i) /\ att[i].phase \in UnderWay /\ BuildOK(i)
      /\ \A j \in Attempts \ {i} : att[j].phase \in UnderWay => att[j].out # att[i].out
  BY <1>1, <1>2
     DEF SettlesLast, Reclaims, UnderWay, CurrencyInv, Inv, Accounts, BuildsOK, InFlightOK
<1>5. \A j \in Attempts \ {i} :
          \/ att'[j] = att[j]
          \/ /\ att[j].phase \in {"free", "next"}
             /\ IsNew(att'[j], att[i].out)
  BY <1>1 DEF SettlesLast, Reclaims
<1>6. m_stale \ {att[i].out} \subseteq m_stale'
  BY <1>1 DEF SettlesLast, Reclaims, StaleAfter
<1>7. Quiets
  <2>1. \A j \in Attempts : att[j].phase \in UnderWay /\ att'[j].phase \in UnderWay =>
            att'[j].out = att[j].out /\ (att[j].out \in m_stale => att[j].out \in m_stale')
    <3> TAKE j \in Attempts
    <3>1. CASE j = i
      BY <1>4, <3>1 DEF Settles, UnderWay
    <3>2. CASE j # i
      BY <1>4, <1>5, <1>6, <3>2 DEF UnderWay
    <3> QED  BY <3>1, <3>2
  <2>2. \A j \in Attempts : att'[j].phase \in {"published", "settled"} /\ att'[j].ok =>
            att[j].phase \in {"published", "settled"} /\ att[j].ok
    <3> TAKE j \in Attempts
    <3>1. CASE j = i
      BY <1>2, <1>4, <3>1 DEF Settles, BuildOK
    <3>2. CASE j # i
      BY <1>5, <3>2 DEF IsNew
    <3> QED  BY <3>1, <3>2
  <2> QED  BY <1>2, <1>3, <2>1, <2>2, FrameQuiets DEF Quiets
<1>8. ASSUME NEW f \in [Sources -> Nat], NEW C \in SUBSET Outs, NEW E \in SUBSET Attempts,
             NEW j \in Attempts
      PROVE  LeftAlone(j) \/ GoesOn(j, f, C, E)
  <2>1. CASE j = i
    BY <1>4, <2>1 DEF LeftAlone, Reads, Settles
  <2>2. CASE j # i /\ IsNew(att'[j], att[i].out)
    BY <2>2, NewGoesOn
  <2>3. CASE j # i /\ ~IsNew(att'[j], att[i].out)
    BY <1>5, <2>3 DEF LeftAlone
  <2> QED  BY <2>1, <2>2, <2>3
<1> QED  BY <1>7, <1>8, QuietCarries

-----------------------------------------------------------------------------
(* An output is brought up to date for whoever opens it.                   *)

LEMMA BroughtQuiets ==
    ASSUME Inv, Inv', CurrencyInv, NEW o \in Outs, NEW b, Brought(o, b), UNCHANGED bookStay,
           \A j \in Attempts : att'[j] = b[j] \/ (b[j] = att[j] /\ Opens(j))
    PROVE  /\ Quiets
           /\ \A f \in [Sources -> Nat], C \in SUBSET Outs, E \in SUBSET Attempts :
                 \A j \in Attempts : att'[j] = b[j] => LeftAlone(j) \/ GoesOn(j, f, C, E)
<1>1. Frame
  BY BroughtFrame
<1>2. UNCHANGED <<content, m_commands, applied>>
  BY DEF bookStay, bookRest, fileVars
<1>3. \A j \in Attempts :
          \/ att'[j] = att[j]
          \/ Opens(j)
          \/ att'[j] = b[j] /\ att[j].phase \in {"free", "next"} /\ att'[j].phase = "next"
          \/ att'[j] = b[j] /\ att[j].phase = "free" /\ IsNew(att'[j], o)
  BY DEF Brought, Queues, Begins
<1>4. \A j \in Attempts : att[j].phase \in UnderWay =>
          (att[j].out \in m_stale => att[j].out \in m_stale')
  BY DEF Brought, Queues, Begins, Inv, Accounts, BuildsOK, InFlightOK, Builds
<1>5. Quiets
  <2>1. \A j \in Attempts : att[j].phase \in UnderWay /\ att'[j].phase \in UnderWay =>
            att'[j].out = att[j].out /\ (att[j].out \in m_stale => att[j].out \in m_stale')
    BY <1>3, <1>4 DEF Opens, UnderWay
  <2>2. \A j \in Attempts : att'[j].phase \in {"published", "settled"} /\ att'[j].ok =>
            att[j].phase \in {"published", "settled"} /\ att[j].ok
    BY <1>3 DEF Opens, IsNew
  <2> QED  BY <1>1, <1>2, <2>1, <2>2, FrameQuiets DEF Quiets
<1>6. ASSUME NEW f \in [Sources -> Nat], NEW C \in SUBSET Outs, NEW E \in SUBSET Attempts,
             NEW j \in Attempts, att'[j] = b[j]
      PROVE  LeftAlone(j) \/ GoesOn(j, f, C, E)
  <2>1. CASE IsNew(att'[j], o)
    BY <2>1, NewGoesOn
  <2>2. CASE ~IsNew(att'[j], o)
    BY <1>6, <2>2 DEF Brought, Queues, Begins, LeftAlone, Reads
  <2> QED  BY <2>1, <2>2
<1> QED  BY <1>5, <1>6

\* What an open made now waits for, an earlier one may wait for as well.
LEMMA TargetSince ==
    ASSUME Inv, CurrencyInv, NEW o \in Outs, bring_up_to_date(o), m_commands' = m_commands,
           \A j \in Attempts : \/ att'[j] = WithTarget(o)[j]
                               \/ WithTarget(o)[j] = att[j] /\ Opens(j),
           NEW f, NEW C, NEW D, NEW E, SinceOK(f, C, D), D \subseteq Attempts, Surviving(D, E)
    PROVE  \A t : t = Target(o) => WaitSince(t, o, C, E)'
<1> SUFFICES ASSUME NEW t, t = Target(o) PROVE WaitSince(t, o, C, E)'
  OBVIOUS
<1>1. CASE Awaits(o)
  <2>1. NameLeft(o) /\ o \in m_in_flight /\ ~Joins(o) /\ ~Claims(o)
    BY <1>1 DEF bring_up_to_date, Awaits, Claims
  <2>2. t \in Attempts /\ t = NextAttempt(o) /\ att[t].phase \in {"free", "next"}
    BY <1>1, <2>1, AwaitFacts DEF Target, Inv
  <2>3. WithTarget(o)[t].phase = "next"
    BY <1>1, <2>1, <2>2 DEF WithTarget, Inv, TypeOK, Free
  <2>4. att'[t].phase = "next" /\ t \notin D
    BY <2>2, <2>3 DEF Opens, SinceOK, UnderWay
  <2> QED  BY <2>2, <2>4, NoneAssumption DEF WaitSince, Surviving, NoneAssumption
<1>2. CASE Claims(o)
  <2>1. NameLeft(o) /\ o \notin m_in_flight /\ ~Joins(o) /\ ~Awaits(o)
    BY <1>2 DEF bring_up_to_date, claim_build, Awaits, Claims, Joins
  <2>2. t \in Attempts /\ t = NextAttempt(o) /\ att[t].phase = "free"
    BY <1>2, <2>1, NewIsNew DEF Target, Inv
  <2>3. WithTarget(o)[t].phase = "running"
    BY <1>2, <2>1, <2>2, NewIsNew DEF WithTarget, IsNew, Inv
  <2>4. att'[t].phase = "running" /\ t \notin D
    BY <2>2, <2>3 DEF Opens, SinceOK, UnderWay
  <2> QED  BY <2>2, <2>4, NoneAssumption DEF WaitSince, Surviving, NoneAssumption
<1>3. CASE ~Awaits(o) /\ ~Claims(o)
  <2>1. WithTarget(o) = att
    BY <1>3 DEF WithTarget
  <2>2. CASE Declared(o) /\ Joins(o)
    <3>1. t = Current(o) /\ o \notin m_stale /\ o \in m_in_flight
      BY <1>3, <2>2 DEF Target, Joins
    <3>2. t \in Attempts /\ att[t].phase \in UnderWay /\ att[t].out = o
      BY <3>1, CurrentFacts DEF Inv
    <3>3. att'[t] = att[t] \/ att'[t].phase = "opening"
      BY <2>1, <3>2 DEF Opens
    <3>4. t \notin D
      BY <3>1, <3>2 DEF SinceOK
    <3>5. att[t].phase = "published" => o \in C
      BY <2>2, <3>1, <3>2 DEF Built, Published, SinceOK
    <3> QED
      BY <3>2, <3>3, <3>4, <3>5, NoneAssumption DEF WaitSince, Surviving, UnderWay
  <2>3. CASE ~(Declared(o) /\ Joins(o))
    <3>1. t = None
      BY <1>3, <2>3 DEF Target
    <3>2. Declared(o) => o \in C
      BY <1>3, <2>3 DEF Awaits, Claims, Joins, Built, SinceOK
    <3> QED  BY <3>1, <3>2 DEF WaitSince, Declared
  <2> QED  BY <2>2, <2>3
<1> QED  BY <1>1, <1>2, <1>3

LEMMA BroughtCarries ==
    ASSUME Inv, Inv', CurrencyInv, NEW o \in Outs,
           (\E r \in Readers : open(r, o)) \/ MaterializeNext(o) \/ StartEager(o)
    PROVE  Carries
<1>1. UNCHANGED bookStay /\ Brought(o, att')
  BY OpenBrings, StartBrings
     DEF Inv, open, MaterializeNext, StartEager, bookStay, watcherOnly, sourceVars
<1>2. PICK b : b = att'
  OBVIOUS
<1>3. /\ Quiets
      /\ \A f \in [Sources -> Nat], C \in SUBSET Outs, E \in SUBSET Attempts :
            \A j \in Attempts : LeftAlone(j) \/ GoesOn(j, f, C, E)
  BY <1>1, <1>2, BroughtQuiets
<1> QED  BY <1>3, QuietCarries

LEMMA OpenOutputCarries ==
    ASSUME Inv, Inv', CurrencyInv, NEW i \in Attempts, OpenOutput(i)
    PROVE  Carries
<1>0. PICK o \in Outs : o = att[i].input
  BY DEF OpenOutput, Inv, Accounts, BuildsOK, WaitersOK
<1> DEFINE b == WithTarget(o)
<1>1. /\ bring_up_to_date(o) /\ Brought(o, b) /\ UNCHANGED bookStay
      /\ m_commands' = m_commands
  BY <1>0, OpenBrings DEF Inv, OpenOutput, bookStay, bookRest, buildOnly
<1>2. /\ b \in [Attempts -> AttemptType]
      /\ \A j \in Attempts : att[j].phase \in UnderWay => b[j] = att[j]
  BY <1>1, OpenFacts DEF Inv
<1>3. att[i].phase = "asked" /\ b[i] = att[i] /\ b[i] \in AttemptType
  BY <1>2 DEF OpenOutput, UnderWay
<1> DEFINE c == [b[i] EXCEPT !.phase = "opening", !.target = Target(o)]
<1>4. att' = [b EXCEPT ![i] = c]
  BY <1>0, <1>2 DEF OpenOutput
<1> HIDE DEF b
<1>5. /\ c.phase = "opening" /\ c.input = o /\ c.target = Target(o)
      /\ c.out = att[i].out /\ c.seen = att[i].seen
      /\ c.bytes = att[i].bytes /\ c.reads = att[i].reads
  BY <1>0, <1>3 DEF AttemptType
<1> HIDE DEF c
<1>6. att'[i] = c /\ \A j \in Attempts \ {i} : att'[j] = b[j]
  BY <1>2, <1>4
<1>7. Opens(i) /\ \A j \in Attempts : att'[j] = b[j] \/ (b[j] = att[j] /\ Opens(j))
  BY <1>3, <1>5, <1>6 DEF Opens
<1>8. /\ Quiets
      /\ \A f \in [Sources -> Nat], C \in SUBSET Outs, E \in SUBSET Attempts :
            \A j \in Attempts \ {i} : LeftAlone(j) \/ GoesOn(j, f, C, E)
  BY <1>1, <1>6, <1>7, BroughtQuiets
<1>9. ASSUME NEW f \in [Sources -> Nat], NEW C \in SUBSET Outs, NEW D \in SUBSET Attempts,
             NEW E \in SUBSET Attempts, SinceOK(f, C, D), Surviving(D, E), i \notin D
      PROVE  GoesOn(i, f, C, E)
  <2>1. ReadSince(i, f)
    BY <1>3, <1>9 DEF SinceOK, Reads
  <2>2. att'[i].reads \cap Sources = att[i].reads \cap Sources
    BY <1>5, <1>6
  <2>3. Done(i)' = Done(i)
    BY <1>5, <1>6 DEF Done
  <2>4. ReadSince(i, f)'
    BY <1>5, <1>6, <2>1, <2>2, <2>3 DEF ReadSince
  <2>5. PICK t : t = Target(o)
    OBVIOUS
  <2>6. WaitSince(t, o, C, E)'
    BY <1>1, <1>7, <1>9, <2>5, TargetSince DEF b
  <2>7. att'[i].target = t /\ att'[i].input = o
    BY <1>5, <1>6, <2>5
  <2> QED  BY <2>4, <2>6, <2>7 DEF GoesOn
<1>10. ASSUME NEW f \in [Sources -> Nat], NEW C \in SUBSET Outs, NEW D \in SUBSET Attempts,
              NEW E \in SUBSET Attempts, SinceOK(f, C, D), Surviving(D, E),
              NEW j \in Attempts \ D
       PROVE  LeftAlone(j) \/ GoesOn(j, f, C, E)
  <2>1. CASE j = i
    BY <1>9, <1>10, <2>1
  <2>2. CASE j # i
    BY <1>8, <2>2
  <2> QED  BY <2>1, <2>2
<1> QED  BY <1>8, <1>10, QuietCarries

-----------------------------------------------------------------------------
(* A build publishes: its output is one of C from then on, unless it was   *)
(* out of date already when the open was made.                             *)

\* Bytes that have all that the inputs are made from have all o is made from.
LEMMA HasAll ==
    ASSUME NEW o \in Outs, NEW b, \A s \in Inputs[o] \cap Sources : \E e \in b : e[1] = s,
           \A p \in Inputs[o] \cap Outs : Has(p, b)
    PROVE  Has(o, b)
<1> DEFINE T == {s \in Sources : \E e \in b : e[1] = s} \cup {p \in Outs : p = o \/ Has(p, b)}
<1>1. ASSUME NEW p \in T \cap Outs PROVE Inputs[p] \subseteq T
  <2>1. Inputs[p] \subseteq Sources \cup Outs
    BY InputsAssumption DEF InputsAssumption
  <2>2. CASE p = o
    BY <2>1, <2>2
  <2>3. CASE Has(p, b)
    <3>1. /\ Inputs[p] \subseteq Reach(p)
          /\ \A q \in Inputs[p] \cap Outs : Reach(q) \subseteq Reach(p)
      BY ReachFacts
    <3>2. \A s \in Inputs[p] \cap Sources : s \in T
      BY <2>3, <3>1 DEF Has
    <3>3. \A q \in Inputs[p] \cap Outs : q \in T
      BY <2>3, <3>1 DEF Has
    <3> QED  BY <2>1, <3>2, <3>3
  <2> QED  BY <2>2, <2>3, NamesAssumption DEF NamesAssumption
<1>2. T \in SUBSET (Sources \cup Outs) /\ o \in T
  OBVIOUS
<1>3. \A s \in T \cap Sources : \E e \in b : e[1] = s
  BY NamesAssumption DEF NamesAssumption
<1> HIDE DEF T
<1>4. Reach(o) \subseteq T
  BY <1>1, <1>2, ReachWithin
<1> QED  BY <1>3, <1>4 DEF Has

\* A build has told on all that was applied before the open, if it is not of D.
LEMMA PublishedSince ==
    ASSUME NEW i \in Attempts, NEW o \in Outs, o = att[i].out, att[i].phase = "running",
           att[i].reads = Inputs[o], att[i].seen = Inputs[o], NEW f, ReadSince(i, f),
           NEW b, b = att[i].bytes \cup {<<o, FirstManifest[o]>>}, Missed \notin b
    PROVE  AtLeast(b, f) /\ Has(o, b)
<1> DEFINE e == <<o, FirstManifest[o]>>
<1>1. e[1] = o /\ o \notin Sources
  BY NamesAssumption DEF NamesAssumption
<1>2. b = att[i].bytes \cup {e} /\ Missed \notin att[i].bytes
  OBVIOUS
<1> HIDE DEF e
<1>3. AtLeast(b, f)
  BY <1>1, <1>2 DEF ReadSince, AtLeast
<1>4. Done(i) = Inputs[o]
  BY DEF Done
<1>5. \A s \in Inputs[o] \cap Sources : \E d \in b : d[1] = s
  BY <1>2 DEF ReadSince
<1>6. \A p \in Inputs[o] \cap Outs : Has(p, b)
  BY <1>2, <1>4 DEF ReadSince, Has
<1> QED  BY <1>3, <1>5, <1>6, HasAll

LEMMA PublishCarries ==
    ASSUME Inv, Inv', CurrencyInv, NEW i \in Attempts, Publish(i)
    PROVE  Carries
<1>1. PICK o : o = att[i].out
  OBVIOUS
<1>2. PICK b : b = att[i].bytes \cup {<<o, FirstManifest[o]>>}
  OBVIOUS
<1>3. /\ o \in Outs /\ att[i].phase = "running"
      /\ att[i].reads = Inputs[o] /\ att[i].seen = Inputs[o]
      /\ Declared(o) /\ BuildOK(i) /\ ~Built(o)
      /\ \A j \in Attempts \ {i} : att[j].phase \in UnderWay => att[j].out # o
      /\ att'[i].phase = "published" /\ att'[i].ok /\ att'[i].out = o
      /\ \A j \in Attempts \ {i} : att'[j] = att[j]
      /\ content'[o] = b /\ m_dependencies'[o] = Inputs[o]
      /\ \A p \in Outs \ {o} : content'[p] = content[p]
      /\ UNCHANGED <<m_commands, m_stale, m_in_flight, applied>>
  BY <1>1, <1>2, PublishFacts
<1>4. \A p \in Outs \ {o} : Built(p)' <=> Built(p)
  <2>1. \A p \in Outs \ {o} : Published(p)' <=> Published(p)
    BY <1>1, <1>3 DEF Published
  <2> QED  BY <1>3, <2>1 DEF Built, Declared
<1> SUFFICES ASSUME NEW f \in [Sources -> Nat], NEW C \in SUBSET Outs,
                    NEW D \in SUBSET Attempts, SinceOK(f, C, D)
             PROVE  \E C2 \in SUBSET Outs, E \in SUBSET Attempts : CarriedOn(f, C, D, C2, E)
  BY DEF Carries
<1>5. PICK C2 \in SUBSET Outs : C2 = IF i \in D THEN C ELSE C \cup {o}
  BY <1>3
<1>6. i \in D => o \in m_stale /\ o \notin C
  BY <1>1 DEF SinceOK
<1>7. ASSUME NEW t, NEW p \in Outs, t # None => IsComing(att, t, p), WaitSince(t, p, C, D)
      PROVE  WaitSince(t, p, C2, D)'
  <2>1. Declared(p)' <=> Declared(p)
    BY <1>3 DEF Declared
  <2>2. CASE t = i
    BY <1>1, <1>5, <1>7, <2>2, NoneAssumption DEF WaitSince, IsComing, NoneAssumption
  <2>3. CASE t # i
    BY <1>3, <1>5, <1>7, <2>1, <2>3 DEF WaitSince, IsComing
  <2> QED  BY <2>2, <2>3
<1>8. ASSUME NEW p \in C2
      PROVE  /\ Missed \notin content'[p] => AtLeast(content[p], f)' /\ Has(p, content[p])'
             /\ \A j \in D : att'[j].out # p
  <2>1. CASE p = o
    <3>1. i \notin D
      BY <1>5, <1>6, <1>8, <2>1
    <3>2. \A j \in D : att'[j].out # o
      BY <1>3, <3>1 DEF SinceOK
    <3>3. ReadSince(i, f)
      BY <1>3, <3>1 DEF SinceOK, Reads
    <3>4. Missed \notin b => AtLeast(b, f) /\ Has(o, b)
      BY <1>1, <1>2, <1>3, <3>3, PublishedSince
    <3> QED  BY <1>3, <2>1, <3>2, <3>4 DEF AtLeast, Has
  <2>2. CASE p # o
    <3>1. p \in C /\ p \in Outs /\ content'[p] = content[p]
      BY <1>3, <1>5, <1>8, <2>2
    <3>2. \A j \in D : att'[j].out = att[j].out
      BY <1>1, <1>3
    <3> QED  BY <3>1, <3>2 DEF SinceOK, AtLeast, Has
  <2> QED  BY <2>1, <2>2
<1>9. ASSUME NEW j \in Attempts \ D, Reads(j)' PROVE ReadSince(j, f)'
  <2>1. j # i /\ att'[j] = att[j]
    BY <1>3, <1>9 DEF Reads
  <2>2. ReadSince(j, f) /\ Done(j)' = Done(j)
    BY <1>9, <2>1 DEF SinceOK, Reads, Done
  <2> QED  BY <2>1, <2>2 DEF ReadSince
<1>10. ASSUME NEW j \in Attempts \ D, att'[j].phase = "opening", Missed \notin att'[j].bytes
       PROVE  WaitSince(att[j].target, att[j].input, C2, D)'
  <2>1. j # i /\ att'[j] = att[j]
    BY <1>3, <1>10
  <2>2. PICK t, p : t = att[j].target /\ p = att[j].input
    OBVIOUS
  <2>3. /\ p \in Outs /\ (t # None => IsComing(att, t, p))
        /\ WaitSince(t, p, C, D)
    BY <1>10, <2>1, <2>2 DEF SinceOK, Inv, Accounts, BuildsOK, WaitersOK
  <2>4. WaitSince(t, p, C2, D)'
    BY <1>7, <2>3
  <2>5. att'[j].target = t /\ att'[j].input = p
    BY <2>1, <2>2
  <2> QED  BY <2>4, <2>5
<1>11. SinceOK(f, C2, D)'
  <2>1. \A s \in Sources : f[s] <= applied'[s]
    BY <1>3 DEF SinceOK
  <2>2. \A j \in D : att'[j].phase \in UnderWay /\ att'[j].out \in m_stale'
    BY <1>1, <1>3 DEF SinceOK, UnderWay
  <2>3. \A p \in Outs : Built(p)' => p \in C2
    <3> TAKE p \in Outs
    <3>1. CASE p = o
      BY <1>3, <1>5, <1>6, <3>1 DEF Built
    <3>2. CASE p # o
      BY <1>4, <1>5, <3>2 DEF SinceOK
    <3> QED  BY <3>1, <3>2
  <2> QED  BY <1>8, <1>9, <1>10, <2>1, <2>2, <2>3 DEF SinceOK
<1>12. CarriedOn(f, C, D, C2, D)
  BY <1>7, <1>11 DEF CarriedOn
<1> QED  BY <1>12

-----------------------------------------------------------------------------
(* Every open gets what was applied when it was made.                      *)

ReadersOK == \A r \in Readers : ReaderOK(r)

LEMMA InitReaders == Init => ReadersOK
BY DEF Init, InitWith, ReadersOK, ReaderOK, NoOpen

\* The output that a reader waits for or is about to read.
LEMMA ReaderFacts ==
    ASSUME Inv, NEW r \in Readers, ReaderOK(r), reader[r].state \in {"waiting", "reading"}
    PROVE  /\ reader[r].since \in [Sources -> Nat] /\ reader[r].out \in Outs
           /\ reader[r].target # None => IsComing(att, reader[r].target, reader[r].out)
<1>1. reader[r] \in ReaderType
  BY DEF Inv, TypeOK
<1>2. reader[r].since \in [Sources -> Nat]
  BY <1>1 DEF ReaderType
<1>3. CASE reader[r].state = "waiting"
  <2>1. IsComing(att, reader[r].target, reader[r].out)
    BY <1>3 DEF Inv, Accounts, BuildsOK, WaitersOK
  <2>2. reader[r].out \in Outs
    BY <2>1 DEF Inv, Accounts, BuildsOK, InFlightOK, IsComing, Coming, UnderWay
  <2> QED  BY <1>2, <2>1, <2>2
<1>4. CASE reader[r].state = "reading"
  BY <1>2, <1>4 DEF Inv, Accounts, BuildsOK, WaitersOK, ReaderOK
<1> QED  BY <1>3, <1>4

\* A reader that the step leaves alone.
LEMMA ReaderCarried ==
    ASSUME Inv, Inv', Carries, NEW r \in Readers, reader'[r] = reader[r], ReaderOK(r)
    PROVE  ReaderOK(r)'
<1>1. ASSUME reader[r].state \in {"waiting", "reading"}
      PROVE  \E C \in SUBSET Outs, D \in SUBSET Attempts :
                /\ SinceOK(reader[r].since, C, D)'
                /\ WaitSince(reader[r].target, reader[r].out, C, D)'
  <2>1. PICK f, t, p : f = reader[r].since /\ t = reader[r].target /\ p = reader[r].out
    OBVIOUS
  <2>2. f \in [Sources -> Nat] /\ p \in Outs /\ (t # None => IsComing(att, t, p))
    BY <1>1, <2>1, ReaderFacts
  <2>3. PICK C \in SUBSET Outs, D \in SUBSET Attempts :
            SinceOK(f, C, D) /\ WaitSince(t, p, C, D)
    BY <1>1, <2>1 DEF ReaderOK
  <2>4. PICK C2 \in SUBSET Outs, E \in SUBSET Attempts : CarriedOn(f, C, D, C2, E)
    BY <2>2, <2>3 DEF Carries
  <2>5. SinceOK(f, C2, E)' /\ WaitSince(t, p, C2, E)'
    BY <2>2, <2>3, <2>4 DEF CarriedOn
  <2>6. reader'[r].since = f /\ reader'[r].target = t /\ reader'[r].out = p
    BY <2>1
  <2> QED  BY <2>5, <2>6
<1> QED  BY <1>1 DEF ReaderOK

LEMMA OpenReader ==
    ASSUME Inv, Inv', CurrencyInv, NEW r \in Readers, NEW o \in Outs, open(r, o)
    PROVE  ReaderOK(r)'
<1> DEFINE b == WithTarget(o)
<1>1. /\ bring_up_to_date(o) /\ Brought(o, b) /\ att' = b /\ UNCHANGED bookStay
      /\ m_commands' = m_commands
  BY OpenBrings DEF Inv, open, bookStay, bookRest
<1>2. PICK f, t, C : f = applied /\ t = Target(o) /\ C = BuiltNow
  OBVIOUS
<1>3. PICK D : D = StaleBuilds
  OBVIOUS
<1>4. /\ SinceOK(f, C, D) /\ C \in SUBSET Outs /\ D \in SUBSET Attempts
      /\ f \in [Sources -> Nat]
  BY <1>2, <1>3, StartSince DEF BuiltNow, StaleBuilds, Inv, TypeOK
<1>5. PICK E \in SUBSET Attempts : Surviving(D, E)
  BY <1>4 DEF Surviving
<1>6. /\ Quiets
      /\ \A j \in Attempts : LeftAlone(j) \/ GoesOn(j, f, C, E)
  BY <1>1, <1>4, BroughtQuiets
<1>7. SinceOK(f, C, E)'
  BY <1>4, <1>5, <1>6, QuietSince DEF Inv
<1>8. WaitSince(t, o, C, E)'
  BY <1>1, <1>2, <1>4, <1>5, TargetSince
<1>9. /\ reader'[r].state = IF t = None THEN "reading" ELSE "waiting"
      /\ reader'[r].since = f /\ reader'[r].target = t /\ reader'[r].out = o
  <2>1. reader'[r] = [state |-> IF Target(o) = None THEN "reading" ELSE "waiting",
                      out |-> o, target |-> Target(o), since |-> applied, bytes |-> {}]
    BY DEF open, Inv, TypeOK
  <2> QED  BY <1>2, <2>1
<1> QED  BY <1>4, <1>7, <1>8, <1>9 DEF ReaderOK

LEMMA ReadReader ==
    ASSUME Inv, NEW r \in Readers, ReadOpened(r), CurrencyInv, ReaderOK(r)
    PROVE  ReaderOK(r)'
<1>1. PICK f, p : f = reader[r].since /\ p = reader[r].out
  OBVIOUS
<1>2. f \in [Sources -> Nat] /\ p \in Outs /\ reader[r].state = "reading"
  BY <1>1, ReaderFacts DEF ReadOpened
<1> DEFINE k == IF p \in files THEN "read" ELSE "error"
           d == [reader[r] EXCEPT !.state = k, !.bytes = content[p]]
<1>3. reader' = [reader EXCEPT ![r] = d] /\ reader[r] \in ReaderType
  BY <1>1 DEF ReadOpened, Inv, TypeOK
<1>4. k \in {"read", "error"} /\ (k = "read" => p \in files)
  OBVIOUS
<1> HIDE DEF k
<1>5. d.state = k /\ d.bytes = content[p] /\ d.since = f /\ d.out = p
  BY <1>1, <1>3 DEF ReaderType
<1> HIDE DEF d
<1>6. reader'[r] = d
  BY <1>3 DEF Inv, TypeOK
<1>7. ASSUME k = "read", Missed \notin content[p] PROVE Reflects(content[p], p, f)
  <2>1. PICK C \in SUBSET Outs, D \in SUBSET Attempts :
            SinceOK(f, C, D) /\ WaitSince(None, p, C, D)
    BY <1>1, <1>2 DEF ReaderOK
  <2>2. Declared(p)
    BY <1>4, <1>7 DEF CurrencyInv, RulesOK
  <2>3. AtLeast(content[p], f) /\ Has(p, content[p])
    BY <1>7, <2>1, <2>2 DEF WaitSince, SinceOK
  <2> QED  BY <2>3 DEF AtLeast, Has, Reflects
<1> QED  BY <1>4, <1>5, <1>6, <1>7 DEF ReaderOK

LEMMA CompleteReader ==
    ASSUME Inv, Inv', CurrencyInv, NEW i \in Attempts, Complete(i), NEW r \in Readers,
           ReaderOK(r)
    PROVE  ReaderOK(r)'
<1>1. Carries /\ att[i].phase = "settled"
  BY CompleteCarries DEF Complete
<1>2. CASE reader[r].state = "waiting" /\ reader[r].target \in Ends(i)
  <2>1. PICK f, t, p : f = reader[r].since /\ t = reader[r].target /\ p = reader[r].out
    OBVIOUS
  <2>2. f \in [Sources -> Nat] /\ p \in Outs /\ IsComing(att, t, p)
    BY <1>2, <2>1, ReaderFacts, NoneAssumption DEF Ends, NoneAssumption
  <2> DEFINE k == IF t = i /\ att[i].ok THEN "reading" ELSE "error"
             d == [reader[r] EXCEPT !.target = None, !.state = k]
  <2>3. reader'[r] = d /\ reader[r] \in ReaderType
    BY <1>2, <2>1 DEF Complete, Inv, TypeOK
  <2>4. k \in {"reading", "error"} /\ (k = "reading" => t = i /\ att[i].ok)
    OBVIOUS
  <2> HIDE DEF k
  <2>5. d.state = k /\ d.target = None /\ d.since = f /\ d.out = p
    BY <2>1, <2>3 DEF ReaderType
  <2> HIDE DEF d
  <2>6. ASSUME k = "reading"
        PROVE  \E C \in SUBSET Outs, D \in SUBSET Attempts :
                  SinceOK(f, C, D)' /\ WaitSince(None, p, C, D)'
    <3>1. PICK C \in SUBSET Outs, D \in SUBSET Attempts :
              SinceOK(f, C, D) /\ WaitSince(t, p, C, D)
      BY <1>2, <2>1 DEF ReaderOK
    <3>2. WaitSince(None, p, C, D)
      BY <1>1, <2>4, <2>6, <3>1, NoneAssumption DEF WaitSince, NoneAssumption
    <3>3. PICK C2 \in SUBSET Outs, E \in SUBSET Attempts : CarriedOn(f, C, D, C2, E)
      BY <1>1, <2>2, <3>1 DEF Carries
    <3> QED  BY <2>2, <3>2, <3>3 DEF CarriedOn
  <2> QED  BY <2>3, <2>4, <2>5, <2>6 DEF ReaderOK
<1>3. CASE ~(reader[r].state = "waiting" /\ reader[r].target \in Ends(i))
  <2>1. reader'[r] = reader[r]
    BY <1>3 DEF Complete
  <2> QED  BY <1>1, <2>1, ReaderCarried
<1> QED  BY <1>2, <1>3

LEMMA RestartReader ==
    ASSUME Inv, NEW restored, Restart(restored), NEW r \in Readers, ReaderOK(r)
    PROVE  ReaderOK(r)'
<1>1. CASE reader[r].state \in {"waiting", "reading"}
  <2>1. /\ reader'[r] = [reader[r] EXCEPT !.state = "error", !.target = None]
        /\ reader[r] \in ReaderType
    BY <1>1 DEF Restart, Inv, TypeOK
  <2>2. reader'[r].state = "error"
    BY <2>1 DEF ReaderType
  <2> QED  BY <2>2 DEF ReaderOK
<1>2. CASE reader[r].state \notin {"waiting", "reading"}
  <2>1. reader'[r] = reader[r]
    BY <1>2 DEF Restart
  <2> QED  BY <1>2, <2>1 DEF ReaderOK
<1> QED  BY <1>1, <1>2

LEMMA SameReaders ==
    ASSUME Inv, Inv', Carries, ReadersOK, reader' = reader
    PROVE  ReadersOK'
<1>1. \A r \in Readers : ReaderOK(r)'
  BY ReaderCarried DEF ReadersOK
<1> QED  BY <1>1 DEF ReadersOK

LEMMA StepReaders ==
    ASSUME Static, Inv, Inv', CurrencyInv, ReadersOK, [Next]_vars
    PROVE  ReadersOK'
<1>1. CASE \/ \E s \in Sources : Change(s)
           \/ Overflow \/ materialize_all \/ UNCHANGED vars
  <2>1. reader' = reader
    BY <1>1 DEF Change, Overflow, materialize_all, threadVars, vars
  <2> QED  BY <1>1, <2>1, RestCarries, SameReaders
<1>2. CASE \E o \in Outs, rule \in 0..2 : EditManifest(o, rule)
  BY <1>2 DEF EditManifest, Static, Inv, TypeOK
<1>3. ASSUME NEW r \in Readers, ReadOpened(r)
      PROVE  ReadersOK'
  <2>1. Carries
    BY <1>3, RestCarries
  <2>2. ASSUME NEW q \in Readers PROVE ReaderOK(q)'
    <3>1. CASE q = r
      BY <1>3, <3>1, ReadReader DEF ReadersOK
    <3>2. CASE q # r
      <4>1. reader'[q] = reader[q]
        BY <1>3, <3>2 DEF ReadOpened, Inv, TypeOK
      <4> QED  BY <2>1, <4>1, ReaderCarried DEF ReadersOK
    <3> QED  BY <3>1, <3>2
  <2> QED  BY <2>2 DEF ReadersOK
<1>4. ASSUME NEW r \in Readers, NEW o \in Outs, open(r, o)
      PROVE  ReadersOK'
  <2>1. Carries
    BY <1>4, BroughtCarries
  <2>2. ASSUME NEW q \in Readers PROVE ReaderOK(q)'
    <3>1. CASE q = r
      BY <1>4, <3>1, OpenReader
    <3>2. CASE q # r
      <4>1. reader'[q] = reader[q]
        BY <1>4, <3>2 DEF open, Inv, TypeOK
      <4> QED  BY <2>1, <4>1, ReaderCarried DEF ReadersOK
    <3> QED  BY <3>1, <3>2
  <2> QED  BY <2>2 DEF ReadersOK
<1>5. ASSUME NEW o \in Outs, MaterializeNext(o) PROVE ReadersOK'
  <2>1. reader' = reader
    BY <1>5 DEF MaterializeNext
  <2> QED  BY <1>5, <2>1, BroughtCarries, SameReaders
<1>6. ASSUME NEW i \in Attempts, Build(i) PROVE ReadersOK'
  <2>1. reader' = reader
    <3>1. CASE (\E s \in Sources : ReadSource(i, s)) \/ ReadOutput(i) \/ Fail(i)
      BY <3>1 DEF ReadSource, ReadOutput, Fail, buildOnly
    <3>2. CASE (\E o \in Outs : RecordRead(i, o)) \/ OpenOutput(i)
      BY <3>2 DEF RecordRead, OpenOutput, buildOnly
    <3> QED  BY <1>6, <3>1, <3>2 DEF Build
  <2>2. Carries
    BY <1>6, ReadSourceCarries, RecordReadCarries, OpenOutputCarries, ReadOutputCarries,
       EndsCarries DEF Build
  <2> QED  BY <2>1, <2>2, SameReaders
<1>7. ASSUME NEW i \in Attempts, FinishBuild(i) PROVE ReadersOK'
  <2>1. CASE Complete(i)
    <3>1. \A r \in Readers : ReaderOK(r)'
      BY <2>1, CompleteReader DEF ReadersOK
    <3> QED  BY <3>1 DEF ReadersOK
  <2>2. CASE Publish(i) \/ Settle(i) \/ KeepCheck(i) \/ KeepStore(i)
    <3>1. reader' = reader
      BY <2>2 DEF Publish, Settle, KeepCheck, KeepStore
    <3>2. Carries
      BY <2>2, PublishCarries, SettleCarries, EndsCarries
    <3> QED  BY <3>1, <3>2, SameReaders
  <2> QED  BY <1>7, <2>1, <2>2 DEF FinishBuild
<1>8. ASSUME Watch PROVE ReadersOK'
  <2>1. CASE \E d \in {Manifest, Everything} : apply_rules(d)
    <3>1. reader' = reader
      BY <2>1 DEF apply_rules, watcherOnly
    <3> QED  BY <2>1, <3>1, ApplyRulesCarries, SameReaders
  <2>2. CASE FindReaders \/ \E d \in Sources \cup {Manifest, Everything} : Collect(d)
    <3>1. reader' = reader
      BY <2>2 DEF FindReaders, Collect, watcherOnly
    <3> QED  BY <2>2, <3>1, CollectCarries, SameReaders
  <2>3. CASE ForgetRemoved \/ Forget
    <3>1. reader' = reader
      BY <2>3 DEF ForgetRemoved, Forget
    <3> QED  BY <2>3, <3>1, RestCarries, SameReaders
  <2>4. CASE Mark
    <3>1. reader' = reader
      BY <2>4 DEF Mark, watcherOnly
    <3> QED  BY <2>4, <3>1, MarkCarries, SameReaders
  <2>5. CASE \E o \in Outs : StartEager(o)
    <3>1. reader' = reader
      BY <2>5 DEF StartEager, watcherOnly
    <3> QED  BY <2>5, <3>1, BroughtCarries, SameReaders
  <2>6. ASSUME NEW o \in Outs, PlaceFile(o) PROVE FALSE
    BY <2>6 DEF PlaceFile, CurrencyInv, IdleOK
  <2> QED  BY <1>8, <2>1, <2>2, <2>3, <2>4, <2>5, <2>6 DEF Watch
<1>9. ASSUME NEW restored \in SUBSET Outs, Restart(restored) PROVE ReadersOK'
  <2>1. \A r \in Readers : ReaderOK(r)'
    BY <1>9, RestartReader DEF ReadersOK
  <2> QED  BY <2>1 DEF ReadersOK
<1> QED  BY <1>1, <1>2, <1>3, <1>4, <1>5, <1>6, <1>7, <1>8, <1>9 DEF Next

-----------------------------------------------------------------------------
(* Whatever was opened is built again.                                     *)

\* Something o is made from is made by no rule.
NoRule(o) == \E p \in Reach(o) \cap Outs : ~Declared(p)

\* Only what cannot be built fails; and nothing that settles leaves a build
\* that will not run.
FailedOK ==
    \A i \in Attempts :
        /\ att[i].phase = "failed" => NoRule(att[i].out)
        /\ att[i].phase = "settled" =>
              att[i].orphaned = None /\ (att[i].ok \/ NoRule(att[i].out))

\* A build of o is under way, or some thread is about to start one.
Awaited(o) == watcher.at \in {"forget", "eager"} /\ o \in watcher.eager
Rebuilding(o) == o \in m_in_flight \/ o \in materializing \/ Awaited(o)

AtWorkOK == \A o \in m_materialized \cap m_stale : Rebuilding(o) \/ NoRule(o)

RestOK == FailedOK /\ AtWorkOK

LEMMA InitRest == Init => RestOK
<1> SUFFICES ASSUME Init PROVE RestOK
  OBVIOUS
<1>1. \A i \in Attempts : att[i].phase = "free"
  BY DEF Init, InitWith, Free
<1> QED  BY <1>1 DEF RestOK, FailedOK, AtWorkOK, Init, InitWith

LEMMA SameNoRule ==
    ASSUME m_commands' = m_commands, NEW o
    PROVE  NoRule(o)' <=> NoRule(o)
BY DEF NoRule, Declared, Reach

\* The build i ends no differently than before.
EndsAsItWas(i) ==
    att'[i].phase \in {"failed", "settled"} =>
        /\ att'[i].phase = att[i].phase /\ att'[i].out = att[i].out
        /\ att'[i].ok = att[i].ok /\ att'[i].orphaned = att[i].orphaned

LEMMA FailedStays ==
    ASSUME FailedOK, m_commands' = m_commands,
           \A i \in Attempts :
               \/ EndsAsItWas(i)
               \/ att'[i].phase = "failed" /\ NoRule(att'[i].out)
    PROVE  FailedOK'
<1> SUFFICES ASSUME NEW i \in Attempts
             PROVE  /\ att'[i].phase = "failed" => NoRule(att'[i].out)
                    /\ att'[i].phase = "settled" =>
                          att'[i].orphaned = None /\ (att'[i].ok \/ NoRule(att'[i].out))
  BY DEF FailedOK, NoRule, Declared, Reach
<1> QED  BY DEF FailedOK, EndsAsItWas

\* Builds may start, and no more is stale than was.
LEMMA WorkStays ==
    ASSUME AtWorkOK, m_commands' = m_commands,
           m_materialized' = m_materialized, m_stale' = m_stale,
           \A o \in Outs : o \in m_in_flight => o \in m_in_flight',
           \A o \in Outs : o \in materializing \/ Awaited(o) => Rebuilding(o)',
           m_stale \subseteq Outs
    PROVE  AtWorkOK'
BY SameNoRule DEF AtWorkOK, Rebuilding

\* Steps that leave what is stale, opened and in flight.
LEMMA SameRest ==
    ASSUME Inv, RestOK,
           UNCHANGED <<m_commands, m_stale, m_in_flight, m_materialized, materializing>>,
           watcher' = watcher \/ watcher.at \notin {"forget", "eager"},
           \A i \in Attempts :
               \/ EndsAsItWas(i)
               \/ att'[i].phase = "failed" /\ NoRule(att'[i].out)
    PROVE  RestOK'
<1>1. FailedOK'
  BY FailedStays DEF RestOK
<1>2. m_stale \subseteq Outs
  BY DEF Inv, TypeOK
<1>3. \A o \in Outs : o \in materializing \/ Awaited(o) => Rebuilding(o)'
  BY DEF Rebuilding, Awaited
<1>4. AtWorkOK'
  BY <1>2, <1>3, WorkStays DEF RestOK
<1> QED  BY <1>1, <1>4 DEF RestOK

LEMMA OutputRest ==
    ASSUME Inv, CurrencyInv, RestOK, NEW i \in Attempts, ReadOutput(i)
    PROVE  RestOK'
<1> DEFINE p == att[i].input
           k == IF p \in files THEN "running" ELSE "failed"
           mark == IF p \in att[i].reads THEN {} ELSE {Unrecorded}
           c == [att[i] EXCEPT !.phase = k, !.seen = @ \cup {p},
                               !.bytes = @ \cup content[p] \cup mark, !.input = None]
<1>1. /\ att[i] \in AttemptType /\ att[i].phase = "opening" /\ p \in Outs
      /\ att[i].out \in Outs
  BY DEF Inv, TypeOK, ReadOutput, Accounts, BuildsOK, InFlightOK, WaitersOK
<1>2. k = (IF p \in files THEN "running" ELSE "failed")
  OBVIOUS
<1>3. att' = [att EXCEPT ![i] = c] /\ UNCHANGED buildStep /\ materializing' = materializing
  BY DEF Inv, TypeOK, ReadOutput, buildOnly, buildStep, k
<1> HIDE DEF k
<1>4. c.phase = k /\ c.out = att[i].out
  BY <1>1 DEF AttemptType
<1> HIDE DEF c
<1>5. att'[i] = c /\ \A j \in Attempts \ {i} : att'[j] = att[j]
  BY <1>3 DEF Inv, TypeOK
<1>6. ASSUME p \notin files PROVE NoRule(att[i].out)
  <2>1. ~Declared(p) /\ p \in Inputs[att[i].out]
    BY <1>1, <1>6 DEF CurrencyInv, RulesOK, BuildOK
  <2>2. p \in Reach(att[i].out)
    BY <1>1, <2>1, ReachFacts
  <2> QED  BY <1>1, <2>1, <2>2 DEF NoRule
<1>7. \A j \in Attempts : \/ EndsAsItWas(j)
                          \/ att'[j].phase = "failed" /\ NoRule(att'[j].out)
  <2> TAKE j \in Attempts
  <2>1. CASE j = i
    BY <1>2, <1>4, <1>5, <1>6, <2>1 DEF EndsAsItWas
  <2>2. CASE j # i
    BY <1>5, <2>2 DEF EndsAsItWas
  <2> QED  BY <2>1, <2>2
<1> QED  BY <1>3, <1>7, SameRest DEF buildStep, bookVars

\* What waited on a build that failed is made from what cannot be built.
LEMMA CompleteRest ==
    ASSUME Inv, CurrencyInv, RestOK, NEW i \in Attempts, Complete(i)
    PROVE  RestOK'
<1>1. /\ UNCHANGED buildStep /\ att[i].phase = "settled"
      /\ att'[i].phase \in {"completed", "free"}
      /\ \A j \in Attempts \ {i} : \/ att'[j] = att[j]
                                   \/ att[j].phase = "next" /\ att'[j].phase = "free"
                                   \/ Wakes(i, j)
  BY CompleteFacts
<1>2. materializing' = materializing
  BY DEF Complete
<1>3. att[i].orphaned = None /\ (att[i].ok \/ NoRule(att[i].out))
  BY <1>1 DEF RestOK, FailedOK
<1>4. ASSUME NEW j \in Attempts \ {i}, Wakes(i, j), att'[j].phase = "failed"
      PROVE  NoRule(att'[j].out)
  <2>1. att[j].phase = "opening" /\ att[j].target = i /\ ~att[i].ok /\ att'[j].out = att[j].out
    BY <1>3, <1>4 DEF Wakes
  <2>2. /\ att[i].out = att[j].input /\ att[j].input \in Outs /\ att[j].out \in Outs
        /\ att[j].input \in Inputs[att[j].out]
    BY <2>1, NoneAssumption DEF NoneAssumption, Inv, Accounts, BuildsOK, InFlightOK,
       WaitersOK, IsComing, CurrencyInv, BuildOK
  <2>3. Reach(att[i].out) \subseteq Reach(att[j].out)
    BY <2>2, ReachFacts
  <2> QED  BY <1>3, <2>1, <2>3 DEF NoRule
<1>5. \A j \in Attempts : \/ EndsAsItWas(j)
                          \/ att'[j].phase = "failed" /\ NoRule(att'[j].out)
  <2> TAKE j \in Attempts
  <2>1. CASE j = i
    BY <1>1, <2>1 DEF EndsAsItWas
  <2>2. CASE j # i
    <3>1. CASE Wakes(i, j)
      BY <1>4, <2>2, <3>1 DEF Wakes, EndsAsItWas
    <3> QED  BY <1>1, <2>2, <3>1 DEF EndsAsItWas
  <2> QED  BY <2>1, <2>2
<1> QED  BY <1>1, <1>2, <1>5, SameRest DEF buildStep, bookVars

\* An output that settles is built once more, or is up to date, or has failed.
LEMMA SettleRest ==
    ASSUME Inv, CurrencyInv, RestOK, NEW i \in Attempts, Settle(i)
    PROVE  RestOK'
<1>1. SettlesLast(i) \/ \E n \in Attempts : Reclaims(i, n)
  BY SettleFacts
<1>2. /\ UNCHANGED <<m_commands, m_materialized, watcher, materializing>>
      /\ att[i].phase \in {"published", "failed"}
  BY DEF Settle
<1>3. att[i].orphaned = None /\ (att[i].ok \/ NoRule(att[i].out))
  BY <1>2 DEF Inv, Accounts, BuildsOK, OrphansOK, UnderWay, CurrencyInv, BuildOK, RestOK,
     FailedOK
<1>4. /\ att'[i].phase = "settled" /\ att'[i].out = att[i].out /\ att'[i].ok = att[i].ok
      /\ att'[i].orphaned = att[i].orphaned
  BY <1>1 DEF SettlesLast, Reclaims, Settles
<1>5. \A j \in Attempts \ {i} : EndsAsItWas(j)
  BY <1>1 DEF SettlesLast, Reclaims, EndsAsItWas, IsNew
<1>6. FailedOK'
  <2> SUFFICES ASSUME NEW j \in Attempts
               PROVE  /\ att'[j].phase = "failed" => NoRule(att'[j].out)
                      /\ att'[j].phase = "settled" =>
                            /\ att'[j].orphaned = None
                            /\ att'[j].ok \/ NoRule(att'[j].out)
    BY <1>2 DEF FailedOK, NoRule, Declared, Reach
  <2>1. CASE j = i
    BY <1>3, <1>4, <2>1
  <2>2. CASE j # i
    BY <1>5, <2>2 DEF EndsAsItWas, RestOK, FailedOK
  <2> QED  BY <2>1, <2>2
<1>7. AtWorkOK'
  <2> SUFFICES ASSUME NEW o \in m_materialized, o \in m_stale'
               PROVE  Rebuilding(o)' \/ NoRule(o)
    BY <1>2, SameNoRule DEF AtWorkOK
  <2>1. CASE o = att[i].out
    <3>1. CASE SettlesLast(i)
      BY <1>3, <2>1, <3>1 DEF SettlesLast, Rebuilds, StaleAfter
    <3>2. CASE ~SettlesLast(i)
      BY <1>1, <2>1, <3>2 DEF Reclaims
    <3> QED  BY <3>1, <3>2
  <2>2. CASE o # att[i].out
    <3>1. o \in m_stale /\ (o \in m_in_flight => o \in m_in_flight')
      BY <1>1, <2>2 DEF SettlesLast, Reclaims, StaleAfter
    <3>2. Rebuilding(o) \/ NoRule(o)
      BY <3>1 DEF RestOK, AtWorkOK
    <3> QED  BY <1>2, <3>1, <3>2 DEF Rebuilding, Awaited
  <2> QED  BY <2>1, <2>2
<1> QED  BY <1>6, <1>7 DEF RestOK

\* An open of o, or a thread whose turn it is to build o, starts a build of it
\* if it is stale and none is under way.
LEMMA BroughtRest ==
    ASSUME Inv, RestOK, NEW o \in Outs, NEW b, Brought(o, b), m_commands' = m_commands,
           \A j \in Attempts : att'[j] = b[j] \/ (b[j] = att[j] /\ Opens(j)),
           m_materialized' \subseteq m_materialized \cup {o},
           o \in m_stale' => o \in m_in_flight',
           \A p \in Outs \ {o} :
               /\ p \in materializing => p \in materializing'
               /\ Awaited(p) => Awaited(p)'
    PROVE  RestOK'
<1>1. /\ m_stale' \subseteq m_stale /\ m_stale \subseteq Outs
      /\ \A p \in m_in_flight : p \in m_in_flight'
  BY DEF Brought, Queues, Begins, Inv, TypeOK
<1>2. \A j \in Attempts : EndsAsItWas(j)
  <2> TAKE j \in Attempts
  <2>1. CASE att'[j] = b[j]
    BY <2>1 DEF Brought, Queues, Begins, IsNew, EndsAsItWas
  <2>2. CASE Opens(j)
    BY <2>2 DEF Opens, EndsAsItWas
  <2> QED  BY <2>1, <2>2
<1>3. FailedOK'
  BY <1>2, FailedStays DEF RestOK
<1>4. AtWorkOK'
  <2> SUFFICES ASSUME NEW p \in m_materialized', p \in m_stale'
               PROVE  Rebuilding(p)' \/ NoRule(p)
    BY SameNoRule DEF AtWorkOK
  <2>1. CASE p = o
    BY <2>1 DEF Rebuilding
  <2>2. CASE p # o
    <3>1. Rebuilding(p) \/ NoRule(p)
      BY <1>1, <2>2 DEF RestOK, AtWorkOK
    <3> QED  BY <1>1, <2>2, <3>1 DEF Rebuilding
  <2> QED  BY <2>1, <2>2
<1> QED  BY <1>3, <1>4 DEF RestOK

LEMMA OpenFlies ==
    ASSUME TypeOK, NEW o \in Outs, bring_up_to_date(o)
    PROVE  /\ m_materialized' \subseteq m_materialized \cup {o}
           /\ o \in m_stale' => o \in m_in_flight'
BY DEF bring_up_to_date, Opened, Awaits, Claims, Joins, claim_build, TypeOK

LEMMA OpenRest ==
    ASSUME Inv, RestOK, NEW o \in Outs,
           \/ \E r \in Readers : open(r, o)
           \/ \E i \in Attempts : OpenOutput(i) /\ o = att[i].input
    PROVE  RestOK'
<1>1. bring_up_to_date(o) /\ UNCHANGED <<m_commands, materializing, watcher>>
  BY DEF open, OpenOutput, bookRest, buildOnly
<1>2. Brought(o, WithTarget(o))
  BY <1>1, OpenBrings DEF Inv
<1>3. /\ m_materialized' \subseteq m_materialized \cup {o}
      /\ o \in m_stale' => o \in m_in_flight'
  BY <1>1, OpenFlies DEF Inv
<1>4. \A j \in Attempts : \/ att'[j] = WithTarget(o)[j]
                          \/ WithTarget(o)[j] = att[j] /\ Opens(j)
  <2>1. CASE \E r \in Readers : open(r, o)
    <3>1. att' = WithTarget(o)
      BY <2>1 DEF open
    <3> QED  BY <3>1
  <2>2. ASSUME NEW i \in Attempts, OpenOutput(i), o = att[i].input
        PROVE  \A j \in Attempts : \/ att'[j] = WithTarget(o)[j]
                                   \/ WithTarget(o)[j] = att[j] /\ Opens(j)
    <3> DEFINE b == WithTarget(o)
               c == [b[i] EXCEPT !.phase = "opening", !.target = Target(o)]
    <3>1. b \in [Attempts -> AttemptType] /\ att[i].phase = "asked" /\ b[i] = att[i]
      BY <1>1, <2>2, OpenFacts DEF Inv, OpenOutput, UnderWay
    <3>2. att' = [b EXCEPT ![i] = c]
      BY <2>2, <3>1 DEF OpenOutput
    <3> HIDE DEF b
    <3>3. c.phase = "opening" /\ c.out = att[i].out
      BY <3>1 DEF AttemptType
    <3> HIDE DEF c
    <3>4. att'[i] = c /\ \A j \in Attempts \ {i} : att'[j] = b[j]
      BY <3>1, <3>2
    <3>5. Opens(i)
      BY <3>1, <3>3, <3>4 DEF Opens
    <3>6. \A j \in Attempts : att'[j] = b[j] \/ (b[j] = att[j] /\ Opens(j))
      BY <3>1, <3>4, <3>5
    <3> QED  BY <3>6 DEF b
  <2> QED  BY <2>1, <2>2
<1>5. \A p \in Outs \ {o} : /\ p \in materializing => p \in materializing'
                            /\ Awaited(p) => Awaited(p)'
  <2>1. UNCHANGED <<materializing, watcher>>
    BY <1>1
  <2> QED  BY <2>1 DEF Awaited
<1> QED  BY <1>1, <1>2, <1>3, <1>4, <1>5, BroughtRest

LEMMA StartFlies ==
    ASSUME TypeOK, NEW o \in Outs, start_build(o)
    PROVE  o \in m_stale' => o \in m_in_flight'
BY DEF start_build, claim_build, TypeOK

LEMMA MaterializeNextRest ==
    ASSUME Inv, RestOK, NEW o \in Outs, MaterializeNext(o)
    PROVE  RestOK'
<1>1. /\ start_build(o) /\ UNCHANGED <<m_commands, m_materialized, watcher>>
      /\ materializing' = materializing \ {o}
  BY DEF MaterializeNext, bookRest
<1>2. Brought(o, att') /\ (o \in m_stale' => o \in m_in_flight')
  BY <1>1, StartBrings, StartFlies DEF Inv
<1>3. \A p \in Outs \ {o} : /\ p \in materializing => p \in materializing'
                            /\ Awaited(p) => Awaited(p)'
  BY <1>1 DEF Awaited
<1> QED  BY <1>1, <1>2, <1>3, BroughtRest

\* The watcher goes on to what is left to build.
LEMMA OnwardEager ==
    ASSUME NEW w \in WatcherType, w.eager # {}
    PROVE  Onward(w).at = "eager" /\ Onward(w).eager = w.eager
<1>1. Onward(w) = [w EXCEPT !.at = "eager"]
  BY DEF Onward
<1> QED  BY <1>1 DEF WatcherType

LEMMA StartEagerRest ==
    ASSUME Inv, RestOK, NEW o \in Outs, StartEager(o)
    PROVE  RestOK'
<1>1. start_build(o) /\ UNCHANGED <<m_commands, m_materialized, materializing>>
  BY DEF StartEager, watcherOnly, bookRest
<1>2. Brought(o, att') /\ (o \in m_stale' => o \in m_in_flight')
  BY <1>1, StartBrings, StartFlies DEF Inv
<1>3. PICK w : w = [watcher EXCEPT !.eager = @ \ {o}]
  OBVIOUS
<1>4. w \in WatcherType /\ w.eager = watcher.eager \ {o} /\ watcher' = Onward(w)
  BY <1>3 DEF StartEager, Inv, TypeOK, WatcherType
<1>5. \A p \in Outs \ {o} : Awaited(p) => Awaited(p)'
  <2> SUFFICES ASSUME NEW p \in Outs \ {o}, Awaited(p)
               PROVE  Awaited(p)'
    OBVIOUS
  <2>1. p \in w.eager
    BY <1>4 DEF Awaited
  <2>2. watcher'.at = "eager" /\ watcher'.eager = w.eager
    BY <1>4, <2>1, OnwardEager
  <2> QED  BY <2>1, <2>2 DEF Awaited
<1> QED  BY <1>1, <1>2, <1>5, BroughtRest

LEMMA ForgetRest ==
    ASSUME Inv, RestOK, Forget
    PROVE  RestOK'
<1>1. UNCHANGED <<m_commands, m_stale, m_in_flight, m_materialized, materializing, att>>
  BY DEF Forget, bookVars
<1>2. PICK w : w = [watcher EXCEPT !.outputs = {}]
  OBVIOUS
<1>3. w \in WatcherType /\ w.eager = watcher.eager /\ watcher' = Onward(w)
  BY <1>2 DEF Forget, Inv, TypeOK, WatcherType
<1>4. \A o \in Outs : Awaited(o) => Awaited(o)'
  <2> SUFFICES ASSUME NEW o \in Outs, Awaited(o)
               PROVE  Awaited(o)'
    OBVIOUS
  <2>1. o \in w.eager
    BY <1>3 DEF Awaited
  <2>2. watcher'.at = "eager" /\ watcher'.eager = w.eager
    BY <1>3, <2>1, OnwardEager
  <2> QED  BY <2>1, <2>2 DEF Awaited
<1>5. FailedOK'
  BY <1>1, FailedStays DEF EndsAsItWas, RestOK
<1>6. AtWorkOK'
  BY <1>1, <1>4, WorkStays DEF Rebuilding, RestOK, Inv, TypeOK
<1> QED  BY <1>5, <1>6 DEF RestOK

\* What Mark makes stale is left to the build under way, if there is one, and
\* to the watcher itself if it was opened.
LEMMA MarkRest ==
    ASSUME Inv, RestOK, Mark
    PROVE  RestOK'
<1> DEFINE seen == Downstream(watcher.outputs)
           early == (seen \cap m_materialized) \ m_in_flight
           marked == [watcher EXCEPT !.at = "forget", !.outputs = seen, !.upto = None,
                                     !.eager = early]
           last == [marked EXCEPT !.outputs = {}]
<1>1. /\ UNCHANGED <<m_commands, m_in_flight, m_materialized, materializing>>
      /\ watcher.at = "mark" /\ m_stale' = m_stale \cup seen
      /\ att' = Misses(Reading(seen) \ seen)
      /\ watcher' = (IF HasCache /\ seen # {} THEN marked ELSE Onward(last))
  BY DEF Mark, watcherOnly
<1>2. seen \subseteq Outs /\ early \subseteq Outs /\ watcher \in WatcherType
  BY DownstreamFacts DEF Inv, TypeOK
<1>3. \A o \in early : Awaited(o)'
  <2> SUFFICES ASSUME NEW o \in early PROVE Awaited(o)'
    OBVIOUS
  <2> HIDE DEF seen, early
  <2>1. CASE HasCache /\ seen # {}
    <3>1. watcher'.at = "forget" /\ watcher'.eager = early
      BY <1>1, <1>2, <2>1 DEF WatcherType
    <3> QED  BY <3>1 DEF Awaited
  <2>2. CASE ~(HasCache /\ seen # {})
    <3>1. last \in WatcherType /\ last.eager = early
      BY <1>2 DEF WatcherType
    <3> HIDE DEF last
    <3>2. watcher'.at = "eager" /\ watcher'.eager = early
      BY <1>1, <2>2, <3>1, OnwardEager
    <3> QED  BY <3>2 DEF Awaited
  <2> QED  BY <2>1, <2>2
<1>4. \A j \in Attempts : EndsAsItWas(j)
  <2> TAKE j \in Attempts
  <2>1. /\ att'[j].phase = att[j].phase
        /\ att'[j].out = att[j].out /\ att'[j].ok = att[j].ok
        /\ att'[j].orphaned = att[j].orphaned
    BY <1>1, MissesCases DEF Inv
  <2> QED  BY <2>1 DEF EndsAsItWas
<1>5. FailedOK'
  BY <1>1, <1>4, FailedStays DEF RestOK
<1>6. AtWorkOK'
  <2> SUFFICES ASSUME NEW o \in m_materialized, o \in m_stale'
               PROVE  Rebuilding(o)' \/ NoRule(o)
    BY <1>1, SameNoRule DEF AtWorkOK
  <2>1. CASE o \in seen
    BY <1>1, <1>3, <2>1 DEF Rebuilding
  <2>2. CASE o \notin seen
    BY <1>1, <2>2 DEF RestOK, AtWorkOK, Rebuilding, Awaited
  <2> QED  BY <2>1, <2>2
<1> QED  BY <1>5, <1>6 DEF RestOK

\* materialize_all() has everything still to build.
LEMMA MaterializeAllRest ==
    ASSUME Inv, Inv', RestOK, materialize_all
    PROVE  RestOK'
<1>1. /\ UNCHANGED <<m_commands, att>>
      /\ materializing' = {o \in Outs : Declared(o)}
  BY DEF materialize_all
<1>2. FailedOK'
  BY <1>1, FailedStays DEF EndsAsItWas, RestOK
<1>3. m_materialized' \subseteq materializing'
  BY <1>1 DEF Inv, TypeOK, Declared
<1>4. AtWorkOK'
  BY <1>3 DEF AtWorkOK, Rebuilding
<1> QED  BY <1>2, <1>4 DEF RestOK

LEMMA RestartRest ==
    ASSUME NEW restored, Restart(restored)
    PROVE  RestOK'
<1>1. /\ \A i \in Attempts : att'[i].phase = "free"
      /\ m_materialized' = {}
  BY DEF Restart, Free
<1>2. FailedOK'
  BY <1>1 DEF FailedOK
<1>3. AtWorkOK'
  BY <1>1 DEF AtWorkOK
<1> QED  BY <1>2, <1>3 DEF RestOK

LEMMA OtherRest ==
    ASSUME Inv, CurrencyInv, RestOK,
           \/ \E s \in Sources : Change(s)
           \/ Overflow
           \/ \E r \in Readers : ReadOpened(r)
           \/ \E d \in {Manifest, Everything} : apply_rules(d)
           \/ ForgetRemoved
           \/ UNCHANGED vars
    PROVE  RestOK'
<1>1. UNCHANGED <<m_commands, m_stale, m_in_flight, m_materialized, materializing, att>>
  BY RulesStay DEF Change, Overflow, ReadOpened, ForgetRemoved, apply_rules, watcherOnly,
     bookVars, threadVars, vars
<1>2. watcher' = watcher \/ watcher.at \notin {"forget", "eager"}
  BY DEF Change, Overflow, ReadOpened, ForgetRemoved, apply_rules, threadVars, vars
<1> QED  BY <1>1, <1>2, SameRest DEF EndsAsItWas

LEMMA MissesRest ==
    ASSUME Inv, RestOK,
           FindReaders \/ \E d \in Sources \cup {Manifest, Everything} : Collect(d)
    PROVE  RestOK'
<1>1. /\ UNCHANGED <<m_commands, m_stale, m_in_flight, m_materialized, materializing>>
      /\ watcher.at \notin {"forget", "eager"}
      /\ \E O : att' = Misses(O)
  BY DEF FindReaders, Collect, watcherOnly, bookVars
<1>2. \A j \in Attempts : EndsAsItWas(j)
  <2> TAKE j \in Attempts
  <2>1. /\ att'[j].phase = att[j].phase
        /\ att'[j].out = att[j].out /\ att'[j].ok = att[j].ok
        /\ att'[j].orphaned = att[j].orphaned
    BY <1>1, MissesCases DEF Inv
  <2> QED  BY <2>1 DEF EndsAsItWas
<1> QED  BY <1>1, <1>2, SameRest

\* A build that goes on, and does not fail.
LEMMA BuildRest ==
    ASSUME Inv, CurrencyInv, RestOK, NEW i \in Attempts,
           \/ \E s \in Sources : ReadSource(i, s)
           \/ \E o \in Outs : RecordRead(i, o)
           \/ Publish(i) \/ KeepCheck(i) \/ KeepStore(i)
    PROVE  RestOK'
<1>1. UNCHANGED <<m_commands, m_stale, m_in_flight, m_materialized, materializing, watcher>>
  BY DEF ReadSource, RecordRead, Publish, KeepCheck, KeepStore, buildOnly, bookVars
<1>2. /\ att'[i].phase \notin {"failed", "settled"}
      /\ \A j \in Attempts \ {i} : att'[j] = att[j]
  <2>1. CASE \E s \in Sources : ReadSource(i, s)
    <3>1. PICK s \in Sources : ReadSource(i, s)
      BY <2>1
    <3>2. att[i].phase = "running" /\ att[i] \in AttemptType
      BY <3>1 DEF ReadSource, Running, Inv, TypeOK
    <3>3. PICK rd, sn, b : att' = [att EXCEPT ![i].reads = rd, ![i].seen = sn,
                                              ![i].bytes = b]
      BY <3>1 DEF ReadSource
    <3>4. att'[i].phase = "running" /\ \A j \in Attempts \ {i} : att'[j] = att[j]
      BY <3>2, <3>3 DEF Inv, TypeOK, AttemptType
    <3> QED  BY <3>4
  <2>2. CASE Publish(i)
    BY <2>2, PublishFacts
  <2>3. CASE KeepCheck(i)
    <3>1. att[i] \in AttemptType
      BY DEF Inv, TypeOK
    <3>2. PICK k, st : att' = [att EXCEPT ![i].phase = "keeping", ![i].keep = k,
                                          ![i].stamps = st]
      BY <2>3 DEF KeepCheck
    <3>3. att'[i].phase = "keeping" /\ \A j \in Attempts \ {i} : att'[j] = att[j]
      BY <3>1, <3>2 DEF Inv, TypeOK, AttemptType
    <3> QED  BY <3>3
  <2>4. CASE KeepStore(i)
    BY <2>4 DEF KeepStore, Free, Inv, TypeOK
  <2>5. CASE \E o \in Outs : RecordRead(i, o)
    <3>1. PICK o \in Outs : RecordRead(i, o)
      BY <2>5
    <3>2. att[i] \in AttemptType
      BY DEF Inv, TypeOK
    <3>3. PICK rd : att' = [att EXCEPT ![i].phase = "asked", ![i].input = o,
                                       ![i].reads = rd]
      BY <3>1 DEF RecordRead
    <3>4. att'[i].phase = "asked" /\ \A j \in Attempts \ {i} : att'[j] = att[j]
      BY <3>2, <3>3 DEF Inv, TypeOK, AttemptType
    <3> QED  BY <3>4
  <2> QED  BY <2>1, <2>2, <2>3, <2>4, <2>5
<1>3. \A j \in Attempts : EndsAsItWas(j)
  BY <1>2 DEF EndsAsItWas
<1> QED  BY <1>1, <1>3, SameRest

LEMMA StepRest ==
    ASSUME Static, ~MayFail, Inv, Inv', CurrencyInv, RestOK, [Next]_vars
    PROVE  RestOK'
<1>1. CASE \/ \E s \in Sources : Change(s)
           \/ Overflow \/ UNCHANGED vars
           \/ \E r \in Readers : ReadOpened(r)
  BY <1>1, OtherRest
<1>2. CASE \E o \in Outs, rule \in 0..2 : EditManifest(o, rule)
  BY <1>2 DEF EditManifest, Static, Inv, TypeOK
<1>3. CASE \E r \in Readers, o \in Outs : open(r, o)
  BY <1>3, OpenRest
<1>4. CASE materialize_all \/ \E o \in Outs : MaterializeNext(o)
  BY <1>4, MaterializeAllRest, MaterializeNextRest
<1>5. ASSUME NEW i \in Attempts, Build(i) PROVE RestOK'
  <2>1. CASE OpenOutput(i)
    <3>1. PICK o \in Outs : o = att[i].input
      BY <2>1 DEF OpenOutput, Inv, Accounts, BuildsOK, WaitersOK
    <3> QED  BY <2>1, <3>1, OpenRest
  <2>2. CASE ~OpenOutput(i)
    BY <1>5, <2>2, BuildRest, OutputRest DEF Build, Fail
  <2> QED  BY <2>1, <2>2
<1>6. ASSUME NEW i \in Attempts, FinishBuild(i) PROVE RestOK'
  BY <1>6, BuildRest, SettleRest, CompleteRest DEF FinishBuild
<1>7. CASE Watch
  <2>1. ASSUME NEW o \in Outs, PlaceFile(o) PROVE FALSE
    BY <2>1 DEF PlaceFile, CurrencyInv, IdleOK
  <2> QED
    BY <1>7, <2>1, OtherRest, MissesRest, MarkRest, ForgetRest, StartEagerRest DEF Watch
<1>8. CASE \E restored \in SUBSET Outs : Restart(restored)
  BY <1>8, RestartRest
<1> QED  BY <1>1, <1>2, <1>3, <1>4, <1>5, <1>6, <1>7, <1>8 DEF Next

LEMMA AtRest ==
    ASSUME Inv, RestOK
    PROVE  OpenedAtRest
<1> SUFFICES ASSUME Quiet, materializing = {}, \A k \in Attempts : att[k] = Free,
                    NEW o \in m_materialized \cap m_stale
             PROVE  Unbuildable(o)
  BY DEF OpenedAtRest
<1>1. o \in Outs /\ \A k \in Attempts : att[k].phase = "free"
  BY DEF Inv, TypeOK, Free
<1>2. o \notin m_in_flight
  BY <1>1 DEF Inv, Accounts, BuildsOK, InFlightOK, Builds, UnderWay
<1>3. ~Awaited(o)
  BY DEF Awaited, Quiet, Idle
<1>4. NoRule(o)
  BY <1>1, <1>2, <1>3 DEF RestOK, AtWorkOK, Rebuilding
<1> QED  BY <1>4 DEF NoRule, Unbuildable

-----------------------------------------------------------------------------
(* Every step keeps the invariant, and so it holds throughout.             *)

LEMMA RestartQuiet ==
    ASSUME Static, NEW restored, Restart(restored)
    PROVE  Quiet
BY RestartsAssumption DEF Static, Restart, RestartsAssumption

LEMMA StepCurrency ==
    ASSUME Static, Inv, Inv', CurrencyInv, CacheInv, [Next]_vars
    PROVE  CurrencyInv' /\ CacheInv'
<1>1. CASE \E s \in Sources : Change(s)
  BY <1>1, ChangeCurrency, RestCache
<1>2. CASE \E o \in Outs, rule \in 0..2 : EditManifest(o, rule)
  BY <1>2 DEF EditManifest, Static, Inv, TypeOK
<1>3. CASE Overflow
  BY <1>3, OverflowCurrency, RestCache
<1>4. CASE materialize_all \/ (\E r \in Readers : ReadOpened(r)) \/ UNCHANGED vars
  BY <1>4, RestCurrency, RestCache
<1>5. ASSUME NEW r \in Readers, NEW o \in Outs, open(r, o)
      PROVE  CurrencyInv' /\ CacheInv'
  BY <1>5, OpenCurrency, OpenCache
<1>6. ASSUME NEW o \in Outs, MaterializeNext(o)
      PROVE  CurrencyInv' /\ CacheInv'
  BY <1>6, MaterializeNextCurrency, OpenCache
<1>7. ASSUME NEW i \in Attempts, Build(i)
      PROVE  CurrencyInv' /\ CacheInv'
  <2>1. CASE Fail(i)
    BY <2>1, FailCurrency, ReadCache
  <2>2. CASE ReadOutput(i)
    BY <2>2, ReadOutputCurrency, ReadCache
  <2>3. CASE \E s \in Sources : ReadSource(i, s)
    BY <2>3, ReadSourceCurrency, ReadCache
  <2>4. CASE OpenOutput(i)
    BY <2>4, OpenOutputCurrency, OpenOutputCache
  <2>5. CASE \E o \in Outs : RecordRead(i, o)
    BY <2>5, RecordReadCurrency, ReadCache
  <2> QED  BY <1>7, <2>1, <2>2, <2>3, <2>4, <2>5 DEF Build
<1>8. ASSUME NEW i \in Attempts, FinishBuild(i)
      PROVE  CurrencyInv' /\ CacheInv'
  <2>1. CASE Publish(i)
    BY <2>1, PublishCurrency, PublishCache
  <2>2. CASE Settle(i)
    BY <2>2, SettleCurrency, SettleCache
  <2>3. CASE Complete(i)
    BY <2>3, CompleteCurrency, CompleteCache
  <2>4. CASE KeepCheck(i)
    BY <2>4, KeepCurrency, KeepCheckCache
  <2>5. CASE KeepStore(i)
    BY <2>5, KeepCurrency, KeepStoreCache
  <2> QED  BY <1>8, <2>1, <2>2, <2>3, <2>4, <2>5 DEF FinishBuild
<1>9. ASSUME Watch
      PROVE  CurrencyInv' /\ CacheInv'
  <2>1. CASE \E d \in {Manifest, Everything} : apply_rules(d)
    BY <2>1, ApplyRulesCurrency, ApplyRulesCache
  <2>2. CASE FindReaders
    BY <2>2, FindReadersCurrency, CollectCache
  <2>3. CASE \E d \in Sources \cup {Manifest, Everything} : Collect(d)
    BY <2>3, CollectCurrency, CollectCache
  <2>4. CASE ForgetRemoved \/ Forget
    BY <2>4, ForgetCurrency, ForgetCache DEF Static
  <2>5. CASE Mark
    BY <2>5, MarkCurrency, MarkCache
  <2>6. CASE \E o \in Outs : StartEager(o)
    BY <2>6, StartEagerCurrency, OpenCache
  <2>7. ASSUME NEW o \in Outs, PlaceFile(o) PROVE FALSE
    BY <2>7 DEF PlaceFile, CurrencyInv, IdleOK
  <2> QED  BY <1>9, <2>1, <2>2, <2>3, <2>4, <2>5, <2>6, <2>7 DEF Watch
<1>10. CASE \E restored \in SUBSET Outs : Restart(restored)
  BY <1>10, RestartQuiet, RestartCurrency, RestartCache
<1> QED  BY <1>1, <1>2, <1>3, <1>4, <1>5, <1>6, <1>7, <1>8, <1>9, <1>10 DEF Next

(* What is said of the bytes of outputs, of builds under way and of the    *)
(* records of the cache holds in every reachable state, while the rules    *)
(* stay and no tree is created over the cache with a change on its way,    *)
(* whatever the cache fails to store or to drop.                           *)
THEOREM CurrencyInvariance == Static => (Spec => [](CurrencyInv /\ CacheInv))
<1> SUFFICES ASSUME Static PROVE Spec => [](CurrencyInv /\ CacheInv)
  OBVIOUS
<1>1. Inv /\ Inv' /\ CurrencyInv /\ CacheInv /\ [Next]_vars => CurrencyInv' /\ CacheInv'
  BY StepCurrency
<1> QED  BY <1>1, InitCurrency, InitCache, Invariance, PTL DEF Spec

(* An output that counts as up to date has been made from its sources as   *)
(* of every change that has been applied, or a build of it was told that   *)
(* it read too early, or it comes from a record that could not be dropped: *)
(* however changes, lost events, failed builds, opens and rebuilds         *)
(* interleave.                                                             *)
THEOREM CleanAlwaysCurrent == Static => (Spec => []CleanIsCurrent)
<1> SUFFICES ASSUME Static PROVE Spec => []CleanIsCurrent
  OBVIOUS
<1>1. Inv /\ CurrencyInv => CleanIsCurrent
  BY CurrentWhenClean DEF Inv, CurrencyInv
<1> QED  BY <1>1, Invariance, CurrencyInvariance, PTL

(* Once no change is on its way, an output that counts as up to date has   *)
(* the bytes a build from everything as it is now would give it.           *)
THEOREM QuietAlwaysExact == Static => (Spec => []QuietIsExact)
<1> SUFFICES ASSUME Static PROVE Spec => []QuietIsExact
  OBVIOUS
<1>1. Inv /\ CurrencyInv => QuietIsExact
  BY ExactWhenQuiet DEF Inv
<1> QED  BY <1>1, Invariance, CurrencyInvariance, PTL

(* Once no change is on its way, a record that a new tree would restore    *)
(* has the bytes a build from everything as it is now would give: although *)
(* it is stored after the build, and its stamps are taken then, no change  *)
(* that comes in between is missed, nor one that goes on while the records *)
(* of what it made stale are dropped.  It is so although the cache may     *)
(* fail to store a record, or to drop those of outputs that go out of      *)
(* date, and keep_in_cache and forget_in_cache then go on: the only        *)
(* records excepted are those left so, until they are stored or dropped,   *)
(* and what a restart served with them or a build then made of that.       *)
THEOREM RecordsAlwaysHold == Static => (Spec => []RecordsHold)
<1> SUFFICES ASSUME Static PROVE Spec => []RecordsHold
  OBVIOUS
<1>1. Inv /\ CurrencyInv /\ CacheInv => RecordsHold
  BY RecordsWhenQuiet
<1> QED  BY <1>1, Invariance, CurrencyInvariance, PTL

(* What a reader gets when its open returns has been made from its sources *)
(* as of every change that had been applied when it opened the file, or a  *)
(* build missed one: also when it waited for a build that was under way    *)
(* then, and whatever goes out of date before it is answered.              *)
THEOREM OpenAlwaysCurrent == Static => (Spec => []OpenIsCurrent)
<1> SUFFICES ASSUME Static PROVE Spec => []OpenIsCurrent
  OBVIOUS
<1>1. Inv /\ Inv' /\ CurrencyInv /\ ReadersOK /\ [Next]_vars => ReadersOK'
  BY StepReaders
<1>2. ReadersOK => OpenIsCurrent
  BY DEF ReadersOK, ReaderOK, OpenIsCurrent
<1> QED  BY <1>1, <1>2, InitReaders, Invariance, CurrencyInvariance, PTL DEF Spec

(* When nothing is on its way and no build is under way, every output that *)
(* was opened once is up to date, but for those made from one that no rule *)
(* makes, or whose last build failed having missed a change: no rebuild is *)
(* forgotten, whether the change came before, during or after the build,   *)
(* if commands do not fail by themselves.                                  *)
THEOREM OpenedAlwaysRebuilt == Static /\ ~MayFail => (Spec => []OpenedAtRest)
<1> SUFFICES ASSUME Static, ~MayFail PROVE Spec => []OpenedAtRest
  OBVIOUS
<1>1. Inv /\ Inv' /\ CurrencyInv /\ RestOK /\ [Next]_vars => RestOK'
  BY StepRest
<1>2. Inv /\ RestOK => OpenedAtRest
  BY AtRest
<1> QED  BY <1>1, <1>2, InitRest, Invariance, CurrencyInvariance, PTL DEF Spec

=============================================================================
