------------------------- MODULE BuildDirectoryTree -------------------------
(***************************************************************************)
(* BuildDirectoryTree (src/src/builddirectorytree.cpp): which outputs are  *)
(* out of date, which build brings them up to date, what an open waits     *)
(* for, and what is kept in the cache for the next run.                    *)
(*                                                                         *)
(* The threads are the readers, the builds' completions and the one        *)
(* watcher thread that delivers source changes; a step is one critical     *)
(* section of m_mutex (or of m_layout_mutex around it), or a step outside  *)
(* them.  The coordinator is what it promises: it runs what it is given,   *)
(* and complete() hands an attempt's result to whoever waits on it (see    *)
(* BuildCoordinator for how).                                              *)
(*                                                                         *)
(* The bytes of an output are the pairs <<x, v>> it was made from: v the   *)
(* version of each source file and of each command that went into it,      *)
(* directly or through other outputs.  A placeholder is made from nothing. *)
(* Bytes carry the mark Missed if a change came in during a build that     *)
(* could not be matched to it, since the input was not among those         *)
(* recorded for the output, or if they come from a record that was to be   *)
(* dropped and could not be; and the mark Unrecorded if the build read an  *)
(* output that it had opened while no rule made it, which is not recorded  *)
(* at all.  Only the properties look at the marks.                         *)
(***************************************************************************)
EXTENDS Naturals, FiniteSets

CONSTANTS Sources, Outs,     \* source files, and outputs some manifest declares
          Inputs,            \* what each output's command reads
          Copies,            \* the pairs <<output, rule>> that copy an output
          Attempts,          \* names for the builds under way at one time
          Readers,           \* what opens files from outside every build
          FirstManifest,     \* the rules at the start
          MaxVersion,        \* bound on the versions of a source file
          MaxEdits,          \* bound on the edits of the manifest
          MaxChanges,        \* bound on both together
          MayOverflow,       \* whether the watcher may report everything dirty
          MayFail,           \* whether commands may fail
          MayMaterializeAll, \* whether materialize_all() is called
          HasCache,          \* whether builds are kept for the next run
          Restarts,          \* "never", "quiet" or "any"
          CacheFails,        \* what may fail of the cache: "keep" (keeping a
                             \* build), "drop" (dropping records)
          None

ASSUME InputsAssumption == Inputs \in [Outs -> SUBSET (Sources \cup Outs)]
ASSUME CopiesAssumption ==
    Copies \subseteq {c \in Outs \X (1..2) : \E p \in Outs : Inputs[c[1]] = {p}}
ASSUME ManifestAssumption == FirstManifest \in [Outs -> 0..2]
ASSUME NoneAssumption == None \notin Attempts \cup Outs
ASSUME BoundsAssumption == {MaxVersion, MaxEdits, MaxChanges} \subseteq Nat
ASSUME RestartsAssumption == Restarts \in {"never", "quiet", "any"}
ASSUME CacheFailsAssumption == CacheFails \subseteq {"keep", "drop"}

VARIABLES
    \* the source tree: a version per file, the manifest's rule per output (0
    \* for none), and what the watcher has yet to report
    version, manifest, edits, pending,
    \* what m_mutex guards
    m_commands, m_stale, m_in_flight, next, m_invalidations, m_materialized,
    m_materialize_all, m_dependencies, m_hashes,
    \* m_structure: the files that exist and their bytes
    files, content,
    \* the cache's records, and who holds m_cache_mutex
    record, m_cache_mutex,
    \* the builds, the watcher thread, materialize_all()'s loop and the readers
    att, watcher, materializing, reader,
    \* for the properties: the versions whose change has been applied, the
    \* outputs whose last build failed with a mark, and those whose record was
    \* to be dropped and could not be, or that were restored with such a one
    applied, unretried, undropped

sourceVars  == <<version, manifest, edits, pending>>
bookVars    == <<m_commands, m_stale, m_in_flight, next, m_invalidations,
                 m_materialized, m_materialize_all, m_dependencies, m_hashes>>
fileVars    == <<files, content, unretried>>
cacheVars   == <<record, m_cache_mutex, undropped>>
threadVars  == <<att, watcher, materializing, reader>>
vars == <<sourceVars, bookVars, fileVars, cacheVars, threadVars, applied>>

Manifest   == "build.makebelieve"
Everything == "everything_dirty"

ASSUME NamesAssumption == Sources \cap (Outs \cup {Manifest, Everything}) = {}

Free == [phase |-> "free", out |-> None, command |-> 0, reads |-> {},
         seen |-> {}, bytes |-> {}, input |-> None, target |-> None, invalidations |-> 0,
         ok |-> FALSE, keep |-> FALSE, stamps |-> {}, orphaned |-> None,
         launches |-> None]
Idle == [at |-> "idle", diff |-> None, removed |-> {}, added |-> {},
         left |-> {}, outputs |-> {}, eager |-> {}, upto |-> None, then |-> "idle"]
Missed == <<"missed", 0>>
Unrecorded == <<"unrecorded", 0>>
Unmarked(bytes) == Missed \notin bytes /\ Unrecorded \notin bytes
NoOpen == [state |-> "idle", out |-> None, target |-> None,
           since |-> [s \in Sources |-> 0], bytes |-> {}]

(* What o is made from, through other outputs too, and o itself.           *)
Reach(o) == {x \in Sources \cup Outs :
    \A S \in SUBSET (Sources \cup Outs) :
        o \in S /\ (\A p \in S \cap Outs : Inputs[p] \subseteq S) => x \in S}

Declared(o) == m_commands[o] # 0

(* m_dependents, which update_dependents keeps the inverse of              *)
(* m_dependencies.                                                         *)
m_dependents(x) == {o \in Outs : x \in m_dependencies[o]}

InitWith(rules) ==
    /\ version = [s \in Sources |-> 0]
    /\ manifest = rules
    /\ edits = 0
    /\ pending = {}
    /\ m_commands = rules
    /\ m_stale = {o \in Outs : rules[o] # 0}
    /\ m_in_flight = {}
    /\ next = [o \in Outs |-> None]
    /\ m_invalidations = [o \in Outs |-> 0]
    /\ m_materialized = {}
    /\ m_materialize_all = FALSE
    /\ m_dependencies = [o \in Outs |-> {}]
    /\ m_hashes = [o \in Outs |-> None]
    /\ files = {o \in Outs : rules[o] # 0}
    /\ content = [o \in Outs |-> {}]
    /\ unretried = {}
    /\ record = [o \in Outs |-> None]
    /\ undropped = {}
    /\ m_cache_mutex = None
    /\ att = [i \in Attempts |-> Free]
    /\ watcher = Idle
    /\ materializing = {}
    /\ reader = [r \in Readers |-> NoOpen]
    /\ applied = [s \in Sources |-> 0]

Init == InitWith(FirstManifest)

----------------------------------------------------------------------------
(* The world outside.                                                      *)

Change(s) ==
    /\ version[s] < MaxVersion
    /\ edits + version[s] < MaxChanges
    /\ version' = [version EXCEPT ![s] = @ + 1]
    /\ pending' = pending \cup {s}
    /\ UNCHANGED <<manifest, edits, bookVars, fileVars, cacheVars, threadVars,
                   applied>>

EditManifest(o, rule) ==
    /\ edits < MaxEdits
    /\ \A s \in Sources : edits + version[s] < MaxChanges
    /\ rule # manifest[o]
    /\ manifest' = [manifest EXCEPT ![o] = rule]
    /\ edits' = edits + 1
    /\ pending' = pending \cup {Manifest}
    /\ UNCHANGED <<version, bookVars, fileVars, cacheVars, threadVars, applied>>

(* The watcher's queue overflows: what changed is no longer known.         *)
Overflow ==
    /\ MayOverflow
    /\ pending # {}
    /\ Everything \notin pending
    /\ pending' = {Everything}
    /\ UNCHANGED <<version, manifest, edits, bookVars, fileVars, cacheVars,
                   threadVars, applied>>

----------------------------------------------------------------------------
(* Starting builds.                                                        *)

(* The build under way that m_attempts knows as o's current one.           *)
UnderWay == {"running", "asked", "opening", "failed", "published"}
Current(o) == CHOOSE i \in Attempts : att[i].out = o /\ att[i].phase \in UnderWay

(* The next attempt some open waits on already, or a new one.  That there  *)
(* is a name left for it is the bound on builds under way.                 *)
NameLeft(o) == next[o] # None \/ \E i \in Attempts : att[i].phase = "free"
NextAttempt(o) == IF next[o] # None THEN next[o]
                  ELSE CHOOSE i \in Attempts : att[i].phase = "free"

(* claim_build(o): its next attempt becomes the current one.  What is      *)
(* stale, in flight and under way comes from the same critical section.    *)
Claimed(o, builds) ==
    [builds EXCEPT ![NextAttempt(o)] =
        [Free EXCEPT !.phase = "running", !.out = o, !.command = m_commands[o],
                     !.invalidations = m_invalidations[o]]]

claim_build(o, stale, flying) ==
    /\ NameLeft(o)
    /\ next' = [next EXCEPT ![o] = None]
    /\ m_stale' = stale \ {o}
    /\ m_in_flight' = flying \cup {o}

(* start_build: builds o if it is declared, stale and idle.                *)
start_build(o) ==
    IF o \in m_stale /\ o \notin m_in_flight /\ Declared(o)
    THEN /\ claim_build(o, m_stale, m_in_flight)
         /\ att' = Claimed(o, att)
    ELSE UNCHANGED <<next, m_stale, m_in_flight, att>>

(* Mutant: an open joins the build under way, out of date or not.          *)
JoinsAny(o) == o \in m_in_flight

(* Whether the build under way answers an open made now.                   *)
Joins(o) == o \in m_in_flight /\ o \notin m_stale

Opened(o) == m_materialized \cup {p \in {o} : Declared(p)}

(* An open waits for the build after the one under way, or starts one.     *)
Awaits(o) == Declared(o) /\ o \in m_in_flight /\ ~Joins(o)
Claims(o) == Declared(o) /\ o \notin m_in_flight /\ o \in m_stale

(* The attempt an open waits on, None if there is nothing to wait for, and *)
(* the builds as the open leaves them.                                     *)
Target(o) == CASE Declared(o) /\ Joins(o)   -> Current(o)
               [] Awaits(o) \/ Claims(o)     -> NextAttempt(o)
               [] OTHER                      -> None

WithTarget(o) ==
    CASE Awaits(o) -> [att EXCEPT ![NextAttempt(o)] =
                          [Free EXCEPT !.phase = "next", !.out = o]]
      [] Claims(o) -> Claimed(o, att)
      [] OTHER     -> att

(* The rest of bringing o up to date.                                      *)
bring_up_to_date(o) ==
    /\ m_materialized' = Opened(o)
    /\ \/ /\ Awaits(o)
          /\ NameLeft(o)
          /\ next' = [next EXCEPT ![o] = NextAttempt(o)]
          /\ UNCHANGED <<m_stale, m_in_flight>>
       \/ /\ Claims(o)
          /\ claim_build(o, m_stale, m_in_flight)
       \/ /\ ~Awaits(o) /\ ~Claims(o)
          /\ UNCHANGED <<next, m_stale, m_in_flight>>

bookRest == <<m_commands, m_invalidations, m_materialize_all, m_dependencies,
              m_hashes>>

----------------------------------------------------------------------------
(* open() by a reader: build_now, then the file's status and bytes.        *)

open(r, o) ==
    /\ reader[r].state \in {"idle", "read", "error"}
    /\ bring_up_to_date(o)
    /\ att' = WithTarget(o)
    /\ reader' = [reader EXCEPT ![r] =
           [state |-> IF Target(o) = None THEN "reading" ELSE "waiting",
            out |-> o, target |-> Target(o), since |-> applied, bytes |-> {}]]
    /\ UNCHANGED <<sourceVars, bookRest, fileVars, cacheVars, watcher,
                   materializing, applied>>

ReadOpened(r) ==
    /\ reader[r].state = "reading"
    /\ reader' = [reader EXCEPT ![r].state =
                      IF reader[r].out \in files THEN "read" ELSE "error",
                                ![r].bytes = content[reader[r].out]]
    /\ UNCHANGED <<sourceVars, bookVars, fileVars, cacheVars, att, watcher,
                   materializing, applied>>

(* materialize_all(): every output counts as opened, then each is built.   *)
materialize_all ==
    /\ MayMaterializeAll
    /\ ~m_materialize_all
    /\ m_materialize_all' = TRUE
    /\ m_materialized' = m_materialized \cup {o \in Outs : Declared(o)}
    /\ materializing' = {o \in Outs : Declared(o)}
    /\ UNCHANGED <<sourceVars, m_commands, m_stale, m_in_flight, next,
                   m_invalidations, m_dependencies, m_hashes, fileVars,
                   cacheVars, att, watcher, reader, applied>>

MaterializeNext(o) ==
    /\ o \in materializing
    /\ materializing' = materializing \ {o}
    /\ start_build(o)
    /\ UNCHANGED <<sourceVars, bookRest, m_materialized, fileVars, cacheVars,
                   watcher, reader, applied>>

----------------------------------------------------------------------------
(* A build reads its inputs, in any order, and ends.                       *)

buildOnly == <<sourceVars, fileVars, cacheVars, watcher, materializing, reader,
               applied>>

(* finish_build launches the build it claimed once it has done all else.   *)
Running(i) == att[i].phase = "running" /\ \A j \in Attempts : att[j].launches # i

ReadSource(i, s) ==
    /\ Running(i)
    /\ s \in (Inputs[att[i].out] \cap Sources) \ att[i].seen
    /\ att' = [att EXCEPT ![i].reads = @ \cup {s}, ![i].seen = @ \cup {s},
                         ![i].bytes = @ \cup {<<s, version[s]>>}]
    /\ UNCHANGED <<buildOnly, bookVars>>

(* Whether the build is copy_output, which records what it copies in any   *)
(* case.                                                                   *)
Copying(i) == <<att[i].out, att[i].command>> \in Copies

(* Its command opens another output: is_declared, and if so record_read,   *)
(* which nobody looks at before the build ends...                          *)
RecordRead(i, o) ==
    /\ Running(i)
    /\ o \in (Inputs[att[i].out] \cap Outs) \ att[i].seen
    /\ att' = [att EXCEPT ![i].phase = "asked", ![i].input = o,
                   ![i].reads = @ \cup {p \in {o} : Declared(p) \/ Copying(i)}]
    /\ UNCHANGED <<buildOnly, bookVars>>

(* ... then as open(), by when rules may have come and gone.               *)
OpenOutput(i) ==
    LET o == att[i].input
    IN  /\ att[i].phase = "asked"
        /\ bring_up_to_date(o)
        /\ att' = [WithTarget(o) EXCEPT ![i].phase = "opening", ![i].target = Target(o)]
        /\ UNCHANGED <<buildOnly, bookRest>>

(* Once open() has returned, it reads the file, if it is there.            *)
ReadOutput(i) ==
    LET o    == att[i].input
        mark == IF o \in att[i].reads THEN {} ELSE {Unrecorded}
    IN  /\ att[i].phase = "opening"
        /\ att[i].target = None
        /\ att' = [att EXCEPT ![i].phase = IF o \in files THEN "running" ELSE "failed",
                             ![i].seen = @ \cup {o},
                             ![i].bytes = @ \cup content[o] \cup mark,
                             ![i].input = None]
        /\ UNCHANGED <<buildOnly, bookVars>>

(* A copy fails only before it begins, or at what it copies.               *)
Fail(i) ==
    /\ MayFail
    /\ Running(i)
    /\ Copying(i) => att[i].seen = {}
    /\ att' = [att EXCEPT ![i].phase = "failed"]
    /\ UNCHANGED <<buildOnly, bookVars>>

----------------------------------------------------------------------------
Publishes(o) == Declared(o)

(* The command succeeds, and finish_build runs to its release of           *)
(* m_layout_mutex: the bytes are published, unless the output's rule left  *)
(* the manifest meanwhile.  What may be kept for the next run is kept      *)
(* under the rule in force now.  The file is written after the books, with *)
(* nothing between that could tell: whoever still reads the old bytes then *)
(* opened the output before this build of it began, since while it is in   *)
(* flight opens wait, and could have read them before.                     *)
Publish(i) ==
    LET o     == att[i].out
        bytes == att[i].bytes \cup {<<o, att[i].command>>}
    IN  /\ Running(i)
        /\ att[i].seen = Inputs[o]
        /\ watcher.at # "layout"
        /\ att' = [att EXCEPT ![i].phase = "published", ![i].ok = TRUE,
                             ![i].bytes = bytes,
                             ![i].command = m_commands[o],
                             ![i].keep = HasCache /\ Publishes(o)]
        /\ IF Publishes(o)
           THEN /\ m_hashes' = [m_hashes EXCEPT ![o] = IF HasCache THEN bytes ELSE @]
                /\ m_dependencies' = [m_dependencies EXCEPT ![o] = att[i].reads]
                /\ content' = [content EXCEPT ![o] = bytes]
                /\ files' = files \cup {o}
           ELSE UNCHANGED <<m_hashes, m_dependencies, content, files>>
        /\ UNCHANGED unretried
        /\ UNCHANGED <<sourceVars, m_commands, m_stale, m_in_flight, next,
                       m_invalidations, m_materialized, m_materialize_all,
                       cacheVars, watcher, materializing, reader, applied>>

(* Mutant: a failed build leaves its output as it was.                     *)
StaleIfChanged(o, ok) == m_stale

StaleAfter(o, ok) == IF ok THEN m_stale ELSE m_stale \cup {o}

(* Mutant: a change during the build waits for the next open.              *)
RebuildsIfAwaited(o) == next[o] # None

Rebuilds(o) == next[o] # None \/ (o \in m_stale /\ o \in m_materialized)

(* Its second critical section: the output is idle again, stale if the     *)
(* build failed, and built once more if it changed meanwhile or an open    *)
(* waits on the next build.                                                *)
Settle(i) ==
    LET o       == att[i].out
        ok      == att[i].ok
        stale   == StaleAfter(o, ok)
        flying  == m_in_flight \ {o}
        settled == [att EXCEPT ![i].phase = "settled"]
    IN  /\ att[i].phase \in {"published", "failed"}
        /\ m_dependencies' = [m_dependencies EXCEPT ![o] =
               IF ~ok /\ Declared(o) /\ att[i].reads # {} THEN att[i].reads ELSE @]
        /\ unretried' = (unretried \ {o})
                           \cup {p \in {o} : ~ok /\ ~Unmarked(att[i].bytes)}
        /\ \/ /\ Declared(o) /\ Rebuilds(o)
              /\ claim_build(o, stale, flying)
              /\ att' = Claimed(o, [settled EXCEPT ![i].launches = NextAttempt(o)])
           \/ /\ Declared(o) /\ ~Rebuilds(o)
              /\ m_stale' = stale
              /\ m_in_flight' = flying
              /\ att' = settled
              /\ UNCHANGED next
           \/ /\ ~Declared(o)
              /\ m_in_flight' = flying
              /\ att' = [settled EXCEPT ![i].orphaned = next[o]]
              /\ next' = [next EXCEPT ![o] = None]
              /\ UNCHANGED <<m_stale>>
        /\ UNCHANGED <<sourceVars, m_commands, m_invalidations, m_materialized,
                       m_materialize_all, m_hashes, files, content, cacheVars,
                       watcher, materializing, reader, applied>>

(* Mutant: the attempt that will never run is forgotten.                   *)
EndsItself(i) == {i}

Ends(i) == {i, att[i].orphaned} \ {None}

(* BuildCoordinator::complete for i and for the attempt it orphaned.       *)
Complete(i) ==
    LET over == Ends(i)
        ok(t) == t = i /\ att[i].ok
        left == IF att[i].keep THEN [att[i] EXCEPT !.phase = "completed"] ELSE Free
    IN  /\ att[i].phase = "settled"
        /\ att' = [j \in Attempts |->
               CASE j = i -> left
                 [] j \in over \ {i} -> Free
                 [] att[j].phase = "opening" /\ att[j].target \in over ->
                       [att[j] EXCEPT !.target = None,
                           !.phase = IF ok(att[j].target) THEN "opening" ELSE "failed"]
                 [] OTHER -> att[j]]
        /\ reader' = [r \in Readers |->
               IF reader[r].state = "waiting" /\ reader[r].target \in over
               THEN [reader[r] EXCEPT !.target = None,
                        !.state = IF ok(reader[r].target) THEN "reading" ELSE "error"]
               ELSE reader[r]]
        /\ UNCHANGED <<sourceVars, bookVars, fileVars, cacheVars, watcher,
                       materializing, applied>>

(* Mutant: whether the build was invalidated meanwhile is not looked at.   *)
AsStartedAny(i) == TRUE

AsStarted(i) == m_invalidations[att[i].out] = att[i].invalidations

(* keep_in_cache, holding m_cache_mutex: first what m_mutex guards...      *)
KeepCheck(i) ==
    LET generated == att[i].reads \cap Outs
        keepable  == /\ AsStarted(i)
                     /\ \A o \in generated : m_hashes[o] # None
    IN  /\ att[i].phase = "completed"
        /\ m_cache_mutex = None
        /\ m_cache_mutex' = i
        /\ att' = [att EXCEPT ![i].phase = "keeping", ![i].keep = keepable,
                  ![i].stamps = IF keepable
                                THEN {<<o, m_hashes[o]>> : o \in generated}
                                ELSE {}]
        /\ UNCHANGED <<sourceVars, bookVars, fileVars, record, undropped, watcher,
                       materializing, reader, applied>>

(* ... then the stamps of the source files, and the store, or else forget. *)
(* When either throws, that is ignored: a record made before may be left,  *)
(* or after a store the new one be there all the same.                     *)
KeepStore(i) ==
    LET stamps == att[i].stamps
                    \cup {<<s, version[s]>> : s \in att[i].reads \cap Sources}
    IN  /\ att[i].phase = "keeping"
        /\ \/ /\ record' = [record EXCEPT ![att[i].out] =
                     IF att[i].keep THEN [command |-> att[i].command,
                                          bytes |-> att[i].bytes, inputs |-> stamps]
                                    ELSE None]
              /\ undropped' = undropped \ {att[i].out}
           \/ "keep" \in CacheFails /\ UNCHANGED <<record, undropped>>
        /\ m_cache_mutex' = None
        /\ att' = [att EXCEPT ![i] = Free]
        /\ UNCHANGED <<sourceVars, bookVars, fileVars, watcher, materializing,
                       reader, applied>>

----------------------------------------------------------------------------
(* The watcher thread: on_source_change, one diff at a time.               *)

watcherOnly == <<version, manifest, edits, materializing, reader>>

(* The builds under way of outputs in O miss a change.                     *)
Misses(O) == [i \in Attempts |->
    IF att[i].out \in O /\ att[i].phase \in UnderWay \ {"published"}
    THEN [att[i] EXCEPT !.bytes = @ \cup {Missed}] ELSE att[i]]

Reading(X) == {o \in Outs : Inputs[o] \cap X # {}}

(* Where the thread goes once there is nothing left to build eagerly.      *)
Onward(w) == CASE w.eager # {} -> [w EXCEPT !.at = "eager"]
               [] w.eager = {} /\ w.then = "collect" ->
                     [Idle EXCEPT !.at = "collect", !.diff = w.diff]
               [] OTHER -> Idle

Laying(left) == IF left = {} THEN "readers" ELSE "layout"

(* The manifest is reloaded: apply_rules, which takes m_layout_mutex, to   *)
(* its release of m_mutex.  While it changes files it is at "layout".      *)
apply_rules(d) ==
    LET removed == {o \in Outs : Declared(o) /\ manifest[o] = 0}
        added   == {o \in Outs : ~Declared(o) /\ manifest[o] # 0}
        changed == {o \in Outs : /\ Declared(o)
                                 /\ manifest[o] \notin {0, m_commands[o]}}
        eager   == IF m_materialize_all THEN added ELSE {}
    IN  /\ watcher.at = "idle"
        /\ d \in pending \cap {Manifest, Everything}
        /\ pending' = pending \ {d}
        /\ m_commands' = manifest
        /\ m_stale' = (m_stale \cup added) \ removed
        /\ m_materialized' = (m_materialized \cup eager) \ removed
        /\ m_hashes' = [o \in Outs |-> IF o \in removed THEN None ELSE m_hashes[o]]
        /\ m_invalidations' = [o \in Outs |->
               m_invalidations[o] + (IF o \in removed THEN 1 ELSE 0)]
        /\ m_dependencies' = [o \in Outs |->
               IF o \in removed THEN {} ELSE m_dependencies[o]]
        /\ next' = [o \in Outs |->
               IF o \in removed \ m_in_flight THEN None ELSE next[o]]
        /\ watcher' = [Idle EXCEPT !.at = Laying(removed \cup added), !.diff = d,
                                  !.removed = removed, !.added = added,
                                  !.left = removed \cup added,
                                  !.outputs = changed \cup eager]
        /\ UNCHANGED <<watcherOnly, m_in_flight, m_materialize_all, fileVars,
                       cacheVars, att, applied>>

(* Then the files of outputs removed go, and placeholders of those added   *)
(* come, one by one.                                                       *)
PlaceFile(o) ==
    /\ watcher.at = "layout"
    /\ o \in watcher.left
    /\ o \in watcher.removed \/ watcher.left \cap watcher.removed = {}
    /\ files' = IF o \in watcher.removed THEN files \ {o} ELSE files \cup {o}
    /\ content' = [content EXCEPT ![o] = {}]
    /\ watcher' = [watcher EXCEPT !.at = Laying(watcher.left \ {o}),
                                 !.left = @ \ {o}]
    /\ UNCHANGED <<watcherOnly, pending, bookVars, unretried, cacheVars, att,
                   applied>>

(* Mutant: what read an output that came or went stays as it is.           *)
NoReaders(switched) == {}

ReadersOf(switched) == UNION {m_dependents(o) : o \in switched}

(* Whatever read an output that came or went is invalidated, too.          *)
FindReaders ==
    LET switched == watcher.removed \cup watcher.added
        readers  == ReadersOf(switched)
    IN  /\ watcher.at = "readers"
        /\ watcher' = [watcher EXCEPT !.at = "forget_removed",
                                     !.outputs = @ \cup readers]
        /\ att' = Misses(Reading(switched) \ readers)
        /\ UNCHANGED <<watcherOnly, pending, bookVars, fileVars, cacheVars,
                       applied>>

(* All are dropped in one transaction or, if that throws, none is, and the *)
(* thread goes on.                                                         *)
forget_in_cache(O) ==
    /\ m_cache_mutex = None
    /\ \/ /\ record' = [o \in Outs |-> IF o \in O THEN None ELSE record[o]]
          /\ undropped' = undropped \ O
       \/ /\ "drop" \in CacheFails
          /\ undropped' = undropped \cup {o \in O : record[o] # None}
          /\ UNCHANGED record
    /\ UNCHANGED m_cache_mutex

ForgetRemoved ==
    /\ watcher.at = "forget_removed"
    /\ forget_in_cache(watcher.removed)
    /\ watcher' = [watcher EXCEPT !.at = "mark", !.then = "collect",
                                 !.removed = {}, !.added = {}]
    /\ UNCHANGED <<sourceVars, bookVars, fileVars, att, materializing, reader,
                   applied>>

(* The outputs that read what changed are collected.                       *)
Collect(d) ==
    LET affected == IF d = Everything THEN {o \in Outs : Declared(o)}
                                      ELSE m_dependents(d)
    IN  /\ \/ watcher.at = "idle" /\ d \in pending \cap Sources
           \/ watcher.at = "collect" /\ d = watcher.diff
        /\ pending' = pending \ (IF watcher.at = "idle" THEN {d} ELSE {})
        /\ watcher' = [Idle EXCEPT !.at = "mark", !.diff = d, !.outputs = affected,
                                  !.upto = version]
        /\ att' = Misses(Reading({d}) \ affected)
        /\ UNCHANGED <<watcherOnly, bookVars, fileVars, cacheVars, applied>>

(* What invalidate() reaches from O: declared outputs, and what read them. *)
Downstream(O) ==
    {o \in Outs : Declared(o) /\
        \A S \in SUBSET Outs :
            /\ {p \in O : Declared(p)} \subseteq S
            /\ \A p \in S : {r \in m_dependents(p) : Declared(r)} \subseteq S
            => o \in S}

(* invalidate(): first all are marked, then their records are dropped, and *)
(* only then the rebuilds start, one by one.                               *)
Mark ==
    LET seen == Downstream(watcher.outputs)
        eager == (seen \cap m_materialized) \ m_in_flight
        marked == [watcher EXCEPT !.at = "forget", !.outputs = seen, !.upto = None,
                                  !.eager = eager]
    IN  /\ watcher.at = "mark"
        /\ m_stale' = m_stale \cup seen
        /\ m_invalidations' = [o \in Outs |->
               m_invalidations[o] + (IF o \in seen THEN 1 ELSE 0)]
        /\ watcher' = IF HasCache /\ seen # {} THEN marked
                      ELSE Onward([marked EXCEPT !.outputs = {}])
        /\ att' = Misses(Reading(seen) \ seen)
        /\ applied' = [s \in Sources |->
               IF watcher.then = "idle" /\ watcher.diff \in {s, Everything}
               THEN watcher.upto[s] ELSE applied[s]]
        /\ UNCHANGED <<watcherOnly, pending, m_commands, m_in_flight, next,
                       m_materialized, m_materialize_all, m_dependencies,
                       m_hashes, fileVars, cacheVars>>

Forget ==
    /\ watcher.at = "forget"
    /\ forget_in_cache(watcher.outputs)
    /\ watcher' = Onward([watcher EXCEPT !.outputs = {}])
    /\ UNCHANGED <<sourceVars, bookVars, fileVars, att, materializing, reader,
                   applied>>

StartEager(o) ==
    /\ watcher.at = "eager"
    /\ o \in watcher.eager
    /\ start_build(o)
    /\ watcher' = Onward([watcher EXCEPT !.eager = @ \ {o}])
    /\ UNCHANGED <<watcherOnly, pending, bookRest, m_materialized, fileVars,
                   cacheVars, applied>>

----------------------------------------------------------------------------
(* The tree is destroyed, or its process dies, and one is created over the *)
(* same source and cache: restore_from_cache serves the records that hold. *)

Quiet == pending = {} /\ watcher = Idle

(* record_holds for each of S; the outputs builds read never form a cycle  *)
(* here.  Whether the cache still has their contents is up to it.          *)
Hold(S) ==
    \A o \in S :
        /\ record[o] # None
        /\ manifest[o] # 0
        /\ record[o].command = manifest[o]
        /\ \A e \in record[o].inputs :
              IF e[1] \in Outs THEN e[1] \in S /\ record[e[1]].bytes = e[2]
                               ELSE version[e[1]] = e[2]

Holding == UNION {S \in SUBSET Outs : Hold(S)}

(* What is served from a record that was to be dropped, or with one.       *)
Left(restored) == {o \in restored : Reach(o) \cap undropped # {}}
Served(o, restored) == record[o].bytes \cup {m \in {Missed} : o \in Left(restored)}

(* The records in `restored` are served, and the others dropped, unless    *)
(* that fails or they cannot be listed.                                    *)
Restart(restored) ==
    /\ HasCache
    /\ Restarts # "never"
    /\ Restarts = "quiet" => Quiet
    /\ Hold(restored)
    /\ pending' = {}
    /\ m_commands' = manifest
    /\ m_stale' = {o \in Outs : manifest[o] # 0} \ restored
    /\ m_in_flight' = {}
    /\ next' = [o \in Outs |-> None]
    /\ m_invalidations' = [o \in Outs |-> 0]
    /\ m_materialized' = {}
    /\ m_materialize_all' = FALSE
    /\ m_dependencies' = [o \in Outs |->
           IF o \in restored THEN {e[1] : e \in record[o].inputs} ELSE {}]
    /\ m_hashes' = [o \in Outs |-> IF o \in restored THEN record[o].bytes ELSE None]
    /\ files' = {o \in Outs : manifest[o] # 0}
    /\ unretried' = {}
    /\ content' = [o \in Outs |-> IF o \in restored THEN Served(o, restored) ELSE {}]
    /\ \/ /\ record' = [o \in Outs |-> IF o \in restored THEN record[o] ELSE None]
          /\ undropped' = Left(restored)
       \/ /\ "drop" \in CacheFails
          /\ undropped' = Left(restored) \cup {o \in Outs \ restored : record[o] # None}
          /\ UNCHANGED record
    /\ m_cache_mutex' = None
    /\ att' = [i \in Attempts |-> Free]
    /\ watcher' = Idle
    /\ materializing' = {}
    /\ reader' = [r \in Readers |->
           IF reader[r].state \in {"waiting", "reading"}
           THEN [reader[r] EXCEPT !.state = "error", !.target = None] ELSE reader[r]]
    /\ applied' = version
    /\ UNCHANGED <<version, manifest, edits>>

----------------------------------------------------------------------------

Build(i) == \/ \E s \in Sources : ReadSource(i, s)
            \/ \E o \in Outs : RecordRead(i, o)
            \/ OpenOutput(i) \/ ReadOutput(i) \/ Fail(i)

FinishBuild(i) == \/ Publish(i) \/ Settle(i) \/ Complete(i)
                  \/ KeepCheck(i) \/ KeepStore(i)

Watch == \/ \E d \in {Manifest, Everything} : apply_rules(d)
         \/ \E o \in Outs : PlaceFile(o)
         \/ FindReaders \/ ForgetRemoved
         \/ \E d \in Sources \cup {Manifest, Everything} : Collect(d)
         \/ Mark \/ Forget
         \/ \E o \in Outs : StartEager(o)

Next == \/ \E s \in Sources : Change(s)
        \/ \E o \in Outs, rule \in 0..2 : EditManifest(o, rule)
        \/ Overflow
        \/ \E r \in Readers : ReadOpened(r) \/ \E o \in Outs : open(r, o)
        \/ materialize_all
        \/ \E o \in Outs : MaterializeNext(o)
        \/ \E i \in Attempts : Build(i) \/ FinishBuild(i)
        \/ Watch
        \/ \E restored \in SUBSET Outs : Restart(restored)

Spec == Init /\ [][Next]_vars

(* Commands end, completions run, and the watcher delivers what changed.   *)
Fairness == /\ \A i \in Attempts : WF_vars(Build(i)) /\ WF_vars(FinishBuild(i))
            /\ \A r \in Readers : WF_vars(ReadOpened(r))
            /\ \A o \in Outs : WF_vars(MaterializeNext(o))
            /\ WF_vars(Watch)

FairSpec == Spec /\ Fairness

----------------------------------------------------------------------------
(* Properties.                                                             *)

UpToDate(o) == Declared(o) /\ o \notin m_stale /\ o \notin m_in_flight

(* What o's bytes are when built from everything as it is now.             *)
Expected(o) == {<<s, version[s]>> : s \in Reach(o) \cap Sources}
                  \cup {<<p, manifest[p]>> : p \in Reach(o) \cap Outs}

Reflects(bytes, o, versions) ==
    \A s \in Reach(o) \cap Sources :
        /\ \E e \in bytes : e[1] = s
        /\ \A e \in bytes : e[1] = s => e[2] >= versions[s]

Phases == UnderWay \cup {"free", "next", "settled", "completed", "keeping"}

(* What bytes are made of, a build under way, a record of the cache and    *)
(* the watcher thread.                                                     *)
Made == ((Sources \cup Outs) \X Nat) \cup {Missed, Unrecorded}
AttemptType ==
    [phase : Phases, out : Outs \cup {None}, command : 0..2,
     reads : SUBSET (Sources \cup Outs), seen : SUBSET (Sources \cup Outs),
     bytes : SUBSET Made,
     input : Outs \cup {None}, target : Attempts \cup {None},
     invalidations : Nat, ok : BOOLEAN, keep : BOOLEAN,
     stamps : SUBSET (Outs \X SUBSET Made), orphaned : Attempts \cup {None},
     launches : Attempts \cup {None}]
RecordType ==
    [command : 0..2, bytes : SUBSET Made,
     inputs : SUBSET ((Sources \X Nat) \cup (Outs \X SUBSET Made))]
WatcherType ==
    [at : {"idle", "layout", "readers", "forget_removed", "collect", "mark", "forget", "eager"},
     diff : Sources \cup {Manifest, Everything, None},
     removed : SUBSET Outs, added : SUBSET Outs, left : SUBSET Outs,
     outputs : SUBSET Outs,
     eager : SUBSET Outs, upto : [Sources -> Nat] \cup {None},
     then : {"idle", "collect"}]
ReaderType ==
    [state : {"idle", "waiting", "reading", "read", "error"}, out : Outs \cup {None},
     target : Attempts \cup {None}, since : [Sources -> Nat], bytes : SUBSET Made]

(* The tree's books stay well formed; in particular only declared outputs  *)
(* are ever stale or count as opened, so apply_rules, opens and builds     *)
(* that end leave nothing behind of a rule that is gone.                   *)
TypeOK ==
    /\ version \in [Sources -> 0..MaxVersion] /\ applied \in [Sources -> Nat]
    /\ manifest \in [Outs -> 0..2] /\ m_commands \in [Outs -> 0..2]
    /\ edits \in 0..MaxEdits
    /\ pending \subseteq Sources \cup {Manifest, Everything}
    /\ m_stale \cup m_materialized \subseteq {o \in Outs : Declared(o)}
    /\ m_in_flight \subseteq Outs /\ materializing \subseteq Outs
    /\ next \in [Outs -> Attempts \cup {None}]
    /\ m_invalidations \in [Outs -> Nat]
    /\ m_dependencies \in [Outs -> SUBSET (Sources \cup Outs)]
    /\ m_hashes \in [Outs -> (SUBSET Made) \cup {None}]
    /\ m_materialize_all \in BOOLEAN
    /\ files \subseteq Outs /\ unretried \subseteq Outs /\ content \in [Outs -> SUBSET Made]
    /\ record \in [Outs -> RecordType \cup {None}] /\ undropped \subseteq Outs
    /\ m_cache_mutex \in Attempts \cup {None}
    /\ att \in [Attempts -> AttemptType]
    /\ watcher \in WatcherType
    /\ reader \in [Readers -> ReaderType]

(* An output in flight has exactly one build under way, one that is not    *)
(* has none, and the next build opens wait on always has one ahead of it   *)
(* that will start or orphan it.  Nobody waits on a build that is gone or  *)
(* of another output.                                                      *)
BuildsAccountedFor ==
    /\ \A o \in Outs :
          /\ Cardinality({i \in Attempts : att[i].out = o /\ att[i].phase \in UnderWay})
                = (IF o \in m_in_flight THEN 1 ELSE 0)
          /\ next[o] # None => o \in m_in_flight /\ att[next[o]].phase = "next"
    /\ \A i \in Attempts : att[i].phase = "next" =>
          \/ next[att[i].out] = i
          \/ \E j \in Attempts : att[j].orphaned = i
    /\ \A i \in Attempts : att[i].phase = "opening" /\ att[i].target # None =>
          /\ att[att[i].target].out = att[i].input
          /\ att[att[i].target].phase \in UnderWay \cup {"next", "settled"}
    /\ \A r \in Readers : reader[r].state = "waiting" =>
          /\ att[reader[r].target].out = reader[r].out
          /\ att[reader[r].target].phase \in UnderWay \cup {"next", "settled"}

(* An output that counts as up to date reflects every change the watcher   *)
(* has applied, in each input it was made from, through other outputs too, *)
(* whichever way changes, builds, opens and failures interleave.           *)
CleanIsCurrent ==
    \A o \in Outs : UpToDate(o) /\ Missed \notin content[o]
        => Reflects(content[o], o, applied)

(* Once every change is applied, an up-to-date output is exactly what its  *)
(* rule makes of its inputs as they are, rules added, changed and removed  *)
(* included, also those that come or go while a build reads what they      *)
(* make.  What was built from an output opened while no rule made it is    *)
(* excepted, as nothing was recorded of that.                              *)
QuietIsExact ==
    Quiet => \A o \in Outs : UpToDate(o) /\ Unmarked(content[o])
                => content[o] = Expected(o)

(* What an open gets is no older than what was known when it began: it     *)
(* never joins a build that started before a change already applied.       *)
OpenIsCurrent ==
    \A r \in Readers : reader[r].state = "read" /\ Missed \notin reader[r].bytes
        => Reflects(reader[r].bytes, reader[r].out, reader[r].since)

(* Once every change is applied, each record that the next run would       *)
(* restore describes the output as it would be built now, although the     *)
(* stamps are taken after the build and the cache may fail to store a      *)
(* record.  Excepted are those it failed to drop, which a change before    *)
(* their stamps lets hold, and what is restored with them or made from it. *)
RecordsHold ==
    Quiet => \A o \in Holding \ undropped : Unmarked(record[o].bytes)
                => record[o].bytes = Expected(o)

(* Every open returns, with the output or with an error, also when the     *)
(* rule goes away under it.                                                *)
EveryOpenReturns ==
    \A r \in Readers : reader[r].state = "waiting"
        ~> reader[r].state \in {"read", "error"}

(* Something o is made from, directly or through other outputs, is made by *)
(* no rule, or failed to build while something that it is not known to     *)
(* read changed.                                                           *)
Unbuildable(o) == \E p \in Reach(o) \cap Outs : ~Declared(p) \/ p \in unretried

(* Once every change is applied and no build is under way, nothing that    *)
(* was opened once is left stale: its rebuild was started by the change,   *)
(* by the end of the build before, or by the build of what it reads.  One  *)
(* whose input is gone cannot be built.                                    *)
OpenedAtRest ==
    Quiet /\ materializing = {} /\ (\A k \in Attempts : att[k] = Free)
        => \A o \in m_materialized \cap m_stale : Unbuildable(o)

(* An output that was opened once is rebuilt by itself after a change,     *)
(* also one that arrives while a build of it is under way.                 *)
OpenedIsRebuilt ==
    \A o \in Outs : o \in m_stale /\ o \in m_materialized
        ~> o \notin m_stale \/ ~Declared(o)

(* What the documentation says of a restart: an output that went out of    *)
(* date while served is built again, however the last run stopped, so one  *)
(* that is served from its record is what its rule makes of its inputs.    *)
RestartForgetsStale ==
    Quiet => \A o \in Outs :
        UpToDate(o) /\ record[o] # None /\ Missed \notin content[o]
            => content[o] = Expected(o)

=============================================================================
