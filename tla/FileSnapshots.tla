--------------------------- MODULE FileSnapshots ---------------------------
(***************************************************************************)
(* FileSnapshots (src/src/filesnapshots.cpp): the versions of its files    *)
(* that a DirectoryTree hands out to readers.  A snapshot is one version   *)
(* of a file, numbered with the generation the file had before it was      *)
(* read, and shared by everyone who takes the same version for as long as  *)
(* anyone holds it.                                                        *)
(*                                                                         *)
(* take() awaits a read of the tree in its middle, and every lock it takes *)
(* is taken on its own, so each of its steps is an action here.            *)
(*                                                                         *)
(* The tree is external: `file' is what its status() and read_whole()      *)
(* answer with.  A version stands for the bytes; InfoOf[v] is the size and *)
(* time status() gives for it, which two versions may share.               *)
(***************************************************************************)
EXTENDS Naturals

CONSTANTS
    Paths,      \* the files of the tree
    Takers,     \* the opens that take a snapshot, each of them once
    MaxVersion, \* bound: how often each file may change
    InfoOf,     \* the size and time of each version
    None

VARIABLES
    file,        \* the tree: the version of each file, and whether it exists
    clock,       \* m_clock: the newest generation of any file
    everything,  \* m_everything: the generation of the last "everything is dirty"
    generations, \* m_generations: of each file reported changed since, else 0
    current,     \* Current::snapshots: the newest snapshot of each file
    taking,      \* the locals of each take(), and the snapshot its caller holds
    reported     \* history: the version each file had when last reported changed

snapshotVars == <<file, clock, everything, generations, current, taking, reported>>

Versions == 0..MaxVersion

VersionsAssumption ==
    /\ MaxVersion \in Nat
    /\ DOMAIN InfoOf = Versions

ASSUME VersionsAssumption

Snapshots == [id : Takers, version : Versions, generation : Nat]

NoneAssumption ==
    /\ None \notin Paths
    /\ None \notin Nat
    /\ None \notin Snapshots

ASSUME NoneAssumption

Steps == {"none", "noted", "reading", "read", "taken", "failed", "released"}

NotTaking ==
    [step |-> "none", path |-> None, before |-> 0, seen |-> 0, floor |-> 0,
     snap |-> None]

Released == [NotTaking EXCEPT !.step = "released"]

SnapshotsInit ==
    /\ \E some \in SUBSET Paths :
          file = [p \in Paths |-> [version |-> 0, exists |-> p \in some]]
    /\ clock = 0
    /\ everything = 0
    /\ generations = [p \in Paths |-> 0]
    /\ current = [p \in Paths |-> None]
    /\ taking = [t \in Takers |-> NotTaking]
    /\ reported = [p \in Paths |-> 0]

SnapshotsTypeOK ==
    /\ file \in [Paths -> [version : Versions, exists : BOOLEAN]]
    /\ clock \in Nat
    /\ everything \in 0..clock
    /\ generations \in [Paths -> 0..clock]
    /\ current \in [Paths -> Snapshots \cup {None}]
    /\ taking \in [Takers -> [step : Steps, path : Paths \cup {None},
                              before : 0..clock, seen : Versions, floor : Versions,
                              snap : Snapshots \cup {None}]]
    /\ reported \in [Paths -> Versions]

\* A file the tree has is written again, created, or removed.
TreeChanges(p, exists) ==
    /\ file[p].version < MaxVersion
    /\ exists \/ file[p].exists
    /\ file' = [file EXCEPT ![p] = [version |-> @.version + 1, exists |-> exists]]

-----------------------------------------------------------------------------
Larger(a, b) == IF a > b THEN a ELSE b

generation(p) == Larger(everything, generations[p])

latest == clock

\* The tree's change subscription, for one file a diff names.
changed(p) ==
    /\ clock' = clock + 1
    /\ generations' = [generations EXCEPT ![p] = clock + 1]
    /\ current' = [current EXCEPT ![p] = None]
    /\ reported' = [reported EXCEPT ![p] = file[p].version]
    /\ UNCHANGED everything

\* The same, for a diff that says everything is dirty.
changed_everything ==
    /\ clock' = clock + 1
    /\ everything' = clock + 1
    /\ generations' = [p \in Paths |-> 0]
    /\ current' = [p \in Paths |-> None]
    /\ reported' = [p \in Paths |-> file[p].version]

-----------------------------------------------------------------------------
SameInfo(v, w) == InfoOf[v] = InfoOf[w]

\* A snapshot lives for as long as anyone holds it.
HeldSnapshots == {taking[t].snap : t \in Takers} \ {None}

\* take() notes the generation first: a change reported from here on leaves
\* the snapshot with an older number than the file.
TakeGeneration(t, p) ==
    /\ taking[t].step = "none"
    /\ taking' = [taking EXCEPT ![t].step = "noted", ![t].path = p,
                                ![t].before = generation(p), ![t].floor = reported[p]]
    /\ UNCHANGED <<file, clock, everything, generations, current, reported>>

\* Mutant: a snapshot put in place after the change it missed is reused.
ReusableAny(t, held, seen) ==
    /\ held \in HeldSnapshots
    /\ SameInfo(held.version, seen)

Reusable(t, held, seen) ==
    /\ held \in HeldSnapshots
    /\ held.generation = taking[t].before
    /\ SameInfo(held.version, seen)

\* The file's status, and the snapshot that is there if it is of that file.
\* One step: a change reported between the two takes the snapshot away, and
\* one reported before them both gives the file another generation.
TakeHeld(t) ==
    LET p == taking[t].path
        held == current[p]
        reuses == Reusable(t, held, file[p].version)
    IN  /\ taking[t].step = "noted"
        /\ taking' = [taking EXCEPT
                        ![t].step = CASE ~file[p].exists -> "failed"
                                      [] file[p].exists /\ reuses -> "taken"
                                      [] OTHER -> "reading",
                        ![t].seen = file[p].version,
                        ![t].snap = IF file[p].exists /\ reuses THEN held ELSE None]
        /\ UNCHANGED <<file, clock, everything, generations, current, reported>>

SnapshotOf(t, v) == [id |-> t, version |-> v, generation |-> taking[t].before]

\* read_whole() has the bytes, or the file is gone.
TakeRead(t) ==
    LET p == taking[t].path
    IN  /\ taking[t].step = "reading"
        /\ taking' = IF file[p].exists
                     THEN [taking EXCEPT ![t].step = "read",
                                         ![t].snap = SnapshotOf(t, file[p].version)]
                     ELSE [taking EXCEPT ![t].step = "failed"]
        /\ UNCHANGED <<file, clock, everything, generations, current, reported>>

\* What Current is once `put' has been put there for p, if it is a snapshot,
\* and Forget has taken out those whose last holder has let them go.
CurrentAfter(put, p) ==
    [q \in Paths |-> LET s == IF q = p /\ put # None THEN put ELSE current[q]
                     IN  IF s \in HeldSnapshots' THEN s ELSE None]

Took(t) == taking[t].step \in {"read", "taken"}

\* take() is over: a snapshot just read is put in place, and the caller goes
\* on with `kept', this one or another, or None.
TakeEnds(t, kept) ==
    /\ Took(t)
    /\ taking' = [taking EXCEPT ![t] = [Released EXCEPT !.snap = kept]]
    /\ current' = CurrentAfter(IF taking[t].step = "read" THEN taking[t].snap ELSE None,
                               taking[t].path)
    /\ UNCHANGED <<file, clock, everything, generations, reported>>

\* The callers `gone' let go of what they hold.
Release(gone) ==
    /\ taking' = [t \in Takers |-> IF t \in gone THEN Released
                                   ELSE taking[t]]
    /\ current' = CurrentAfter(None, None)
    /\ UNCHANGED <<file, clock, everything, generations, reported>>

=============================================================================
