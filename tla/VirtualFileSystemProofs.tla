---------------------- MODULE VirtualFileSystemProofs ----------------------
(***************************************************************************)
(* Proofs about VirtualFileSystem, with the FileSnapshots it reads from,   *)
(* for any number of files, opens, versions and reports: that an inode is  *)
(* one version of its file, that take() returns nothing that was already   *)
(* stale when it began, that an open which is held is held for an          *)
(* announcement that is coming, and that the notifier never writes to what *)
(* a program opened since the change it announces.                         *)
(*                                                                         *)
(* The inductive invariant is in four groups:                              *)
(*   - SnapshotsOK relates the generation and the floor a take() has noted *)
(*     to the snapshots it could be given, which carry the generation they *)
(*     were read under, whichever of two racing take()s put them there;    *)
(*   - RequestsOK ties the program's side of an open, its take(), the loop *)
(*     and the inode to each other;                                        *)
(*   - NotifierOK says what of each file is announced, being announced and *)
(*     yet to be announced, and that these are in the order of their       *)
(*     generations;                                                        *)
(*   - RepliesOK says which opens are replied to and which are held.       *)
(***************************************************************************)
EXTENDS VirtualFileSystem, TLAPS

Active(t) == taking[t].step \in {"noted", "reading", "read", "taken"}

\* A take() under way: what it has noted of its file, and what it has.
TakeOK(t) ==
    LET p == taking[t].path
    IN  Active(t) =>
            /\ p \in Paths
            /\ taking[t].before <= generation(p)
            /\ taking[t].floor <= reported[p]
            /\ taking[t].before = generation(p) => taking[t].floor = reported[p]
            /\ taking[t].step = "reading" => taking[t].seen <= file[p].version
            /\ Took(t) => /\ taking[t].snap \in Snapshots
                          /\ taking[t].snap.generation = taking[t].before

\* Two takes of a file that noted the same generation noted the same floor.
SameFloor ==
    \A t, u \in Takers :
        /\ Active(t) /\ Active(u)
        /\ taking[t].path = taking[u].path
        /\ taking[t].before = taking[u].before
        => taking[t].floor = taking[u].floor

\* The snapshot in place for a file is no older than the changes reported by
\* the generation it has.
CurrentOK(p) ==
    LET s == current[p]
    IN  s # None =>
            /\ s.generation <= generation(p)
            /\ s.generation = generation(p) => s.version >= reported[p]
            /\ \A t \in Takers :
                  Active(t) /\ taking[t].path = p /\ taking[t].before = s.generation
                      => s.version >= taking[t].floor

SnapshotsOK ==
    /\ \A t \in Takers : TakeOK(t)
    /\ SameFloor
    /\ \A p \in Paths : CurrentOK(p)
    /\ \A p \in Paths : reported[p] <= file[p].version
    /\ TakenIsCurrent

-----------------------------------------------------------------------------
NodeType ==
    [path : Paths, opened : Versions \cup {None}, generation : Nat,
     snapshot : Snapshots \cup {None}]

\* The inodes: numbered once, fixed by the first open, never ahead of the file.
NodesOK ==
    /\ nodes = [i \in DOMAIN nodes |-> nodes[i]]
    /\ DOMAIN nodes \subseteq Nat
    /\ \A i \in DOMAIN nodes :
          /\ i # 0
          /\ i <= nextInode
          /\ nodes[i] \in NodeType
          /\ nodes[i].opened = None <=> nodes[i].snapshot = None
          /\ nodes[i].snapshot # None
                => nodes[i].snapshot.generation <= generation(nodes[i].path)

InodeOf(i, p) == i \in DOMAIN nodes /\ nodes[i].path = p

NamesOK == \A p \in Paths : ids[p] = 0 \/ InodeOf(ids[p], p)

LoopOK ==
    /\ loop.who = None => loop = NotLooking
    /\ loop.who # None => loop.path \in Paths
    /\ loop.who \in Takers => op[loop.who].pc = "looking" /\ op[loop.who].path = loop.path
    /\ loop.who = Notifier =>
          pass.pc \in {"poke", "mknod", "removal"} /\ pass.path = loop.path

\* The inode the notifier has open is of the file it is announcing.
PokeOK == pass.ino # 0 => pass.pc \in {"open", "writing"} /\ InodeOf(pass.ino, pass.path)

HasInode(o) == op[o].pc \in {"found", "opening", "taking", "held", "open"}

\* An open, its take(), and its inode: whoever has a handle has the snapshot
\* its inode is.
OpenOK(o) ==
    /\ HasInode(o) => op[o].path \in Paths /\ InodeOf(op[o].ino, op[o].path)
    /\ op[o].pc \in {"idle", "looking", "found", "opening"} => taking[o].step = "none"
    /\ op[o].pc = "taking" <=> Active(o)
    /\ Active(o) => taking[o].path = op[o].path
    /\ HasHandle(o) => /\ taking[o].snap # None
                       /\ taking[o].snap = nodes[op[o].ino].snapshot

RequestsOK ==
    /\ NodesOK
    /\ NamesOK
    /\ LoopOK
    /\ PokeOK
    /\ \A o \in Takers : OpenOK(o)

-----------------------------------------------------------------------------
Announcing == {"creation", "mknod", "poke", "open", "writing", "gone", "removal", "announced"}

PassOK ==
    /\ pass = [pc |-> pass.pc, batch |-> pass.batch, gens |-> pass.gens,
               every |-> pass.every, path |-> pass.path, ino |-> pass.ino]
    /\ pass.pc \in Announcing \cup {"off", "top", "batch"}
    /\ DOMAIN pass.batch \subseteq DOMAIN pass.gens
    /\ DOMAIN pass.gens \subseteq Paths
    /\ \A p \in DOMAIN pass.gens : pass.gens[p] \in 0..clock
    /\ pass.every \in (0..clock) \cup {None}
    /\ pass.ino \in Nat
    /\ pass.pc \in Announcing => pass.path \in DOMAIN pass.batch
    /\ pass.pc \in {"off", "top"} => DOMAIN pass.batch = {} /\ pass.every = None
    /\ notifying <=> pass.pc # "off"
    /\ pass.pc = "off" /\ ~stopping => ~Queued

\* What is queued is newer than what is being announced, which is newer than
\* what is announced.
AheadOK(p) ==
    /\ p \in DOMAIN pending =>
          /\ AnnouncedUpTo(p) < generation(p)
          /\ p \in DOMAIN pass.batch => pass.gens[p] < generation(p)
          /\ pass.every # None => pass.every < generation(p)
    /\ dirty =>
          /\ AnnouncedUpTo(p) < everything
          /\ p \in DOMAIN pass.batch => pass.gens[p] < everything
          /\ pass.every # None => pass.every < everything
    /\ p \in DOMAIN pass.batch => AnnouncedUpTo(p) < pass.gens[p]

\* The newest generation of each file is announced, or will be.
ComingOK(p) ==
    stopping \/ generation(p) <= AnnouncedUpTo(p) \/ WillAnnounce(p, generation(p))

NotifierOK ==
    /\ PassOK
    /\ \A p \in Paths : AheadOK(p) /\ ComingOK(p)

-----------------------------------------------------------------------------
\* Until we stop, an open is replied to exactly if its version is announced.
RepliesOK ==
    \A o \in Takers :
        /\ op[o].pc = "held" => notifying
        /\ op[o].pc = "held" /\ ~stopping =>
              taking[o].snap.generation > AnnouncedUpTo(op[o].path)
        /\ op[o].pc = "open" /\ ~stopping =>
              taking[o].snap.generation <= AnnouncedUpTo(op[o].path)

Inv ==
    /\ TypeOK
    /\ SnapshotsOK
    /\ RequestsOK
    /\ NotifierOK
    /\ RepliesOK

-----------------------------------------------------------------------------
(* FileSnapshots: what each of its operations keeps.                       *)

TakingType ==
    [step : Steps, path : Paths \cup {None}, before : 0..clock, seen : Versions,
     floor : Versions, snap : Snapshots \cup {None}]

LEMMA VersionsAreNat == Versions \subseteq Nat
BY VersionsAssumption DEF Versions, VersionsAssumption

LEMMA TakingIs ==
    ASSUME SnapshotsTypeOK, NEW t \in Takers
    PROVE  taking[t] \in TakingType
BY DEF SnapshotsTypeOK, TakingType

LEMMA Numbers ==
    ASSUME SnapshotsTypeOK
    PROVE  /\ \A p \in Paths : file[p].version \in Nat /\ reported[p] \in Nat
           /\ \A t \in Takers : /\ taking[t].before \in Nat
                                /\ taking[t].seen \in Nat
                                /\ taking[t].floor \in Nat
<1>1. \A p \in Paths : file[p].version \in Versions /\ reported[p] \in Versions
  BY DEF SnapshotsTypeOK
<1>2. \A t \in Takers : taking[t].before \in Nat /\ taking[t].seen \in Versions
                        /\ taking[t].floor \in Versions
  BY TakingIs DEF TakingType, SnapshotsTypeOK
<1> QED  BY <1>1, <1>2, VersionsAreNat

\* A file's generation is one of those given out.
LEMMA GenerationIs ==
    ASSUME SnapshotsTypeOK, NEW p \in Paths
    PROVE  generation(p) \in 0..clock
BY DEF SnapshotsTypeOK, generation, Larger

LEMMA ChangedGeneration ==
    ASSUME SnapshotsTypeOK, NEW p \in Paths, changed(p)
    PROVE  /\ generation(p)' = clock + 1
           /\ \A q \in Paths \ {p} : generation(q)' = generation(q)
BY DEF SnapshotsTypeOK, changed, generation, Larger

LEMMA EverythingGeneration ==
    ASSUME SnapshotsTypeOK, changed_everything
    PROVE  \A q \in Paths : generation(q)' = clock + 1
BY DEF SnapshotsTypeOK, changed_everything, generation, Larger

SnapInv == SnapshotsTypeOK /\ SnapshotsOK

\* The tree changes a file, which is at most seen by a read that comes later.
LEMMA TreeChangesKeeps ==
    ASSUME SnapInv, NEW p \in Paths, NEW exists \in BOOLEAN, TreeChanges(p, exists),
           UNCHANGED <<clock, everything, generations, current, taking, reported>>
    PROVE  SnapInv'
<1> USE VersionsAreNat DEF SnapInv
<1>1. SnapshotsTypeOK'
  BY VersionsAssumption DEF SnapshotsTypeOK, TreeChanges, Versions, VersionsAssumption
<1>2. \A q \in Paths : file'[q].version \in Nat /\ file'[q].version >= file[q].version
  BY <1>1, Numbers DEF SnapshotsTypeOK, TreeChanges
<1>3. \A q \in Paths : generation(q)' = generation(q)
  BY DEF generation
<1>4. \A t \in Takers : TakeOK(t)'
  BY <1>2, <1>3, Numbers DEF SnapshotsOK, TakeOK, Active, Took
<1>5. SameFloor' /\ \A q \in Paths : CurrentOK(q)'
  BY <1>3 DEF SnapshotsOK, SameFloor, CurrentOK, Active
<1>6. \A q \in Paths : reported'[q] <= file'[q].version
  BY <1>2, Numbers DEF SnapshotsOK
<1>7. TakenIsCurrent'
  BY DEF SnapshotsOK, TakenIsCurrent, Took
<1> QED  BY <1>1, <1>4, <1>5, <1>6, <1>7 DEF SnapshotsOK

\* A report takes the snapshot in place away, and leaves every take() under
\* way with a generation older than the file's.
LEMMA ChangedKeeps ==
    ASSUME SnapInv, NEW p \in Paths, changed(p), UNCHANGED <<file, taking>>
    PROVE  SnapInv'
<1> USE VersionsAreNat DEF SnapInv
<1>1. SnapshotsTypeOK'
  BY DEF SnapshotsTypeOK, changed
<1>2. generation(p)' = clock + 1 /\ \A q \in Paths \ {p} : generation(q)' = generation(q)
  BY ChangedGeneration
<1>3. \A q \in Paths : generation(q) \in 0..clock
  BY GenerationIs
<1>4. ASSUME NEW t \in Takers PROVE TakeOK(t)'
  <2>1. taking[t] \in TakingType
    BY TakingIs
  <2>2. CASE taking[t].path = p
    BY <1>2, <1>3, <2>1, <2>2, Numbers DEF SnapshotsOK, TakeOK, Active, Took, changed, SnapshotsTypeOK, TakingType
  <2>3. CASE taking[t].path # p
    BY <1>2, <1>3, <2>1, <2>3, Numbers DEF SnapshotsOK, TakeOK, Active, Took, changed, SnapshotsTypeOK, TakingType
  <2> QED  BY <2>2, <2>3
<1>5. SameFloor'
  BY DEF SnapshotsOK, SameFloor, Active
<1>6. \A q \in Paths : CurrentOK(q)'
  BY <1>2 DEF SnapshotsOK, CurrentOK, Active, changed, SnapshotsTypeOK
<1>7. \A q \in Paths : reported'[q] <= file'[q].version
  BY Numbers DEF SnapshotsOK, SnapshotsTypeOK, changed
<1>8. TakenIsCurrent'
  BY DEF SnapshotsOK, TakenIsCurrent, Took
<1> QED  BY <1>1, <1>4, <1>5, <1>6, <1>7, <1>8 DEF SnapshotsOK

LEMMA ChangedEverythingKeeps ==
    ASSUME SnapInv, changed_everything, UNCHANGED <<file, taking>>
    PROVE  SnapInv'
<1> USE VersionsAreNat DEF SnapInv
<1>1. SnapshotsTypeOK'
  BY DEF SnapshotsTypeOK, changed_everything
<1>2. \A q \in Paths : generation(q)' = clock + 1
  BY EverythingGeneration
<1>3. \A q \in Paths : generation(q) \in 0..clock
  BY GenerationIs
<1>4. ASSUME NEW t \in Takers PROVE TakeOK(t)'
  <2>1. taking[t] \in TakingType
    BY TakingIs
  <2> QED  BY <1>2, <1>3, <2>1, Numbers DEF SnapshotsOK, TakeOK, Active, Took, changed_everything,
              SnapshotsTypeOK, TakingType
<1>5. SameFloor'
  BY DEF SnapshotsOK, SameFloor, Active
<1>6. \A q \in Paths : CurrentOK(q)'
  BY DEF CurrentOK, changed_everything
<1>7. \A q \in Paths : reported'[q] <= file'[q].version
  BY Numbers DEF SnapshotsTypeOK, changed_everything
<1>8. TakenIsCurrent'
  BY DEF SnapshotsOK, TakenIsCurrent, Took
<1> QED  BY <1>1, <1>4, <1>5, <1>6, <1>7, <1>8 DEF SnapshotsOK

\* A take() that begins notes the file's generation and what was reported.
LEMMA TakeGenerationKeeps ==
    ASSUME SnapInv, NEW t \in Takers, NEW p \in Paths, TakeGeneration(t, p)
    PROVE  SnapInv'
<1> USE DEF SnapInv
<1>1. generation(p) \in 0..clock /\ reported[p] \in Versions
  BY GenerationIs DEF SnapshotsTypeOK
<1>2. /\ taking'[t] = [taking[t] EXCEPT !.step = "noted", !.path = p,
                                       !.before = generation(p), !.floor = reported[p]]
      /\ \A u \in Takers \ {t} : taking'[u] = taking[u]
  BY DEF TakeGeneration, SnapshotsTypeOK
<1>3. SnapshotsTypeOK'
  <2>1. taking'[t] \in TakingType
    BY <1>1, <1>2, TakingIs DEF TakingType, Steps
  <2>2. taking' \in [Takers -> TakingType]
    BY <1>2, <2>1, TakingIs DEF TakeGeneration, SnapshotsTypeOK
  <2> QED  BY <2>2 DEF SnapshotsTypeOK, TakeGeneration, TakingType
<1>4. \A q \in Paths : generation(q)' = generation(q)
  BY DEF generation, TakeGeneration
<1>5. /\ taking'[t].step = "noted" /\ taking'[t].path = p
      /\ taking'[t].before = generation(p) /\ taking'[t].floor = reported[p]
  BY <1>2, TakingIs DEF TakingType
<1>6. ASSUME NEW u \in Takers PROVE TakeOK(u)'
  <2>1. CASE u = t
    BY <1>1, <1>4, <1>5, <2>1, Numbers DEF TakeOK, Active, Took, TakeGeneration
  <2>2. CASE u # t
    <3>1. taking'[u] = taking[u] /\ UNCHANGED <<file, reported>>
      BY <1>2, <2>2 DEF TakeGeneration
    <3> QED  BY <1>4, <3>1 DEF SnapshotsOK, TakeOK, Active, Took
  <2> QED  BY <2>1, <2>2
<1>7. SameFloor'
  <2>1. ASSUME NEW u \in Takers \ {t}, Active(u), taking[u].path = p,
               taking[u].before = generation(p)
        PROVE  taking[u].floor = reported[p]
    BY <2>1 DEF SnapshotsOK, TakeOK
  <2>2. ASSUME NEW u \in Takers, NEW w \in Takers, Active(u)', Active(w)',
               taking'[u].path = taking'[w].path, taking'[u].before = taking'[w].before
        PROVE  taking'[u].floor = taking'[w].floor
    <3>1. CASE u = t /\ w # t
      <4>1. taking'[w] = taking[w] /\ w \in Takers \ {t}
        BY <1>2, <3>1
      <4>2. Active(w)
        BY <2>2, <4>1 DEF Active
      <4>3. taking[w].path = p /\ taking[w].before = generation(p)
        BY <1>5, <2>2, <3>1, <4>1
      <4>4. taking[w].floor = reported[p]
        BY <2>1, <4>1, <4>2, <4>3
      <4> QED  BY <1>5, <3>1, <4>1, <4>4
    <3>2. CASE u # t /\ w = t
      <4>1. taking'[u] = taking[u] /\ u \in Takers \ {t}
        BY <1>2, <3>2
      <4>2. Active(u)
        BY <2>2, <4>1 DEF Active
      <4>3. taking[u].path = p /\ taking[u].before = generation(p)
        BY <1>5, <2>2, <3>2, <4>1
      <4>4. taking[u].floor = reported[p]
        BY <2>1, <4>1, <4>2, <4>3
      <4> QED  BY <1>5, <3>2, <4>1, <4>4
    <3>3. CASE u # t /\ w # t
      <4>1. taking'[u] = taking[u] /\ taking'[w] = taking[w]
        BY <1>2, <3>3
      <4> QED  BY <2>2, <4>1 DEF SnapshotsOK, SameFloor, Active
    <3> QED  BY <3>1, <3>2, <3>3
  <2> QED  BY <2>2 DEF SameFloor
<1>8. ASSUME NEW q \in Paths PROVE CurrentOK(q)'
  <2>1. current' = current /\ reported' = reported
    BY DEF TakeGeneration
  <2>2. ASSUME current[q] # None, NEW u \in Takers, Active(u)', taking'[u].path = q,
               taking'[u].before = current[q].generation
        PROVE  current[q].version >= taking'[u].floor
    <3>1. CASE u = t
      BY <1>5, <2>2, <3>1 DEF SnapshotsOK, CurrentOK
    <3>2. CASE u # t
      <4>1. taking'[u] = taking[u]
        BY <1>2, <3>2
      <4> QED  BY <2>2, <4>1 DEF SnapshotsOK, CurrentOK, Active
    <3> QED  BY <3>1, <3>2
  <2> QED  BY <1>4, <2>1, <2>2 DEF SnapshotsOK, CurrentOK
<1>9. \A q \in Paths : reported'[q] <= file'[q].version
  BY DEF SnapshotsOK, TakeGeneration
<1>10. TakenIsCurrent'
  BY <1>2, <1>5 DEF SnapshotsOK, TakenIsCurrent, Took
<1> QED  BY <1>3, <1>6, <1>7, <1>8, <1>9, <1>10 DEF SnapshotsOK

\* A take() that goes on, with what it noted as it was.
TakeGoesOn(t) ==
    /\ Active(t)
    /\ taking'[t].path = taking[t].path
    /\ taking'[t].before = taking[t].before
    /\ taking'[t].floor = taking[t].floor
    /\ \A u \in Takers \ {t} : taking'[u] = taking[u]
    /\ UNCHANGED <<file, clock, everything, generations, current, reported>>

\* It keeps the invariant if what it now has is of its generation and no
\* older than its floor and than the tree's word.
LEMMA TakeGoesOnKeeps ==
    ASSUME SnapInv, NEW t \in Takers, TakeGoesOn(t), SnapshotsTypeOK',
           taking'[t].step = "reading" => taking'[t].seen <= file[taking[t].path].version,
           Took(t)' => /\ taking'[t].snap \in Snapshots
                       /\ taking'[t].snap.generation = taking[t].before
                       /\ taking'[t].snap.version >= taking[t].floor
                       /\ \/ taking'[t].snap.version >= taking'[t].seen
                          \/ SameInfo(taking'[t].snap.version, taking'[t].seen)
    PROVE  SnapInv'
<1> USE DEF SnapInv
<1>1. \A q \in Paths : generation(q)' = generation(q)
  BY DEF generation, TakeGoesOn
<1>2. \A u \in Takers : TakeOK(u)'
  BY <1>1 DEF SnapshotsOK, TakeOK, Active, Took, TakeGoesOn
<1>3. SameFloor'
  BY DEF SnapshotsOK, SameFloor, Active, TakeGoesOn
<1>4. \A q \in Paths : CurrentOK(q)'
  BY <1>1 DEF SnapshotsOK, CurrentOK, Active, TakeGoesOn
<1>5. \A q \in Paths : reported'[q] <= file'[q].version
  BY DEF SnapshotsOK, TakeGoesOn
<1>6. TakenIsCurrent'
  BY DEF SnapshotsOK, TakenIsCurrent, Took, TakeGoesOn, SameInfo
<1> QED  BY <1>2, <1>3, <1>4, <1>5, <1>6 DEF SnapshotsOK

\* A snapshot is reused only for its generation, and the one in place for it
\* is no older than what a take() of that generation noted.
LEMMA TakeHeldKeeps ==
    ASSUME SnapInv, NEW t \in Takers, TakeHeld(t)
    PROVE  SnapInv'
<1> USE DEF SnapInv
<1>1. PICK p \in Paths : p = taking[t].path
  BY DEF TakeHeld, SnapshotsOK, TakeOK, Active
<1>2. PICK v \in Versions : v = file[p].version
  BY DEF SnapshotsTypeOK
<1>3. PICK held \in Snapshots \cup {None} : held = current[p]
  BY DEF SnapshotsTypeOK
<1>4. PICK step \in {"failed", "taken", "reading"} :
        /\ step = "taken" <=> file[p].exists /\ Reusable(t, held, v)
        /\ taking' = [taking EXCEPT ![t].step = step, ![t].seen = v,
                                    ![t].snap = IF step = "taken" THEN held ELSE None]
  <2>1. file[p].exists \in BOOLEAN
    BY DEF SnapshotsTypeOK
  <2> QED  BY <1>1, <1>2, <1>3, <2>1 DEF TakeHeld
<1>5. taking[t].step = "noted" /\ UNCHANGED <<file, clock, everything, generations, current, reported>>
  BY DEF TakeHeld
<1>6. SnapshotsTypeOK'
  <2>1. [taking[t] EXCEPT !.step = step, !.seen = v,
                          !.snap = IF step = "taken" THEN held ELSE None] \in TakingType
    BY <1>3, <1>4, TakingIs DEF TakingType, Steps
  <2>2. taking \in [Takers -> TakingType]
    BY DEF SnapshotsTypeOK, TakingType
  <2>3. taking' \in [Takers -> TakingType]
    BY <1>4, <2>1, <2>2
  <2> QED  BY <2>3, <1>5 DEF SnapshotsTypeOK, TakingType
<1>7. /\ taking'[t].step = step /\ taking'[t].seen = v
      /\ taking'[t].snap = IF step = "taken" THEN held ELSE None
      /\ taking'[t].path = taking[t].path /\ taking'[t].before = taking[t].before
      /\ taking'[t].floor = taking[t].floor
      /\ \A u \in Takers \ {t} : taking'[u] = taking[u]
  BY <1>4, TakingIs DEF SnapshotsTypeOK, TakingType
<1>8. TakeGoesOn(t)
  BY <1>5, <1>7 DEF TakeGoesOn, Active
<1>9. Took(t)' => step = "taken"
  BY <1>7 DEF Took
<1>10. ASSUME step = "taken"
       PROVE  /\ held \in Snapshots
              /\ held.generation = taking[t].before
              /\ SameInfo(held.version, v)
  BY <1>4, <1>10 DEF Reusable, HeldSnapshots
<1>11. ASSUME step = "taken" PROVE held.version >= taking[t].floor
  BY <1>1, <1>3, <1>5, <1>10, <1>11, NoneAssumption DEF SnapshotsOK, CurrentOK, Active, NoneAssumption
<1>12. v <= v
  BY <1>2, VersionsAreNat
<1> QED  BY <1>1, <1>2, <1>6, <1>7, <1>8, <1>9, <1>10, <1>11, <1>12, TakeGoesOnKeeps

\* What is read is what the file is now, at least what was reported of it
\* when the take() began.
LEMMA TakeReadKeeps ==
    ASSUME SnapInv, NEW t \in Takers, TakeRead(t)
    PROVE  SnapInv'
<1> USE DEF SnapInv
<1>1. PICK p \in Paths : p = taking[t].path
  BY DEF TakeRead, SnapshotsOK, TakeOK, Active
<1>2. PICK v \in Versions : v = file[p].version
  BY DEF SnapshotsTypeOK
<1>3. taking[t].step = "reading" /\ UNCHANGED <<file, clock, everything, generations, current, reported>>
  BY DEF TakeRead
<1>4. /\ v >= taking[t].floor /\ v >= taking[t].seen
      /\ v \in Nat /\ taking[t].seen \in Nat
  BY <1>1, <1>2, <1>3, Numbers DEF SnapshotsOK, TakeOK, Active
<1>5. SnapshotOf(t, v) \in Snapshots
  BY Numbers DEF SnapshotOf, Snapshots
<1>6. CASE file[p].exists
  <2>1. taking' = [taking EXCEPT ![t].step = "read", ![t].snap = SnapshotOf(t, v)]
    BY <1>1, <1>2, <1>6 DEF TakeRead
  <2>2. taking' \in [Takers -> TakingType]
    <3>1. [taking[t] EXCEPT !.step = "read", !.snap = SnapshotOf(t, v)] \in TakingType
      BY <1>5, TakingIs DEF TakingType, Steps
    <3>2. taking \in [Takers -> TakingType]
      BY DEF SnapshotsTypeOK, TakingType
    <3> QED  BY <2>1, <3>1, <3>2
  <2>3. SnapshotsTypeOK'
    BY <2>2, <1>3 DEF SnapshotsTypeOK, TakingType
  <2>4. /\ taking'[t].step = "read" /\ taking'[t].snap = SnapshotOf(t, v)
        /\ taking'[t].seen = taking[t].seen
        /\ taking'[t].path = taking[t].path /\ taking'[t].before = taking[t].before
        /\ taking'[t].floor = taking[t].floor
        /\ \A u \in Takers \ {t} : taking'[u] = taking[u]
    BY <2>1, TakingIs DEF SnapshotsTypeOK, TakingType
  <2>5. TakeGoesOn(t)
    BY <1>3, <2>4 DEF TakeGoesOn, Active
  <2>6. SnapshotOf(t, v).generation = taking[t].before /\ SnapshotOf(t, v).version = v
    BY DEF SnapshotOf
  <2> QED  BY <1>4, <1>5, <2>3, <2>4, <2>5, <2>6, TakeGoesOnKeeps
<1>7. CASE ~file[p].exists
  <2>1. taking' = [taking EXCEPT ![t].step = "failed"]
    BY <1>1, <1>7 DEF TakeRead
  <2>2. taking' \in [Takers -> TakingType]
    <3>1. [taking[t] EXCEPT !.step = "failed"] \in TakingType
      BY TakingIs DEF TakingType, Steps
    <3>2. taking \in [Takers -> TakingType]
      BY DEF SnapshotsTypeOK, TakingType
    <3> QED  BY <2>1, <3>1, <3>2
  <2>3. SnapshotsTypeOK'
    BY <2>2, <1>3 DEF SnapshotsTypeOK, TakingType
  <2>4. /\ taking'[t].step = "failed"
        /\ taking'[t].path = taking[t].path /\ taking'[t].before = taking[t].before
        /\ taking'[t].floor = taking[t].floor
        /\ \A u \in Takers \ {t} : taking'[u] = taking[u]
    BY <2>1, TakingIs DEF SnapshotsTypeOK, TakingType
  <2>5. TakeGoesOn(t) /\ ~Took(t)'
    BY <1>3, <2>4 DEF TakeGoesOn, Active, Took
  <2> QED  BY <2>3, <2>4, <2>5, TakeGoesOnKeeps
<1> QED  BY <1>6, <1>7

\* Takes are over, and only those: what goes into Current is a snapshot that
\* was read just now, or what was there, or nothing.
TakesEnd ==
    /\ \A u \in Takers : Active(u)' => taking'[u] = taking[u]
    /\ UNCHANGED <<file, clock, everything, generations, reported>>

LEMMA TakesEndKeeps ==
    ASSUME SnapInv, TakesEnd, SnapshotsTypeOK',
           \A p \in Paths :
              \/ current'[p] \in {None, current[p]}
              \/ \E t \in Takers : /\ Took(t)
                                   /\ taking[t].path = p
                                   /\ current'[p] = taking[t].snap
    PROVE  SnapInv'
<1> USE DEF SnapInv
<1>1. \A q \in Paths : generation(q)' = generation(q)
  BY DEF generation, TakesEnd
<1>2. \A u \in Takers : Active(u)' => Active(u)
  BY DEF TakesEnd, Active
<1>3. \A u \in Takers : TakeOK(u)'
  BY <1>1, <1>2 DEF SnapshotsOK, TakeOK, Active, Took, TakesEnd
<1>4. SameFloor'
  BY <1>2 DEF SnapshotsOK, SameFloor, TakesEnd
<1>5. ASSUME NEW q \in Paths PROVE CurrentOK(q)'
  <2>1. CASE current'[q] = None
    BY <2>1 DEF CurrentOK
  <2>2. CASE current'[q] = current[q]
    <3>1. CurrentOK(q)
      BY DEF SnapshotsOK
    <3> QED  BY <1>1, <1>2, <2>2, <3>1 DEF CurrentOK, TakesEnd
  <2>3. ASSUME NEW t \in Takers, Took(t), taking[t].path = q, current'[q] = taking[t].snap
        PROVE  CurrentOK(q)'
    <3>1. Active(t)
      BY <2>3 DEF Took, Active
    <3>2. /\ taking[t].snap.generation = taking[t].before
          /\ taking[t].before <= generation(q)
          /\ taking[t].before = generation(q) => taking[t].floor = reported[q]
          /\ taking[t].snap.version >= taking[t].floor
      BY <2>3, <3>1 DEF SnapshotsOK, TakeOK, TakenIsCurrent
    <3>3. \A u \in Takers :
             Active(u)' /\ taking'[u].path = q /\ taking'[u].before = taking[t].before
                => taking'[u].floor = taking[t].floor
      BY <1>2, <2>3, <3>1 DEF SnapshotsOK, SameFloor, TakesEnd
    <3> QED  BY <1>1, <2>3, <3>2, <3>3 DEF CurrentOK, TakesEnd
  <2> QED  BY <2>1, <2>2, <2>3
<1>6. \A q \in Paths : reported'[q] <= file'[q].version
  BY DEF SnapshotsOK, TakesEnd
<1>7. TakenIsCurrent'
  <2>1. \A u \in Takers : Took(u)' => Active(u)'
    BY DEF Took, Active
  <2>2. \A u \in Takers : Took(u)' => Took(u) /\ taking'[u] = taking[u]
    BY <2>1 DEF Took, TakesEnd
  <2> QED  BY <2>2 DEF SnapshotsOK, TakenIsCurrent
<1> QED  BY <1>3, <1>4, <1>5, <1>6, <1>7 DEF SnapshotsOK

LEMMA ReleasedIs ==
    ASSUME NEW s \in Snapshots \cup {None}, SnapshotsTypeOK
    PROVE  /\ [Released EXCEPT !.snap = s] \in TakingType
           /\ [Released EXCEPT !.snap = s].snap = s
           /\ [Released EXCEPT !.snap = s].step = "released"
           /\ Released \in TakingType
           /\ Released.step = "released"
<1>1. 0 \in Versions /\ 0 \in 0..clock
  BY VersionsAssumption DEF SnapshotsTypeOK, Versions, VersionsAssumption
<1> QED  BY <1>1 DEF Released, NotTaking, TakingType, Steps

LEMMA CurrentAfterIs ==
    ASSUME NEW put, NEW p, NEW q \in Paths, current' = CurrentAfter(put, p)
    PROVE  current'[q] \in {None, current[q]} \/ (q = p /\ current'[q] = put)
BY DEF CurrentAfter

LEMMA TakeEndsKeeps ==
    ASSUME SnapInv, NEW t \in Takers, NEW kept \in Snapshots \cup {None}, TakeEnds(t, kept)
    PROVE  /\ SnapInv'
           /\ taking'[t].snap = kept
           /\ taking'[t].step = "released"
           /\ \A u \in Takers \ {t} : taking'[u] = taking[u]
<1> USE DEF SnapInv
<1>1. taking \in [Takers -> TakingType]
  BY DEF SnapshotsTypeOK, TakingType
<1>2. taking' \in [Takers -> TakingType]
  BY <1>1, ReleasedIs DEF TakeEnds
<1>3. /\ taking'[t].snap = kept /\ taking'[t].step = "released"
      /\ \A u \in Takers \ {t} : taking'[u] = taking[u]
  BY <1>1, ReleasedIs DEF TakeEnds
<1>4. TakesEnd
  BY <1>3 DEF TakesEnd, TakeEnds, Active
<1>5. PICK put : /\ put = IF taking[t].step = "read" THEN taking[t].snap ELSE None
                 /\ current' = CurrentAfter(put, taking[t].path)
  BY DEF TakeEnds
<1>6. Took(t) /\ taking[t].snap \in Snapshots
  BY DEF TakeEnds, SnapshotsOK, TakeOK, Took, Active
<1>7. ASSUME NEW p \in Paths
      PROVE  \/ current'[p] \in {None, current[p]}
             \/ Took(t) /\ taking[t].path = p /\ current'[p] = taking[t].snap
  <2>1. current'[p] \in {None, current[p]} \/ (p = taking[t].path /\ current'[p] = put)
    BY <1>5, CurrentAfterIs
  <2> QED  BY <1>5, <1>6, <2>1
<1>8. current' \in [Paths -> Snapshots \cup {None}]
  <2>1. current' = [p \in Paths |-> current'[p]]
    BY <1>5 DEF CurrentAfter
  <2>2. \A p \in Paths : current'[p] \in Snapshots \cup {None}
    BY <1>6, <1>7 DEF SnapshotsTypeOK
  <2> QED  BY <2>1, <2>2
<1>9. SnapshotsTypeOK'
  BY <1>2, <1>8 DEF SnapshotsTypeOK, TakeEnds, TakingType
<1> QED  BY <1>3, <1>4, <1>7, <1>9, TakesEndKeeps

LEMMA ReleaseKeeps ==
    ASSUME SnapInv, NEW gone \in SUBSET Takers, Release(gone)
    PROVE  /\ SnapInv'
           /\ \A u \in Takers \ gone : taking'[u] = taking[u]
           /\ \A u \in gone : taking'[u].step = "released"
<1> USE DEF SnapInv
<1>1. taking \in [Takers -> TakingType]
  BY DEF SnapshotsTypeOK, TakingType
<1>2. taking' \in [Takers -> TakingType]
  BY <1>1, ReleasedIs DEF Release
<1>3. /\ \A u \in Takers \ gone : taking'[u] = taking[u]
      /\ \A u \in gone : taking'[u].step = "released"
  BY <1>1, ReleasedIs DEF Release
<1>4. TakesEnd
  BY <1>3 DEF TakesEnd, Release, Active
<1>5. \A p \in Paths : current'[p] \in {None, current[p]}
  BY CurrentAfterIs, NoneAssumption DEF Release, NoneAssumption
<1>6. current' \in [Paths -> Snapshots \cup {None}]
  <2>1. current' = [p \in Paths |-> current'[p]]
    BY DEF CurrentAfter, Release
  <2> QED  BY <1>5, <2>1 DEF SnapshotsTypeOK
<1>7. SnapshotsTypeOK'
  BY <1>2, <1>6 DEF SnapshotsTypeOK, Release, TakingType
<1> QED  BY <1>3, <1>4, <1>5, <1>7, TakesEndKeeps

LEMMA SnapshotsUnchanged ==
    ASSUME SnapInv, UNCHANGED snapshotVars
    PROVE  SnapInv'
<1>1. TakesEnd /\ \A p \in Paths : current'[p] \in {None, current[p]}
  BY DEF TakesEnd, snapshotVars
<1>2. SnapshotsTypeOK'
  BY DEF SnapInv, SnapshotsTypeOK, snapshotVars
<1> QED  BY <1>1, <1>2, TakesEndKeeps

-----------------------------------------------------------------------------
(* What is kept by whatever leaves a part of the state alone.              *)

OpType ==
    [pc : {"idle", "looking", "found", "opening", "taking", "held", "open", "closed"},
     path : Paths \cup {None}, ino : Nat, looked : Versions \cup {None}, stop : BOOLEAN,
     answers : Nat]

LEMMA OpIs ==
    ASSUME TypeOK
    PROVE  op \in [Takers -> OpType]
BY DEF TypeOK, OpType

LEMMA NoTakerIsSpecial ==
    /\ None \notin Takers /\ Notifier \notin Takers /\ None # Notifier
    /\ None \notin Versions
<1>1. None \notin Nat /\ Takers \subseteq Nat \ {0}
  BY ServingAssumption, NoneAssumption DEF ServingAssumption, NoneAssumption
<1>2. None # 0
  BY <1>1
<1>3. None \notin Takers
  BY <1>1
<1>4. 0 \notin Takers
  BY <1>1
<1>5. None \notin Versions
  BY <1>1, VersionsAreNat
<1> QED  BY <1>2, <1>3, <1>4, <1>5 DEF Notifier

\* Inodes stay as they are while files only move ahead of them.
LEMMA NodesUnchanged ==
    ASSUME SnapshotsTypeOK, SnapshotsTypeOK', RequestsOK, UNCHANGED <<nodes, ids, nextInode>>,
           \A p \in Paths : generation(p)' >= generation(p)
    PROVE  NodesOK' /\ NamesOK'
<1>1. \A p \in Paths : generation(p) \in Nat /\ generation(p)' \in Nat
  BY GenerationIs DEF SnapshotsTypeOK, generation, Larger
<1>2. NodesOK
  BY DEF RequestsOK
<1>3. ASSUME NEW i \in DOMAIN nodes, nodes[i].snapshot # None
      PROVE  nodes[i].snapshot.generation <= generation(nodes[i].path)'
  <2>1. nodes[i].path \in Paths /\ nodes[i].snapshot.generation \in Nat
    BY <1>2, <1>3 DEF NodesOK, NodeType, Snapshots
  <2>2. nodes[i].snapshot.generation <= generation(nodes[i].path)
    BY <1>2, <1>3 DEF NodesOK
  <2> QED  BY <1>1, <2>1, <2>2
<1>4. NodesOK'
  BY <1>2, <1>3 DEF NodesOK
<1> QED  BY <1>4 DEF RequestsOK, NamesOK, InodeOf

LEMMA GenerationUnchanged ==
    ASSUME SnapshotsTypeOK, UNCHANGED <<clock, everything, generations>>
    PROVE  \A p \in Paths : generation(p)' = generation(p) /\ generation(p)' >= generation(p)
BY GenerationIs DEF SnapshotsTypeOK, generation

LEMMA NotifierUnchanged ==
    ASSUME NotifierOK, UNCHANGED <<clock, everything, generations, notifyVars>>
    PROVE  NotifierOK'
<1>1. PassOK'
  BY DEF NotifierOK, PassOK, notifyVars, Queued
<1>2. \A p \in Paths : AheadOK(p)'
  BY DEF NotifierOK, AheadOK, notifyVars, AnnouncedUpTo, generation
<1>3. \A p \in Paths : ComingOK(p)'
  BY DEF NotifierOK, ComingOK, notifyVars, AnnouncedUpTo, generation, WillAnnounce
<1> QED  BY <1>1, <1>2, <1>3 DEF NotifierOK

\* A pass whose batch is as it was.
SameBatch ==
    /\ pass'.batch = pass.batch
    /\ pass'.gens = pass.gens
    /\ pass'.every = pass.every
    /\ pass' = [pc |-> pass'.pc, batch |-> pass'.batch, gens |-> pass'.gens,
                every |-> pass'.every, path |-> pass'.path, ino |-> pass'.ino]

\* A pass that goes on to another step of its batch.
LEMMA PassGoesOn ==
    ASSUME NotifierOK, SameBatch, pass.pc \notin {"off", "top"},
           pass'.pc \in Announcing, pass'.path \in DOMAIN pass.batch, pass'.ino \in Nat,
           UNCHANGED <<clock, everything, generations, pending, dirty, stopping, notifying,
                       announced, announcedEverything>>
    PROVE  NotifierOK'
<1> USE DEF SameBatch
<1>1. PassOK'
  BY DEF NotifierOK, PassOK, Announcing
<1>2. \A p \in Paths : AheadOK(p)'
  BY DEF NotifierOK, AheadOK, AnnouncedUpTo, generation
<1>3. \A p \in Paths : ComingOK(p)'
  BY DEF NotifierOK, ComingOK, AnnouncedUpTo, generation, WillAnnounce
<1> QED  BY <1>1, <1>2, <1>3 DEF NotifierOK

\* Replies stay right while handles are only dropped.
LEMMA RepliesUnchanged ==
    ASSUME RepliesOK, notifying => notifying', stopping => stopping',
           UNCHANGED <<announced, announcedEverything>>,
           \A o \in Takers : HasHandle(o)' =>
              /\ op'[o].pc = op[o].pc
              /\ op'[o].path = op[o].path
              /\ taking'[o].snap = taking[o].snap
    PROVE  RepliesOK'
BY DEF RepliesOK, HasHandle, AnnouncedUpTo

\* An open that nothing has happened to.
LEMMA OpenUnchanged ==
    ASSUME NEW o \in Takers, OpenOK(o), op'[o] = op[o], taking'[o] = taking[o],
           HasInode(o) => nodes'[op[o].ino] = nodes[op[o].ino] /\ op[o].ino \in DOMAIN nodes'
    PROVE  OpenOK(o)'
BY DEF OpenOK, HasInode, InodeOf, Active, HasHandle

-----------------------------------------------------------------------------
(* The tree's reports.                                                     *)

LEMMA EmptyPass ==
    ASSUME NEW pc
    PROVE  LET started == [NoPass EXCEPT !.pc = pc]
           IN  /\ started.pc = pc /\ started.every = None /\ started.ino = 0
               /\ DOMAIN started.batch = {} /\ DOMAIN started.gens = {}
               /\ started = [pc |-> started.pc, batch |-> started.batch, gens |-> started.gens,
                             every |-> started.every, path |-> started.path,
                             ino |-> started.ino]
BY DEF NoPass

\* A pass that starts has announced nothing and has nothing to announce yet.
LEMMA StartNotifying ==
    ASSUME PassOK, clock \in Nat, clock' \in Nat, clock' >= clock, UNCHANGED stopping,
           start_notifying
    PROVE  /\ PassOK'
           /\ stopping \/ notifying'
           /\ notifying => notifying'
           /\ DOMAIN pass'.batch = DOMAIN pass.batch
           /\ pass'.every = pass.every
           /\ \A q \in DOMAIN pass.batch : pass'.gens[q] = pass.gens[q]
           /\ pass' = pass \/ (pass.pc = "off" /\ pass'.pc = "top" /\ pass'.ino = 0)
<1>1. CASE notifying \/ stopping
  <2>1. UNCHANGED <<notifying, pass>>
    BY <1>1 DEF start_notifying
  <2>2. \A p \in DOMAIN pass.gens : pass.gens[p] \in 0..clock'
    BY DEF PassOK
  <2>3. pass.every \in (0..clock') \cup {None}
    BY DEF PassOK
  <2>4. PassOK'
    BY <1>1, <2>1, <2>2, <2>3 DEF PassOK
  <2> QED  BY <1>1, <2>1, <2>4
<1>2. CASE ~(notifying \/ stopping)
  <2>1. notifying' = TRUE /\ pass' = [NoPass EXCEPT !.pc = "top"]
    BY <1>2 DEF start_notifying
  <2>2. /\ pass'.pc = "top" /\ pass'.every = None /\ pass'.ino = 0
        /\ DOMAIN pass'.batch = {} /\ DOMAIN pass'.gens = {}
        /\ pass' = [pc |-> pass'.pc, batch |-> pass'.batch, gens |-> pass'.gens,
                    every |-> pass'.every, path |-> pass'.path, ino |-> pass'.ino]
    BY <2>1, EmptyPass
  <2>3. pass.pc = "off" /\ DOMAIN pass.batch = {} /\ pass.every = None
    BY <1>2 DEF PassOK
  <2>4. PassOK'
    BY <2>1, <2>2 DEF PassOK, Announcing
  <2> QED  BY <2>1, <2>2, <2>3, <2>4
<1> QED  BY <1>1, <1>2

\* What a report or a queued pass does to the requests under way: nothing.
LEMMA RequestsUnchanged ==
    ASSUME SnapshotsTypeOK, SnapshotsTypeOK', RequestsOK,
           UNCHANGED <<nodes, ids, nextInode, op, loop, taking>>,
           \A p \in Paths : generation(p)' >= generation(p),
           pass' = pass \/ (pass.pc = "off" /\ pass'.ino = 0)
    PROVE  RequestsOK'
<1>1. NodesOK' /\ NamesOK'
  BY NodesUnchanged
<1>2. LoopOK'
  BY DEF RequestsOK, LoopOK
<1>3. PokeOK'
  BY DEF RequestsOK, PokeOK, InodeOf
<1>4. \A o \in Takers : OpenOK(o)'
  BY OpenUnchanged DEF RequestsOK, OpenOK, InodeOf
<1> QED  BY <1>1, <1>2, <1>3, <1>4 DEF RequestsOK

LEMMA ChangeInv ==
    ASSUME Inv, NEW p \in Paths, Change(p)
    PROVE  Inv'
<1>1. PICK exists \in BOOLEAN :
         /\ TreeChanges(p, exists)
         /\ owed' = owed \cup {[path |-> p,
                                kind |-> IF exists = file[p].exists THEN "modified" ELSE "added"]}
         /\ UNCHANGED <<clock, everything, generations, current, taking, reported,
                        op, nodes, ids, nextInode, known, loop, io, notifyVars, down>>
  BY DEF Change
<1>2. SnapshotsTypeOK' /\ SnapshotsOK'
  BY <1>1, TreeChangesKeeps DEF Inv, TypeOK, SnapInv
<1>3. TypeOK'
  BY <1>1, <1>2 DEF Inv, TypeOK, notifyVars
<1>4. RequestsOK'
  BY <1>1, <1>2, RequestsUnchanged, GenerationUnchanged DEF Inv, TypeOK, notifyVars
<1>5. NotifierOK'
  BY <1>1, NotifierUnchanged DEF Inv
<1>6. RepliesOK'
  BY <1>1, RepliesUnchanged DEF Inv, notifyVars
<1> QED  BY <1>2, <1>3, <1>4, <1>5, <1>6 DEF Inv

LEMMA OnTreeChangedInv ==
    ASSUME Inv, NEW c \in owed, on_tree_changed(c)
    PROVE  Inv'
<1>1. PICK p \in Paths : p = c.path
  BY DEF Inv, TypeOK
<1>2. /\ changed(p)
      /\ UNCHANGED <<file, taking, op, nodes, ids, nextInode, known, loop, io,
                     dirty, stopping, announced, announcedEverything, down>>
  BY <1>1 DEF on_tree_changed
<1>3. SnapshotsTypeOK /\ SnapshotsTypeOK' /\ SnapshotsOK'
  BY <1>2, ChangedKeeps DEF Inv, TypeOK, SnapInv
<1>4. clock \in Nat /\ clock' = clock + 1 /\ everything' = everything
  BY <1>2, <1>3 DEF SnapshotsTypeOK, changed
<1>5. /\ generation(p)' = clock + 1
      /\ \A q \in Paths \ {p} : generation(q)' = generation(q)
  BY <1>2, <1>3, ChangedGeneration
<1>6. \A q \in Paths : /\ generation(q) \in 0..clock
                       /\ generation(q)' >= generation(q)
  BY <1>3, <1>4, <1>5, GenerationIs
<1>7. PassOK
  BY DEF Inv, NotifierOK
<1>8. /\ PassOK'
      /\ notifying => notifying'
      /\ stopping => pass' = pass /\ pending' = pending
      /\ ~stopping => DOMAIN pending' = DOMAIN pending \cup {p}
      /\ DOMAIN pass'.batch = DOMAIN pass.batch
      /\ pass'.every = pass.every
      /\ \A q \in DOMAIN pass.batch : pass'.gens[q] = pass.gens[q]
      /\ pass' = pass \/ (pass.pc = "off" /\ pass'.ino = 0)
      /\ notifying' \in BOOLEAN
  <2>0. notifying \in BOOLEAN
    BY DEF Inv, TypeOK
  <2>1. CASE stopping
    <3>1. start_notifying /\ UNCHANGED <<pending, notifying, pass>>
      BY <1>2, <2>1 DEF on_tree_changed, start_notifying
    <3> QED  BY <1>2, <1>4, <1>7, <2>0, <2>1, <3>1, StartNotifying
  <2>2. CASE ~stopping
    <3>1. start_notifying /\ pending' = merge_changes(p, c.kind)
      BY <1>1, <2>2 DEF on_tree_changed
    <3>2. DOMAIN pending' = DOMAIN pending \cup {p}
      BY <3>1 DEF merge_changes
    <3>3. notifying' \in BOOLEAN
      BY <2>0, <3>1 DEF start_notifying
    <3> QED  BY <1>2, <1>4, <1>7, <2>2, <3>1, <3>2, <3>3, StartNotifying
  <2> QED  BY <2>1, <2>2
<1>9. \A q \in Paths : /\ AnnouncedUpTo(q)' = AnnouncedUpTo(q)
                       /\ AnnouncedUpTo(q) \in 0..clock
  BY <1>2 DEF Inv, TypeOK, AnnouncedUpTo, Larger
<1>10. TypeOK'
  <2>1. announced' \in [Paths -> 0..clock'] /\ announcedEverything' \in 0..clock'
    BY <1>2, <1>4 DEF Inv, TypeOK
  <2>2. owed' \subseteq [path : Paths, kind : {"modified", "added"}]
    BY DEF Inv, TypeOK, on_tree_changed
  <2>3. DOMAIN pending' \subseteq Paths
    BY <1>8 DEF Inv, TypeOK
  <2> QED  BY <1>2, <1>3, <1>8, <2>1, <2>2, <2>3 DEF Inv, TypeOK
<1>11. RequestsOK'
  BY <1>2, <1>3, <1>6, <1>8, RequestsUnchanged DEF Inv
<1>12. ASSUME NEW q \in Paths PROVE AheadOK(q)'
  <2>1. AheadOK(q)
    BY DEF Inv, NotifierOK
  <2>2. everything \in Nat /\ everything <= generation(q)
    BY <1>3 DEF SnapshotsTypeOK, generation, Larger
  <2>3. q \in DOMAIN pass.batch => pass.gens[q] \in 0..clock
    BY <1>7 DEF PassOK
  <2>4. pass.every \in (0..clock) \cup {None}
    BY <1>7 DEF PassOK
  <2>5. CASE q = p
    BY <1>2, <1>4, <1>5, <1>8, <1>9, <2>1, <2>3, <2>4, <2>5 DEF AheadOK
  <2>6. CASE q # p
    BY <1>2, <1>4, <1>5, <1>8, <1>9, <2>1, <2>6 DEF AheadOK
  <2> QED  BY <2>5, <2>6
<1>13. ASSUME NEW q \in Paths PROVE ComingOK(q)'
  <2>1. ComingOK(q)
    BY DEF Inv, NotifierOK
  <2>2. CASE q = p
    BY <1>2, <1>8, <2>2 DEF ComingOK, WillAnnounce
  <2>3. CASE q # p
    BY <1>2, <1>5, <1>8, <1>9, <2>1, <2>3 DEF ComingOK, WillAnnounce
  <2> QED  BY <2>2, <2>3
<1>14. RepliesOK'
  BY <1>2, <1>8, RepliesUnchanged DEF Inv
<1> QED  BY <1>3, <1>8, <1>10, <1>11, <1>12, <1>13, <1>14 DEF Inv, NotifierOK

LEMMA OnEverythingDirtyInv ==
    ASSUME Inv, on_everything_dirty
    PROVE  Inv'
<1>1. /\ changed_everything
      /\ UNCHANGED <<file, taking, op, nodes, ids, nextInode, known, loop, io,
                     pending, stopping, announced, announcedEverything, down>>
  BY DEF on_everything_dirty
<1>2. SnapshotsTypeOK /\ SnapshotsTypeOK' /\ SnapshotsOK'
  BY <1>1, ChangedEverythingKeeps DEF Inv, TypeOK, SnapInv
<1>3. clock \in Nat /\ clock' = clock + 1 /\ everything' = clock + 1
  BY <1>1, <1>2 DEF SnapshotsTypeOK, changed_everything
<1>4. \A q \in Paths : generation(q)' = clock + 1
  BY <1>1, <1>2, EverythingGeneration
<1>5. \A q \in Paths : /\ generation(q) \in 0..clock
                       /\ generation(q)' >= generation(q)
  BY <1>2, <1>3, <1>4, GenerationIs
<1>6. PassOK
  BY DEF Inv, NotifierOK
<1>7. /\ PassOK'
      /\ notifying => notifying'
      /\ stopping => pass' = pass /\ dirty' = dirty
      /\ ~stopping => dirty'
      /\ DOMAIN pass'.batch = DOMAIN pass.batch
      /\ pass'.every = pass.every
      /\ \A q \in DOMAIN pass.batch : pass'.gens[q] = pass.gens[q]
      /\ pass' = pass \/ (pass.pc = "off" /\ pass'.ino = 0)
      /\ {dirty', notifying'} \subseteq BOOLEAN
  <2>0. {dirty, notifying} \subseteq BOOLEAN
    BY DEF Inv, TypeOK
  <2>1. CASE stopping
    <3>1. start_notifying /\ UNCHANGED <<dirty, notifying, pass>>
      BY <1>1, <2>1 DEF on_everything_dirty, start_notifying
    <3> QED  BY <1>1, <1>3, <1>6, <2>0, <2>1, <3>1, StartNotifying
  <2>2. CASE ~stopping
    <3>1. start_notifying /\ dirty' = TRUE
      BY <2>2 DEF on_everything_dirty
    <3>2. {dirty', notifying'} \subseteq BOOLEAN
      BY <2>0, <3>1 DEF start_notifying
    <3>3. /\ PassOK'
          /\ notifying => notifying'
          /\ DOMAIN pass'.batch = DOMAIN pass.batch
          /\ pass'.every = pass.every
          /\ \A q \in DOMAIN pass.batch : pass'.gens[q] = pass.gens[q]
          /\ pass' = pass \/ (pass.pc = "off" /\ pass'.ino = 0)
      BY <1>1, <1>3, <1>6, <3>1, StartNotifying
    <3> QED  BY <2>2, <3>1, <3>2, <3>3
  <2> QED  BY <2>1, <2>2
<1>8. \A q \in Paths : /\ AnnouncedUpTo(q)' = AnnouncedUpTo(q)
                       /\ AnnouncedUpTo(q) \in 0..clock
  BY <1>1 DEF Inv, TypeOK, AnnouncedUpTo, Larger
<1>9. TypeOK'
  <2>1. announced' \in [Paths -> 0..clock'] /\ announcedEverything' \in 0..clock'
    BY <1>1, <1>3 DEF Inv, TypeOK
  <2>2. owed' \subseteq [path : Paths, kind : {"modified", "added"}]
    BY DEF on_everything_dirty
  <2> QED  BY <1>1, <1>2, <1>7, <2>1, <2>2 DEF Inv, TypeOK
<1>10. RequestsOK'
  BY <1>1, <1>2, <1>5, <1>7, RequestsUnchanged DEF Inv
<1>11. ASSUME NEW q \in Paths PROVE AheadOK(q)'
  <2>1. AheadOK(q)
    BY DEF Inv, NotifierOK
  <2>2. q \in DOMAIN pass.batch => pass.gens[q] \in 0..clock
    BY <1>6 DEF PassOK
  <2>3. pass.every \in (0..clock) \cup {None}
    BY <1>6 DEF PassOK
  <2> QED  BY <1>1, <1>3, <1>4, <1>7, <1>8, <2>1, <2>2, <2>3 DEF AheadOK
<1>12. ASSUME NEW q \in Paths PROVE ComingOK(q)'
  BY <1>1, <1>7 DEF ComingOK, WillAnnounce
<1>13. RepliesOK'
  BY <1>1, <1>7, RepliesUnchanged DEF Inv
<1> QED  BY <1>2, <1>7, <1>9, <1>10, <1>11, <1>12, <1>13 DEF Inv, NotifierOK

-----------------------------------------------------------------------------
(* The FUSE loop and the programs.                                         *)

\* A step of one open and its take(), which announces nothing.
LEMMA OneOpenTakes ==
    ASSUME Inv, NEW o \in Takers, SnapInv',
           op' \in [Takers -> OpType],
           \A u \in Takers \ {o} : op'[u] = op[u] /\ taking'[u] = taking[u],
           OpenOK(o)',
           HasHandle(o)' => /\ op'[o].pc = op[o].pc
                            /\ op'[o].path = op[o].path
                            /\ taking'[o].snap = taking[o].snap,
           known' \subseteq Paths, LoopOK', io' \in Takers \cup {None},
           loop' \in [who : Takers \cup {Notifier, None}, path : Paths \cup {None},
                      seen : Versions \cup {None}],
           UNCHANGED <<clock, everything, generations, owed, nodes, ids, nextInode,
                       notifyVars, down>>
    PROVE  Inv'
<1>1. SnapshotsTypeOK /\ SnapshotsTypeOK' /\ SnapshotsOK' /\ pass' = pass
  BY DEF Inv, TypeOK, SnapInv, notifyVars
<1>2. TypeOK'
  BY <1>1 DEF Inv, TypeOK, OpType, notifyVars
<1>3. RequestsOK'
  <2>1. NodesOK' /\ NamesOK'
    BY <1>1, NodesUnchanged, GenerationUnchanged DEF Inv
  <2>2. PokeOK'
    BY <1>1 DEF Inv, RequestsOK, PokeOK, InodeOf
  <2>3. \A u \in Takers \ {o} : OpenOK(u)'
    BY OpenUnchanged DEF Inv, RequestsOK, OpenOK, InodeOf
  <2> QED  BY <2>1, <2>2, <2>3 DEF RequestsOK
<1>4. NotifierOK'
  BY NotifierUnchanged DEF Inv
<1>5. RepliesOK'
  BY RepliesUnchanged DEF Inv, notifyVars
<1> QED  BY <1>1, <1>2, <1>3, <1>4, <1>5 DEF Inv

\* A step of one open, which neither takes nor announces anything.
LEMMA OneOpenSteps ==
    ASSUME Inv, NEW o \in Takers,
           op' \in [Takers -> OpType], \A u \in Takers \ {o} : op'[u] = op[u],
           OpenOK(o)', HasHandle(o)' => op'[o].pc = op[o].pc /\ op'[o].path = op[o].path,
           known' \subseteq Paths, LoopOK',
           loop' \in [who : Takers \cup {Notifier, None}, path : Paths \cup {None},
                      seen : Versions \cup {None}],
           UNCHANGED <<snapshotVars, owed, nodes, ids, nextInode, io, notifyVars, down>>
    PROVE  Inv'
<1>1. SnapInv' /\ UNCHANGED <<clock, everything, generations, taking>>
  BY SnapshotsUnchanged DEF Inv, TypeOK, SnapInv, snapshotVars
<1>2. io' \in Takers \cup {None}
  BY DEF Inv, TypeOK
<1> QED  BY <1>1, <1>2, OneOpenTakes

\* A lookup that begins.
LEMMA EntryBegins ==
    ASSUME Inv, NEW who \in Takers \cup {Notifier}, NEW p \in Paths, entry(who, p)
    PROVE  /\ known' \subseteq Paths
           /\ loop' \in [who : Takers \cup {Notifier, None}, path : Paths \cup {None},
                         seen : Versions \cup {None}]
           /\ loop'.who = who /\ loop'.path = p
           /\ loop = NotLooking
<1>1. file[p].version \in Versions
  BY DEF Inv, TypeOK, SnapshotsTypeOK
<1> QED  BY <1>1 DEF entry, Inv, TypeOK

LEMMA LookupInv ==
    ASSUME Inv, NEW o \in Takers, NEW p \in Paths, Lookup(o, p)
    PROVE  Inv'
<1>1. /\ known' \subseteq Paths
      /\ loop' \in [who : Takers \cup {Notifier, None}, path : Paths \cup {None},
                    seen : Versions \cup {None}]
      /\ loop'.who = o /\ loop'.path = p
  BY EntryBegins DEF Lookup
<1>2. /\ op' = [op EXCEPT ![o].pc = "looking", ![o].path = p, ![o].looked = reported[p]]
      /\ UNCHANGED <<snapshotVars, owed, nodes, ids, nextInode, io, notifyVars, down>>
  BY DEF Lookup
<1>3. op \in [Takers -> OpType] /\ reported[p] \in Versions
  BY OpIs DEF Inv, TypeOK, SnapshotsTypeOK
<1>4. op' \in [Takers -> OpType]
  <2>1. [op[o] EXCEPT !.pc = "looking", !.path = p, !.looked = reported[p]] \in OpType
    BY <1>3 DEF OpType
  <2> QED  BY <1>2, <1>3, <2>1
<1>5. /\ op'[o].pc = "looking" /\ op'[o].path = p
      /\ \A u \in Takers \ {o} : op'[u] = op[u]
  BY <1>2, <1>3 DEF OpType
<1>6. LoopOK'
  BY <1>1, <1>5, NoTakerIsSpecial DEF LoopOK
<1>7. taking[o].step = "none" /\ taking' = taking
  BY <1>2 DEF Lookup, Begins, Inv, RequestsOK, OpenOK, snapshotVars
<1>8. OpenOK(o)'
  BY <1>5, <1>7 DEF OpenOK, HasInode, HasHandle, Active
<1>9. ~HasHandle(o)'
  BY <1>5 DEF HasHandle
<1> QED  BY <1>1, <1>2, <1>4, <1>5, <1>6, <1>8, <1>9, OneOpenSteps

\* The inode that a lookup ends with is of the file, and those there were stay.
LEMMA InodeIs ==
    ASSUME Inv, loop # NotLooking, inode, UNCHANGED snapshotVars
    PROVE  /\ loop.path \in Paths
           /\ NodesOK' /\ NamesOK'
           /\ ids'[loop.path] \in DOMAIN nodes' /\ nodes'[ids'[loop.path]].path = loop.path
           /\ ids'[loop.path] # 0
           /\ \A j \in DOMAIN nodes : j \in DOMAIN nodes' /\ nodes'[j] = nodes[j]
           /\ ids' \in [Paths -> Nat]
           /\ nextInode' \in Nat
<1>1. loop.path \in Paths
  BY DEF Inv, RequestsOK, LoopOK
<1>2. PICK p \in Paths : p = loop.path
  BY <1>1
<1>3. /\ SnapshotsTypeOK /\ SnapshotsTypeOK'
      /\ UNCHANGED <<clock, everything, generations>>
      /\ ids \in [Paths -> Nat] /\ nextInode \in Nat
      /\ NodesOK /\ NamesOK
  BY SnapshotsUnchanged DEF Inv, TypeOK, SnapInv, snapshotVars, RequestsOK
<1>4. CASE KeepsInode
  <2>1. UNCHANGED <<nodes, ids, nextInode>>
    BY <1>4 DEF inode
  <2>2. ids[p] # 0
    BY <1>2, <1>4 DEF KeepsInode
  <2>3. NodesOK' /\ NamesOK'
    BY <1>3, <2>1, NodesUnchanged, GenerationUnchanged DEF Inv
  <2> QED  BY <1>2, <1>3, <2>1, <2>2, <2>3 DEF NamesOK, InodeOf, NodesOK
<1>5. CASE ~KeepsInode
  <2>1. PICK n \in Nat : n = nextInode + 1
    BY <1>3
  <2>2. /\ nextInode' = n
        /\ ids' = [ids EXCEPT ![p] = n]
        /\ nodes' = [i \in DOMAIN nodes \cup {n} |->
                        IF i \in DOMAIN nodes THEN nodes[i]
                        ELSE [path |-> p, opened |-> None, generation |-> 0, snapshot |-> None]]
    BY <1>2, <1>5, <2>1 DEF inode
  <2>3. n \notin DOMAIN nodes /\ n # 0
    BY <1>3, <2>1 DEF NodesOK
  <2>4. /\ nodes'[n] = [path |-> p, opened |-> None, generation |-> 0, snapshot |-> None]
        /\ DOMAIN nodes' = DOMAIN nodes \cup {n}
        /\ \A j \in DOMAIN nodes : nodes'[j] = nodes[j]
    BY <2>2, <2>3
  <2>5. /\ ids'[p] = n /\ ids' \in [Paths -> Nat]
        /\ \A q \in Paths \ {p} : ids'[q] = ids[q]
    BY <1>3, <2>2
  <2>6. \A q \in Paths : generation(q)' = generation(q)
    BY <1>3, GenerationUnchanged
  <2>7. nodes'[n] \in NodeType /\ nodes'[n].path = p /\ nodes'[n].opened = None
        /\ nodes'[n].snapshot = None
    BY <2>4 DEF NodeType
  <2>8. ASSUME NEW i \in DOMAIN nodes'
        PROVE  /\ i # 0 /\ i <= nextInode' /\ i \in Nat
               /\ nodes'[i] \in NodeType
               /\ nodes'[i].opened = None <=> nodes'[i].snapshot = None
               /\ nodes'[i].snapshot # None
                     => nodes'[i].snapshot.generation <= generation(nodes[i].path)'
    <3>1. CASE i = n
      BY <2>2, <2>3, <2>7, <3>1
    <3>2. CASE i \in DOMAIN nodes
      <4>1. /\ i # 0 /\ i <= nextInode /\ i \in Nat
            /\ nodes[i] \in NodeType
            /\ nodes[i].opened = None <=> nodes[i].snapshot = None
            /\ nodes[i].snapshot # None
                  => nodes[i].snapshot.generation <= generation(nodes[i].path)
        BY <1>3, <3>2 DEF NodesOK
      <4>2. nodes[i].path \in Paths
        BY <4>1 DEF NodeType
      <4>3. nodes'[i] = nodes[i] /\ i <= nextInode'
        BY <1>3, <2>1, <2>2, <2>4, <3>2, <4>1
      <4> QED  BY <2>6, <4>1, <4>2, <4>3
    <3> QED  BY <2>4, <3>1, <3>2
  <2>9. NodesOK'
    <3>1. nodes' = [i \in DOMAIN nodes' |-> nodes'[i]]
      BY <2>2
    <3> QED  BY <2>8, <3>1 DEF NodesOK
  <2>10. ids'[p] \in DOMAIN nodes' /\ nodes'[ids'[p]].path = p
    BY <2>4, <2>5, <2>7
  <2>11. ASSUME NEW q \in Paths \ {p}
         PROVE  ids'[q] = 0 \/ (ids'[q] \in DOMAIN nodes' /\ nodes'[ids'[q]].path = q)
    BY <1>3, <2>4, <2>5 DEF NamesOK, InodeOf
  <2>12. NamesOK'
    BY <2>10, <2>11 DEF NamesOK, InodeOf
  <2> QED  BY <1>2, <2>2, <2>3, <2>4, <2>5, <2>9, <2>10, <2>12
<1> QED  BY <1>4, <1>5

LEMMA EntryReplyInv ==
    ASSUME Inv, EntryReply
    PROVE  Inv'
<1>1. /\ loop # NotLooking /\ inode /\ loop' = NotLooking
      /\ UNCHANGED <<snapshotVars, owed, known, io, pending, dirty, stopping, notifying,
                     announced, announcedEverything, down>>
  BY DEF EntryReply
<1>2. PICK p \in Paths : p = loop.path
  BY <1>1, InodeIs
<1>3. /\ NodesOK' /\ NamesOK'
      /\ ids'[p] \in DOMAIN nodes' /\ nodes'[ids'[p]].path = p /\ ids'[p] # 0
      /\ \A j \in DOMAIN nodes : j \in DOMAIN nodes' /\ nodes'[j] = nodes[j]
      /\ ids' \in [Paths -> Nat] /\ nextInode' \in Nat
  BY <1>1, <1>2, InodeIs
<1>4. PICK n \in Nat : n = ids'[p]
  BY <1>3
<1>5. /\ SnapshotsTypeOK /\ SnapshotsTypeOK' /\ SnapshotsOK'
      /\ UNCHANGED <<clock, everything, generations, taking>>
  BY <1>1, SnapshotsUnchanged DEF Inv, TypeOK, SnapInv, snapshotVars
<1>6. LoopOK' /\ loop' \in [who : Takers \cup {Notifier, None}, path : Paths \cup {None},
                            seen : Versions \cup {None}]
  BY <1>1, NoTakerIsSpecial DEF LoopOK, NotLooking
<1>7. op \in [Takers -> OpType] /\ \A o \in Takers : OpenOK(o)
  BY OpIs DEF Inv, RequestsOK
<1>8. CASE loop.who = Notifier
  <2>1. /\ op' = op
        /\ pass' = IF pass.pc = "poke" THEN [pass EXCEPT !.pc = "open", !.ino = n]
                   ELSE [pass EXCEPT !.pc = "announced"]
    BY <1>2, <1>4, <1>8 DEF EntryReply
  <2>2. /\ pass.pc \in {"poke", "mknod", "removal"} /\ pass.path = p
        /\ PassOK
    BY <1>2, <1>8 DEF Inv, RequestsOK, LoopOK, NotifierOK
  <2>3. /\ SameBatch /\ pass'.path = p
        /\ \/ pass'.pc = "open" /\ pass'.ino = n
           \/ pass'.pc = "announced" /\ pass'.ino = pass.ino
    BY <2>1, <2>2 DEF PassOK, SameBatch
  <2>4. NotifierOK'
    <3>1. pass'.path \in DOMAIN pass.batch /\ pass'.ino \in Nat
      BY <1>4, <2>2, <2>3 DEF PassOK, Announcing
    <3>2. pass'.pc \in Announcing
      BY <2>3 DEF Announcing
    <3> QED  BY <1>1, <1>5, <2>2, <2>3, <3>1, <3>2, PassGoesOn DEF Inv
  <2>5. PokeOK'
    <3>1. pass.ino = 0
      BY <2>2 DEF Inv, RequestsOK, PokeOK
    <3> QED  BY <1>3, <1>4, <2>3, <3>1 DEF PokeOK, InodeOf
  <2>6. \A o \in Takers : OpenOK(o)'
    BY <1>3, <1>5, <1>7, <2>1, OpenUnchanged DEF OpenOK, InodeOf
  <2>7. TypeOK'
    BY <1>1, <1>3, <1>5, <1>6, <2>1 DEF Inv, TypeOK
  <2>8. RepliesOK'
    BY <1>1, <1>5, <2>1, RepliesUnchanged DEF Inv
  <2> QED  BY <1>3, <1>5, <1>6, <2>4, <2>5, <2>6, <2>7, <2>8 DEF Inv, RequestsOK
<1>9. CASE loop.who # Notifier
  <2>1. PICK w \in Takers : w = loop.who
    BY <1>1, <1>9 DEF Inv, TypeOK, RequestsOK, LoopOK
  <2>2. /\ op' = [op EXCEPT ![w].pc = "found", ![w].ino = n]
        /\ pass' = pass
    BY <1>2, <1>4, <1>9, <2>1 DEF EntryReply
  <2>3. op[w].pc = "looking" /\ op[w].path = p
    BY <1>2, <2>1 DEF Inv, RequestsOK, LoopOK
  <2>4. /\ op'[w].pc = "found" /\ op'[w].path = p /\ op'[w].ino = n
        /\ \A u \in Takers \ {w} : op'[u] = op[u]
    BY <1>7, <2>2, <2>3 DEF OpType
  <2>5. op' \in [Takers -> OpType]
    <3>1. [op[w] EXCEPT !.pc = "found", !.ino = n] \in OpType
      BY <1>7 DEF OpType
    <3> QED  BY <1>7, <2>2, <3>1
  <2>6. OpenOK(w)'
    BY <1>3, <1>4, <1>5, <1>7, <2>3, <2>4 DEF OpenOK, HasInode, HasHandle, InodeOf, Active
  <2>7. \A u \in Takers \ {w} : OpenOK(u)'
    BY <1>3, <1>5, <1>7, <2>4, OpenUnchanged DEF OpenOK, InodeOf
  <2>8. PokeOK'
    BY <1>3, <2>2 DEF Inv, RequestsOK, PokeOK, InodeOf
  <2>9. NotifierOK'
    BY <1>1, <1>5, <2>2, NotifierUnchanged DEF Inv, notifyVars
  <2>10. TypeOK'
    BY <1>1, <1>3, <1>5, <1>6, <2>5 DEF Inv, TypeOK, OpType
  <2>11. RepliesOK'
    BY <1>1, <1>5, <2>4, RepliesUnchanged DEF Inv, HasHandle
  <2> QED  BY <1>3, <1>5, <1>6, <2>6, <2>7, <2>8, <2>9, <2>10, <2>11 DEF Inv, RequestsOK
<1> QED  BY <1>8, <1>9

LEMMA EntryReplyLostInv ==
    ASSUME Inv, EntryReplyLost
    PROVE  Inv'
<1>1. PICK w \in Takers : w = loop.who
  BY ServingAssumption DEF EntryReplyLost, ServingAssumption
<1>2. /\ loop' = NotLooking
      /\ op' = [op EXCEPT ![w] = [NewOpen EXCEPT !.pc = "closed"]]
      /\ UNCHANGED <<snapshotVars, owed, nodes, known, io, notifyVars, down>>
  BY <1>1 DEF EntryReplyLost
<1>3. PICK p \in Paths : p = loop.path
  BY <1>1, NoTakerIsSpecial DEF Inv, RequestsOK, LoopOK
<1>4. op[w].pc = "looking"
  BY <1>1 DEF Inv, RequestsOK, LoopOK
<1>5. ids \in [Paths -> Nat] /\ nextInode \in Nat /\ NodesOK /\ NamesOK
  BY DEF Inv, TypeOK, RequestsOK
<1>6. /\ nextInode' \in Nat /\ nextInode' >= nextInode
      /\ ids' \in [Paths -> Nat]
      /\ \A q \in Paths : ids'[q] \in {0, ids[q]}
  <2>1. CASE KeepsInode
    BY <1>5, <2>1 DEF EntryReplyLost
  <2>2. CASE ~KeepsInode
    BY <1>3, <1>5, <2>2 DEF EntryReplyLost
  <2> QED  BY <2>1, <2>2
<1>7. /\ SnapshotsTypeOK /\ SnapshotsTypeOK' /\ SnapshotsOK'
      /\ UNCHANGED <<clock, everything, generations, taking>>
  BY <1>2, SnapshotsUnchanged DEF Inv, TypeOK, SnapInv, snapshotVars
<1>8. NodesOK'
  <2>1. \A i \in DOMAIN nodes : i <= nextInode'
    BY <1>5, <1>6 DEF NodesOK
  <2>2. \A q \in Paths : generation(q)' = generation(q)
    BY <1>7, GenerationUnchanged
  <2>3. \A i \in DOMAIN nodes : nodes[i].path \in Paths
    BY <1>5 DEF NodesOK, NodeType
  <2> QED  BY <1>2, <1>5, <2>1, <2>2, <2>3 DEF NodesOK
<1>9. NamesOK'
  BY <1>2, <1>5, <1>6 DEF NamesOK, InodeOf
<1>10. LoopOK' /\ loop' \in [who : Takers \cup {Notifier, None}, path : Paths \cup {None},
                            seen : Versions \cup {None}]
  BY <1>2, NoTakerIsSpecial DEF LoopOK, NotLooking
<1>11. op \in [Takers -> OpType] /\ \A o \in Takers : OpenOK(o)
  BY OpIs DEF Inv, RequestsOK
<1>12. [NewOpen EXCEPT !.pc = "closed"] \in OpType /\ [NewOpen EXCEPT !.pc = "closed"].pc = "closed"
  BY DEF NewOpen, OpType
<1>13. /\ op' \in [Takers -> OpType] /\ op'[w].pc = "closed"
       /\ \A u \in Takers \ {w} : op'[u] = op[u]
  BY <1>2, <1>11, <1>12
<1>14. OpenOK(w)'
  BY <1>4, <1>7, <1>11, <1>13 DEF OpenOK, HasInode, HasHandle, Active
<1>15. \A u \in Takers \ {w} : OpenOK(u)'
  BY <1>2, <1>7, <1>11, <1>13, OpenUnchanged DEF OpenOK, InodeOf
<1>16. PokeOK'
  BY <1>2 DEF Inv, RequestsOK, PokeOK, InodeOf, notifyVars
<1>17. NotifierOK'
  BY <1>2, <1>7, NotifierUnchanged DEF Inv
<1>18. TypeOK'
  BY <1>2, <1>6, <1>7, <1>10, <1>13 DEF Inv, TypeOK, OpType, notifyVars
<1>19. RepliesOK'
  BY <1>2, <1>7, <1>13, RepliesUnchanged DEF Inv, HasHandle, notifyVars
<1> QED  BY <1>7, <1>8, <1>9, <1>10, <1>14, <1>15, <1>16, <1>17, <1>18, <1>19 DEF Inv, RequestsOK

LEMMA OpForgetInv ==
    ASSUME Inv, NEW i \in DOMAIN nodes, op_forget(i)
    PROVE  Inv'
<1>1. /\ ~Using(i)
      /\ nodes' = [j \in DOMAIN nodes \ {i} |-> nodes[j]]
      /\ ids' = [p \in Paths |-> IF ids[p] = i THEN 0 ELSE ids[p]]
      /\ UNCHANGED <<snapshotVars, owed, op, nextInode, known, loop, io, notifyVars, down>>
  BY DEF op_forget
<1>2. /\ SnapshotsTypeOK /\ SnapshotsTypeOK' /\ SnapshotsOK'
      /\ UNCHANGED <<clock, everything, generations, taking, pass>>
  BY <1>1, SnapshotsUnchanged DEF Inv, TypeOK, SnapInv, snapshotVars, notifyVars
<1>3. NodesOK /\ NamesOK /\ ids \in [Paths -> Nat]
  BY DEF Inv, RequestsOK, TypeOK
<1>4. DOMAIN nodes' = DOMAIN nodes \ {i} /\ \A j \in DOMAIN nodes \ {i} : nodes'[j] = nodes[j]
  BY <1>1
<1>5. NodesOK'
  <2>1. \A q \in Paths : generation(q)' = generation(q)
    BY <1>2, GenerationUnchanged
  <2>2. \A j \in DOMAIN nodes : nodes[j].path \in Paths
    BY <1>3 DEF NodesOK, NodeType
  <2>3. nodes' = [j \in DOMAIN nodes' |-> nodes'[j]]
    BY <1>1
  <2>4. ASSUME NEW j \in DOMAIN nodes'
        PROVE  /\ j # 0 /\ j <= nextInode' /\ j \in Nat
               /\ nodes'[j] \in NodeType
               /\ nodes'[j].opened = None <=> nodes'[j].snapshot = None
               /\ nodes'[j].snapshot # None
                     => nodes'[j].snapshot.generation <= generation(nodes[j].path)'
    <3>1. j \in DOMAIN nodes /\ nodes'[j] = nodes[j] /\ nextInode' = nextInode
      BY <1>1, <1>4
    <3> QED  BY <1>3, <2>1, <2>2, <3>1 DEF NodesOK
  <2> QED  BY <2>3, <2>4 DEF NodesOK
<1>6. NamesOK' /\ ids' \in [Paths -> Nat]
  BY <1>1, <1>3, <1>4 DEF NamesOK, InodeOf
<1>7. ASSUME NEW o \in Takers PROVE OpenOK(o)'
  <2>1. OpenOK(o)
    BY DEF Inv, RequestsOK
  <2>2. HasInode(o) => op[o].ino \in DOMAIN nodes /\ op[o].ino # i
    BY <1>1, <2>1 DEF Using, HasInode, OpenOK, InodeOf
  <2> QED  BY <1>1, <1>2, <1>4, <2>1, <2>2, OpenUnchanged
<1>8. PokeOK'
  BY <1>1, <1>2, <1>4 DEF Inv, RequestsOK, PokeOK, InodeOf, Using
<1>9. LoopOK'
  BY <1>1, <1>2 DEF Inv, RequestsOK, LoopOK
<1>10. NotifierOK'
  BY <1>1, <1>2, NotifierUnchanged DEF Inv
<1>11. TypeOK'
  BY <1>1, <1>2, <1>6 DEF Inv, TypeOK, notifyVars
<1>12. RepliesOK'
  BY <1>1, <1>2, RepliesUnchanged DEF Inv, notifyVars
<1> QED  BY <1>2, <1>5, <1>6, <1>7, <1>8, <1>9, <1>10, <1>11, <1>12 DEF Inv, RequestsOK

-----------------------------------------------------------------------------
(* The opens.                                                              *)

\* The loop is looking nothing up for an open that has gone past its lookup.
LEMMA LoopOfOthers ==
    ASSUME Inv, NEW o \in Takers, op[o].pc # "looking", UNCHANGED <<loop, pass>>,
           \A u \in Takers \ {o} : op'[u] = op[u]
    PROVE  LoopOK'
BY NoTakerIsSpecial DEF Inv, RequestsOK, LoopOK

LEMMA LoopIs ==
    ASSUME Inv
    PROVE  /\ loop \in [who : Takers \cup {Notifier, None}, path : Paths \cup {None},
                        seen : Versions \cup {None}]
           /\ known \subseteq Paths
           /\ io \in Takers \cup {None}
BY DEF Inv, TypeOK

LEMMA ClosedIs ==
    ASSUME TypeOK, NEW o \in Takers
    PROVE  /\ Closed(o) \in OpType /\ Closed(o).pc = "closed"
           /\ [Closed(o) EXCEPT !.answers = @ + 1] \in OpType
           /\ [Closed(o) EXCEPT !.answers = @ + 1].pc = "closed"
<1>1. op[o].answers \in Nat
  BY OpIs DEF OpType
<1>2. NewOpen \in OpType
  BY DEF NewOpen, OpType
<1>3. Closed(o) \in OpType /\ Closed(o).pc = "closed" /\ Closed(o).answers = op[o].answers
  BY <1>1, <1>2 DEF Closed, OpType
<1> QED  BY <1>1, <1>3 DEF OpType

LEMMA FailCloses ==
    ASSUME Inv, NEW o \in Takers, Fail(o)
    PROVE  /\ op' \in [Takers -> OpType]
           /\ op'[o].pc = "closed"
           /\ \A u \in Takers \ {o} : op'[u] = op[u]
<1>1. op \in [Takers -> OpType]
  BY OpIs DEF Inv
<1>2. /\ [Closed(o) EXCEPT !.answers = @ + 1] \in OpType
      /\ [Closed(o) EXCEPT !.answers = @ + 1].pc = "closed"
  BY ClosedIs DEF Inv
<1> QED  BY <1>1, <1>2 DEF Fail

\* A closed open has no take() under way.
LEMMA ClosedOpen ==
    ASSUME NEW o \in Takers, op'[o].pc = "closed", ~Active(o)'
    PROVE  OpenOK(o)' /\ ~HasHandle(o)'
BY DEF OpenOK, HasInode, HasHandle, Active

LEMMA OpenInv ==
    ASSUME Inv, NEW o \in Takers, open(o)
    PROVE  Inv'
<1>1. /\ op[o].pc = "found"
      /\ UNCHANGED <<snapshotVars, owed, nodes, ids, nextInode, known, loop, io, notifyVars, down>>
  BY DEF open
<1>2. taking' = taking /\ pass' = pass /\ OpenOK(o) /\ op \in [Takers -> OpType]
  BY <1>1, OpIs DEF Inv, RequestsOK, snapshotVars, notifyVars
<1>3. taking[o].step = "none"
  BY <1>1, <1>2 DEF OpenOK
<1>4. /\ op' \in [Takers -> OpType]
      /\ \A u \in Takers \ {o} : op'[u] = op[u]
      /\ OpenOK(o)' /\ ~HasHandle(o)'
  <2>1. CASE down = "served"
    <3>1. Fail(o)
      BY <2>1 DEF open
    <3> QED  BY <1>2, <1>3, <3>1, FailCloses, ClosedOpen DEF Active
  <2>2. CASE down # "served"
    <3>1. op' = [op EXCEPT ![o].pc = "opening", ![o].stop = (down = "cancelled")]
      BY <2>2 DEF open
    <3>2. [op[o] EXCEPT !.pc = "opening", !.stop = (down = "cancelled")] \in OpType
      BY <1>2 DEF OpType
    <3>3. op' \in [Takers -> OpType]
      BY <1>2, <3>1, <3>2
    <3>4. /\ op'[o].pc = "opening" /\ op'[o].path = op[o].path /\ op'[o].ino = op[o].ino
          /\ \A u \in Takers \ {o} : op'[u] = op[u]
      BY <1>2, <3>1 DEF OpType
    <3> QED  BY <1>1, <1>2, <1>3, <3>3, <3>4 DEF OpenOK, HasInode, HasHandle, InodeOf, Active
  <2> QED  BY <2>1, <2>2
<1>5. LoopOK'
  BY <1>1, <1>2, <1>4, LoopOfOthers
<1> QED  BY <1>1, <1>4, <1>5, LoopIs, OneOpenSteps

LEMMA ReopenInv ==
    ASSUME Inv, NEW o \in Takers, NEW other \in Takers, Reopen(o, other)
    PROVE  Inv'
<1>1. /\ op[o].pc = "idle" /\ op[other].pc = "open"
      /\ op' = [op EXCEPT ![o].pc = "found", ![o].path = op[other].path,
                          ![o].ino = op[other].ino]
      /\ UNCHANGED <<snapshotVars, owed, nodes, ids, nextInode, known, loop, io, notifyVars, down>>
  BY DEF Reopen, Begins
<1>2. /\ taking' = taking /\ pass' = pass /\ OpenOK(o) /\ OpenOK(other)
      /\ op \in [Takers -> OpType]
  BY <1>1, OpIs DEF Inv, RequestsOK, snapshotVars, notifyVars
<1>3. /\ taking[o].step = "none"
      /\ op[other].path \in Paths /\ InodeOf(op[other].ino, op[other].path)
  BY <1>1, <1>2 DEF OpenOK, HasInode
<1>4. op' \in [Takers -> OpType]
  <2>1. [op[o] EXCEPT !.pc = "found", !.path = op[other].path, !.ino = op[other].ino] \in OpType
    BY <1>2, <1>3 DEF OpType
  <2> QED  BY <1>1, <1>2, <2>1
<1>5. /\ op'[o].pc = "found" /\ op'[o].path = op[other].path /\ op'[o].ino = op[other].ino
      /\ \A u \in Takers \ {o} : op'[u] = op[u]
  BY <1>1, <1>2 DEF OpType
<1>6. OpenOK(o)' /\ ~HasHandle(o)'
  BY <1>1, <1>2, <1>3, <1>5 DEF OpenOK, HasInode, HasHandle, InodeOf, Active
<1>7. LoopOK'
  BY <1>1, <1>2, <1>5, LoopOfOthers
<1> QED  BY <1>1, <1>4, <1>5, <1>6, <1>7, LoopIs, OneOpenSteps

LEMMA InterruptInv ==
    ASSUME Inv, NEW o \in Takers, Interrupt(o)
    PROVE  Inv'
<1>1. /\ op[o].pc \in {"opening", "taking", "held"}
      /\ op' = [op EXCEPT ![o].stop = TRUE]
      /\ UNCHANGED <<snapshotVars, owed, nodes, ids, nextInode, known, loop, io, notifyVars, down>>
  BY DEF Interrupt, Outstanding
<1>2. taking' = taking /\ pass' = pass /\ OpenOK(o) /\ op \in [Takers -> OpType]
  BY <1>1, OpIs DEF Inv, RequestsOK, snapshotVars, notifyVars
<1>3. op' \in [Takers -> OpType]
  <2>1. [op[o] EXCEPT !.stop = TRUE] \in OpType
    BY <1>2 DEF OpType
  <2> QED  BY <1>1, <1>2, <2>1
<1>4. /\ op'[o].pc = op[o].pc /\ op'[o].path = op[o].path /\ op'[o].ino = op[o].ino
      /\ \A u \in Takers \ {o} : op'[u] = op[u]
  BY <1>1, <1>2 DEF OpType
<1>5. OpenOK(o)'
  BY <1>1, <1>2, <1>4 DEF OpenOK, HasInode, HasHandle, InodeOf, Active
<1>6. LoopOK'
  BY <1>1, <1>2, <1>4, LoopOfOthers
<1> QED  BY <1>1, <1>3, <1>4, <1>5, <1>6, LoopIs, OneOpenSteps

LEMMA TreeOpenFailsInv ==
    ASSUME Inv, NEW o \in Takers, TreeOpenFails(o)
    PROVE  Inv'
<1>1. /\ op[o].pc = "opening" /\ Fail(o)
      /\ UNCHANGED <<snapshotVars, owed, nodes, ids, nextInode, known, loop, io, notifyVars, down>>
  BY DEF TreeOpenFails
<1>2. taking' = taking /\ pass' = pass /\ taking[o].step = "none"
  BY <1>1 DEF Inv, RequestsOK, OpenOK, snapshotVars, notifyVars
<1>3. /\ op' \in [Takers -> OpType] /\ op'[o].pc = "closed"
      /\ \A u \in Takers \ {o} : op'[u] = op[u]
  BY <1>1, FailCloses
<1>4. OpenOK(o)' /\ ~HasHandle(o)'
  BY <1>2, <1>3, ClosedOpen DEF Active
<1>5. LoopOK'
  BY <1>1, <1>2, <1>3, LoopOfOthers
<1> QED  BY <1>1, <1>3, <1>4, <1>5, LoopIs, OneOpenSteps

LEMMA TreeOpenedInv ==
    ASSUME Inv, NEW o \in Takers, TreeOpened(o)
    PROVE  Inv'
<1>1. /\ op[o].pc = "opening" /\ TakeGeneration(o, op[o].path)
      /\ op' = [op EXCEPT ![o].pc = "taking"] /\ io' = o
      /\ UNCHANGED <<owed, nodes, ids, nextInode, known, loop, notifyVars, down>>
  BY DEF TreeOpened
<1>2. /\ OpenOK(o) /\ op \in [Takers -> OpType] /\ pass' = pass /\ SnapInv
  BY <1>1, OpIs DEF Inv, TypeOK, SnapInv, RequestsOK, notifyVars
<1>3. op[o].path \in Paths
  BY <1>1, <1>2 DEF OpenOK, HasInode
<1>4. SnapInv' /\ UNCHANGED <<clock, everything, generations>>
  BY <1>1, <1>2, <1>3, TakeGenerationKeeps DEF TakeGeneration
<1>5. /\ taking'[o].step = "noted" /\ taking'[o].path = op[o].path
      /\ \A u \in Takers \ {o} : taking'[u] = taking[u]
  <2>1. taking \in [Takers -> TakingType]
    BY <1>2 DEF SnapInv, SnapshotsTypeOK, TakingType
  <2> QED  BY <1>1, <2>1 DEF TakeGeneration, TakingType
<1>6. op' \in [Takers -> OpType]
  <2>1. [op[o] EXCEPT !.pc = "taking"] \in OpType
    BY <1>2 DEF OpType
  <2> QED  BY <1>1, <1>2, <2>1
<1>7. /\ op'[o].pc = "taking" /\ op'[o].path = op[o].path /\ op'[o].ino = op[o].ino
      /\ \A u \in Takers \ {o} : op'[u] = op[u]
  BY <1>1, <1>2 DEF OpType
<1>8. OpenOK(o)' /\ ~HasHandle(o)'
  BY <1>1, <1>2, <1>5, <1>7 DEF OpenOK, HasInode, HasHandle, InodeOf, Active
<1>9. LoopOK'
  BY <1>1, <1>2, <1>7, LoopOfOthers
<1> QED  BY <1>1, <1>4, <1>5, <1>6, <1>7, <1>8, <1>9, LoopIs, OneOpenTakes

LEMMA OpenTakesInv ==
    ASSUME Inv, NEW o \in Takers, OpenTakes(o)
    PROVE  Inv'
<1>1. /\ op[o].pc = "taking"
      /\ TakeHeld(o) \/ TakeRead(o)
      /\ IF taking'[o].step = "failed" THEN Fail(o) ELSE UNCHANGED op
      /\ UNCHANGED <<owed, nodes, ids, nextInode, known, loop, notifyVars, down>>
  BY DEF OpenTakes
<1>2. io' \in Takers \cup {None}
  BY LoopIs DEF OpenTakes
<1>3. /\ OpenOK(o) /\ op \in [Takers -> OpType] /\ pass' = pass /\ SnapInv
  <2>1. OpenOK(o) /\ SnapInv
    BY DEF Inv, TypeOK, SnapInv, RequestsOK
  <2>2. pass' = pass
    BY <1>1 DEF notifyVars
  <2> QED  BY <2>1, <2>2, OpIs DEF Inv
<1>4. SnapInv' /\ UNCHANGED <<clock, everything, generations>>
  BY <1>1, <1>3, TakeHeldKeeps, TakeReadKeeps DEF TakeHeld, TakeRead
<1>5. taking \in [Takers -> TakingType]
  BY <1>3 DEF SnapInv, SnapshotsTypeOK, TakingType
<1>6. /\ taking'[o].step \in {"failed", "taken", "reading", "read"}
      /\ taking'[o].path = taking[o].path
      /\ \A u \in Takers \ {o} : taking'[u] = taking[u]
  <2>1. CASE TakeHeld(o)
    BY <1>5, <2>1 DEF TakeHeld, TakingType
  <2>2. CASE TakeRead(o)
    BY <1>5, <2>2 DEF TakeRead, TakingType
  <2> QED  BY <1>1, <2>1, <2>2
<1>7. /\ op' \in [Takers -> OpType]
      /\ \A u \in Takers \ {o} : op'[u] = op[u]
      /\ OpenOK(o)' /\ ~HasHandle(o)'
  <2>1. CASE taking'[o].step = "failed"
    <3>1. /\ op' \in [Takers -> OpType] /\ op'[o].pc = "closed"
          /\ \A u \in Takers \ {o} : op'[u] = op[u]
      BY <1>1, <2>1, FailCloses
    <3> QED  BY <2>1, <3>1, ClosedOpen DEF Active
  <2>2. CASE taking'[o].step # "failed"
    <3>1. op' = op
      BY <1>1, <2>2
    <3>2. OpenOK(o)'
      BY <1>1, <1>3, <1>6, <2>2, <3>1 DEF OpenOK, HasInode, HasHandle, InodeOf, Active
    <3> QED  BY <1>1, <1>3, <3>1, <3>2 DEF HasHandle
  <2> QED  BY <2>1, <2>2
<1>8. LoopOK'
  BY <1>1, <1>3, <1>7, LoopOfOthers
<1> QED  BY <1>1, <1>2, <1>4, <1>6, <1>7, <1>8, LoopIs, OneOpenTakes

LEMMA OpenStoppedInv ==
    ASSUME Inv, NEW o \in Takers, OpenStopped(o)
    PROVE  Inv'
<1>1. /\ op[o].pc = "taking" /\ Release({o}) /\ Fail(o)
      /\ UNCHANGED <<owed, nodes, ids, nextInode, known, loop, io, notifyVars, down>>
  BY DEF OpenStopped
<1>2. SnapInv /\ pass' = pass
  BY <1>1 DEF Inv, TypeOK, SnapInv, notifyVars
<1>3. /\ SnapInv' /\ UNCHANGED <<clock, everything, generations>>
      /\ \A u \in Takers \ {o} : taking'[u] = taking[u]
      /\ taking'[o].step = "released"
  BY <1>1, <1>2, ReleaseKeeps DEF Release
<1>4. /\ op' \in [Takers -> OpType] /\ op'[o].pc = "closed"
      /\ \A u \in Takers \ {o} : op'[u] = op[u]
  BY <1>1, FailCloses
<1>5. OpenOK(o)' /\ ~HasHandle(o)'
  BY <1>3, <1>4, ClosedOpen DEF Active
<1>6. LoopOK'
  BY <1>1, <1>2, <1>4, LoopOfOthers
<1> QED  BY <1>1, <1>3, <1>4, <1>5, <1>6, LoopIs, OneOpenTakes

LEMMA ReleaseInv ==
    ASSUME Inv, NEW o \in Takers, release(o)
    PROVE  Inv'
<1>1. /\ op[o].pc = "open" /\ Release({o}) /\ op' = [op EXCEPT ![o] = Closed(o)]
      /\ UNCHANGED <<owed, nodes, ids, nextInode, known, loop, io, notifyVars, down>>
  BY DEF release
<1>2. SnapInv /\ pass' = pass /\ op \in [Takers -> OpType]
  BY <1>1, OpIs DEF Inv, TypeOK, SnapInv, notifyVars
<1>3. /\ SnapInv' /\ UNCHANGED <<clock, everything, generations>>
      /\ \A u \in Takers \ {o} : taking'[u] = taking[u]
      /\ taking'[o].step = "released"
  BY <1>1, <1>2, ReleaseKeeps DEF Release
<1>4. Closed(o) \in OpType /\ Closed(o).pc = "closed"
  BY ClosedIs DEF Inv
<1>5. /\ op' \in [Takers -> OpType] /\ op'[o].pc = "closed"
      /\ \A u \in Takers \ {o} : op'[u] = op[u]
  BY <1>1, <1>2, <1>4
<1>6. OpenOK(o)' /\ ~HasHandle(o)'
  BY <1>3, <1>5, ClosedOpen DEF Active
<1>7. LoopOK'
  BY <1>1, <1>2, <1>5, LoopOfOthers
<1> QED  BY <1>1, <1>3, <1>5, <1>6, <1>7, LoopIs, OneOpenTakes

LEMMA VersionGoneInv ==
    ASSUME Inv, NEW o \in Takers, VersionGone(o)
    PROVE  Inv'
<1>1. /\ op[o].pc = "taking" /\ TakeEnds(o, None) /\ Fail(o) /\ io' = None
      /\ UNCHANGED <<owed, nodes, ids, nextInode, known, loop, notifyVars, down>>
  BY DEF VersionGone
<1>2. SnapInv /\ pass' = pass
  BY <1>1 DEF Inv, TypeOK, SnapInv, notifyVars
<1>3. /\ SnapInv' /\ UNCHANGED <<clock, everything, generations>>
      /\ \A u \in Takers \ {o} : taking'[u] = taking[u]
      /\ taking'[o].step = "released"
  BY <1>1, <1>2, TakeEndsKeeps DEF TakeEnds
<1>4. /\ op' \in [Takers -> OpType] /\ op'[o].pc = "closed"
      /\ \A u \in Takers \ {o} : op'[u] = op[u]
  BY <1>1, FailCloses
<1>5. OpenOK(o)' /\ ~HasHandle(o)'
  BY <1>3, <1>4, ClosedOpen DEF Active
<1>6. LoopOK'
  BY <1>1, <1>2, <1>4, LoopOfOthers
<1> QED  BY <1>1, <1>3, <1>4, <1>5, <1>6, LoopIs, OneOpenTakes

\* The version an open gets is never newer than its file, is fixed to the
\* inode, and is what everyone with a handle of the inode has.
LEMMA VersionForIs ==
    ASSUME Inv, NEW o \in Takers, op[o].pc = "taking", Took(o), version_for(o) # None
    PROVE  LET s == version_for(o)
               i == op[o].ino
           IN  /\ s \in Snapshots
               /\ s.generation <= generation(op[o].path)
               /\ i \in DOMAIN nodes /\ nodes[i].path = op[o].path
               /\ \A u \in Takers : HasHandle(u) /\ op[u].ino = i => taking[u].snap = s
<1>1. /\ OpenOK(o) /\ NodesOK /\ TakeOK(o) /\ SnapshotsTypeOK
  BY DEF Inv, TypeOK, RequestsOK, SnapshotsOK
<1>2. Active(o)
  BY DEF Took, Active
<1>3. /\ op[o].path \in Paths
      /\ op[o].ino \in DOMAIN nodes /\ nodes[op[o].ino].path = op[o].path
      /\ taking[o].path = op[o].path
  BY <1>1, <1>2 DEF OpenOK, HasInode, InodeOf
<1>4. taking[o].snap \in Snapshots /\ taking[o].snap.generation <= generation(op[o].path)
  BY <1>1, <1>2, <1>3 DEF TakeOK
<1>5. PICK node : node = nodes[op[o].ino]
  OBVIOUS
<1>6. /\ node \in NodeType
      /\ node.opened = None <=> node.snapshot = None
      /\ node.snapshot # None => node.snapshot.generation <= generation(op[o].path)
  BY <1>1, <1>3, <1>5 DEF NodesOK
<1>7. ASSUME NEW u \in Takers, HasHandle(u), op[u].ino = op[o].ino
      PROVE  taking[u].snap = node.snapshot /\ node.snapshot \in HeldSnapshots
             /\ node.opened # None
  <2>1. OpenOK(u)
    BY DEF Inv, RequestsOK
  <2>2. taking[u].snap # None /\ taking[u].snap = node.snapshot
    BY <1>5, <1>7, <2>1 DEF OpenOK
  <2> QED  BY <1>6, <2>2 DEF HeldSnapshots
<1>8. CASE node.opened = None
  <2>1. version_for(o) = taking[o].snap
    BY <1>5, <1>8 DEF version_for, First
  <2> QED  BY <1>3, <1>4, <1>7, <1>8, <2>1
<1>9. CASE node.opened # None /\ node.snapshot \in HeldSnapshots
  <2>1. version_for(o) = node.snapshot
    BY <1>5, <1>9 DEF version_for, First, VersionHeld
  <2>2. node.snapshot \in Snapshots
    BY <1>6, <1>9 DEF NodeType
  <2> QED  BY <1>3, <1>6, <1>7, <1>9, <2>1, <2>2
<1>10. CASE node.opened # None /\ node.snapshot \notin HeldSnapshots
  <2>1. version_for(o) = taking[o].snap
    BY <1>5, <1>10 DEF version_for, First, VersionHeld
  <2> QED  BY <1>3, <1>4, <1>7, <1>10, <2>1
<1> QED  BY <1>8, <1>9, <1>10

LEMMA FixedIs ==
    ASSUME NEW node \in NodeType, NEW s \in Snapshots
    PROVE  /\ Fixed(node, s) \in NodeType
           /\ Fixed(node, s).path = node.path
           /\ Fixed(node, s).snapshot = s
           /\ Fixed(node, s).opened # None
<1>1. s.version \in Versions /\ s.generation \in Nat /\ None \notin Versions
  BY NoTakerIsSpecial DEF Snapshots
<1> QED  BY <1>1 DEF Fixed, NodeType

\* An open that is held waits for a pass, which is under way or is started;
\* one that is replied to has been announced.
LEMMA ServeInv ==
    ASSUME Inv, NEW o \in Takers, Serve(o)
    PROVE  Inv'
<1>1. PICK s : s = version_for(o)
  OBVIOUS
<1>2. /\ op[o].pc = "taking" /\ Took(o) /\ s # None /\ TakeEnds(o, s)
      /\ nodes' = [nodes EXCEPT ![op[o].ino] = Fixed(@, s)]
      /\ io' = None
      /\ UNCHANGED <<owed, ids, nextInode, known, loop, pending, dirty, stopping,
                     announced, announcedEverything, down>>
  BY <1>1 DEF Serve
<1>3. PICK i \in DOMAIN nodes : i = op[o].ino
  BY <1>1, <1>2, VersionForIs
<1>4. /\ s \in Snapshots /\ s.generation <= generation(op[o].path)
      /\ nodes[i].path = op[o].path
      /\ \A u \in Takers : HasHandle(u) /\ op[u].ino = i => taking[u].snap = s
  BY <1>1, <1>2, <1>3, VersionForIs
<1>5. /\ SnapInv /\ OpenOK(o) /\ NodesOK /\ NamesOK /\ op \in [Takers -> OpType]
      /\ nextInode \in Nat
  BY OpIs DEF Inv, TypeOK, SnapInv, RequestsOK
<1>6. op[o].path \in Paths
  BY <1>2, <1>5 DEF OpenOK, HasInode
<1>7. /\ SnapInv' /\ UNCHANGED <<clock, everything, generations>>
      /\ taking'[o].snap = s /\ taking'[o].step = "released"
      /\ \A u \in Takers \ {o} : taking'[u] = taking[u]
  BY <1>2, <1>4, <1>5, TakeEndsKeeps DEF TakeEnds
<1>8. \A q \in Paths : generation(q)' = generation(q)
  BY <1>5, <1>7, GenerationUnchanged DEF SnapInv
<1>9. /\ DOMAIN nodes' = DOMAIN nodes
      /\ nodes'[i] = Fixed(nodes[i], s)
      /\ \A j \in DOMAIN nodes \ {i} : nodes'[j] = nodes[j]
      /\ nodes' = [j \in DOMAIN nodes' |-> nodes'[j]]
  BY <1>2, <1>3, <1>5 DEF NodesOK
<1>10. nodes[i] \in NodeType
  BY <1>5 DEF NodesOK
<1>11. /\ nodes'[i] \in NodeType /\ nodes'[i].path = nodes[i].path
       /\ nodes'[i].snapshot = s /\ nodes'[i].opened # None
  BY <1>4, <1>9, <1>10, FixedIs
<1>12. NodesOK'
  <2>1. ASSUME NEW j \in DOMAIN nodes'
        PROVE  /\ j # 0 /\ j <= nextInode' /\ j \in Nat
               /\ nodes'[j] \in NodeType
               /\ nodes'[j].opened = None <=> nodes'[j].snapshot = None
               /\ nodes'[j].snapshot # None
                     => nodes'[j].snapshot.generation <= generation(nodes[j].path)'
    <3>1. j # 0 /\ j <= nextInode' /\ j \in Nat
      BY <1>2, <1>5, <1>9 DEF NodesOK
    <3>2. CASE j = i
      BY <1>2, <1>4, <1>6, <1>8, <1>11, <3>1, <3>2
    <3>3. CASE j # i
      <4>1. /\ nodes'[j] = nodes[j] /\ nodes[j] \in NodeType
            /\ nodes[j].opened = None <=> nodes[j].snapshot = None
            /\ nodes[j].snapshot # None
                  => nodes[j].snapshot.generation <= generation(nodes[j].path)
        BY <1>5, <1>9, <3>3 DEF NodesOK
      <4>2. nodes[j].path \in Paths
        BY <4>1 DEF NodeType
      <4> QED  BY <1>8, <3>1, <4>1, <4>2
    <3> QED  BY <3>2, <3>3
  <2> QED  BY <1>9, <2>1 DEF NodesOK
<1>13. \A j \in DOMAIN nodes : nodes'[j].path = nodes[j].path
  BY <1>9, <1>11
<1>14. NamesOK'
  BY <1>2, <1>5, <1>9, <1>13 DEF NamesOK, InodeOf
<1>15. PassOK /\ clock \in Nat
  BY <1>5 DEF Inv, NotifierOK, SnapInv, SnapshotsTypeOK
<1>16. /\ op' \in [Takers -> OpType]
       /\ op'[o].path = op[o].path /\ op'[o].ino = i
       /\ \A u \in Takers \ {o} : op'[u] = op[u]
       /\ \/ op'[o].pc = "open" /\ RepliesNow(o, s) /\ UNCHANGED <<notifying, pass>>
          \/ op'[o].pc = "held" /\ ~RepliesNow(o, s) /\ start_notifying
  <2>1. CASE RepliesNow(o, s)
    <3>1. /\ op' = [op EXCEPT ![o].pc = "open", ![o].answers = @ + 1]
          /\ UNCHANGED <<notifying, pass>>
      BY <1>1, <2>1 DEF Serve
    <3>2. op[o] \in OpType /\ op[o].answers + 1 \in Nat
      BY <1>5 DEF OpType
    <3>3. [op[o] EXCEPT !.pc = "open", !.answers = op[o].answers + 1] \in OpType
      BY <3>2 DEF OpType
    <3>4. op'[o] = [op[o] EXCEPT !.pc = "open", !.answers = op[o].answers + 1]
      BY <1>5, <3>1, <3>2 DEF OpType
    <3>5. op' \in [Takers -> OpType]
      BY <1>5, <3>1, <3>3, <3>4
    <3>6. /\ op'[o].pc = "open" /\ op'[o].path = op[o].path /\ op'[o].ino = op[o].ino
          /\ \A u \in Takers \ {o} : op'[u] = op[u]
      BY <1>5, <3>1 DEF OpType
    <3> QED  BY <1>3, <2>1, <3>1, <3>5, <3>6
  <2>2. CASE ~RepliesNow(o, s)
    <3>1. op' = [op EXCEPT ![o].pc = "held"] /\ start_notifying
      BY <1>1, <2>2 DEF Serve
    <3>2. [op[o] EXCEPT !.pc = "held"] \in OpType
      BY <1>5 DEF OpType
    <3>3. op' \in [Takers -> OpType]
      BY <1>5, <3>1, <3>2
    <3>4. /\ op'[o].pc = "held" /\ op'[o].path = op[o].path /\ op'[o].ino = op[o].ino
          /\ \A u \in Takers \ {o} : op'[u] = op[u]
      BY <1>5, <3>1 DEF OpType
    <3> QED  BY <1>3, <2>2, <3>1, <3>3, <3>4
  <2> QED  BY <2>1, <2>2
<1>17. HasHandle(o)'
  BY <1>16 DEF HasHandle
<1>18. ASSUME NEW u \in Takers PROVE OpenOK(u)'
  <2>1. CASE u = o
    <3>1. op'[o].pc \in {"open", "held"}
      BY <1>16
    <3>2. op'[o].path \in Paths /\ op'[o].ino \in DOMAIN nodes' /\ nodes'[op'[o].ino].path = op'[o].path
      BY <1>4, <1>6, <1>9, <1>11, <1>16
    <3>3. taking'[o].snap # None /\ taking'[o].snap = nodes'[op'[o].ino].snapshot
      BY <1>2, <1>7, <1>11, <1>16
    <3> QED  BY <1>7, <2>1, <3>1, <3>2, <3>3 DEF OpenOK, HasInode, HasHandle, InodeOf, Active
  <2>2. CASE u # o
    <3>1. OpenOK(u) /\ op'[u] = op[u] /\ taking'[u] = taking[u]
      BY <1>7, <1>16, <2>2 DEF Inv, RequestsOK
    <3>2. CASE op[u].ino = i /\ HasHandle(u)
      BY <1>4, <1>9, <1>11, <3>1, <3>2 DEF OpenOK, HasInode, HasHandle, InodeOf, Active
    <3>3. CASE ~HasHandle(u)
      BY <1>9, <1>13, <3>1, <3>3 DEF OpenOK, HasInode, HasHandle, InodeOf, Active
    <3>4. CASE op[u].ino # i
      BY <1>9, <3>1, <3>4, OpenUnchanged DEF OpenOK, InodeOf
    <3> QED  BY <3>2, <3>3, <3>4
  <2> QED  BY <2>1, <2>2
<1>19. /\ PassOK' /\ (stopping \/ notifying' \/ op'[o].pc = "open")
       /\ notifying => notifying'
       /\ DOMAIN pass'.batch = DOMAIN pass.batch
       /\ pass'.every = pass.every
       /\ \A q \in DOMAIN pass.batch : pass'.gens[q] = pass.gens[q]
       /\ pass' = pass \/ (pass.pc = "off" /\ pass'.ino = 0)
       /\ notifying' \in BOOLEAN
  <2>1. notifying \in BOOLEAN
    BY DEF Inv, TypeOK
  <2>2. CASE UNCHANGED <<notifying, pass>> /\ op'[o].pc = "open"
    <3>1. PassOK'
      BY <1>2, <1>7, <1>15, <2>2 DEF PassOK, Queued
    <3> QED  BY <2>1, <2>2, <3>1
  <2>3. CASE start_notifying
    <3>1. clock' = clock /\ clock' >= clock /\ stopping' = stopping
      BY <1>2, <1>7, <1>15
    <3>2. notifying' \in BOOLEAN
      BY <2>1, <2>3 DEF start_notifying
    <3> QED  BY <1>15, <2>3, <3>1, <3>2, StartNotifying
  <2> QED  BY <1>16, <2>2, <2>3
<1>20. LoopOK'
  BY <1>2, <1>16, <1>19, NoTakerIsSpecial DEF Inv, RequestsOK, LoopOK
<1>21. PokeOK'
  BY <1>9, <1>13, <1>19 DEF Inv, RequestsOK, PokeOK, InodeOf
<1>22. \A q \in Paths : AnnouncedUpTo(q)' = AnnouncedUpTo(q)
  BY <1>2 DEF AnnouncedUpTo
<1>23. \A q \in Paths : AheadOK(q)' /\ ComingOK(q)'
  <2>1. ASSUME NEW q \in Paths PROVE AheadOK(q)'
    BY <1>2, <1>7, <1>8, <1>19, <1>22 DEF Inv, NotifierOK, AheadOK
  <2>2. ASSUME NEW q \in Paths PROVE ComingOK(q)'
    BY <1>2, <1>8, <1>19, <1>22 DEF Inv, NotifierOK, ComingOK, WillAnnounce
  <2> QED  BY <2>1, <2>2
<1>24. RepliesOK'
  <2>1. ASSUME NEW u \in Takers \ {o}
        PROVE  /\ op'[u].pc = "held" => notifying'
               /\ op'[u].pc = "held" /\ ~stopping' =>
                     taking'[u].snap.generation > AnnouncedUpTo(op[u].path)'
               /\ op'[u].pc = "open" /\ ~stopping' =>
                     taking'[u].snap.generation <= AnnouncedUpTo(op[u].path)'
    <3>1. op'[u] = op[u] /\ taking'[u] = taking[u] /\ stopping' = stopping
      BY <1>2, <1>7, <1>16
    <3> QED  BY <1>2, <1>19, <3>1 DEF Inv, RepliesOK, AnnouncedUpTo
  <2>2. /\ op'[o].pc = "held" => notifying'
        /\ op'[o].pc = "held" /\ ~stopping' =>
              taking'[o].snap.generation > AnnouncedUpTo(op[o].path)'
        /\ op'[o].pc = "open" /\ ~stopping' =>
              taking'[o].snap.generation <= AnnouncedUpTo(op[o].path)'
    <3>1. AnnouncedUpTo(op[o].path)' = AnnouncedUpTo(op[o].path) /\ stopping' = stopping
      BY <1>2, <1>6, <1>16, <1>22 DEF AnnouncedUpTo
    <3>2. AnnouncedUpTo(op[o].path) \in Nat /\ s.generation \in Nat
      BY <1>4, <1>6, <1>15 DEF Inv, TypeOK, AnnouncedUpTo, Larger, Snapshots
    <3> QED  BY <1>7, <1>16, <1>19, <3>1, <3>2 DEF RepliesNow
  <2> QED  BY <2>1, <2>2 DEF RepliesOK
<1>25. TypeOK'
  BY <1>2, <1>7, <1>16, <1>19 DEF Inv, TypeOK, OpType, SnapInv
<1> QED  BY <1>7, <1>12, <1>14, <1>18, <1>19, <1>20, <1>21, <1>23, <1>24, <1>25
         DEF Inv, RequestsOK, NotifierOK, SnapInv

-----------------------------------------------------------------------------
(* The notifier.                                                           *)

\* A step of a pass that replies to nobody.
LEMMA PassSteps ==
    ASSUME Inv, NotifierOK', LoopOK', PokeOK', notifying',
           known' \subseteq Paths, DOMAIN pending' \subseteq Paths, dirty' \in BOOLEAN,
           loop' \in [who : Takers \cup {Notifier, None}, path : Paths \cup {None},
                      seen : Versions \cup {None}],
           UNCHANGED <<snapshotVars, owed, op, nodes, ids, nextInode, io, stopping, notifying,
                       announced, announcedEverything, down>>
    PROVE  Inv'
<1>1. /\ SnapshotsTypeOK /\ SnapshotsTypeOK' /\ SnapshotsOK'
      /\ UNCHANGED <<clock, everything, generations, taking>>
  BY SnapshotsUnchanged DEF Inv, TypeOK, SnapInv, snapshotVars
<1>2. TypeOK'
  BY <1>1 DEF Inv, TypeOK
<1>3. NodesOK' /\ NamesOK'
  BY <1>1, NodesUnchanged, GenerationUnchanged DEF Inv
<1>4. \A u \in Takers : OpenOK(u)'
  BY <1>1, OpenUnchanged DEF Inv, RequestsOK, OpenOK, InodeOf
<1>5. RepliesOK'
  BY <1>1, RepliesUnchanged DEF Inv
<1> QED  BY <1>1, <1>2, <1>3, <1>4, <1>5 DEF Inv, RequestsOK

\* A pass that goes on within its batch, while the loop answers nobody or
\* somebody else.
LEMMA PassMoves ==
    ASSUME Inv, SameBatch, pass.pc \in Announcing \cup {"batch"},
           pass'.pc \in Announcing, pass'.path \in DOMAIN pass.batch,
           pass'.ino \in {0, pass.ino},
           pass'.ino # 0 => pass'.pc \in {"open", "writing"} /\ pass'.path = pass.path,
           loop = NotLooking \/ pass.pc \notin {"poke", "mknod", "removal"},
           known' \subseteq Paths,
           UNCHANGED <<snapshotVars, owed, op, nodes, ids, nextInode, loop, io, pending, dirty,
                       stopping, notifying, announced, announcedEverything, down>>
    PROVE  Inv'
<1>1. PassOK /\ UNCHANGED <<clock, everything, generations>>
  BY DEF Inv, NotifierOK, snapshotVars
<1>2. pass.pc \notin {"off", "top"}
  BY DEF Announcing
<1>3. pass'.ino \in Nat /\ notifying'
  BY <1>1, <1>2 DEF PassOK
<1>4. NotifierOK'
  BY <1>1, <1>2, <1>3, PassGoesOn DEF Inv
<1>5. loop.who # Notifier
  BY NoTakerIsSpecial DEF Inv, RequestsOK, LoopOK, NotLooking
<1>6. LoopOK'
  BY <1>5 DEF Inv, RequestsOK, LoopOK
<1>7. PokeOK'
  BY DEF Inv, RequestsOK, PokeOK, InodeOf
<1>8. DOMAIN pending' \subseteq Paths /\ dirty' \in BOOLEAN
  BY DEF Inv, TypeOK
<1> QED  BY <1>3, <1>4, <1>6, <1>7, <1>8, LoopIs, PassSteps

LEMMA AnnounceInv ==
    ASSUME Inv, NEW p \in Paths, announce(p)
    PROVE  Inv'
<1>1. PICK pc \in {"gone", "creation", "poke"} : pass' = [pass EXCEPT !.path = p, !.pc = pc]
  BY DEF announce
<1>2. /\ pass.pc = "batch" /\ p \in DOMAIN pass.batch
      /\ UNCHANGED <<snapshotVars, serveVars, pending, dirty, stopping, notifying,
                     announced, announcedEverything, down>>
  BY DEF announce
<1>3. PassOK /\ PokeOK
  BY DEF Inv, NotifierOK, RequestsOK
<1>4. SameBatch /\ pass'.path = p /\ pass'.pc = pc /\ pass'.ino = 0
  BY <1>1, <1>2, <1>3 DEF PassOK, PokeOK, SameBatch
<1> QED  BY <1>2, <1>4, LoopIs, PassMoves DEF Announcing, serveVars

LEMMA NotifierLookupInv ==
    ASSUME Inv, NotifierLookup
    PROVE  Inv'
<1>1. /\ pass.pc \in {"poke", "mknod", "removal"} /\ entry(Notifier, pass.path)
      /\ UNCHANGED <<snapshotVars, owed, op, nodes, ids, nextInode, io, notifyVars, down>>
  BY DEF NotifierLookup
<1>2. PassOK /\ PokeOK /\ pass' = pass
  BY <1>1 DEF Inv, NotifierOK, RequestsOK, notifyVars
<1>3. pass.path \in Paths /\ notifying
  BY <1>1, <1>2 DEF PassOK, Announcing
<1>4. /\ known' \subseteq Paths
      /\ loop' \in [who : Takers \cup {Notifier, None}, path : Paths \cup {None},
                    seen : Versions \cup {None}]
      /\ loop'.who = Notifier /\ loop'.path = pass.path
  BY <1>1, <1>3, EntryBegins
<1>5. LoopOK'
  BY <1>1, <1>2, <1>3, <1>4, NoTakerIsSpecial DEF LoopOK
<1>6. PokeOK'
  BY <1>1, <1>2 DEF PokeOK, InodeOf
<1>7. NotifierOK'
  BY <1>1, NotifierUnchanged DEF Inv, snapshotVars
<1>8. DOMAIN pending' \subseteq Paths /\ dirty' \in BOOLEAN /\ notifying'
  BY <1>1, <1>3 DEF Inv, TypeOK, notifyVars
<1> QED  BY <1>1, <1>4, <1>5, <1>6, <1>7, <1>8, PassSteps DEF notifyVars

LEMMA NotifierFindsNothingInv ==
    ASSUME Inv, NotifierFindsNothing
    PROVE  Inv'
<1>1. /\ pass.pc \in {"poke", "mknod"} /\ loop = NotLooking
      /\ pass' = [pass EXCEPT !.pc = "announced"]
      /\ known' \in {known, known \cup {pass.path}}
      /\ UNCHANGED <<snapshotVars, owed, op, nodes, ids, nextInode, loop, io, pending, dirty,
                     stopping, notifying, announced, announcedEverything, down>>
  BY DEF NotifierFindsNothing
<1>2. PassOK /\ PokeOK
  BY DEF Inv, NotifierOK, RequestsOK
<1>3. pass.path \in DOMAIN pass.batch /\ pass.path \in Paths /\ pass.ino = 0
  BY <1>1, <1>2 DEF PassOK, PokeOK, Announcing
<1>4. SameBatch /\ pass'.path = pass.path /\ pass'.pc = "announced" /\ pass'.ino = 0
  BY <1>1, <1>2, <1>3 DEF PassOK, SameBatch
<1>5. known' \subseteq Paths
  BY <1>1, <1>3, LoopIs
<1> QED  BY <1>1, <1>3, <1>4, <1>5, PassMoves DEF Announcing

LEMMA PokeInv ==
    ASSUME Inv, PokeOpen \/ PokeClose
    PROVE  Inv'
<1>1. /\ pass.pc \in {"open", "writing"}
      /\ \/ pass' = [pass EXCEPT !.pc = "writing"]
         \/ pass' = [pass EXCEPT !.pc = "announced", !.ino = 0]
      /\ UNCHANGED <<snapshotVars, serveVars, pending, dirty, stopping, notifying,
                     announced, announcedEverything, down>>
  BY DEF PokeOpen, PokeClose
<1>2. PassOK
  BY DEF Inv, NotifierOK
<1>3. pass.path \in DOMAIN pass.batch
  BY <1>1, <1>2 DEF PassOK, Announcing
<1>4. /\ SameBatch /\ pass'.path = pass.path
      /\ pass'.pc \in {"writing", "announced"}
      /\ pass'.pc = "writing" => pass'.ino = pass.ino
      /\ pass'.pc = "announced" => pass'.ino = 0
  BY <1>1, <1>2 DEF PassOK, SameBatch
<1> QED  BY <1>1, <1>3, <1>4, LoopIs, PassMoves DEF Announcing, serveVars

LEMMA AnnounceCreationInv ==
    ASSUME Inv, announce_creation
    PROVE  Inv'
<1>1. /\ pass.pc = "creation" /\ pass' = [pass EXCEPT !.pc = "mknod"]
      /\ UNCHANGED <<snapshotVars, serveVars, pending, dirty, stopping, notifying,
                     announced, announcedEverything, down>>
  BY DEF announce_creation
<1>2. PassOK /\ PokeOK
  BY DEF Inv, NotifierOK, RequestsOK
<1>3. pass.path \in DOMAIN pass.batch /\ pass.ino = 0
  BY <1>1, <1>2 DEF PassOK, PokeOK, Announcing
<1>4. SameBatch /\ pass'.path = pass.path /\ pass'.pc = "mknod" /\ pass'.ino = 0
  BY <1>1, <1>2, <1>3 DEF PassOK, SameBatch
<1> QED  BY <1>1, <1>3, <1>4, LoopIs, PassMoves DEF Announcing, serveVars

LEMMA AnnounceRemovalInv ==
    ASSUME Inv, announce_removal
    PROVE  Inv'
<1>1. /\ pass.pc = "gone" /\ known' = known \ {pass.path}
      /\ UNCHANGED <<snapshotVars, owed, op, nodes, ids, nextInode, loop, io, pending, dirty,
                     stopping, notifying, announced, announcedEverything, down>>
  BY DEF announce_removal
<1>2. PICK pc \in {"removal", "announced"} : pass' = [pass EXCEPT !.pc = pc]
  BY DEF announce_removal
<1>3. PassOK /\ PokeOK
  BY DEF Inv, NotifierOK, RequestsOK
<1>4. pass.path \in DOMAIN pass.batch /\ pass.ino = 0
  BY <1>1, <1>3 DEF PassOK, PokeOK, Announcing
<1>5. SameBatch /\ pass'.path = pass.path /\ pass'.pc = pc /\ pass'.ino = 0
  BY <1>2, <1>3, <1>4 DEF PassOK, SameBatch
<1>6. known' \subseteq Paths
  BY <1>1, LoopIs
<1> QED  BY <1>1, <1>4, <1>5, <1>6, PassMoves DEF Announcing

\* A batch takes up everything queued, at the generation each file has now.
LEMMA TakeBatchInv ==
    ASSUME Inv, TakeBatch
    PROVE  Inv'
<1>1. /\ pass.pc = "top" /\ dirty' = FALSE /\ pending' = << >>
      /\ UNCHANGED <<snapshotVars, serveVars, stopping, notifying, announced,
                     announcedEverything, down>>
  BY DEF TakeBatch
<1>2. PICK b, g, e :
        /\ b = Batch /\ g = [p \in DOMAIN b |-> generation(p)] /\ e = Covers
        /\ pass' = [pass EXCEPT !.pc = "batch", !.batch = b, !.gens = g, !.every = e]
  BY DEF TakeBatch
<1>3. /\ SnapshotsTypeOK /\ UNCHANGED <<clock, everything, generations>>
      /\ PassOK /\ PokeOK /\ clock \in Nat /\ dirty \in BOOLEAN
  BY <1>1 DEF Inv, TypeOK, NotifierOK, RequestsOK, snapshotVars, SnapshotsTypeOK
<1>4. /\ DOMAIN b \subseteq Paths
      /\ dirty => e = clock
      /\ ~dirty => DOMAIN b = DOMAIN pending /\ e = None
  BY <1>2, <1>3 DEF Batch, Covers, latest, Inv, TypeOK
<1>5. \A q \in Paths : /\ generation(q) \in 0..clock /\ everything \in 0..clock
                       /\ everything <= generation(q)
                       /\ generation(q)' = generation(q)
                       /\ AnnouncedUpTo(q)' = AnnouncedUpTo(q)
                       /\ AnnouncedUpTo(q) \in 0..clock
  BY <1>1, <1>3, GenerationIs
  DEF SnapshotsTypeOK, generation, Larger, AnnouncedUpTo, Inv, TypeOK
<1>6. /\ DOMAIN pass.batch = {} /\ pass.every = None /\ notifying
  BY <1>1, <1>3 DEF PassOK
<1>7. /\ pass'.pc = "batch" /\ pass'.batch = b /\ pass'.gens = g /\ pass'.every = e
      /\ pass'.ino = pass.ino /\ pass.ino = 0
      /\ pass' = [pc |-> pass'.pc, batch |-> pass'.batch, gens |-> pass'.gens,
                  every |-> pass'.every, path |-> pass'.path, ino |-> pass'.ino]
  BY <1>1, <1>2, <1>3 DEF PassOK, PokeOK
<1>8. DOMAIN g = DOMAIN b /\ \A q \in DOMAIN b : g[q] = generation(q)
  BY <1>2
<1>9. PassOK'
  <2>1. \A q \in DOMAIN g : g[q] \in 0..clock
    BY <1>4, <1>5, <1>8
  <2>2. e \in (0..clock) \cup {None}
    BY <1>3, <1>4
  <2> QED  BY <1>1, <1>3, <1>4, <1>6, <1>7, <1>8, <2>1, <2>2 DEF PassOK, Announcing
<1>10. DOMAIN pending' = {}
  BY <1>1
<1>11. ASSUME NEW q \in Paths PROVE AheadOK(q)' /\ ComingOK(q)'
  <2>1. AheadOK(q) /\ ComingOK(q)
    BY DEF Inv, NotifierOK
  <2>2. q \in DOMAIN b => AnnouncedUpTo(q) < generation(q)
    BY <1>3, <1>4, <1>5, <2>1 DEF AheadOK
  <2>3. AheadOK(q)'
    BY <1>1, <1>5, <1>7, <1>8, <1>10, <2>2 DEF AheadOK
  <2>4. \/ stopping \/ generation(q) <= AnnouncedUpTo(q)
        \/ dirty \/ q \in DOMAIN pending
    BY <1>6, <2>1 DEF ComingOK, WillAnnounce
  <2>5. CASE dirty
    <3>1. pass'.every = clock /\ clock # None /\ clock >= generation(q)'
      BY <1>3, <1>4, <1>5, <1>7, <2>5, NoneAssumption DEF NoneAssumption
    <3> QED  BY <1>3, <2>3, <3>1 DEF ComingOK, WillAnnounce
  <2>6. CASE ~dirty /\ q \in DOMAIN pending
    <3>1. q \in DOMAIN pass'.batch /\ pass'.gens[q] >= generation(q)'
      BY <1>4, <1>5, <1>7, <1>8, <2>6
    <3> QED  BY <2>3, <3>1 DEF ComingOK, WillAnnounce
  <2>7. CASE stopping \/ generation(q) <= AnnouncedUpTo(q)
    BY <1>1, <1>5, <2>3, <2>7 DEF ComingOK
  <2> QED  BY <2>4, <2>5, <2>6, <2>7
<1>12. NotifierOK'
  BY <1>9, <1>11 DEF NotifierOK
<1>13. LoopOK'
  BY <1>1 DEF Inv, RequestsOK, LoopOK, serveVars
<1>14. PokeOK'
  BY <1>7 DEF PokeOK
<1> QED  BY <1>1, <1>6, <1>10, <1>12, <1>13, <1>14, LoopIs, PassSteps DEF serveVars

\* A pass that is back at the top has nothing of its own left.
LEMMA BatchDoneInv ==
    ASSUME Inv, BatchDone
    PROVE  Inv'
<1>1. /\ pass.pc = "batch" /\ DOMAIN pass.batch = {} /\ pass.every = None
      /\ pass' = [NoPass EXCEPT !.pc = "top"]
      /\ UNCHANGED <<snapshotVars, serveVars, pending, dirty, stopping, notifying,
                     announced, announcedEverything, down>>
  BY DEF BatchDone
<1>2. /\ pass'.pc = "top" /\ pass'.every = None /\ pass'.ino = 0
      /\ DOMAIN pass'.batch = {} /\ DOMAIN pass'.gens = {}
      /\ pass' = [pc |-> pass'.pc, batch |-> pass'.batch, gens |-> pass'.gens,
                  every |-> pass'.every, path |-> pass'.path, ino |-> pass'.ino]
  BY <1>1, EmptyPass
<1>3. /\ UNCHANGED <<clock, everything, generations>> /\ PassOK /\ notifying
  BY <1>1 DEF Inv, NotifierOK, PassOK, snapshotVars
<1>4. PassOK'
  BY <1>1, <1>2, <1>3 DEF PassOK, Announcing
<1>5. ASSUME NEW q \in Paths PROVE AheadOK(q)' /\ ComingOK(q)'
  <2>1. AheadOK(q)'
    BY <1>1, <1>2, <1>3 DEF Inv, NotifierOK, AheadOK, AnnouncedUpTo, generation
  <2>2. ComingOK(q)'
    BY <1>1, <1>2, <1>3 DEF Inv, NotifierOK, ComingOK, AnnouncedUpTo, generation, WillAnnounce
  <2> QED  BY <2>1, <2>2
<1>6. LoopOK'
  BY <1>1 DEF Inv, RequestsOK, LoopOK, serveVars
<1>7. PokeOK'
  BY <1>2 DEF PokeOK
<1>8. DOMAIN pending' \subseteq Paths /\ dirty' \in BOOLEAN
  BY <1>1 DEF Inv, TypeOK
<1> QED  BY <1>1, <1>3, <1>4, <1>5, <1>6, <1>7, <1>8, LoopIs, PassSteps DEF serveVars, NotifierOK

\* Held opens are replied to, or let go if the program is no longer there.
LEMMA ReplyHeldKeeps ==
    ASSUME Inv, NEW ready \in SUBSET HeldOpens, ReplyHeld(ready), UNCHANGED nodes
    PROVE  /\ SnapInv' /\ UNCHANGED <<file, clock, everything, generations>>
           /\ op' \in [Takers -> OpType]
           /\ \A o \in Takers : OpenOK(o)'
           /\ \A o \in Takers \ ready : op'[o] = op[o] /\ taking'[o] = taking[o]
           /\ \A o \in ready :
                 \/ op'[o].pc = "closed"
                 \/ op'[o].pc = "open" /\ op'[o].path = op[o].path /\ taking'[o] = taking[o]
<1>1. PICK lost \in SUBSET (ready \cap Interruptible) :
        /\ op' = [o \in Takers |->
                    IF o \notin ready THEN op[o]
                    ELSE [IF o \in lost THEN Closed(o) ELSE [op[o] EXCEPT !.pc = "open"]
                            EXCEPT !.answers = @ + 1]]
        /\ IF lost = {} THEN UNCHANGED snapshotVars ELSE Release(lost)
  BY DEF ReplyHeld
<1>2. ready \subseteq Takers /\ lost \in SUBSET Takers /\ \A o \in ready : op[o].pc = "held"
  BY DEF HeldOpens
<1>3. SnapInv /\ op \in [Takers -> OpType]
  BY OpIs DEF Inv, TypeOK, SnapInv
<1>4. /\ SnapInv' /\ UNCHANGED <<file, clock, everything, generations>>
      /\ \A u \in Takers \ lost : taking'[u] = taking[u]
      /\ \A u \in lost : taking'[u].step = "released"
  <2>1. CASE lost = {}
    BY <1>1, <1>3, <2>1, SnapshotsUnchanged DEF snapshotVars
  <2>2. CASE lost # {}
    <3>1. Release(lost)
      BY <1>1, <2>2
    <3> QED  BY <1>2, <1>3, <3>1, ReleaseKeeps DEF Release
  <2> QED  BY <2>1, <2>2
<1>5. ASSUME NEW o \in lost
      PROVE  op'[o] \in OpType /\ op'[o].pc = "closed"
  <2>1. op'[o] = [Closed(o) EXCEPT !.answers = @ + 1] /\ o \in Takers
    BY <1>1, <1>2
  <2> QED  BY <2>1, ClosedIs DEF Inv
<1>6. ASSUME NEW o \in ready \ lost
      PROVE  /\ op'[o] \in OpType /\ op'[o].pc = "open" /\ op'[o].path = op[o].path
             /\ op'[o].ino = op[o].ino
  <2>1. op[o] \in OpType /\ o \in Takers
    BY <1>2, <1>3
  <2>2. PICK opened : opened = [op[o] EXCEPT !.pc = "open"]
    OBVIOUS
  <2>3. /\ opened \in OpType /\ opened.pc = "open" /\ opened.path = op[o].path
        /\ opened.ino = op[o].ino
    BY <2>1, <2>2 DEF OpType
  <2>4. op'[o] = [opened EXCEPT !.answers = @ + 1]
    BY <1>1, <2>1, <2>2
  <2>5. opened.answers + 1 \in Nat
    BY <2>3 DEF OpType
  <2> QED  BY <2>3, <2>4, <2>5 DEF OpType
<1>7. \A o \in Takers \ ready : op'[o] = op[o] /\ taking'[o] = taking[o]
  BY <1>1, <1>4
<1>8. op' \in [Takers -> OpType]
  <2>1. \A o \in Takers : op'[o] \in OpType
    BY <1>3, <1>5, <1>6, <1>7
  <2>2. op' = [o \in Takers |-> op'[o]]
    BY <1>1
  <2> QED  BY <2>1, <2>2
<1>9. ASSUME NEW o \in Takers PROVE OpenOK(o)'
  <2>1. OpenOK(o)
    BY DEF Inv, RequestsOK
  <2>2. CASE o \in lost
    BY <1>4, <1>5, <2>2, ClosedOpen DEF Active
  <2>3. CASE o \in ready \ lost
    <3>1. op[o].pc = "held" /\ taking'[o] = taking[o] /\ nodes' = nodes
      BY <1>2, <1>4, <2>3
    <3>2. op'[o].pc = "open" /\ op'[o].path = op[o].path /\ op'[o].ino = op[o].ino
      BY <1>6, <2>3
    <3> QED  BY <2>1, <3>1, <3>2 DEF OpenOK, HasInode, HasHandle, InodeOf, Active
  <2>4. CASE o \notin ready
    BY <1>7, <2>1, <2>4, OpenUnchanged DEF OpenOK, InodeOf
  <2> QED  BY <2>2, <2>3, <2>4
<1>10. ASSUME NEW o \in ready
       PROVE  \/ op'[o].pc = "closed"
              \/ op'[o].pc = "open" /\ op'[o].path = op[o].path /\ taking'[o] = taking[o]
  BY <1>2, <1>4, <1>5, <1>6
<1> QED  BY <1>4, <1>7, <1>8, <1>9, <1>10

\* Whoever has a handle has a version of the file no newer than the file.
LEMMA HandleIs ==
    ASSUME Inv, NEW o \in Takers, HasHandle(o)
    PROVE  /\ op[o].path \in Paths
           /\ op[o].ino \in DOMAIN nodes /\ nodes[op[o].ino].path = op[o].path
           /\ taking[o].snap \in Snapshots
           /\ taking[o].snap.generation \in Nat
           /\ taking[o].snap.generation <= generation(op[o].path)
<1>1. OpenOK(o) /\ NodesOK
  BY DEF Inv, RequestsOK
<1>2. /\ op[o].path \in Paths
      /\ op[o].ino \in DOMAIN nodes /\ nodes[op[o].ino].path = op[o].path
      /\ taking[o].snap # None /\ taking[o].snap = nodes[op[o].ino].snapshot
  BY <1>1 DEF OpenOK, HasHandle, HasInode, InodeOf
<1>3. taking[o].snap \in Snapshots /\ taking[o].snap.generation <= generation(op[o].path)
  BY <1>1, <1>2 DEF NodesOK, NodeType
<1> QED  BY <1>2, <1>3 DEF Snapshots

LEMMA AnnouncedIs ==
    ASSUME TypeOK, NEW p \in Paths
    PROVE  AnnouncedUpTo(p) \in 0..clock
BY DEF TypeOK, SnapshotsTypeOK, AnnouncedUpTo, Larger

\* While an open is held a pass has its version, or a newer one, to announce.
LEMMA HeldComes ==
    ASSUME Inv, NEW o \in Takers, op[o].pc = "held", ~stopping
    PROVE  WillAnnounce(op[o].path, taking[o].snap.generation)
<1>1. HasHandle(o) /\ SnapshotsTypeOK /\ TypeOK /\ PassOK
  BY DEF HasHandle, Inv, TypeOK, NotifierOK
<1>2. PICK p \in Paths : p = op[o].path
  BY <1>1, HandleIs
<1>3. PICK g \in Nat : g = taking[o].snap.generation
  BY <1>1, HandleIs
<1>4. g <= generation(p) /\ g > AnnouncedUpTo(p)
  BY <1>1, <1>2, <1>3, HandleIs DEF Inv, RepliesOK
<1>5. generation(p) \in Nat /\ AnnouncedUpTo(p) \in Nat
  BY <1>1, GenerationIs, AnnouncedIs DEF SnapshotsTypeOK
<1>6. WillAnnounce(p, generation(p))
  BY <1>4, <1>5 DEF Inv, NotifierOK, ComingOK
<1>7. p \in DOMAIN pass.batch => pass.gens[p] \in Nat
  BY <1>1 DEF PassOK, SnapshotsTypeOK
<1>8. pass.every # None => pass.every \in Nat
  BY <1>1 DEF PassOK, SnapshotsTypeOK
<1> QED  BY <1>2, <1>3, <1>4, <1>5, <1>6, <1>7, <1>8 DEF WillAnnounce

\* A step of a pass that replies to held opens.
LEMMA PassReplies ==
    ASSUME Inv, NEW ready \in SUBSET HeldOpens, ReplyHeld(ready),
           NotifierOK', RepliesOK', PokeOK', pass.pc \notin {"poke", "mknod", "removal"},
           notifying' \in BOOLEAN, announced' \in [Paths -> 0..clock],
           announcedEverything' \in 0..clock,
           UNCHANGED <<owed, nodes, ids, nextInode, known, loop, io, pending, dirty, stopping,
                       down>>
    PROVE  Inv'
<1>1. /\ SnapInv' /\ UNCHANGED <<clock, everything, generations>>
      /\ op' \in [Takers -> OpType]
      /\ \A o \in Takers : OpenOK(o)'
      /\ \A o \in Takers \ ready : op'[o] = op[o]
  BY ReplyHeldKeeps
<1>2. SnapshotsTypeOK /\ SnapshotsTypeOK' /\ SnapshotsOK'
  BY <1>1 DEF Inv, TypeOK, SnapInv
<1>3. NodesOK' /\ NamesOK'
  BY <1>1, <1>2, NodesUnchanged, GenerationUnchanged DEF Inv
<1>4. LoopOK'
  <2>1. loop.who # Notifier
    BY DEF Inv, RequestsOK, LoopOK
  <2>2. loop.who \in Takers => loop.who \notin ready
    BY DEF Inv, RequestsOK, LoopOK, HeldOpens
  <2> QED  BY <1>1, <2>1, <2>2 DEF Inv, RequestsOK, LoopOK
<1>5. TypeOK'
  BY <1>1, <1>2 DEF Inv, TypeOK, OpType
<1> QED  BY <1>1, <1>2, <1>3, <1>4, <1>5 DEF Inv, RequestsOK

\* Exactly those whose version has been announced are replied to.
LEMMA RepliesFollow ==
    ASSUME Inv, NEW upTo, mark_announced(upTo), UNCHANGED <<nodes, notifying, stopping>>,
           \A q \in Paths : /\ upTo[q] \in Nat
                            /\ upTo[q] >= AnnouncedUpTo(q)
                            /\ AnnouncedUpTo(q)' = upTo[q]
    PROVE  /\ RepliesOK'
           /\ \E ready \in SUBSET HeldOpens : ReplyHeld(ready)
<1>1. PICK ready \in SUBSET HeldOpens :
        /\ ready = {o \in HeldOpens : taking[o].snap.generation <= upTo[op[o].path]}
        /\ ReplyHeld(ready)
  BY DEF mark_announced
<1>2. /\ \A o \in Takers \ ready : op'[o] = op[o] /\ taking'[o] = taking[o]
      /\ \A o \in ready :
            \/ op'[o].pc = "closed"
            \/ op'[o].pc = "open" /\ op'[o].path = op[o].path /\ taking'[o] = taking[o]
  BY <1>1, ReplyHeldKeeps
<1>3. ASSUME NEW o \in Takers
      PROVE  /\ op'[o].pc = "held" => notifying'
             /\ op'[o].pc = "held" /\ ~stopping' =>
                   taking'[o].snap.generation > AnnouncedUpTo(op[o].path)'
             /\ op'[o].pc = "open" /\ ~stopping' =>
                   taking'[o].snap.generation <= AnnouncedUpTo(op[o].path)'
  <2>1. CASE o \in ready
    <3>1. CASE op'[o].pc = "closed"
      BY <3>1
    <3>2. CASE op'[o].pc = "open" /\ op'[o].path = op[o].path /\ taking'[o] = taking[o]
      <4>1. HasHandle(o) /\ taking[o].snap.generation <= upTo[op[o].path]
        BY <1>1, <2>1 DEF HeldOpens, HasHandle
      <4>2. PICK p \in Paths : p = op[o].path
        BY <4>1, HandleIs
      <4>3. AnnouncedUpTo(p)' = upTo[p]
        OBVIOUS
      <4>4. AnnouncedUpTo(op[o].path)' = upTo[p]
        BY <3>2, <4>2, <4>3 DEF AnnouncedUpTo
      <4> QED  BY <3>2, <4>1, <4>2, <4>4
    <3> QED  BY <1>2, <2>1, <3>1, <3>2
  <2>2. CASE o \notin ready /\ HasHandle(o)
    <3>1. op'[o] = op[o] /\ taking'[o] = taking[o]
      BY <1>2, <2>2
    <3>2. PICK p \in Paths : p = op[o].path
      BY <2>2, HandleIs
    <3>3. PICK g \in Nat : g = taking[o].snap.generation
      BY <2>2, HandleIs
    <3>4. AnnouncedUpTo(op[o].path)' = upTo[p]
      <4>1. AnnouncedUpTo(p)' = upTo[p]
        OBVIOUS
      <4> QED  BY <3>1, <3>2, <4>1 DEF AnnouncedUpTo
    <3>5. AnnouncedUpTo(p) \in Nat
      BY AnnouncedIs DEF Inv, TypeOK, SnapshotsTypeOK
    <3>6. op[o].pc = "held" => notifying /\ g > upTo[p]
      BY <1>1, <2>2, <3>2, <3>3 DEF Inv, RepliesOK, HeldOpens
    <3>7. op[o].pc = "open" /\ ~stopping => g <= AnnouncedUpTo(p)
      BY <3>2, <3>3 DEF Inv, RepliesOK
    <3> QED  BY <3>1, <3>2, <3>3, <3>4, <3>5, <3>6, <3>7
  <2>3. CASE o \notin ready /\ ~HasHandle(o)
    BY <1>2, <2>3 DEF HasHandle
  <2> QED  BY <2>1, <2>2, <2>3
<1> QED  BY <1>1, <1>3 DEF RepliesOK

LEMMA MarkPathInv ==
    ASSUME Inv, MarkPath
    PROVE  Inv'
<1>1. PICK p, g : p = pass.path /\ g = pass.gens[p]
  OBVIOUS
<1>2. PICK upTo :
        /\ upTo = [q \in Paths |-> IF q = p THEN Larger(AnnouncedUpTo(p), g)
                                   ELSE AnnouncedUpTo(q)]
        /\ mark_announced(upTo)
  BY <1>1 DEF MarkPath
<1>3. /\ pass.pc = "announced"
      /\ announced' = [announced EXCEPT ![p] = Larger(@, g)]
      /\ pass' = [pass EXCEPT !.pc = "batch", !.path = None,
                              !.batch = [q \in DOMAIN @ \ {p} |-> @[q]]]
      /\ UNCHANGED <<owed, nodes, ids, nextInode, known, loop, io, pending, dirty, stopping,
                     notifying, announcedEverything, down>>
  BY <1>1 DEF MarkPath
<1>4. TypeOK /\ SnapshotsTypeOK /\ PassOK /\ PokeOK /\ clock \in Nat
  BY DEF Inv, TypeOK, SnapshotsTypeOK, NotifierOK, RequestsOK
<1>5. p \in DOMAIN pass.batch /\ p \in Paths /\ g \in 0..clock
  BY <1>1, <1>3, <1>4 DEF PassOK, Announcing
<1>6. /\ announced \in [Paths -> 0..clock] /\ announcedEverything \in 0..clock
  BY <1>4 DEF TypeOK
<1>7. /\ announced'[p] = Larger(announced[p], g)
      /\ \A q \in Paths \ {p} : announced'[q] = announced[q]
      /\ announced' \in [Paths -> 0..clock]
  BY <1>3, <1>5, <1>6 DEF Larger
<1>8. ASSUME NEW q \in Paths
      PROVE  /\ AnnouncedUpTo(q)' = upTo[q]
             /\ upTo[q] \in Nat /\ upTo[q] >= AnnouncedUpTo(q)
             /\ AnnouncedUpTo(q) \in 0..clock
             /\ q # p => upTo[q] = AnnouncedUpTo(q)
             /\ q = p => upTo[q] = Larger(AnnouncedUpTo(q), g)
  <2>1. announced[q] \in 0..clock
    BY <1>6
  <2>2. CASE q = p
    BY <1>2, <1>3, <1>4, <1>5, <1>6, <1>7, <2>1, <2>2 DEF AnnouncedUpTo, Larger
  <2>3. CASE q # p
    BY <1>2, <1>3, <1>4, <1>6, <1>7, <2>1, <2>3 DEF AnnouncedUpTo, Larger
  <2> QED  BY <2>2, <2>3
<1>9. RepliesOK' /\ \E ready \in SUBSET HeldOpens : ReplyHeld(ready)
  BY <1>2, <1>3, <1>8, RepliesFollow
<1>10. PICK ready \in SUBSET HeldOpens : ReplyHeld(ready)
  BY <1>9
<1>11. UNCHANGED <<clock, everything, generations>>
  BY <1>3, <1>10, ReplyHeldKeeps
<1>12. /\ pass'.pc = "batch" /\ DOMAIN pass'.batch = DOMAIN pass.batch \ {p}
       /\ pass'.gens = pass.gens /\ pass'.every = pass.every /\ pass'.ino = 0
       /\ pass' = [pc |-> pass'.pc, batch |-> pass'.batch, gens |-> pass'.gens,
                   every |-> pass'.every, path |-> pass'.path, ino |-> pass'.ino]
  BY <1>3, <1>4 DEF PassOK, PokeOK
<1>13. PassOK'
  BY <1>3, <1>4, <1>11, <1>12 DEF PassOK, Announcing
<1>14. ASSUME NEW q \in Paths PROVE AheadOK(q)' /\ ComingOK(q)'
  <2>1. AheadOK(q) /\ ComingOK(q)
    BY DEF Inv, NotifierOK
  <2>2. generation(q)' = generation(q) /\ generation(q) \in 0..clock
    BY <1>4, <1>11, GenerationIs, GenerationUnchanged
  <2>3. everything \in Nat
    BY <1>4 DEF SnapshotsTypeOK
  <2>4. CASE q = p
    <3>1. g = pass.gens[q] /\ q \in DOMAIN pass.batch /\ upTo[q] = Larger(AnnouncedUpTo(q), g)
          /\ AnnouncedUpTo(q)' = upTo[q] /\ AnnouncedUpTo(q) \in Nat /\ g \in Nat
      BY <1>1, <1>4, <1>5, <1>8, <2>4
    <3>2. AheadOK(q)'
      BY <1>3, <1>11, <1>12, <2>1, <2>2, <2>3, <2>4, <3>1 DEF AheadOK, Larger
    <3>3. ComingOK(q)'
      BY <1>3, <1>12, <2>1, <2>2, <2>4, <3>1 DEF ComingOK, WillAnnounce, Larger
    <3> QED  BY <3>2, <3>3
  <2>5. CASE q # p
    <3>1. AnnouncedUpTo(q)' = AnnouncedUpTo(q)
      BY <1>8, <2>5
    <3>2. AheadOK(q)'
      BY <1>3, <1>11, <1>12, <2>1, <2>2, <2>5, <3>1 DEF AheadOK
    <3>3. ComingOK(q)'
      BY <1>3, <1>12, <2>1, <2>2, <2>5, <3>1 DEF ComingOK, WillAnnounce
    <3> QED  BY <3>2, <3>3
  <2> QED  BY <2>4, <2>5
<1>15. PokeOK'
  BY <1>12 DEF PokeOK
<1>16. notifying' \in BOOLEAN /\ announcedEverything' \in 0..clock
  BY <1>3, <1>4 DEF TypeOK
<1> QED  BY <1>3, <1>7, <1>9, <1>10, <1>13, <1>14, <1>15, <1>16, PassReplies DEF NotifierOK

LEMMA MarkEverythingInv ==
    ASSUME Inv, MarkEverything
    PROVE  Inv'
<1>1. PICK e : e = pass.every
  OBVIOUS
<1>2. PICK upTo :
        /\ upTo = [q \in Paths |-> Larger(AnnouncedUpTo(q), e)]
        /\ mark_announced(upTo)
  BY <1>1 DEF MarkEverything
<1>3. /\ pass.pc = "batch" /\ DOMAIN pass.batch = {} /\ e # None
      /\ announcedEverything' = Larger(announcedEverything, e)
      /\ pass' = [NoPass EXCEPT !.pc = "top"]
      /\ UNCHANGED <<owed, nodes, ids, nextInode, known, loop, io, pending, dirty, stopping,
                     notifying, announced, down>>
  BY <1>1 DEF MarkEverything
<1>4. TypeOK /\ SnapshotsTypeOK /\ PassOK /\ clock \in Nat
  BY DEF Inv, TypeOK, SnapshotsTypeOK, NotifierOK
<1>5. e \in 0..clock
  BY <1>1, <1>3, <1>4 DEF PassOK
<1>6. /\ announced \in [Paths -> 0..clock] /\ announcedEverything \in 0..clock
      /\ announcedEverything' \in 0..clock
  BY <1>3, <1>4, <1>5 DEF TypeOK, Larger
<1>7. ASSUME NEW q \in Paths
      PROVE  /\ AnnouncedUpTo(q)' = upTo[q]
             /\ upTo[q] \in Nat /\ upTo[q] >= AnnouncedUpTo(q)
             /\ AnnouncedUpTo(q) \in 0..clock
             /\ upTo[q] = Larger(AnnouncedUpTo(q), e)
  <2>1. announced[q] \in 0..clock
    BY <1>6
  <2> QED  BY <1>2, <1>3, <1>4, <1>5, <1>6, <2>1 DEF AnnouncedUpTo, Larger
<1>8. RepliesOK' /\ \E ready \in SUBSET HeldOpens : ReplyHeld(ready)
  BY <1>2, <1>3, <1>7, RepliesFollow
<1>9. PICK ready \in SUBSET HeldOpens : ReplyHeld(ready)
  BY <1>8
<1>10. UNCHANGED <<clock, everything, generations>>
  BY <1>3, <1>9, ReplyHeldKeeps
<1>11. /\ pass'.pc = "top" /\ pass'.every = None /\ pass'.ino = 0
       /\ DOMAIN pass'.batch = {} /\ DOMAIN pass'.gens = {}
       /\ pass' = [pc |-> pass'.pc, batch |-> pass'.batch, gens |-> pass'.gens,
                   every |-> pass'.every, path |-> pass'.path, ino |-> pass'.ino]
  BY <1>3, EmptyPass
<1>12. PassOK'
  BY <1>3, <1>4, <1>11 DEF PassOK, Announcing
<1>13. ASSUME NEW q \in Paths PROVE AheadOK(q)' /\ ComingOK(q)'
  <2>1. AheadOK(q) /\ ComingOK(q)
    BY DEF Inv, NotifierOK
  <2>2. generation(q)' = generation(q) /\ generation(q) \in 0..clock
    BY <1>4, <1>10, GenerationIs, GenerationUnchanged
  <2>3. everything \in Nat
    BY <1>4 DEF SnapshotsTypeOK
  <2>4. AheadOK(q)'
    BY <1>1, <1>3, <1>4, <1>5, <1>7, <1>10, <1>11, <2>1, <2>2, <2>3 DEF AheadOK, Larger
  <2>5. ComingOK(q)'
    BY <1>1, <1>3, <1>4, <1>5, <1>7, <1>11, <2>1, <2>2 DEF ComingOK, WillAnnounce, Larger
  <2> QED  BY <2>4, <2>5
<1>14. PokeOK'
  BY <1>11 DEF PokeOK
<1>15. notifying' \in BOOLEAN /\ announced' \in [Paths -> 0..clock]
  BY <1>3, <1>4, <1>6 DEF TypeOK
<1> QED  BY <1>3, <1>6, <1>8, <1>9, <1>12, <1>13, <1>14, <1>15, PassReplies DEF NotifierOK

\* A pass that ends lets every held open go, and unless we are stopping there
\* is none.
LEMMA StandDownInv ==
    ASSUME Inv, StandDown
    PROVE  Inv'
<1>1. /\ pass.pc = "top" /\ (stopping \/ ~Queued) /\ ReplyHeld(HeldOpens)
      /\ notifying' = FALSE /\ pass' = NoPass
      /\ UNCHANGED <<owed, nodes, ids, nextInode, known, loop, io, pending, dirty, stopping,
                     announced, announcedEverything, down>>
  BY DEF StandDown
<1>2. PassOK /\ DOMAIN pass.batch = {} /\ pass.every = None
  BY <1>1 DEF Inv, NotifierOK, PassOK
<1>3. ~stopping => HeldOpens = {}
  <2>1. ASSUME ~stopping, NEW o \in HeldOpens PROVE FALSE
    <3>1. o \in Takers /\ op[o].pc = "held"
      BY DEF HeldOpens
    <3>2. WillAnnounce(op[o].path, taking[o].snap.generation)
      BY <2>1, <3>1, HeldComes
    <3> QED  BY <1>1, <1>2, <2>1, <3>2 DEF WillAnnounce, Queued
  <2> QED  BY <2>1
<1>4. /\ UNCHANGED <<clock, everything, generations>>
      /\ \A o \in Takers \ HeldOpens : op'[o] = op[o] /\ taking'[o] = taking[o]
      /\ \A o \in HeldOpens : op'[o].pc \in {"closed", "open"}
  BY <1>1, ReplyHeldKeeps
<1>5. /\ NoPass.pc = "off" /\ NoPass.every = None /\ NoPass.ino = 0
      /\ DOMAIN NoPass.batch = {} /\ DOMAIN NoPass.gens = {}
      /\ NoPass = [pc |-> NoPass.pc, batch |-> NoPass.batch, gens |-> NoPass.gens,
                   every |-> NoPass.every, path |-> NoPass.path, ino |-> NoPass.ino]
  BY DEF NoPass
<1>6. PassOK'
  <2>1. stopping' \/ ~Queued'
    BY <1>1 DEF Queued
  <2> QED  BY <1>1, <1>5, <2>1 DEF PassOK, Announcing
<1>7. ASSUME NEW q \in Paths PROVE AheadOK(q)' /\ ComingOK(q)'
  <2>1. AheadOK(q)'
    BY <1>1, <1>2, <1>4, <1>5 DEF Inv, NotifierOK, AheadOK, AnnouncedUpTo, generation
  <2>2. ComingOK(q)'
    BY <1>1, <1>2, <1>4, <1>5 DEF Inv, NotifierOK, ComingOK, AnnouncedUpTo, generation, WillAnnounce
  <2> QED  BY <2>1, <2>2
<1>8. PokeOK'
  BY <1>1, <1>5 DEF PokeOK
<1>9. RepliesOK'
  <2>1. \A o \in Takers : op'[o].pc # "held"
    BY <1>4 DEF HeldOpens
  <2>2. ASSUME ~stopping, NEW o \in Takers, op'[o].pc = "open"
        PROVE  taking'[o].snap.generation <= AnnouncedUpTo(op[o].path)'
    <3>1. op'[o] = op[o] /\ taking'[o] = taking[o] /\ UNCHANGED <<announced, announcedEverything>>
      BY <1>1, <1>3, <1>4, <2>2
    <3>2. taking[o].snap.generation <= AnnouncedUpTo(op[o].path)
      BY <2>2, <3>1 DEF Inv, RepliesOK
    <3> QED  BY <3>1, <3>2 DEF AnnouncedUpTo
  <2> QED  BY <1>1, <2>1, <2>2 DEF RepliesOK
<1>10. /\ announced' \in [Paths -> 0..clock] /\ announcedEverything' \in 0..clock
       /\ notifying' \in BOOLEAN
  BY <1>1 DEF Inv, TypeOK
<1> QED  BY <1>1, <1>6, <1>7, <1>8, <1>9, <1>10, PassReplies DEF NotifierOK

-----------------------------------------------------------------------------
(* The destructor.                                                         *)

LEMMA StopInv ==
    ASSUME Inv, Stop
    PROVE  Inv'
<1>1. /\ down' = "stopping" /\ stopping' = TRUE
      /\ UNCHANGED <<snapshotVars, serveVars, pending, dirty, notifying, announced,
                     announcedEverything, pass>>
  BY DEF Stop
<1>2. /\ SnapshotsTypeOK /\ SnapshotsTypeOK' /\ SnapshotsOK'
      /\ UNCHANGED <<clock, everything, generations, taking>>
  BY <1>1, SnapshotsUnchanged DEF Inv, TypeOK, SnapInv, snapshotVars
<1>3. TypeOK'
  BY <1>1, <1>2 DEF Inv, TypeOK, serveVars
<1>4. RequestsOK'
  BY <1>1, <1>2, RequestsUnchanged, GenerationUnchanged DEF Inv, serveVars
<1>5. NotifierOK'
  <2>1. PassOK'
    BY <1>1, <1>2 DEF Inv, NotifierOK, PassOK
  <2>2. \A q \in Paths : AheadOK(q)'
    BY <1>1, <1>2 DEF Inv, NotifierOK, AheadOK, AnnouncedUpTo, generation
  <2>3. \A q \in Paths : ComingOK(q)'
    BY <1>1 DEF ComingOK
  <2> QED  BY <2>1, <2>2, <2>3 DEF NotifierOK
<1>6. RepliesOK'
  BY <1>1, <1>2, RepliesUnchanged DEF Inv, serveVars
<1> QED  BY <1>2, <1>3, <1>4, <1>5, <1>6 DEF Inv

\* Once the pass has ended nothing is held, and cancelling moves no open on.
LEMMA JoinNotificationsInv ==
    ASSUME Inv, JoinNotifications
    PROVE  Inv'
<1>1. /\ pass.pc = "off" /\ down' = "cancelled"
      /\ op' = [o \in Takers |->
                  CASE op[o].pc = "held" -> [op[o] EXCEPT !.pc = "open", !.answers = @ + 1]
                    [] op[o].pc \in {"opening", "taking"} -> [op[o] EXCEPT !.stop = TRUE]
                    [] OTHER -> op[o]]
      /\ UNCHANGED <<snapshotVars, owed, nodes, ids, nextInode, known, loop, io, notifyVars>>
  BY DEF JoinNotifications
<1>2. /\ SnapshotsTypeOK /\ SnapshotsTypeOK' /\ SnapshotsOK'
      /\ UNCHANGED <<clock, everything, generations, taking, pass>>
  BY <1>1, SnapshotsUnchanged DEF Inv, TypeOK, SnapInv, snapshotVars, notifyVars
<1>3. op \in [Takers -> OpType]
  BY OpIs DEF Inv
<1>4. ASSUME NEW o \in Takers
      PROVE  /\ op'[o] \in OpType
             /\ op'[o].pc = op[o].pc /\ op'[o].path = op[o].path /\ op'[o].ino = op[o].ino
  <2>1. op[o].pc # "held"
    BY <1>1 DEF Inv, RepliesOK, NotifierOK, PassOK
  <2>2. op'[o] = op[o] \/ op'[o] = [op[o] EXCEPT !.stop = TRUE]
    BY <1>1, <2>1
  <2>3. op[o] \in OpType
    BY <1>3
  <2> QED  BY <2>2, <2>3 DEF OpType
<1>5. op' \in [Takers -> OpType]
  <2>1. op' = [o \in Takers |-> op'[o]]
    BY <1>1
  <2> QED  BY <1>4, <2>1
<1>6. TypeOK'
  BY <1>1, <1>2, <1>5 DEF Inv, TypeOK, OpType, notifyVars
<1>7. RequestsOK'
  <2>1. NodesOK' /\ NamesOK'
    BY <1>1, <1>2, NodesUnchanged, GenerationUnchanged DEF Inv
  <2>2. LoopOK' /\ PokeOK'
    BY <1>1, <1>2, <1>4 DEF Inv, RequestsOK, LoopOK, PokeOK, InodeOf
  <2>3. ASSUME NEW o \in Takers PROVE OpenOK(o)'
    <3>1. OpenOK(o) /\ nodes' = nodes /\ taking' = taking
      BY <1>1, <1>2 DEF Inv, RequestsOK
    <3> QED  BY <1>4, <3>1 DEF OpenOK, HasInode, HasHandle, InodeOf, Active
  <2> QED  BY <2>1, <2>2, <2>3 DEF RequestsOK
<1>8. NotifierOK'
  BY <1>1, <1>2, NotifierUnchanged DEF Inv
<1>9. RepliesOK'
  BY <1>1, <1>2, <1>4, RepliesUnchanged DEF Inv, notifyVars
<1> QED  BY <1>2, <1>6, <1>7, <1>8, <1>9 DEF Inv

LEMMA DownInv ==
    ASSUME Inv, UNCHANGED <<snapshotVars, serveVars, notifyVars>>,
           down' \in {"served", "unmounted", down}
    PROVE  Inv'
<1>1. /\ SnapshotsTypeOK /\ SnapshotsTypeOK' /\ SnapshotsOK'
      /\ UNCHANGED <<clock, everything, generations, taking, pass>>
  BY SnapshotsUnchanged DEF Inv, TypeOK, SnapInv, snapshotVars, notifyVars
<1>2. TypeOK'
  BY <1>1 DEF Inv, TypeOK, serveVars, notifyVars
<1>3. RequestsOK'
  BY <1>1, RequestsUnchanged, GenerationUnchanged DEF Inv, serveVars
<1>4. NotifierOK'
  BY <1>1, NotifierUnchanged DEF Inv
<1>5. RepliesOK'
  BY <1>1, RepliesUnchanged DEF Inv, notifyVars, serveVars
<1> QED  BY <1>1, <1>2, <1>3, <1>4, <1>5 DEF Inv

-----------------------------------------------------------------------------
LEMMA InitInv == Init => Inv
<1> SUFFICES ASSUME Init PROVE Inv
  OBVIOUS
<1>1. 0 \in Versions /\ Versions \subseteq Nat
  BY VersionsAssumption, VersionsAreNat DEF Versions, VersionsAssumption
<1>2. /\ clock = 0 /\ everything = 0 /\ generations = [p \in Paths |-> 0]
      /\ current = [p \in Paths |-> None] /\ taking = [t \in Takers |-> NotTaking]
      /\ reported = [p \in Paths |-> 0]
      /\ \A p \in Paths : file[p].version = 0
      /\ file \in [Paths -> [version : Versions, exists : BOOLEAN]]
  BY <1>1 DEF Init, SnapshotsInit
<1>3. /\ op = [o \in Takers |-> NewOpen] /\ nodes = << >> /\ ids = [p \in Paths |-> 0]
      /\ loop = NotLooking /\ pending = << >> /\ dirty = FALSE /\ stopping = FALSE
      /\ notifying = FALSE /\ announced = [p \in Paths |-> 0] /\ announcedEverything = 0
      /\ pass = NoPass
      /\ nextInode = 1 /\ known = {} /\ owed = {} /\ io = None /\ down = "up"
  BY DEF Init
<1>4. /\ NotTaking \in [step : Steps, path : Paths \cup {None}, before : 0..0, seen : Versions,
                        floor : Versions, snap : Snapshots \cup {None}]
      /\ NotTaking.step = "none"
  BY <1>1 DEF NotTaking, Steps
<1>5. SnapshotsTypeOK
  BY <1>1, <1>2, <1>4 DEF SnapshotsTypeOK
<1>6. \A t \in Takers : ~Active(t) /\ ~Took(t) /\ taking[t].step = "none"
  BY <1>2, <1>4 DEF Active, Took
<1>7. SnapshotsOK
  BY <1>2, <1>6 DEF SnapshotsOK, TakeOK, SameFloor, CurrentOK, TakenIsCurrent
<1>8. NewOpen \in OpType /\ NewOpen.pc = "idle"
  BY DEF NewOpen, OpType
<1>9. DOMAIN nodes = {} /\ DOMAIN pending = {}
  BY <1>3
<1>10. /\ NoPass.pc = "off" /\ NoPass.every = None /\ NoPass.ino = 0
       /\ DOMAIN NoPass.batch = {} /\ DOMAIN NoPass.gens = {}
       /\ NoPass = [pc |-> NoPass.pc, batch |-> NoPass.batch, gens |-> NoPass.gens,
                    every |-> NoPass.every, path |-> NoPass.path, ino |-> NoPass.ino]
  BY DEF NoPass
<1>11. TypeOK
  <2>1. op \in [Takers -> OpType]
    BY <1>3, <1>8
  <2>2. loop \in [who : Takers \cup {Notifier, None}, path : Paths \cup {None},
                  seen : Versions \cup {None}]
    BY <1>3 DEF NotLooking
  <2>3. announced \in [Paths -> 0..clock] /\ announcedEverything \in 0..clock
    BY <1>2, <1>3
  <2>4. {dirty, stopping, notifying} \subseteq BOOLEAN
    BY <1>3
  <2>5. ids \in [Paths -> Nat] /\ nextInode \in Nat
    BY <1>3
  <2> QED  BY <1>3, <1>5, <1>9, <2>1, <2>2, <2>3, <2>4, <2>5 DEF TypeOK, OpType
<1>12. RequestsOK
  <2>1. nodes = [i \in DOMAIN nodes |-> nodes[i]]
    BY <1>3
  <2>2. NodesOK /\ NamesOK
    BY <1>3, <1>9, <2>1 DEF NodesOK, NamesOK
  <2>3. LoopOK
    BY <1>3, NoTakerIsSpecial DEF LoopOK, NotLooking
  <2>4. PokeOK
    BY <1>3, <1>10 DEF PokeOK
  <2>5. \A o \in Takers : OpenOK(o)
    BY <1>3, <1>6, <1>8 DEF OpenOK, HasInode, HasHandle
  <2> QED  BY <2>2, <2>3, <2>4, <2>5 DEF RequestsOK
<1>13. NotifierOK
  <2>1. PassOK
    BY <1>3, <1>9, <1>10 DEF PassOK, Queued, Announcing
  <2>2. ASSUME NEW p \in Paths PROVE AheadOK(p) /\ ComingOK(p)
    BY <1>2, <1>3, <1>9, <1>10 DEF AheadOK, ComingOK, generation, AnnouncedUpTo, Larger
  <2> QED  BY <2>1, <2>2 DEF NotifierOK
<1>14. RepliesOK
  BY <1>3, <1>8 DEF RepliesOK
<1> QED  BY <1>7, <1>11, <1>12, <1>13, <1>14 DEF Inv

LEMMA NextInv == Inv /\ [Next]_vars => Inv'
<1> SUFFICES ASSUME Inv, [Next]_vars PROVE Inv'
  OBVIOUS
<1>1. CASE Tree
  BY <1>1, ChangeInv, OnTreeChangedInv, OnEverythingDirtyInv DEF Tree
<1>2. CASE Programs
  BY <1>2, LookupInv, ReopenInv, OpenInv, InterruptInv, ReleaseInv DEF Programs
<1>3. CASE LoopStep
  BY <1>3, EntryReplyInv, EntryReplyLostInv DEF LoopStep
<1>4. CASE Forgets
  BY <1>4, OpForgetInv DEF Forgets
<1>5. CASE NotifierStep
  BY <1>5, TakeBatchInv, AnnounceInv, NotifierLookupInv, NotifierFindsNothingInv, PokeInv,
     AnnounceCreationInv, AnnounceRemovalInv, MarkPathInv, MarkEverythingInv, BatchDoneInv,
     StandDownInv DEF NotifierStep
<1>6. CASE \E o \in Takers : OpenStep(o)
  BY <1>6, TreeOpenedInv, TreeOpenFailsInv, OpenTakesInv, OpenStoppedInv, ServeInv,
     VersionGoneInv DEF OpenStep
<1>7. CASE Stop
  BY <1>7, StopInv
<1>8. CASE DestructorStep
  BY <1>8, JoinNotificationsInv, DownInv DEF DestructorStep, JoinRequests, Unmount
<1>9. CASE UNCHANGED vars
  BY <1>9, DownInv DEF vars
<1> QED  BY <1>1, <1>2, <1>3, <1>4, <1>5, <1>6, <1>7, <1>8, <1>9 DEF Next

-----------------------------------------------------------------------------
\* The four groups hold together whatever the tree, the programs, the loop,
\* the notifier and the destructor do.
THEOREM Invariance == Spec => []Inv
BY InitInv, NextInv, PTL DEF Spec

\* Every variable of the provider and of the snapshots has its type.
THEOREM TypeCorrect == Spec => []TypeOK
<1>1. Inv => TypeOK
  BY DEF Inv
<1> QED  BY <1>1, Invariance, PTL

\* An inode is one version of its file (Node, version_for()): a handle has the
\* very snapshot its inode is, so two handles of an inode read the same bytes.
THEOREM InodesAreOneVersion == Spec => []OneVersion
<1>1. Inv => OneVersion
  BY DEF Inv, RequestsOK, OpenOK, OneVersion
<1> QED  BY <1>1, Invariance, PTL

\* take() returns nothing older than what the tree had reported when it began,
\* nor than what the tree said of the file as far as its size and time tell.
THEOREM TakesAreCurrent == Spec => []TakenIsCurrent
<1>1. Inv => TakenIsCurrent
  BY DEF Inv, SnapshotsOK
<1> QED  BY <1>1, Invariance, PTL

\* reply_when_announced() holds an open only while a pass is under way which,
\* unless we are stopping, has that version or a newer one to announce.
THEOREM HeldOpensAreComing == Spec => []HeldIsComing
<1>1. Inv => HeldIsComing
  BY HeldComes DEF Inv, RepliesOK, HeldIsComing
<1> QED  BY <1>1, Invariance, PTL

\* "A program started from this open must not overlap that write": whoever has
\* open the inode that poke() writes to has had it since before the change.
THEOREM WritesMissOpens == Spec => []NotWrittenWhileOpen
<1>1. ASSUME Inv PROVE NotWrittenWhileOpen
  <2>1. ASSUME NEW o \in Takers, op[o].pc = "open", pass.pc = "writing",
               pass.ino = op[o].ino, ~stopping
        PROVE  taking[o].snap.generation < pass.gens[pass.path]
    <3>1. HasHandle(o) /\ TypeOK /\ PassOK /\ PokeOK /\ NodesOK
      BY <1>1, <2>1 DEF HasHandle, Inv, NotifierOK, RequestsOK
    <3>2. PICK p \in Paths : p = op[o].path
      BY <1>1, <3>1, HandleIs
    <3>3. pass.ino \in DOMAIN nodes /\ nodes[pass.ino].path = p
      BY <1>1, <2>1, <3>1, <3>2, HandleIs
    <3>4. pass.path = p
      BY <3>1, <3>3 DEF PokeOK, NodesOK, InodeOf
    <3>5. p \in DOMAIN pass.batch /\ pass.gens[p] \in 0..clock
      BY <2>1, <3>1, <3>4 DEF PassOK, Announcing
    <3>6. taking[o].snap.generation <= AnnouncedUpTo(p)
      BY <1>1, <2>1, <3>2 DEF Inv, RepliesOK
    <3>7. AnnouncedUpTo(p) < pass.gens[p]
      BY <1>1, <3>5 DEF Inv, NotifierOK, AheadOK
    <3>8. AnnouncedUpTo(p) \in Nat /\ pass.gens[p] \in Nat /\ taking[o].snap.generation \in Nat
      BY <1>1, <3>1, <3>5, HandleIs, AnnouncedIs DEF TypeOK, SnapshotsTypeOK
    <3> QED  BY <3>4, <3>6, <3>7, <3>8
  <2> QED  BY <2>1 DEF NotWrittenWhileOpen
<1> QED  BY <1>1, Invariance, PTL

=============================================================================
