------------------------- MODULE VirtualFileSystem -------------------------
(***************************************************************************)
(* VirtualFileSystem on Linux (src/src/virtualfilesystem-linux.cpp): the   *)
(* libfuse provider that serves a DirectoryTree, with the FileSnapshots it *)
(* reads from.  Five parties run at once:                                  *)
(*   - the FUSE loop, one thread, which answers lookups and hands opens on *)
(*     to coroutines;                                                      *)
(*   - the coroutines of the opens, on the one thread of m_file_io, which  *)
(*     another may have between two of their awaits;                       *)
(*   - the tree's thread, which reports changes (on_tree_changed);         *)
(*   - the notifier, a pass at a time on the worker pool, which makes the  *)
(*     kernel raise inotify events by writing through the mount itself, so *)
(*     that its requests come back through the loop;                       *)
(*   - the destructor.                                                     *)
(* The kernel and the programs that read are external: a program looks a   *)
(* name up, opens the inode it is given, and closes it; the kernel forgets *)
(* inodes nothing uses.  Only files in the root are modelled.              *)
(***************************************************************************)
EXTENDS FileSnapshots

CONSTANTS
    MaxReports,  \* bound: how many changes the tree reports
    Interruptible \* the opens whose programs may be interrupted

VARIABLES
    owed,       \* the tree: changes it has made and is yet to report
    op,         \* the opens: the program's side, the Request and its coroutine
    nodes,      \* m_paths: the inodes the kernel knows, and the version each is
    ids,        \* m_ids: the inode each name has now
    nextInode,  \* m_next_inode
    known,      \* m_known: the names the kernel has seen
    loop,       \* the lookup the FUSE loop is answering
    io,         \* the open whose coroutine the I/O thread is running
    pending,    \* m_pending: the kind of each change queued for the notifier
    dirty,      \* m_everything_dirty
    stopping,   \* m_stopping
    notifying,  \* m_notifying
    announced,  \* m_announced
    announcedEverything, \* m_announced_everything
    pass,       \* the notifier's pass under way
    down        \* how far the destructor is

serveVars == <<owed, op, nodes, ids, nextInode, known, loop, io>>
notifyVars == <<pending, dirty, stopping, notifying, announced, announcedEverything,
                pass>>
vars == <<snapshotVars, serveVars, notifyVars, down>>

ServingAssumption ==
    /\ MaxReports \in Nat
    /\ Takers \subseteq Nat \ {0}
    /\ Interruptible \subseteq Takers

ASSUME ServingAssumption

\* Whose request a lookup is, when it is not an open's.
Notifier == 0

NewOpen ==
    [pc |-> "idle", path |-> None, ino |-> 0, looked |-> None, stop |-> FALSE, answers |-> 0]

NoPass ==
    [pc |-> "off", batch |-> << >>, gens |-> << >>, every |-> None, path |-> None, ino |-> 0]

NotLooking == [who |-> None, path |-> None, seen |-> None]

Init ==
    /\ SnapshotsInit
    /\ owed = {}
    /\ op = [o \in Takers |-> NewOpen]
    /\ nodes = << >>
    /\ ids = [p \in Paths |-> 0]
    /\ nextInode = 1
    /\ known = {}
    /\ loop = NotLooking
    /\ io = None
    /\ pending = << >>
    /\ dirty = FALSE
    /\ stopping = FALSE
    /\ notifying = FALSE
    /\ announced = [p \in Paths |-> 0]
    /\ announcedEverything = 0
    /\ pass = NoPass
    /\ down = "up"

-----------------------------------------------------------------------------
(* The tree, and the changes it reports.                                   *)

\* The tree changes a file, and owes its subscribers a report of it: of an
\* entry added or removed if its directory's listing changed with it.
Change(p) ==
    \E exists \in BOOLEAN :
        /\ TreeChanges(p, exists)
        /\ owed' = owed \cup {[path |-> p,
                               kind |-> IF exists = file[p].exists THEN "modified" ELSE "added"]}
        /\ UNCHANGED <<clock, everything, generations, current, taking, reported,
                       op, nodes, ids, nextInode, known, loop, io, notifyVars, down>>

\* A pass is started, unless one is under way or we are stopping.
start_notifying ==
    IF notifying \/ stopping
    THEN UNCHANGED <<notifying, pass>>
    ELSE notifying' = TRUE /\ pass' = [NoPass EXCEPT !.pc = "top"]

\* Folds a change in, an addition dominating.
merge_changes(p, kind) ==
    [q \in DOMAIN pending \cup {p} |->
        IF q # p THEN pending[q]
        ELSE IF q \in DOMAIN pending /\ kind # "added" THEN pending[q] ELSE kind]

\* The subscription, of a diff that names one file.
on_tree_changed(c) ==
    /\ down = "up"
    /\ c \in owed
    /\ clock < MaxReports
    /\ owed' = owed \ {c}
    /\ changed(c.path)
    /\ IF stopping
       THEN UNCHANGED <<pending, notifying, pass>>
       ELSE pending' = merge_changes(c.path, c.kind) /\ start_notifying
    /\ UNCHANGED <<file, taking, op, nodes, ids, nextInode, known, loop, io,
                   dirty, stopping, announced, announcedEverything, down>>

\* The subscription, when the tree has lost track of what changed.
on_everything_dirty ==
    /\ down = "up"
    /\ clock < MaxReports
    /\ owed' = {}
    /\ changed_everything
    /\ IF stopping
       THEN UNCHANGED <<dirty, notifying, pass>>
       ELSE dirty' = TRUE /\ start_notifying
    /\ UNCHANGED <<file, taking, op, nodes, ids, nextInode, known, loop, io,
                   pending, stopping, announced, announcedEverything, down>>

-----------------------------------------------------------------------------
(* The FUSE loop: lookups, of programs and of the notifier.                *)

\* Mutant: the loop ends before the passes that go through it are joined.
MountedWhileUp == down = "up"

Mounted == down # "unmounted"

\* What the notifier pretends of the path it is announcing, to itself alone:
\* that it is not there while it creates it, and that it is while it removes it.
pretence_for(who, p) ==
    CASE who = Notifier /\ pass.path = p /\ pass.pc = "creation" -> "absent"
      [] who = Notifier /\ pass.path = p /\ pass.pc = "removal" -> "present"
      [] OTHER -> "none"

Found(who, p) ==
    /\ pretence_for(who, p) # "absent"
    /\ file[p].exists \/ pretence_for(who, p) = "present"

entry(who, p) ==
    /\ Mounted
    /\ loop = NotLooking
    /\ Found(who, p)
    /\ known' = IF file[p].exists THEN known \cup {p} ELSE known
    /\ loop' = [who |-> who, path |-> p,
                seen |-> IF file[p].exists THEN file[p].version ELSE None]

\* A name keeps its inode, unless an open has fixed that to a version of the
\* file it has since moved on from.
KeepsInode ==
    LET i == ids[loop.path]
    IN  /\ i # 0
        /\ \/ nodes[i].opened = None
           \/ /\ loop.seen # None
              /\ nodes[i].generation = generation(loop.path)
              /\ SameInfo(nodes[i].opened, loop.seen)

inode ==
    IF KeepsInode
    THEN UNCHANGED <<nodes, ids, nextInode>>
    ELSE /\ nextInode' = nextInode + 1
         /\ ids' = [ids EXCEPT ![loop.path] = nextInode + 1]
         /\ nodes' = [i \in DOMAIN nodes \cup {nextInode + 1} |->
                        IF i \in DOMAIN nodes THEN nodes[i]
                        ELSE [path |-> loop.path, opened |-> None,
                              generation |-> 0, snapshot |-> None]]

\* Opens are numbered in the order in which programs begin them.
Begins(o) == op[o].pc = "idle" /\ \A t \in Takers : t < o => op[t].pc # "idle"

\* A program looks the name up.
Lookup(o, p) ==
    /\ Begins(o)
    /\ entry(o, p)
    /\ op' = [op EXCEPT ![o].pc = "looking", ![o].path = p, ![o].looked = reported[p]]
    /\ UNCHANGED <<snapshotVars, owed, nodes, ids, nextInode, io, notifyVars, down>>

\* The inode is found or made.  The notifier's calls go on from there: to
\* opening the file, or to removing or having made it, which ends the pretence.
EntryReply ==
    /\ loop # NotLooking
    /\ inode
    /\ loop' = NotLooking
    /\ IF loop.who = Notifier
       THEN /\ pass' = IF pass.pc = "poke"
                       THEN [pass EXCEPT !.pc = "open", !.ino = ids'[loop.path]]
                       ELSE [pass EXCEPT !.pc = "announced"]
            /\ UNCHANGED op
       ELSE /\ op' = [op EXCEPT ![loop.who].pc = "found", ![loop.who].ino = ids'[loop.path]]
            /\ UNCHANGED pass
    /\ UNCHANGED <<snapshotVars, owed, known, io, pending, dirty, stopping, notifying,
                   announced, announcedEverything, down>>

\* The program has gone, so its lookup's reply fails and the lookup is taken
\* back: an inode made for it is forgotten at once, and its name with it.
EntryReplyLost ==
    /\ loop.who \in Interruptible
    /\ IF KeepsInode
       THEN UNCHANGED <<ids, nextInode>>
       ELSE /\ nextInode' = nextInode + 1
            /\ ids' = [ids EXCEPT ![loop.path] = 0]
    /\ loop' = NotLooking
    /\ op' = [op EXCEPT ![loop.who] = [NewOpen EXCEPT !.pc = "closed"]]
    /\ UNCHANGED <<snapshotVars, owed, nodes, known, io, notifyVars, down>>

Using(i) ==
    \/ \E o \in Takers : op[o].ino = i /\ op[o].pc \notin {"idle", "closed"}
    \/ pass.ino = i

\* The kernel forgets an inode nothing uses, with all the lookups it has
\* counted; the name may have a newer inode, which stays.
op_forget(i) ==
    /\ Mounted
    /\ loop = NotLooking
    /\ ~Using(i)
    /\ nodes' = [j \in DOMAIN nodes \ {i} |-> nodes[j]]
    /\ ids' = [p \in Paths |-> IF ids[p] = i THEN 0 ELSE ids[p]]
    /\ UNCHANGED <<snapshotVars, owed, op, nextInode, known, loop, io, notifyVars, down>>

-----------------------------------------------------------------------------
(* The opens: their requests, and the coroutines that answer them.         *)

\* The handle of an open is gone, or it never had one.
Closed(o) == [NewOpen EXCEPT !.pc = "closed", !.answers = op[o].answers]

\* The open is answered with an error: which one is not modelled.
Fail(o) == op' = [op EXCEPT ![o] = [Closed(o) EXCEPT !.answers = @ + 1]]

\* open(): the Request is made and its coroutine spawned, stopped from the
\* outset if the destructor is cancelling.  Once the destructor has closed the
\* scope nothing is spawned, and letting the Request go answers it.
open(o) ==
    /\ op[o].pc = "found"
    /\ Mounted
    /\ loop = NotLooking
    /\ IF down = "served"
       THEN Fail(o)
       ELSE op' = [op EXCEPT ![o].pc = "opening", ![o].stop = (down = "cancelled")]
    /\ UNCHANGED <<snapshotVars, owed, nodes, ids, nextInode, known, loop, io, notifyVars, down>>

\* A program opens an inode it has open already, not by name: the kernel
\* asks for no lookup.
Reopen(o, other) ==
    /\ Begins(o)
    /\ op[other].pc = "open"
    /\ op' = [op EXCEPT ![o].pc = "found", ![o].path = op[other].path,
                        ![o].ino = op[other].ino]
    /\ UNCHANGED <<snapshotVars, owed, nodes, ids, nextInode, known, loop, io, notifyVars, down>>

Outstanding(o) == op[o].pc \in {"opening", "taking", "held"}

\* The kernel interrupts an open.
Interrupt(o) ==
    /\ o \in Interruptible
    /\ Outstanding(o)
    /\ ~op[o].stop
    /\ op' = [op EXCEPT ![o].stop = TRUE]
    /\ UNCHANGED <<snapshotVars, owed, nodes, ids, nextInode, known, loop, io, notifyVars, down>>

\* open_file(): the tree has settled the file, and take() begins.
TreeOpened(o) ==
    /\ op[o].pc = "opening"
    /\ io = None
    /\ TakeGeneration(o, op[o].path)
    /\ op' = [op EXCEPT ![o].pc = "taking"]
    /\ io' = o
    /\ UNCHANGED <<owed, nodes, ids, nextInode, known, loop, notifyVars, down>>

\* The tree cannot settle the file, or the open was stopped, in which case
\* its Request answers as it goes.
TreeOpenFails(o) ==
    /\ op[o].pc = "opening"
    /\ Fail(o)
    /\ UNCHANGED <<snapshotVars, owed, nodes, ids, nextInode, known, loop, io, notifyVars, down>>

\* The rest of take(), which leaves the I/O thread to others while it reads.
OpenTakes(o) ==
    /\ op[o].pc = "taking"
    /\ \/ TakeHeld(o) /\ io' = IF taking'[o].step = "taken" THEN o ELSE None
       \/ TakeRead(o) /\ UNCHANGED io
    /\ IF taking'[o].step = "failed" THEN Fail(o) ELSE UNCHANGED op
    /\ UNCHANGED <<owed, nodes, ids, nextInode, known, loop, notifyVars, down>>

\* Mutant: letting a Request go does not answer it.
OpenStoppedUnanswered(o) ==
    /\ op[o].pc = "taking"
    /\ taking[o].step = "reading"
    /\ op[o].stop
    /\ Release({o})
    /\ op' = [op EXCEPT ![o] = Closed(o)]
    /\ UNCHANGED <<owed, nodes, ids, nextInode, known, loop, io, notifyVars, down>>

\* The read is stopped instead: the Request answers as it is let go.
OpenStopped(o) ==
    /\ op[o].pc = "taking"
    /\ taking[o].step = "reading"
    /\ op[o].stop
    /\ Release({o})
    /\ Fail(o)
    /\ UNCHANGED <<owed, nodes, ids, nextInode, known, loop, io, notifyVars, down>>

\* version_for(): the first open of an inode fixes its version; later ones
\* get that one while anyone holds it, or if the file is still the same.  The
\* kernel keeps an inode it is opening, so the inode is always there.
First(o) == nodes[op[o].ino].opened = None

VersionHeld(o) == nodes[op[o].ino].snapshot \in HeldSnapshots

SameVersion(o) ==
    LET node == nodes[op[o].ino]
    IN  /\ node.generation = taking[o].snap.generation
        /\ SameInfo(node.opened, taking[o].snap.version)

\* Mutant: an open gets the file as it found it, whatever its inode is.
version_unfixed(o) == taking[o].snap

version_for(o) ==
    IF First(o) THEN taking[o].snap
    ELSE IF VersionHeld(o) THEN nodes[op[o].ino].snapshot
    ELSE IF SameVersion(o) THEN taking[o].snap
    ELSE None

Fixed(node, s) ==
    IF node.opened = None
    THEN [node EXCEPT !.opened = s.version, !.generation = s.generation, !.snapshot = s]
    ELSE [node EXCEPT !.snapshot = s]

AnnouncedUpTo(p) == Larger(announcedEverything, announced[p])

\* Mutant: no open is held.
RepliesAtOnce(o, s) == TRUE

\* reply_when_announced(): now, or once the notifier has announced it.
RepliesNow(o, s) == stopping \/ s.generation <= AnnouncedUpTo(op[o].path)

\* take() is over: the open gets the version its inode is, and is replied to
\* or held.  That it has put a snapshot in place, has fixed the inode and has
\* looked at what is announced are one step: no other thread's step between
\* them bears on what they do.
Serve(o) ==
    LET s == version_for(o)
    IN  /\ op[o].pc = "taking"
        /\ io \in {None, o}
        /\ Took(o)
        /\ s # None
        /\ TakeEnds(o, s)
        /\ nodes' = [nodes EXCEPT ![op[o].ino] = Fixed(@, s)]
        /\ io' = None
        /\ IF RepliesNow(o, s)
           THEN /\ op' = [op EXCEPT ![o].pc = "open", ![o].answers = @ + 1]
                /\ UNCHANGED <<notifying, pass>>
           ELSE /\ op' = [op EXCEPT ![o].pc = "held"]
                /\ start_notifying
        /\ UNCHANGED <<owed, ids, nextInode, known, loop, pending, dirty, stopping,
                       announced, announcedEverything, down>>

\* The inode's version is gone: the kernel is to look the name up again.
VersionGone(o) ==
    /\ op[o].pc = "taking"
    /\ io \in {None, o}
    /\ Took(o)
    /\ version_for(o) = None
    /\ TakeEnds(o, None)
    /\ Fail(o)
    /\ io' = None
    /\ UNCHANGED <<owed, nodes, ids, nextInode, known, loop, notifyVars, down>>

\* The held opens `ready' are replied to.  The reply to a program that is no
\* longer there fails, and its handle is dropped.
ReplyHeld(ready) ==
    \E lost \in SUBSET (ready \cap Interruptible) :
        /\ \A o \in lost : op[o].stop
        /\ op' = [o \in Takers |->
                    IF o \notin ready THEN op[o]
                    ELSE [IF o \in lost THEN Closed(o) ELSE [op[o] EXCEPT !.pc = "open"]
                            EXCEPT !.answers = @ + 1]]
        /\ IF lost = {} THEN UNCHANGED snapshotVars ELSE Release(lost)

release(o) ==
    /\ op[o].pc = "open"
    /\ Mounted
    /\ loop = NotLooking
    /\ Release({o})
    /\ op' = [op EXCEPT ![o] = Closed(o)]
    /\ UNCHANGED <<owed, nodes, ids, nextInode, known, loop, io, notifyVars, down>>

-----------------------------------------------------------------------------
(* The notifier: notify_pending(), one pass at a time.                     *)

HeldOpens == {o \in Takers : op[o].pc = "held"}

Queued == dirty \/ DOMAIN pending # {}

\* What is to be announced, and the generation each announcement covers.
Batch == IF dirty THEN [p \in known |-> "modified"] ELSE pending

\* Mutant: a pass over everything vouches only for the files it knows.
CoversNothing == None

\* What a pass over everything covers, known to the kernel or not.
Covers == IF dirty THEN latest ELSE None

TakeBatch ==
    /\ pass.pc = "top"
    /\ ~stopping
    /\ Queued
    /\ pass' = [pass EXCEPT !.pc = "batch", !.batch = Batch,
                            !.gens = [p \in DOMAIN Batch |-> generation(p)],
                            !.every = Covers]
    /\ dirty' = FALSE
    /\ pending' = << >>
    /\ UNCHANGED <<snapshotVars, serveVars, stopping, notifying, announced,
                   announcedEverything, down>>

\* announce(): by what the tree has now.
announce(p) ==
    /\ pass.pc = "batch"
    /\ p \in DOMAIN pass.batch
    /\ pass' = [pass EXCEPT !.path = p,
                  !.pc = IF ~file[p].exists THEN "gone"
                         ELSE IF pass.batch[p] = "added" THEN "creation" ELSE "poke"]
    /\ UNCHANGED <<snapshotVars, serveVars, pending, dirty, stopping, notifying,
                   announced, announcedEverything, down>>

\* The notifier's calls come back to us as lookups of the name: by poke(),
\* by the mknod() of announce_creation(), and by announce_removal().
NotifierLookup ==
    /\ pass.pc \in {"poke", "mknod", "removal"}
    /\ entry(Notifier, pass.path)
    /\ UNCHANGED <<snapshotVars, owed, op, nodes, ids, nextInode, io, notifyVars, down>>

\* The file has gone again, and the call fails.
NotifierFindsNothing ==
    /\ pass.pc \in {"poke", "mknod"}
    /\ loop = NotLooking
    /\ ~Found(Notifier, pass.path)
    /\ known' = IF pass.pc = "mknod" THEN known \cup {pass.path} ELSE known
    /\ pass' = [pass EXCEPT !.pc = "announced"]
    /\ UNCHANGED <<snapshotVars, owed, op, nodes, ids, nextInode, loop, io, pending, dirty,
                   stopping, notifying, announced, announcedEverything, down>>

\* poke(): the file is opened for writing, written to and closed, which the
\* handlers let the notifier alone do.
PokeOpen ==
    /\ pass.pc = "open"
    /\ loop = NotLooking
    /\ pass' = [pass EXCEPT !.pc = "writing"]
    /\ UNCHANGED <<snapshotVars, serveVars, pending, dirty, stopping, notifying,
                   announced, announcedEverything, down>>

PokeClose ==
    /\ pass.pc = "writing"
    /\ loop = NotLooking
    /\ pass' = [pass EXCEPT !.pc = "announced", !.ino = 0]
    /\ UNCHANGED <<snapshotVars, serveVars, pending, dirty, stopping, notifying,
                   announced, announcedEverything, down>>

\* announce_creation(): the kernel finds nothing, as pretended, and asks for
\* the file to be made, which ends the pretence.
announce_creation ==
    /\ pass.pc = "creation"
    /\ loop = NotLooking
    /\ ~Found(Notifier, pass.path)
    /\ pass' = [pass EXCEPT !.pc = "mknod"]
    /\ UNCHANGED <<snapshotVars, serveVars, pending, dirty, stopping, notifying,
                   announced, announcedEverything, down>>

\* announce_removal(): of a name the kernel has seen, which is forgotten.
announce_removal ==
    /\ pass.pc = "gone"
    /\ known' = known \ {pass.path}
    /\ pass' = [pass EXCEPT !.pc = IF pass.path \in known THEN "removal" ELSE "announced"]
    /\ UNCHANGED <<snapshotVars, owed, op, nodes, ids, nextInode, loop, io, pending, dirty,
                   stopping, notifying, announced, announcedEverything, down>>

\* mark_announced(), and the replies that waited for it.
mark_announced(upTo) ==
    ReplyHeld({o \in HeldOpens : taking[o].snap.generation <= upTo[op[o].path]})

MarkPath ==
    LET p == pass.path
        upTo == [q \in Paths |-> IF q = p THEN Larger(AnnouncedUpTo(p), pass.gens[p])
                                 ELSE AnnouncedUpTo(q)]
    IN  /\ pass.pc = "announced"
        /\ announced' = [announced EXCEPT ![p] = Larger(@, pass.gens[p])]
        /\ mark_announced(upTo)
        /\ pass' = [pass EXCEPT !.pc = "batch", !.path = None,
                                !.batch = [q \in DOMAIN @ \ {p} |-> @[q]]]
        /\ UNCHANGED <<owed, nodes, ids, nextInode, known, loop, io, pending, dirty, stopping,
                       notifying, announcedEverything, down>>

\* The batch is done: of everything, if that is what it was.
MarkEverything ==
    /\ pass.pc = "batch"
    /\ DOMAIN pass.batch = {}
    /\ pass.every # None
    /\ announcedEverything' = Larger(announcedEverything, pass.every)
    /\ mark_announced([q \in Paths |-> Larger(AnnouncedUpTo(q), pass.every)])
    /\ pass' = [NoPass EXCEPT !.pc = "top"]
    /\ UNCHANGED <<owed, nodes, ids, nextInode, known, loop, io, pending, dirty, stopping,
                   notifying, announced, down>>

BatchDone ==
    /\ pass.pc = "batch"
    /\ DOMAIN pass.batch = {}
    /\ pass.every = None
    /\ pass' = [NoPass EXCEPT !.pc = "top"]
    /\ UNCHANGED <<snapshotVars, serveVars, pending, dirty, stopping, notifying,
                   announced, announcedEverything, down>>

\* Mutant: a pass ends after one batch, whatever has been queued meanwhile.
StandDownAnyway ==
    /\ pass.pc = "top"
    /\ ReplyHeld(HeldOpens)
    /\ notifying' = FALSE
    /\ pass' = NoPass
    /\ UNCHANGED <<owed, nodes, ids, nextInode, known, loop, io, pending, dirty, stopping,
                   announced, announcedEverything, down>>

\* The pass ends, with nothing queued or because we are stopping, and lets
\* go of whatever is still held.
StandDown ==
    /\ pass.pc = "top"
    /\ stopping \/ ~Queued
    /\ ReplyHeld(HeldOpens)
    /\ notifying' = FALSE
    /\ pass' = NoPass
    /\ UNCHANGED <<owed, nodes, ids, nextInode, known, loop, io, pending, dirty, stopping,
                   announced, announcedEverything, down>>

-----------------------------------------------------------------------------
(* The destructor.                                                         *)

\* The subscription ends and a pass under way is told.
Stop ==
    /\ down = "up"
    /\ down' = "stopping"
    /\ stopping' = TRUE
    /\ UNCHANGED <<snapshotVars, serveVars, pending, dirty, notifying, announced,
                   announcedEverything, pass>>

\* The pass has ended: nothing held is worth waiting for, and every request
\* under way is cancelled.
JoinNotifications ==
    /\ down = "stopping"
    /\ pass.pc = "off"
    /\ op' = [o \in Takers |->
                CASE op[o].pc = "held" -> [op[o] EXCEPT !.pc = "open", !.answers = @ + 1]
                  [] op[o].pc \in {"opening", "taking"} -> [op[o] EXCEPT !.stop = TRUE]
                  [] OTHER -> op[o]]
    /\ down' = "cancelled"
    /\ UNCHANGED <<snapshotVars, owed, nodes, ids, nextInode, known, loop, io, notifyVars>>

JoinRequests ==
    /\ down = "cancelled"
    /\ \A o \in Takers : op[o].pc \notin {"opening", "taking"}
    /\ down' = "served"
    /\ UNCHANGED <<snapshotVars, serveVars, notifyVars>>

Unmount ==
    /\ down = "served"
    /\ loop = NotLooking
    /\ down' = "unmounted"
    /\ UNCHANGED <<snapshotVars, serveVars, notifyVars>>

-----------------------------------------------------------------------------
Tree ==
    \/ \E p \in Paths : Change(p)
    \/ \E c \in owed : on_tree_changed(c)
    \/ on_everything_dirty

OpenStep(o) ==
    \/ TreeOpened(o) \/ TreeOpenFails(o)
    \/ OpenTakes(o) \/ OpenStopped(o) \/ Serve(o) \/ VersionGone(o)

Programs ==
    \E o \in Takers :
        \/ \E p \in Paths : Lookup(o, p)
        \/ \E other \in Takers : Reopen(o, other)
        \/ open(o) \/ Interrupt(o) \/ release(o)

LoopStep == EntryReply \/ EntryReplyLost

Forgets == \E i \in DOMAIN nodes : op_forget(i)

NotifierStep ==
    \/ TakeBatch \/ \E p \in Paths : announce(p)
    \/ NotifierLookup \/ NotifierFindsNothing \/ PokeOpen \/ PokeClose
    \/ announce_creation \/ announce_removal
    \/ MarkPath \/ MarkEverything \/ BatchDone \/ StandDown

DestructorStep ==
    \/ JoinNotifications \/ JoinRequests \/ Unmount

Next ==
    \/ Tree \/ Programs \/ LoopStep \/ Forgets \/ NotifierStep
    \/ \E o \in Takers : OpenStep(o)
    \/ Stop \/ DestructorStep

Spec == Init /\ [][Next]_vars

\* Every thread runs on, and the tree settles what is opened and read.  When
\* it changes and reports, when programs open, interrupt and close, and when
\* the destructor is called, is up to them.
FairSpec ==
    /\ Spec
    /\ WF_vars(LoopStep)
    /\ WF_vars(NotifierStep)
    /\ WF_vars(DestructorStep)
    /\ \A o \in Takers : WF_vars(OpenStep(o))

-----------------------------------------------------------------------------
TypeOK ==
    /\ SnapshotsTypeOK
    /\ owed \subseteq [path : Paths, kind : {"modified", "added"}]
    /\ op \in [Takers -> [pc : {"idle", "looking", "found", "opening", "taking", "held",
                                "open", "closed"},
                          path : Paths \cup {None}, ino : Nat,
                          looked : Versions \cup {None}, stop : BOOLEAN, answers : Nat]]
    /\ ids \in [Paths -> Nat]
    /\ nextInode \in Nat
    /\ known \subseteq Paths
    /\ loop \in [who : Takers \cup {Notifier, None}, path : Paths \cup {None},
                 seen : Versions \cup {None}]
    /\ io \in Takers \cup {None}
    /\ DOMAIN pending \subseteq Paths
    /\ {dirty, stopping, notifying} \subseteq BOOLEAN
    /\ announced \in [Paths -> 0..clock]
    /\ announcedEverything \in 0..clock
    /\ down \in {"up", "stopping", "cancelled", "served", "unmounted"}

HasHandle(o) == op[o].pc \in {"held", "open"}

\* An inode is one version of its file: whoever has it open at the same time
\* reads the same bytes, however the file changes and whoever reopens it
\* (Node, version_for()).
OneVersion ==
    \A a, b \in Takers :
        HasHandle(a) /\ HasHandle(b) /\ op[a].ino = op[b].ino
            => taking[a].snap.version = taking[b].snap.version

\* What take() returns is no older than the last change to the file that the
\* tree had reported when it began, nor than what the tree said of it, as far
\* as its size and time tell: a change racing the read is either in the bytes
\* or leaves the snapshot with a generation nobody reuses.
TakenIsCurrent ==
    \A o \in Takers :
        Took(o) =>
            LET v == taking[o].snap.version
            IN  /\ v >= taking[o].floor
                /\ v >= taking[o].seen \/ SameInfo(v, taking[o].seen)

\* "Every change queued by now has been announced, so nothing should still be
\* held": while an open is held a pass is under way which, unless we are
\* stopping, has yet to announce a generation at least as new as the open's.
WillAnnounce(p, g) ==
    \/ dirty
    \/ p \in DOMAIN pending
    \/ p \in DOMAIN pass.batch /\ pass.gens[p] >= g
    \/ pass.every # None /\ pass.every >= g

HeldIsComing ==
    \A o \in Takers :
        op[o].pc = "held" =>
            /\ notifying
            /\ stopping \/ WillAnnounce(op[o].path, taking[o].snap.generation)

\* Every open is answered: whatever the build, an interrupt, a change or the
\* destructor do meanwhile, a Request is never dropped without its reply, nor
\* replied to twice.
EveryOpenAnswered ==
    \A o \in Takers : op[o].pc = "opening" ~> [](op[o].answers = 1)

\* Every generation the tree's reports give a file is announced to those
\* watching the mount, even one that arrives as a pass is standing down and
\* whether or not the kernel has seen the file, unless we stop.
EveryChangeAnnounced ==
    \A p \in Paths, g \in 1..MaxReports :
        generation(p) >= g ~> stopping \/ AnnouncedUpTo(p) >= g

\* The destructor returns, although the pass it waits for is writing through
\* the mount the destructor is to take down, and opens are waiting.
DestructorReturns == down = "stopping" ~> down = "unmounted"

\* "Anything opening the output afterwards gets the new version": an open whose
\* name was looked up after a change was reported gets nothing older.
OpensNewVersion ==
    \A o \in Takers :
        op[o].pc = "open" /\ op[o].looked # None => taking[o].snap.version >= op[o].looked

\* "A program started from this open must not overlap that write": while the
\* notifier has an inode open for writing, only an open that is older than the
\* change it announces, whose take() began before the tree reported it, has
\* the same inode.
NotWrittenWhileOpen ==
    \A o \in Takers :
        op[o].pc = "open" /\ pass.pc = "writing" /\ pass.ino = op[o].ino /\ ~stopping
            => taking[o].snap.generation < pass.gens[pass.path]

=============================================================================
