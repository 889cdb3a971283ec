# A TLA+ model of makebelieve

makebelieve mounts a directory whose files are the outputs of build rules: an
output is built when somebody opens it, what its build reads is recorded, and it
is built again when that changes. This directory holds a TLA+ model of the
program's concurrent core, the TLC configurations that check it on small
instances, and TLAPS proofs of what holds for every instance. Paths below are
relative to the repository; the sources are under `src/`.

## The system

| Component | State it keeps | Operations | What makes it correct |
|---|---|---|---|
| `BuildQueue` (buildqueue.hpp) | free slots, three lines of waiters, tickets | schedule, release, reacquire, promote, stop | slots are neither lost nor made up; nobody waits with a slot free; leases are not starved |
| `BuildCoordinator` (buildcoordinator.cpp, buildpermits.hpp) | attempts, the waits between them, each attempt's permit | create, run, complete an attempt; wait, cancel a wait | a build that waits holds no permit; no cycle of waits; every wait is answered, on a permit, with its target's result |
| `BuildDirectoryTree` (builddirectorytree.cpp) | rules, stale and in-flight outputs, dependencies, content | open, materialize_all, source change, manifest change, end of a build | what counts as up to date is; an open never gets content older than it knew of; every open returns |
| `BuildCache` (buildcache.cpp) | a database of records, a directory of contents | store, forget, restore, collect garbage | a restored record describes what would be built; content outlives the records that name it |
| `FileSnapshots` (filesnapshots.cpp) | each file's generation and current snapshot | take, drop, changed | a reader sees one version of a file, and a snapshot is no older than its generation |
| `IoContext`, pollers (iocontext.cpp, nativehandlepoller-*.cpp) | tasks, waits on handles, cancellations | schedule, wait, cancel, run | no wake-up is lost, no operation used after it is gone |
| `OsBuildProcessTracker` | the process each build started | add, remove, find the build of a process | never the wrong build, although process ids are reused |
| `RealDirectoryTree` | the source directory and its watcher | read, subscribe | no change is missed; overflow means everything is dirty |
| `VirtualFileSystem` (virtualfilesystem-linux.cpp) | inodes and the version each is, opens under way, changes to announce | lookup, open, release, forget, notify, unmount | an inode is one version; every open is answered, interrupts and shutdown included; every change is announced |
| `UnmountChannel`, `ConsoleInterruptHandler` | a control endpoint; a stop source | unmount another process's mount; stop on an interrupt | the requester returns once the mount is gone; no early interrupt is missed |
| `ShellRunner`, `ProcessUtil`, `Manifest`, `Tracer` | scratch directories, child processes, parsed rules, trace events | run a command and trace its reads, parse, record | |

They interact as follows. The virtual file system calls the tree's `open()` on
behalf of a process. The tree decides which build brings the output up to date
and waits for it through the coordinator, naming the build the process belongs
to, if the process tracker knows one. The coordinator runs builds on the queue's
slots (*permits*); a build whose command waits for another output gives its
permit back, and takes one again before that request is answered. A finished
build calls back into the tree, which publishes the content, and completes the
attempt, which wakes whoever waits. Meanwhile one watcher thread reports changes
of the source files to the tree, which marks outputs stale and rebuilds those
that were opened before. Builds are kept in the cache for the next run.

What is hard here is concurrency: readers, commands, completions, cancellations
and the watcher meet at the mutexes of the three core components, each of which
defers work until its mutex is released; then failure of builds, rules that go
away under a build, restarts, and freedom from deadlock with few permits.
`PROJECT.json` lists these hazards line by line.

## The modules

| Module | Models |
|---|---|
| `SlotLines` | the state guarded by a queue's mutex, as one record, and the private operations on it |
| `BuildQueue` | the queue: `SlotOperation`, `Lease`, `Resume`, tickets, stops |
| `SlotPool` | what the queue promises: who owns slots, and how ownership moves |
| `BuildCoordinator` | attempts and waits, composed with the queue's lines |
| `BuildDirectoryTree` | staleness, builds, opens, changes of sources and rules, records for the next run |
| `BuildCache` | the cache's database and content files, step by step, with failures and crashes |
| `IoContext` | the I/O thread: pushes, wakes, stop callbacks, waits, watches and both pollers |
| `FileSnapshots` | generations, and `take()` step by step |
| `VirtualFileSystem` | the FUSE provider with its snapshots: lookups, opens, the notifier, the destructor |
| `MCBuildCoordinator`, `MCBuildDirectoryTree`, `MCBuildCache`, `MCVirtualFileSystem` | instances for TLC |
| `SlotLinesProofs`, `BuildQueueProofs` | lemmas about the lines; the theorems about the queue |
| `BuildCacheProofs` | the theorems about the cache |
| `IoContextProofs` | the theorems about the I/O context |
| `BuildCoordinatorProofs` | the theorems about the coordinator |
| `VirtualFileSystemProofs` | the theorems about the snapshots and the file system |
| `BuildDirectoryTreeProofs` | the theorems about the tree's builds |
| `BuildCurrencyProofs` | the theorems about the bytes of outputs that are up to date |

**BuildQueue.** An action is a critical section of the queue's mutex together
with the completion it leads to on the same thread, or a resumption on the
hand-off scheduler. `slot[w]` is the progress of a `SlotOperation`: its stop
callback is registered ("armed") before its lock is taken, so a stop can come in
between and is then remembered in `stopped_early`. A waiter that `release()`
took out of line is in `q.given` until it resumes; if the hand-off scheduler has
shut down by then, it completes stopped and its slot goes on to the next.

**BuildCoordinator.** An action is a critical section of the coordinator's
mutex, or of the queue's. What the code collects in `Effects` and does after
unlocking is state in between: take-backs that have not reached the queue, stops
of take-backs, and drains. Several waits answered at once by `ready()` are
handled in one step over the set of them, as the code does under one lock. The
search `path_to` visits edges in the order of a hash map, so every simple path
it could return is allowed. Waking an answered request on its thread is left
out: a request that is "done" no longer touches the coordinator. The tree's side
of the protocol (an output has at most one build under way and one next) is in
the guards of `create_attempt`, `run` and `complete`. Requests come from an
output's current attempt, looked up when the lock is taken, or from no build at
all. Running out of memory while a request is linked is left out.

**BuildDirectoryTree.** Content is the set of pairs (input, version) it was made
from, directly or through other outputs, so that a property can say exactly what
is out of date. An action is one critical section; sections the code runs one
after the other on the same thread (the two of `finish_build`, completing the
attempt, the two of `keep_in_cache`; reloading rules, changing files, finding
their readers, marking, dropping records, starting rebuilds) are separate actions
in that order, with everything else interleaved. `apply_rules` ends where the code
lets go of `m_mutex`; then, with `m_layout_mutex` still held, the files of outputs
removed go and placeholders of those added come one by one (`PlaceFile`), and
opens and builds go on in between. A build reads another output in three steps:
`RecordRead` (whether it is declared, and the record of the read), `OpenOutput` (what
it waits for) and, once answered, `ReadOutput`; a rule may come or go between any
two. The code asks and records in two sections, but nothing looks at the record
before the build ends. A copy records its input in any case (`Copying`).
`Publish` writes the file together with the bookkeeping before it, which nothing
can tell apart: an open that begins after this build waits for it. The coordinator
appears as what it promises. The rules of an output are numbered; 0 means it has
none, and `Copies` says which are copies. A command reads its inputs in any order.
`Restart` ends the process and starts it again on the same sources and cache, at
any time or, as `Restarts = "quiet"` says, when no change is pending; of the records
that hold, it may serve any subset closed under what they were made from, as their
contents may be gone.

*Failures of the cache.* `keep_in_cache` and `forget_in_cache` catch whatever the
cache throws and go on; with "keep" in `CacheFails` a build may leave the record as
it was, and with "drop" records may stay that the watcher, or a new tree, wanted
dropped.

*What the properties except.* The code does not see a change that is applied while
the first build of an output runs, since no inputs are recorded for it yet (a
comment in `finish_build` says so). In the model such a build's content carries the
mark `Missed`, which spreads to what is built from it. The same mark stands for a
build that first reads an input in this very round, and for content restored from a
record that should have been dropped. The mark `Unrecorded` is on what a build made
after it opened an output that no rule made when it asked: such a read is recorded
nowhere. Two histories that no action looks at remember more: `unretried`, the outputs
whose last build failed with a mark, and `undropped`, those whose record could not be
dropped, until it is replaced or dropped. Each property excepts by name what it must.

**BuildCache.** An action is one change of the disk: a scratch file created,
written, renamed into place, a transaction committed, a content deleted. A call
holds `m_mutex` from its first action to its last, and each of its steps may fail
the way the code allows. A content stands for its bytes and its hash, and the
number in a scratch file's name is left out, since one is written at a time.
`Open` takes SQLite's exclusive lock and empties tables of another version. Two
kinds of crash are told apart: `Kill` keeps what was written; `PowerLoss` brings
back an `older` state of the tables (write-ahead log at `synchronous = NORMAL`)
and leaves each file that was never synced missing, cut short or whole, a deleted
one included. Which records still describe a good build is the tree's decision,
so `Restore` takes any subset of those whose content can be read. `lost` and
`litter` remember what a power loss took and that something failed; no action
looks at them. `BuildDirectoryTree` uses the cache as a map of records that a call
updates in one step or, if it throws, may leave as it was.

**IoContext.** Any thread pushes work onto `m_tasks` and cancelled waits onto
`m_cancels` by a compare-exchange, and wakes the I/O thread if the stack was
empty: the push and the wake are two actions. `run()` is followed through `at`:
taking the stack, executing it task by task, arming and registering a wait,
taking and stopping cancellations, polling, handling what is ready. A stop
callback is "running" on another thread from when the stop source gets to it
until its wake is done, and `disarm()` waits for that; requested by the I/O
thread itself, or before it is installed, it runs inline. Both pollers are
modelled, chosen by `Init`: epoll reports a registered handle for as long as it
is ready; a completion port reports a packet once, may be unable to take a queued
packet back, and then keeps the watch until the packet is dequeued. `finish()`
is one action: once `disarm()` has returned, no other thread refers to the wait.
An operation that completes is freed; that nothing refers to it any more is
`NothingFreedIsUsed`.

**FileSnapshots, VirtualFileSystem.** Five parties run at once: the FUSE loop,
the coroutines of opens on the one thread of `m_file_io`, the tree's thread, the
notifier and the destructor. A file is a version number and whether it exists;
`InfoOf` says what its size and time tell of the version (`AllSame` is the hard
case: a change that leaves both alone). The tree changes a file in one step and
reports it in a later one, on its own or as "everything is dirty", which may also
come without cause. A lookup is two steps of the loop, since the tree is asked
before `inode()` takes its lock. `take()` is four: noting the generation, the
status with the snapshot that is there, the read, and putting it in place; the
last is one step with `version_for()` and `reply_when_announced()`, between which
no other thread does anything they look at. `io` keeps coroutines from
interleaving where they do not await. A pass of the notifier takes a batch,
announces each path by calls through the mount, which come back as lookups and
opens on the loop, and marks it announced. Opens are numbered in the order in
which programs begin them, which loses nothing as all are alike but for
`Interruptible`: the opens whose program may be interrupted or be gone when the
reply comes. The kernel and the programs are external: it looks names up afresh
(entry caching is off), forgets only inodes nothing uses, and a program may open
again an inode it has open. A directory other than the root, `getattr`, the reads
of an open handle, error codes and running out of memory are left out.

## Runs

| Run | Instance | Shows |
|---|---|---|
| `queue` | 3 pieces of work, 2 with tickets, 1 slot | slots are conserved, no slot is idle, each waiter is in one place, tickets follow, leases are answered, all work ends, SlotPool is implemented |
| `coordinator_requests` | 2 attempts, 3 requests, 1 permit, cancellation, teardown, failure | permits given back and restored, links in step, answers right and on a permit |
| `coordinator_progress` | 2 generations of an output and another, 2 requests, 1 permit | no cycle closes, hurry spreads, everything is answered and ends |
| `tree_changes` | diamond of 2 outputs, 1 change, failures, overflow | what counts as up to date is; opens get no older content |
| `tree_opens` | 1 output, 1 reader and `materialize_all`, 2 changes of the source or the manifest | builds are accounted for, every open returns, what was opened once is rebuilt |
| `tree_rules` | chain, any rules at the start, 1 change of the source or the manifest, a cache that may fail, quiet restarts | outputs and records are exact once quiet; nothing opened is left stale |
| `cache` | 2 outputs, 2 contents, 2 threads of one process and 1 of another of a different version | records keep their content, nothing torn is served, nothing is left behind |
| `io_context` | 1 wait, 1 watch, both pollers | nothing completed is used again, no wake-up is lost, stops complete, ready handles are handled |
| `file_versions` | 1 file, 2 opens, 1 change, 2 reports, interrupts | an inode is one version, snapshots are current, held opens have their announcement coming, no open of the announced version overlaps the notifier's write |
| `file_serving` | 1 file, 1 open, 1 change, 2 reports, interrupts, fairness | every open is answered once, every generation is announced, the destructor returns |
| `tree_crash` | chain, 1 change, cache, restart at any time | **violated**: content made from an old source is restored |
| `file_stale_open` | 1 file, 2 opens, 1 change | **violated**: an open after a change gets the version from before |

*Bounds.* One slot or permit is the hardest case for waiting, and with three pieces
of work each of the three lines can hold one while the slot is on its way to
another. Two attempts can wait on each other, and with three requests one attempt
has two outstanding, one of which is answered, canceled or blocked again while the
permit is taken back; a second generation adds the wait behind the first. In the
tree, a diamond is the smallest graph in which a change reaches an output both
directly and through another, a chain the smallest in which it does so only through
another. In `tree_opens` two edits remove a rule and bring it back, or change it
twice. `tree_rules` has one edit, and starts with each of the two outputs declared
or not: so the rule of either one is added, changed or removed, with or without the
other there, and app becomes a copy, stops being one, or is one before what it
copies comes. (Both declared with app a copy from the start, so that lib goes under
a copy, holds as well, but would double the run's two million states; it is left
out.) `MaxVersion`, `MaxEdits` and `MaxChanges` (both together) bound changes and
`Attempts` the builds under way at once; five names are more than two outputs can
use. In the cache, two outputs and two contents let records share a content and swap
contents, and with `MaxUnsynced = 1` a power loss undoes a commit and not the
deletion after it. A wait and a watch are what the I/O context tells apart, and with
`MaxReady = 2` a poll reports both, or one and a wake-up, and finds its buffer full
when all three are due: what is left is for the next. In the file system, two opens
can share an inode on either side of a change, and with `MaxReports = 2` a report
comes while the one before is being announced; two files would only add passes over
more of the same, since nothing but the pass relates them. The safety of the queue,
the coordinator, the cache, the I/O context and the file system needs no bound, see
below. Deadlock is checked only for the cache: elsewhere the system rests when all
work is done, and the liveness properties say what must not rest.

*Fairness.* Threads run: a started operation gets to the lock, the hand-off
scheduler (a thread pool) runs what it is given, deferred effects run once the
lock is released, and the watcher thread delivers what it was told. Commands
that wait for nothing end, as do those that read their inputs; in the queue,
work that holds a slot gives it back sooner or later. Only `ScheduledEnds` needs
all work to end, and states so as its premise. The I/O thread runs, whoever began
a push or a stop goes on, and polling is not interrupted for ever (strong
fairness: an interrupted poll is tried again, and signals do not come without
end). The FUSE loop, the notifier, the destructor once called, and each open's
coroutine run on; the tree settles an open, with success or without. Nothing is
assumed of readers, programs, cancellation, changes or stops.

*Findings.* `tree_crash`: `keep_in_cache` stamps sources after
the build, so a source changed after it was read and before it is stamped gets a
matching stamp; the record is dropped when the change is applied, but if the
process stops before that, the next one serves the old content. The same happens
to a rule: `finish_build` keeps content under the rule in force when the build
ends, and the record is dropped only by the invalidation that follows, so with
`MaxEdits = 1` and restarts at any time `QuietIsExact` fails the same way.

`file_stale_open`: the first open of an inode reads the file and only then fixes
the inode's version. A change reported in between leaves the name with that
inode, as nothing has fixed it yet, so a program that looks the name up after the
change shares the inode and is served the version from before, for as long as
anyone holds it. COMPAT.md says that whatever opens the output afterwards gets
the new version, on Linux without exception.

More that the models show without a run of their own:

- The test at virtualfilesystem.t.cpp:2041-2045 and `reply_when_announced()` say
  that a program started from an open never overlaps the notifier's write. It can, if
  the open's `take()` noted the generation before the change was reported and the
  notifier found the inode before the open fixed it: the open is of the generation
  before, and is not held. `NotWrittenWhileOpen` states what holds.
- `OpenIsCurrent` is checked without manifest changes: an open that begins while no
  rule makes the output waits for nothing, and if the rule comes back before it
  reads, it reads the file just added, empty.
- builddirectorytree.cpp:1250-1252 says that outputs keep their content "unless they
  read one that was added, removed or changed". Between the two locks of
  `apply_rules` the rule of an output is gone (or there) and its file is not yet: a
  build that opens the output then is not recorded as a reader of it, reads the old
  file, and stays up to date with it when the file goes. That is the mark
  `Unrecorded`; without it `QuietIsExact` fails in `tree_rules`.
- builddirectorytree.cpp:1061-1062 says that a record that could not be dropped "holds
  stamps that no longer match". It does not if the change came after the build had
  read the file and before the stamp was taken: the next run restores the old
  content. `RecordsHold` without its exception of `undropped` fails in `tree_rules`.
- A build that fails because an output is only being added, before the placeholder
  is there and while no inputs are recorded for it, is not repeated by the addition:
  a copy records its read, but too late for `apply_rules` to find it. `OpenedAtRest`
  excepts it (`unretried`).
- buildcache.hpp:102-103 says that when `store()` throws "the output is left
  unrecorded". An earlier record of the output stays if the write, the rename or the
  transaction fails, and the new one is there if only the query of
  `drop_if_unreferenced()` after the commit does.

## Proofs

`BuildQueueProofs` proves, for every finite set of work, every concurrency and
lines of any length, that the queue's type invariant, `SlotsConserved`,
`NoIdleSlot`, `InOnePlace`, `TicketsFollowWaiters` and `HeldByWorking` hold in
every reachable state, and that the queue implements `SlotPool`. It assumes that
`Work` is finite, that tickets belong to work, and that there is at least one
slot.

None of these is inductive alone. That slots add up needs that whoever is handed
one holds none yet; that needs that a waiter is in one place only; that rests on
the progress of its `SlotOperation`; and that a slot goes to exactly one waiter
needs the lines to be free of repetitions and disjoint. `Inv` is the conjunction:
types, conservation, no idle slot, the lines sound (`Sound`, with the lines seen
as sets), exactly the queued operations in line or handed a slot, and leases held
by working work. `SlotLinesProofs` says once what each operation on the lines
does to those sets (`ReleaseFacts`, `EnqueueFacts`, `DequeueFacts`,
`PromoteFacts`, ...), so that the proof that each action preserves `Inv` never
looks at positions in a sequence. The same lemmas give the step of `SlotPool`
each action takes, and so the refinement.

`BuildCacheProofs` proves, for any outputs, contents, caches and callers, the
cache's type invariant, `ContentInPlace`, `ServedWhole` and `NoGarbage`, assuming
only that each caller uses one cache and each cache has a version. That a record's
content is in place needs the file a store renamed to be there still when its
record is committed (`Storing`), which holds because nobody else is in the middle
of a call: within a cache by the mutex, between caches by the lock (`Exclusive`).
`NoGarbage` speaks of states with no call under way; `Tracked` extends it to the
others by naming the call that put each unnamed file there or will delete it.

`IoContextProofs` proves, for any tasks, waits and watches and both pollers, the
context's type invariant, `NothingFreedIsUsed` and `NoLostWakeup`, assuming only
that an operation is of one kind and none is `None`. That nothing completed is
referred to rests on its stop callback: a wait is in a list, on `m_cancels`, with
the poller or among the reported only while it is armed (`ArmedInv`), and
`finish()` disarms it after any callback under way has ended; a queued operation
is in one place and nowhere else (`QueueInv`). For wake-ups, `WakeInv` says from
which points of the loop on a stack that is not empty has one on its way: a push
onto an empty stack brings its own, and one onto a stack that is not empty relies
on the push before it.

`BuildCoordinatorProofs` proves every safety property the runs check of the
coordinator, for any finite attempts and requests, any number of permits and lines
of any length: types, `NoPermitWhileBlocked`, `PermitRestored`,
`PermitMatchesLease`, `LinksAgree`, `NoWaitCycle`, `HurriedClosed`, `DoomedFails`,
`AnsweredByTarget` and the action property `AnsweredOnPermit`. It assumes that
those sets are finite and that `None` is none of their members. The inductive
invariant couples each attempt's phase with its permit, the permit with the lease
and the operation on the queue, each request with the edge it stands for, and the
lines, whose lemmas are those of the queue, with whoever is in them. That
`ready()` answers only on a permit follows because an attempt with a request that
waits on a build has none: it gave it back when the request blocked, and a permit
it was already taking back goes straight back once what is ready is answered. `NoWaitCycle` is about
attempts and generations together: an attempt waits for the targets of its
requests and, until it starts, for the attempt before it. A request adds an edge
only if `path_to()` finds no path from its target to its source; one that would
close a cycle adds none, and takes away those of the builds it stops. The proof is
that a graph without cycles stays so when an edge is added between two nodes not
joined the other way.
`HurriedClosed` holds because hurrying an attempt hurries all it reaches in one
step. The code promotes those attempts one after another, in the order of a hash
map; `promote_all` says which lines can result from promoting a set in any order
(what is left keeps its order, what is promoted moves to the promoted line), and
`MCBuildCoordinator` has TLC evaluate, over small lines, that these are exactly
the results of promoting one after another (`PromoteAllAssumption`).

`VirtualFileSystemProofs` proves, for any files, opens, versions, reports and any
`InfoOf`, the types of the provider with its snapshots, `OneVersion`,
`TakenIsCurrent`, `HeldIsComing` and `NotWrittenWhileOpen`, assuming that `None` is
none of the values it stands beside. Beside types the invariant has four parts.
`SnapshotsOK`: what a `take()` noted is no newer than the file's generation, and
two that noted the same generation noted the same oldest version they may be
given. `RequestsOK`: where each open, its `take()`, its inode and the loop are
with respect to each other; an open that is replied to has exactly its inode's
snapshot. `NotifierOK`: what is announced is older than what is being announced,
that older than what is queued, and a file's newest generation is announced or
coming. `RepliesOK`: until the destructor stops the provider, an open that has
its version is replied to exactly if its generation is announced.
`TakenIsCurrent` needs the second half of `SnapshotsOK`, since a `take()` may be
given what another one read; `HeldIsComing` needs `NotifierOK` at every point of a
pass, since an open can be held between any two of its calls.

`BuildDirectoryTreeProofs` proves the tree's type invariant and
`BuildsAccountedFor`, for any sources, outputs, inputs, rules, readers, names for
builds and bounds, with rule changes, failures, overflows and restarts. It assumes
that a rule is none or one of two, that inputs are sources or outputs, and that
`None` is no build and no output. `BuildsAccountedFor` is not inductive: it does
not say what becomes of a next build when the one ahead of it ends.
`InFlightOK` has at most one build under way per output, exactly if it is in
flight; `NextOK` a next build only behind one under way; `OrphansOK` a next build
either known as its output's or handed to exactly one settled build, which has
only then one to complete; and `WaitersOK` has whoever waits on a build whose end
is still to come. `finish_build` both ends a build and claims the next under one
lock, and completes what it orphaned later without it, so the proof follows the
builds through these one at a time.

`BuildCurrencyProofs` proves every other safety property of the tree that a run
checks: `CleanIsCurrent`, `QuietIsExact`, `RecordsHold`, `OpenIsCurrent` and
`OpenedAtRest`, for any sources, outputs and inputs, any depth and shape of what is
made from what, any number of changes, readers and builds, with builds that fail
and events that are lost, with or without a cache, whatever the cache fails to store
or to drop and whichever records a restart finds the contents of, under `Static`: the
rules stay as they are, and if there is a cache, a tree is created over it only when
no change is on its way. It assumes in addition that sources, outputs, the manifest and
"everything" have different names. `OpenedAtRest` also takes commands that do not
fail by themselves (`~MayFail`), since what fails stays stale. The invariant
`CurrencyInv` follows bytes from where a command reads them to where they are
published:

- `BuiltOK`: an output that is `Built` (declared, not stale, and published if in
  flight) has the dependencies its command reads and, unless a build of it read
  too early, bytes that contain those of all its inputs, which are `Built` too
  (`Good`). What holds of an output follows for all it is made from without an
  induction, because `Reach` is the smallest set closed under inputs.
- `BuildOK`: a build under way that is not `Told` of a change has read only such
  inputs. It is told by its output being stale again, or by the mark `Missed`,
  which stands for the rebuild that the code does not make when a file changes
  after a first build of an output has read it and before its dependencies are
  known.
- `MarkOK`: between `collect_diff` and the marking in `invalidate`, which are two
  critical sections, outputs can be built from inputs that are about to be marked.
  Whatever set has what was collected, and with an output all that is made from
  it, has every output with old bytes, also the ones built in between; so marking
  what is downstream of what was collected reaches them.
- `ComingOK`: a change not yet applied is queued, being collected, or collected as
  of the newest version; `VersionsOK` orders versions applied, collected and made.

The other three properties each need one more invariant beside it:

- `RecordsHold`, `CacheInv`: a record is of an output as it is `Built`, or it is
  among those the watcher drops next or one that could not be dropped (`RecordsOK`,
  `Dropping`). A build that has
  yet to store one sees by its count of invalidations that its output went out of
  date since it began; one that has looked already holds `m_cache_mutex`, so its
  record is in place before the watcher drops it (`KeepOK`, `MutexOK`). That the
  stamps are taken after the build does no harm, for the same reason. A restart
  keeps `CurrencyInv` because of `CacheInv`: what it serves is what was built, or
  comes from a record that could not be dropped and is marked (`Left`).
- `OpenIsCurrent`, `ReadersOK`: for an open made when `f` was what had been
  applied, let `D` be the builds under way then of outputs already out of date,
  and `C` the outputs built then or since by builds not in `D`. No output in `C`
  has a source older than `f`, no other build reads one, and what the open waits
  for is not in `D` (`SinceOK`, `WaitSince`). `C` grows and `D` shrinks with every
  step (`Carries`). This bounds bytes of outputs that have gone stale again since,
  of which `CurrencyInv` says nothing, and which the open may be given.
- `OpenedAtRest`, `RestOK`: an output that was opened and is stale has a build
  under way, or is about to get one from the watcher or from `materialize_all`, or
  has an input that no rule makes, directly or through other outputs; only builds
  of the last kind fail. (The property itself also excepts `unretried`, which only
  a change of rules needs.)

Both conditions of `Static` are needed. When a restart is not quiet, records of a
cache can be out of date, which `tree_crash` shows. When rules change,
`CurrencyInv` does not hold between `apply_rules` and the marking of what reads
the outputs removed; `tree_rules` checks `QuietIsExact`, `OpenedAtRest` and
`RecordsHold` with a rule that comes, changes or goes and with quiet restarts.
`OpenedAtRest` is not true of two changes of rules: an output that no rule made when
it was read by a command is not among the recorded reads of the build that failed
without it (nor does the documentation say so), so that build is not repeated when a
rule for it comes back.

Only model-checked: the five properties with rule changes, and all liveness, which
the prover does not handle. `CleanIsCurrent` with rule changes is neither proved nor
part of a run. That `promote_all` is promoting one after another is evaluated on
small lines for the same reason: for lines of any length it takes an induction.

## Not modelled

Wildcards, tracing rules, directories and change notifications of the tree; the
columns of a cached record; the destruction of the tree with builds under way;
the Windows file system provider, and directories and attributes of the Linux
one; everything else that talks to the operating system (watchers, processes and
the tracing of their reads), the parser of manifests, the tracer and the command
line. Vendored code under `thirdparty/` and the tests are not modelled either.
`PROJECT.json` gives the reason per component.

## Plan

1. *Done:* the queue with its promise and proofs, the coordinator on top of it,
   the tree, the cache with its proofs, the I/O context with its proofs, the
   snapshots and the Linux file system on top of them.
2. *Done:* proofs about the coordinator and the file system.
3. Proofs about the tree: *done* for `BuildsAccountedFor`, and for its five
   properties of bytes, records and rebuilds while the rules stay; then these with
   rule changes.
4. The process tracker with reused process ids, the watcher of
   `RealDirectoryTree` with reads that race changes, `AsyncEvent`,
   `UnmountChannel`, `ConsoleInterruptHandler`; wildcard expansion as operators.
