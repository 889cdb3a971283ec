------------------------------ MODULE IoContext ------------------------------
(***************************************************************************)
(* IoContext (iocontext.cpp, iocontext.hpp) and the NativeHandlePoller it  *)
(* sleeps in, both of its builds: Linux's epoll, and Windows' completion   *)
(* port.  One thread runs tasks and completes waits on handles; any other  *)
(* pushes tasks, and cancellations of waits, onto two lock-free stacks and *)
(* wakes the thread.                                                       *)
(*                                                                         *)
(* An operation is a task, a wait, done the first time its handle is       *)
(* ready, or a watch, which only a stop or a failure ends.  Its state is   *)
(* freed when it completes: whoever still has it by then uses it after it  *)
(* is gone.  An operation is started once, and each has a handle of its    *)
(* own.                                                                    *)
(***************************************************************************)
EXTENDS Naturals, FiniteSets, SequencesExt

CONSTANTS Tasks, Waits, Watches,  \* the operations
          Pollers,                \* the builds: "epoll", "port" or both
          MaxReady,               \* NativeHandlePoller::max_ready
          None                    \* no operation; the context's owner

Waiting == Waits \cup Watches
Ops == Tasks \cup Waiting

ASSUME OpsAssumption ==
  /\ None \notin Ops
  /\ Tasks \cap Waiting = {}
  /\ Waits \cap Watches = {}
ASSUME PollerAssumption ==
  /\ Pollers \subseteq {"epoll", "port"}
  /\ MaxReady \in Nat \ {0}

VARIABLES
  \* The context.
  m_tasks,          \* tasks and waits to begin, newest first
  m_cancels,        \* waits whose stop callbacks have fired, newest first
  m_registered,     \* waits in that list
  m_cancelled,      \* waits taken from m_cancels, to be stopped
  m_stopping,
  \* The poller.
  poller,           \* which build this is
  wakeup,           \* the eventfd is not zero, or wake-ups are in the port
  packet,           \* "none", "waiting" for the handle or "queued" in the port
  removed,          \* registrations remove() left for wait() to free
  signalled,        \* waits whose handle is ready
  \* The operations and their stop callbacks.
  result,           \* "none" until it completes
  stop_requested,
  armed,            \* waits with a stop callback installed
  callback,         \* it is "running", has pushed and is to "wake", or "done"
  waking,           \* who has pushed a task and is still to wake the thread
  \* The thread.
  at,               \* where it is in run()
  batch,            \* `tasks`, oldest first
  ready,            \* reported by the poller and not handled yet
  current,          \* the wait it begins or finishes
  outcome,          \* how that one is to complete
  back,             \* where it goes on from there
  last              \* the local `stopping`

contextVars == <<m_tasks, m_cancels, m_registered, m_cancelled, m_stopping>>
pollerVars  == <<poller, wakeup, packet, removed, signalled>>
opVars      == <<result, stop_requested, armed, callback, waking>>
threadVars  == <<at, batch, ready, current, outcome, back, last>>
vars == <<contextVars, pollerVars, opVars, threadVars>>

Init ==
  /\ m_tasks = <<>> /\ m_cancels = <<>>
  /\ m_registered = {} /\ m_cancelled = {}
  /\ m_stopping = FALSE
  /\ poller \in Pollers
  /\ wakeup = FALSE
  /\ packet = [o \in Waiting |-> "none"]
  /\ removed = {} /\ signalled = {}
  /\ result = [o \in Ops |-> "none"]
  /\ stop_requested = {} /\ armed = {}
  /\ callback = [o \in Waiting |-> "none"]
  /\ waking = {}
  /\ at = "top" /\ batch = <<>> /\ ready = {}
  /\ current = None /\ outcome = "none" /\ back = "top"
  /\ last = FALSE

Done == {o \in Ops : result[o] # "none"}

Queued == ToSet(m_tasks) \cup ToSet(batch)

\* Started, and not completed yet.
Begun == (Queued \cup m_registered \cup m_cancelled \cup {current}) \ {None}

-----------------------------------------------------------------------------
\* Other threads.

\* A mutant: only a push onto a stack that is not empty wakes the thread.
submit_unwoken(o) ==
  /\ result[o] = "none" /\ o \notin Begun
  /\ ~m_stopping
  /\ m_tasks' = <<o>> \o m_tasks
  /\ waking' = IF m_tasks # <<>> THEN waking \cup {o} ELSE waking
  /\ UNCHANGED <<m_cancels, m_registered, m_cancelled, m_stopping, pollerVars,
                 result, stop_requested, armed, callback, threadVars>>

\* start(): the compare-exchange; only a push onto an empty stack wakes.
submit(o) ==
  /\ result[o] = "none" /\ o \notin Begun
  /\ ~m_stopping
  /\ m_tasks' = <<o>> \o m_tasks
  /\ waking' = IF m_tasks = <<>> THEN waking \cup {o} ELSE waking
  /\ UNCHANGED <<m_cancels, m_registered, m_cancelled, m_stopping, pollerVars,
                 result, stop_requested, armed, callback, threadVars>>

\* The wake that follows a push or m_stopping.
Wake(o) ==
  /\ o \in waking
  /\ waking' = waking \ {o}
  /\ wakeup' = TRUE
  /\ UNCHANGED <<contextVars, poller, packet, removed, signalled, result,
                 stop_requested, armed, callback, threadVars>>

\* Whoever owns a started operation asks it to stop.
RequestStop(o) ==
  /\ result[o] = "none" /\ o \in Begun
  /\ o \notin stop_requested
  /\ stop_requested' = stop_requested \cup {o}
  /\ UNCHANGED <<contextVars, pollerVars, result, armed, callback, waking,
                 threadVars>>

\* The stop source then gets to the wait's callback, OnStop.
RunCallback(o) ==
  /\ o \in stop_requested \cap armed
  /\ callback[o] = "none"
  /\ callback' = [callback EXCEPT ![o] = "running"]
  /\ UNCHANGED <<contextVars, pollerVars, result, stop_requested, armed, waking,
                 threadVars>>

\* OnStop calls cancel(): the push, then the wake.
cancel(o) ==
  /\ callback[o] = "running"
  /\ m_cancels' = <<o>> \o m_cancels
  /\ callback' = [callback EXCEPT ![o] = IF m_cancels = <<>> THEN "wake" ELSE "done"]
  /\ UNCHANGED <<m_tasks, m_registered, m_cancelled, m_stopping, pollerVars,
                 result, stop_requested, armed, waking, threadVars>>

WakeForCancel(o) ==
  /\ callback[o] = "wake"
  /\ callback' = [callback EXCEPT ![o] = "done"]
  /\ wakeup' = TRUE
  /\ UNCHANGED <<contextVars, poller, packet, removed, signalled, result,
                 stop_requested, armed, waking, threadVars>>

\* A handle becomes ready, and stays so until on_ready() consumes it.
Signal(o) ==
  /\ result[o] = "none" /\ o \in m_registered
  /\ o \notin signalled
  /\ signalled' = signalled \cup {o}
  /\ UNCHANGED <<contextVars, poller, wakeup, packet, removed, opVars, threadVars>>

\* Windows: the kernel queues the packet of a handle that is signalled.
QueuePacket(o) ==
  /\ poller = "port"
  /\ packet[o] = "waiting"
  /\ o \in signalled
  /\ packet' = [packet EXCEPT ![o] = "queued"]
  /\ UNCHANGED <<contextVars, poller, wakeup, removed, signalled, opVars, threadVars>>

\* ~IoContext(), once nothing waits or is queued and no other thread is inside.
Destroy ==
  /\ ~m_stopping
  /\ Begun = {} /\ waking = {}
  /\ \A o \in Waiting : callback[o] \notin {"running", "wake"}
  /\ m_stopping' = TRUE
  /\ waking' = {None}
  /\ UNCHANGED <<m_tasks, m_cancels, m_registered, m_cancelled, pollerVars,
                 result, stop_requested, armed, callback, threadVars>>

-----------------------------------------------------------------------------
\* The context's thread.

\* A new pass of run(): the whole stack is taken and reversed.
TakeTasks ==
  /\ at = "top"
  /\ last' = m_stopping
  /\ batch' = Reverse(m_tasks)
  /\ m_tasks' = <<>>
  /\ at' = "tasks"
  /\ UNCHANGED <<m_cancels, m_registered, m_cancelled, m_stopping, pollerVars,
                 opVars, ready, current, outcome, back>>

\* o completes and is freed; its stop source and its handle concern nobody now.
Complete(o, how) ==
  /\ result' = [result EXCEPT ![o] = how]
  /\ stop_requested' = stop_requested \ {o}
  /\ signalled' = signalled \ {o}

\* execute() of a task, or of a wait that was stopped before it began.
execute(o) ==
  /\ at = "tasks" /\ batch # <<>> /\ o = Head(batch)
  /\ o \in Tasks \cup stop_requested
  /\ batch' = Tail(batch)
  /\ Complete(o, IF o \in stop_requested THEN "stopped" ELSE "value")
  /\ UNCHANGED <<contextVars, poller, wakeup, packet, removed, armed, callback,
                 waking, at, ready, current, outcome, back, last>>

\* execute() of a wait, up to begin_wait().
BeginWait(o) ==
  /\ at = "tasks" /\ batch # <<>> /\ o = Head(batch)
  /\ o \in Waiting \ stop_requested
  /\ batch' = Tail(batch)
  /\ current' = o
  /\ at' = "arm"
  /\ UNCHANGED <<contextVars, pollerVars, opVars, ready, outcome, back, last>>

\* The callback runs inline when a stop is requested by the thread itself, or
\* has been by the time it is installed.
CancelInline(o) ==
  /\ m_cancels' = <<o>> \o m_cancels
  /\ wakeup' = (wakeup \/ m_cancels = <<>>)
  /\ callback' = [callback EXCEPT ![o] = "done"]

\* begin_wait(): arm(), which finds a stop requested since it was checked.
arm ==
  /\ at = "arm"
  /\ armed' = armed \cup {current}
  /\ at' = "add"
  /\ IF current \in stop_requested
     THEN CancelInline(current)
     ELSE UNCHANGED <<m_cancels, wakeup, callback>>
  /\ UNCHANGED <<m_tasks, m_registered, m_cancelled, m_stopping, poller, packet,
                 removed, signalled, result, stop_requested, waking, batch, ready,
                 current, outcome, back, last>>

\* begin_wait(): m_poller.add() succeeds ...
add ==
  /\ at = "add"
  /\ packet' = [packet EXCEPT ![current] = "waiting"]
  /\ m_registered' = m_registered \cup {current}
  /\ current' = None
  /\ at' = "tasks"
  /\ UNCHANGED <<m_tasks, m_cancels, m_cancelled, m_stopping, poller, wakeup,
                 removed, signalled, opVars, batch, ready, outcome, back, last>>

\* ... or fails.
AddFails ==
  /\ at = "add"
  /\ outcome' = "error"
  /\ back' = "tasks"
  /\ at' = "finish"
  /\ UNCHANGED <<contextVars, pollerVars, opVars, batch, ready, current, last>>

\* A mutant: what is on m_cancels is left there.
take_no_cancels ==
  /\ UNCHANGED <<m_cancels, m_registered>>
  /\ m_cancelled' = m_cancelled \ {current}

\* take_cancels(), and current leaves whichever list it is in.
take_cancels ==
  /\ m_cancels' = <<>>
  /\ m_cancelled' = (m_cancelled \cup ToSet(m_cancels)) \ {current}
  /\ m_registered' = (m_registered \ ToSet(m_cancels)) \ {current}

\* A mutant: the stop callback is removed without waiting for it.
disarm_at_once == TRUE

\* disarm() waits out a callback that runs on another thread.
disarm == callback[current] \notin {"running", "wake"}

\* finish()
finish ==
  /\ at = "finish"
  /\ disarm
  /\ armed' = armed \ {current}
  /\ take_cancels
  /\ Complete(current, outcome)
  /\ current' = None
  /\ outcome' = "none"
  /\ at' = back
  /\ back' = "top"
  /\ callback' = [callback EXCEPT ![current] = IF @ = "done" THEN "none" ELSE @]
  /\ UNCHANGED <<m_tasks, m_stopping, poller, wakeup, packet, removed, waking,
                 batch, ready, last>>

\* m_poller.remove(), then on to finish().  Windows may fail to take back a
\* packet that is in the port already.
unregister(o, how, from) ==
  /\ \E left \in BOOLEAN :
       /\ left => packet[o] = "queued"
       /\ removed' = IF left THEN removed \cup {o} ELSE removed
       /\ packet' = IF left THEN packet ELSE [packet EXCEPT ![o] = "none"]
  /\ current' = o
  /\ outcome' = how
  /\ back' = from
  /\ at' = "finish"

\* The batch is done: take_cancels() ...
TakeCancels ==
  /\ at = "tasks" /\ batch = <<>>
  /\ take_cancels
  /\ at' = "cancels"
  /\ UNCHANGED <<m_tasks, m_stopping, pollerVars, opVars, batch, ready, current,
                 outcome, back, last>>

\* ... and each cancelled wait is stopped.
StopNext(o) ==
  /\ at = "cancels"
  /\ o \in m_cancelled
  /\ unregister(o, "stopped", "cancels")
  /\ UNCHANGED <<contextVars, poller, wakeup, signalled, opVars, batch, ready, last>>

StopsDone ==
  /\ at = "cancels"
  /\ m_cancelled = {}
  /\ at' = IF last THEN "exited" ELSE "poll"
  /\ UNCHANGED <<contextVars, pollerVars, opVars, batch, ready, current, outcome,
                 back, last>>

\* What the poller could report.
Reportable ==
  {o \in Waiting : IF poller = "epoll"
                   THEN packet[o] = "waiting" /\ o \in signalled
                   ELSE packet[o] = "queued"}

\* The watches remove() left, which wait() frees and does not report.
FreedByWait(S) == S \cap removed

\* m_poller.wait() returns with as many events as fit, the wake-up being one.
poll ==
  /\ at = "poll"
  /\ \E events \in SUBSET (Reportable \cup IF wakeup THEN {None} ELSE {}) :
       LET reported == events \ {None}
       IN  /\ events # {}
           /\ \/ Cardinality(events) = MaxReady
              \/ /\ Cardinality(events) < MaxReady
                 /\ Reportable \subseteq events
                 /\ wakeup => None \in events
           /\ wakeup' = (wakeup /\ None \notin events)
           /\ packet' = IF poller = "port"
                        THEN [o \in Waiting |-> IF o \in reported THEN "none"
                                                ELSE packet[o]]
                        ELSE packet
           /\ ready' = reported \ FreedByWait(reported)
           /\ removed' = removed \ reported
  /\ at' = "ready"
  /\ UNCHANGED <<contextVars, poller, signalled, opVars, batch, current, outcome,
                 back, last>>

\* m_poller.wait() is interrupted, or fails: nothing is reported.
PollInterrupted ==
  /\ at = "poll"
  /\ at' = "ready"
  /\ UNCHANGED <<contextVars, pollerVars, opVars, batch, ready, current, outcome,
                 back, last>>

\* A wait is done once its handle is ready.
HandleWait(o) ==
  /\ at = "ready"
  /\ o \in ready \cap Waits
  /\ ready' = ready \ {o}
  /\ unregister(o, "value", "ready")
  /\ UNCHANGED <<contextVars, poller, wakeup, signalled, opVars, batch, last>>

\* A mutant: as on Linux, where there is nothing to do.
rearm_nothing(o) == UNCHANGED packet

\* m_poller.rearm(): Windows associates the packet again.
rearm(o) == packet' = [packet EXCEPT ![o] = "waiting"]

\* A watch's on_ready() consumes the readiness, and may request its own stop.
OnReady(o) ==
  /\ at = "ready"
  /\ o \in ready \cap Watches
  /\ ready' = ready \ {o}
  /\ signalled' = signalled \ {o}
  /\ \/ UNCHANGED <<m_cancels, wakeup, callback, stop_requested>>
     \/ /\ o \notin stop_requested
        /\ stop_requested' = stop_requested \cup {o}
        /\ CancelInline(o)

\* Then the watch is rearmed, although it may be on m_cancels by now.
HandleWatch(o) ==
  /\ OnReady(o)
  /\ rearm(o)
  /\ UNCHANGED <<m_tasks, m_registered, m_cancelled, m_stopping, poller, removed,
                 result, armed, waking, at, batch, current, outcome, back, last>>

\* Windows: the watch cannot be rearmed, and ends.
RearmFails(o) ==
  /\ poller = "port"
  /\ OnReady(o)
  /\ unregister(o, "error", "ready")
  /\ UNCHANGED <<m_tasks, m_registered, m_cancelled, m_stopping, poller, result,
                 armed, waking, batch, last>>

PassDone ==
  /\ at = "ready"
  /\ ready = {}
  /\ at' = "top"
  /\ UNCHANGED <<contextVars, pollerVars, opVars, batch, ready, current, outcome,
                 back, last>>

-----------------------------------------------------------------------------
Thread ==
  \/ TakeTasks \/ arm \/ add \/ AddFails \/ finish \/ TakeCancels \/ StopsDone
  \/ poll \/ PassDone
  \/ \E o \in Ops : execute(o)
  \/ \E o \in Waiting : BeginWait(o) \/ StopNext(o) \/ HandleWait(o)
                        \/ HandleWatch(o) \/ RearmFails(o)

\* What the thread that asked a wait to stop does for it.
OnStop(o) == RunCallback(o) \/ cancel(o) \/ WakeForCancel(o)

Next ==
  \/ Thread
  \/ PollInterrupted
  \/ \E o \in Ops : submit(o) \/ RequestStop(o)
  \/ \E o \in Ops \cup {None} : Wake(o)
  \/ \E o \in Waiting : OnStop(o) \/ Signal(o) \/ QueuePacket(o)
  \/ Destroy

Spec == Init /\ [][Next]_vars

\* The thread runs, and its polling is not interrupted for ever; whoever has
\* started to push or to stop goes on; the kernel queues the packets of handles
\* that are signalled.
FairSpec ==
  /\ Spec
  /\ WF_vars(Thread)
  /\ SF_vars(poll)
  /\ \A o \in Ops \cup {None} : WF_vars(Wake(o))
  /\ \A o \in Waiting : WF_vars(OnStop(o)) /\ WF_vars(QueuePacket(o))

-----------------------------------------------------------------------------
TypeOK ==
  /\ m_tasks \in Seq(Ops) /\ m_cancels \in Seq(Waiting) /\ batch \in Seq(Ops)
  /\ m_registered \subseteq Waiting /\ m_cancelled \subseteq Waiting
  /\ m_stopping \in BOOLEAN /\ last \in BOOLEAN /\ wakeup \in BOOLEAN
  /\ poller \in Pollers
  /\ packet \in [Waiting -> {"none", "waiting", "queued"}]
  /\ removed \subseteq Waiting /\ signalled \subseteq Waiting
  /\ result \in [Ops -> {"none", "value", "error", "stopped"}]
  /\ stop_requested \subseteq Ops /\ armed \subseteq Waiting
  /\ callback \in [Waiting -> {"none", "running", "wake", "done"}]
  /\ waking \subseteq Ops \cup {None}
  /\ ready \subseteq Waiting
  /\ current \in Waiting \cup {None}
  /\ outcome \in {"none", "value", "error", "stopped"}
  /\ back \in {"top", "tasks", "cancels", "ready"}
  /\ at \in {"top", "tasks", "arm", "add", "finish", "cancels", "poll", "ready",
             "exited"}

\* The operations that the context, the poller or a stop callback still refers
\* to: on a stack, in a list, reported, armed, or with a callback under way.
Referenced ==
  Queued \cup ToSet(m_cancels) \cup m_registered \cup m_cancelled \cup armed
  \cup ready \cup ({current} \ {None})
  \cup {o \in Waiting : callback[o] \in {"running", "wake"}}
  \cup {o \in Waiting : packet[o] # "none" /\ o \notin removed}

\* Nothing refers to an operation once it has completed and been freed,
\* although its cancellation, its handle and its completion race.
NothingFreedIsUsed == Referenced \cap Done = {}

\* The thread never sleeps with work on a stack unless it has been woken, or
\* whoever pushed first is about to wake it.
NoLostWakeup ==
  at = "poll" /\ ~wakeup
    => /\ m_tasks # <<>> => waking # {}
       /\ m_cancels # <<>> => \E o \in Waiting : callback[o] = "wake"

\* Every wait that is asked to stop completes, whatever else the thread is
\* asked to do meanwhile.
StopsComplete == \A o \in Ops : o \in stop_requested ~> o \in Done

\* A handle that is ready is handled, by every wait and each time by a watch.
ReadyIsHandled ==
  \A o \in Waiting : o \in signalled \cap m_registered
                        ~> o \notin signalled \/ o \in Done

=============================================================================
