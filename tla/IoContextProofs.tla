--------------------------- MODULE IoContextProofs ---------------------------
(***************************************************************************)
(* Theorems about IoContext, for any operations, both pollers and any      *)
(* number of events reported at once.                                      *)
(***************************************************************************)
EXTENDS IoContext, SequenceTheorems, TLAPS

-----------------------------------------------------------------------------
\* The stacks as sequences without repetition.

LEMMA EmptyFacts == ToSet(<<>>) = {} /\ IsInjective(<<>>)
BY DEF ToSet, IsInjective

\* A push goes in front.
LEMMA PushFacts ==
  ASSUME NEW S, NEW s \in Seq(S), NEW x \in S
  PROVE  /\ <<x>> \o s \in Seq(S)
         /\ <<x>> \o s # <<>>
         /\ ToSet(<<x>> \o s) = ToSet(s) \cup {x}
         /\ IsInjective(s) /\ x \notin ToSet(s) => IsInjective(<<x>> \o s)
<1> DEFINE t == <<x>> \o s
<1>1. /\ t \in Seq(S) /\ t # <<>>
      /\ DOMAIN t = 1..(Len(s) + 1)
      /\ DOMAIN s = 1..Len(s)
      /\ Len(s) \in Nat
      /\ t[1] = x
      /\ \A i \in 2..(Len(s) + 1) : t[i] = s[i - 1]
  OBVIOUS
<1>2. \A i \in 1..Len(s) : i + 1 \in 2..(Len(s) + 1) /\ t[i + 1] = s[i]
  BY <1>1
<1>3. ToSet(t) = ToSet(s) \cup {x}
  <2>1. ASSUME NEW v \in ToSet(t) PROVE v \in ToSet(s) \cup {x}
    BY <1>1 DEF ToSet
  <2>2. x \in ToSet(t)
    BY <1>1 DEF ToSet
  <2>3. ASSUME NEW v \in ToSet(s) PROVE v \in ToSet(t)
    <3>1. PICK i \in 1..Len(s) : s[i] = v
      BY <1>1 DEF ToSet
    <3>2. i + 1 \in 1..(Len(s) + 1) /\ t[i + 1] = v
      BY <1>1, <1>2, <3>1
    <3> QED BY <1>1, <3>2 DEF ToSet
  <2> QED BY <2>1, <2>2, <2>3
<1>4. IsInjective(s) /\ x \notin ToSet(s) => IsInjective(t)
  BY <1>1 DEF ToSet, IsInjective
<1> QED BY <1>1, <1>3, <1>4

\* The thread reverses what it took.
LEMMA ReverseFacts ==
  ASSUME NEW S, NEW s \in Seq(S)
  PROVE  /\ Reverse(s) \in Seq(S)
         /\ ToSet(Reverse(s)) = ToSet(s)
         /\ IsInjective(s) => IsInjective(Reverse(s))
<1> DEFINE t == Reverse(s)
           n == Len(s)
<1>1. /\ n \in Nat
      /\ DOMAIN s = 1..n
      /\ \A i \in 1..n : s[i] \in S /\ (n - i) + 1 \in 1..n
  OBVIOUS
<1>2. /\ t \in Seq(S)
      /\ DOMAIN t = 1..n
      /\ \A i \in 1..n : t[i] = s[(n - i) + 1]
  BY <1>1 DEF Reverse
<1>3. \A i \in 1..n : (n - ((n - i) + 1)) + 1 = i
  BY <1>1
<1>4. \A i \in 1..n : s[i] = t[(n - i) + 1]
  BY <1>1, <1>2, <1>3
<1>5. ToSet(t) = ToSet(s)
  BY <1>1, <1>2, <1>4 DEF ToSet
<1>6. IsInjective(s) => IsInjective(t)
  BY <1>1, <1>2 DEF IsInjective
<1> QED BY <1>2, <1>5, <1>6

\* The oldest task is taken off the batch.
LEMMA TailFacts ==
  ASSUME NEW S, NEW s \in Seq(S), s # <<>>, IsInjective(s)
  PROVE  /\ Head(s) \in ToSet(s)
         /\ Tail(s) \in Seq(S)
         /\ ToSet(Tail(s)) = ToSet(s) \ {Head(s)}
         /\ IsInjective(Tail(s))
<1> DEFINE t == Tail(s)
           n == Len(s)
<1>1. /\ n \in Nat \ {0}
      /\ DOMAIN s = 1..n
      /\ Head(s) = s[1]
      /\ t \in Seq(S)
      /\ DOMAIN t = 1..(n - 1)
      /\ \A i \in 1..(n - 1) : t[i] = s[i + 1]
  OBVIOUS
<1>2. \A i \in 2..n : i - 1 \in 1..(n - 1) /\ t[i - 1] = s[i]
  BY <1>1
<1>3. ToSet(t) \subseteq ToSet(s) \ {Head(s)}
  BY <1>1 DEF ToSet, IsInjective
<1>4. ASSUME NEW v \in ToSet(s) \ {Head(s)} PROVE v \in ToSet(t)
  <2>1. PICK i \in 2..n : s[i] = v
    BY <1>1 DEF ToSet
  <2> QED BY <1>1, <1>2, <2>1 DEF ToSet
<1>5. IsInjective(t)
  BY <1>1 DEF IsInjective
<1>6. Head(s) \in ToSet(s)
  BY <1>1 DEF ToSet
<1> QED BY <1>1, <1>3, <1>4, <1>5, <1>6

-----------------------------------------------------------------------------
\* The inductive invariant.

Listed == m_registered \cup m_cancelled

\* What the thread is in the middle of.
ThreadInv ==
  /\ current # None <=> at \in {"arm", "add", "finish"}
  /\ at = "add" => current \in armed
  /\ current \notin Done
  /\ at \notin {"ready", "finish"} => ready = {}
  /\ at = "finish" /\ back # "ready" => ready = {}

\* An operation is queued in one place, and is nowhere else while it is.
QueueInv ==
  /\ IsInjective(m_tasks) /\ IsInjective(batch)
  /\ ToSet(m_tasks) \cap ToSet(batch) = {}
  /\ Queued \cap armed = {} /\ Queued \cap Done = {} /\ current \notin Queued

\* A wait is in a list, cancelled, called back, registered or reported only
\* while its stop callback is installed.
ArmedInv ==
  /\ Listed \subseteq armed
  /\ armed \subseteq Listed \cup {current}
  /\ ToSet(m_cancels) \subseteq armed
  /\ \A o \in Waiting : callback[o] # "none" => o \in armed
  /\ armed \cap Done = {}
  /\ \A o \in Waiting : packet[o] # "none" /\ o \notin removed
                          => o \in Listed \ {current}
  /\ ready \subseteq Listed \ {current}

\* From when a stack is taken until the poller has reported a wake-up, a stack
\* that is not empty has one on its way.
WakeInv ==
  /\ m_tasks # <<>> /\ ~wakeup /\ waking = {}
       => \/ at \in {"top", "ready", "exited"}
          \/ at = "finish" /\ back = "ready"
  /\ m_cancels # <<>> /\ ~wakeup /\ (\A o \in Waiting : callback[o] # "wake")
       => \/ at \notin {"cancels", "poll", "finish"}
          \/ at = "finish" /\ back # "cancels"

\* finish() goes back to one of its callers.
BackInv == at = "finish" => back # "top"

\* Only Windows queues packets.
PollerInv ==
  poller = "epoll" => removed = {} /\ \A o \in Waiting : packet[o] # "queued"

Inv ==
  /\ TypeOK /\ ThreadInv /\ QueueInv /\ ArmedInv /\ WakeInv /\ BackInv
  /\ PollerInv

-----------------------------------------------------------------------------
\* Every step keeps the invariant.

LEMMA QueuedAreOps == TypeOK => Queued \subseteq Ops
BY DEF TypeOK, Queued, ToSet

LEMMA InitInv == Init => Inv
<1> SUFFICES ASSUME Init PROVE Inv
  OBVIOUS
<1>1. TypeOK
  <2>1. /\ m_tasks \in Seq(Ops) /\ m_cancels \in Seq(Waiting) /\ batch \in Seq(Ops)
        /\ packet \in [Waiting -> {"none", "waiting", "queued"}]
        /\ result \in [Ops -> {"none", "value", "error", "stopped"}]
        /\ callback \in [Waiting -> {"none", "running", "wake", "done"}]
    BY DEF Init
  <2>2. m_stopping \in BOOLEAN /\ last \in BOOLEAN /\ wakeup \in BOOLEAN
    BY Zenon DEF Init
  <2> QED BY <2>1, <2>2 DEF Init, TypeOK
<1>2. Queued = {} /\ Done = {} /\ Listed = {} /\ ToSet(m_cancels) = {}
  BY EmptyFacts DEF Init, Queued, Done, Listed
<1>3. ThreadInv /\ ArmedInv /\ WakeInv /\ BackInv /\ PollerInv
  BY <1>2, OpsAssumption DEF Init, ThreadInv, ArmedInv, WakeInv, BackInv,
     PollerInv
<1>4. QueueInv
  BY <1>2, EmptyFacts DEF Init, QueueInv
<1> QED BY <1>1, <1>3, <1>4 DEF Inv

\* A push of work onto m_tasks.
LEMMA SubmitKeeps ==
  ASSUME Inv, NEW o \in Ops, submit(o)
  PROVE  Inv'
<1>1. /\ m_tasks \in Seq(Ops) /\ o \notin ToSet(m_tasks) /\ IsInjective(m_tasks)
  BY OpsAssumption DEF Inv, TypeOK, QueueInv, submit, Begun, Queued
<1>2. /\ m_tasks' \in Seq(Ops) /\ m_tasks' # <<>>
      /\ ToSet(m_tasks') = ToSet(m_tasks) \cup {o}
      /\ IsInjective(m_tasks')
  BY <1>1, PushFacts, Zenon DEF submit
<1>3. TypeOK'
  BY DEF Inv, TypeOK, submit, pollerVars, threadVars
<1>4. ThreadInv'
  BY DEF Inv, ThreadInv, Done, submit, threadVars
<1>5. QueueInv'
  BY <1>2, OpsAssumption DEF Inv, QueueInv, ArmedInv, Queued, Done, Listed,
     submit, Begun, threadVars
<1>6. ArmedInv'
  BY DEF Inv, ArmedInv, Done, Listed, submit, pollerVars, threadVars
<1>7. WakeInv'
  BY DEF Inv, WakeInv, submit, pollerVars, threadVars
<1>8. BackInv'
  BY DEF Inv, BackInv, submit, threadVars
<1>9. PollerInv'
  BY DEF Inv, PollerInv, submit, pollerVars
<1> QED BY <1>3, <1>4, <1>5, <1>6, <1>7, <1>8, <1>9 DEF Inv

\* The wake after a push onto an empty stack.
LEMMA WakeKeeps ==
  ASSUME Inv, NEW o \in Ops \cup {None}, Wake(o)
  PROVE  Inv'
<1>1. TypeOK'
  BY DEF Inv, TypeOK, Wake, contextVars, threadVars
<1>2. ThreadInv'
  BY DEF Inv, ThreadInv, Done, Wake, threadVars
<1>3. QueueInv'
  BY DEF Inv, QueueInv, Queued, Done, Wake, contextVars, threadVars
<1>4. ArmedInv'
  BY DEF Inv, ArmedInv, Done, Listed, Wake, contextVars, threadVars
<1>5. WakeInv'
  BY DEF Inv, WakeInv, Wake
<1>6. BackInv'
  BY DEF Inv, BackInv, Wake, threadVars
<1>7. PollerInv'
  BY DEF Inv, PollerInv, Wake
<1> QED BY <1>1, <1>2, <1>3, <1>4, <1>5, <1>6, <1>7 DEF Inv

\* A stop is requested.
LEMMA RequestStopKeeps ==
  ASSUME Inv, NEW o \in Ops, RequestStop(o)
  PROVE  Inv'
<1>1. TypeOK'
  BY DEF Inv, TypeOK, RequestStop, contextVars, pollerVars, threadVars
<1>2. ThreadInv'
  BY DEF Inv, ThreadInv, Done, RequestStop, threadVars
<1>3. QueueInv'
  BY DEF Inv, QueueInv, Queued, Done, RequestStop, contextVars, threadVars
<1>4. ArmedInv'
  BY DEF Inv, ArmedInv, Done, Listed, RequestStop, contextVars, pollerVars,
     threadVars
<1>5. WakeInv'
  BY DEF Inv, WakeInv, RequestStop, contextVars, pollerVars, threadVars
<1>6. BackInv'
  BY DEF Inv, BackInv, RequestStop, threadVars
<1>7. PollerInv'
  BY DEF Inv, PollerInv, RequestStop, pollerVars
<1> QED BY <1>1, <1>2, <1>3, <1>4, <1>5, <1>6, <1>7 DEF Inv

\* A stop callback begins on another thread.
LEMMA RunCallbackKeeps ==
  ASSUME Inv, NEW o \in Waiting, RunCallback(o)
  PROVE  Inv'
<1>1. TypeOK'
  BY DEF Inv, TypeOK, RunCallback, contextVars, pollerVars, threadVars
<1>2. ThreadInv'
  BY DEF Inv, ThreadInv, Done, RunCallback, threadVars
<1>3. QueueInv'
  BY DEF Inv, QueueInv, Queued, Done, RunCallback, contextVars, threadVars
<1>4. ArmedInv'
  BY DEF Inv, ArmedInv, Done, Listed, RunCallback, contextVars, pollerVars,
     threadVars
<1>5. WakeInv'
  BY DEF Inv, WakeInv, RunCallback, contextVars, pollerVars, threadVars
<1>6. BackInv'
  BY DEF Inv, BackInv, RunCallback, threadVars
<1>7. PollerInv'
  BY DEF Inv, PollerInv, RunCallback, pollerVars
<1> QED BY <1>1, <1>2, <1>3, <1>4, <1>5, <1>6, <1>7 DEF Inv

\* The callback pushes its wait onto m_cancels.
LEMMA CancelKeeps ==
  ASSUME Inv, NEW o \in Waiting, cancel(o)
  PROVE  Inv'
<1>1. m_cancels \in Seq(Waiting)
  BY DEF Inv, TypeOK
<1>2. /\ <<o>> \o m_cancels \in Seq(Waiting)
      /\ ToSet(<<o>> \o m_cancels) = ToSet(m_cancels) \cup {o}
  BY <1>1, PushFacts
<1>3. /\ m_cancels' \in Seq(Waiting)
      /\ ToSet(m_cancels') = ToSet(m_cancels) \cup {o}
  BY <1>2, Zenon DEF cancel
<1>4. TypeOK'
  BY DEF Inv, TypeOK, cancel, pollerVars, threadVars
<1>5. ThreadInv'
  BY DEF Inv, ThreadInv, Done, cancel, threadVars
<1>6. QueueInv'
  BY DEF Inv, QueueInv, Queued, Done, cancel, threadVars
<1>7. ArmedInv'
  BY <1>3 DEF Inv, ArmedInv, Done, Listed, cancel, pollerVars, threadVars
<1>8. WakeInv'
  BY DEF Inv, TypeOK, WakeInv, cancel, pollerVars, threadVars
<1>9. BackInv'
  BY DEF Inv, BackInv, cancel, threadVars
<1>10. PollerInv'
  BY DEF Inv, PollerInv, cancel, pollerVars
<1> QED BY <1>4, <1>5, <1>6, <1>7, <1>8, <1>9, <1>10 DEF Inv

\* The wake after that push.
LEMMA WakeForCancelKeeps ==
  ASSUME Inv, NEW o \in Waiting, WakeForCancel(o)
  PROVE  Inv'
<1>1. TypeOK'
  BY DEF Inv, TypeOK, WakeForCancel, contextVars, threadVars
<1>2. ThreadInv'
  BY DEF Inv, ThreadInv, Done, WakeForCancel, threadVars
<1>3. QueueInv'
  BY DEF Inv, QueueInv, Queued, Done, WakeForCancel, contextVars, threadVars
<1>4. ArmedInv'
  BY DEF Inv, ArmedInv, Done, Listed, WakeForCancel, contextVars, threadVars
<1>5. WakeInv'
  BY DEF Inv, WakeInv, WakeForCancel
<1>6. BackInv'
  BY DEF Inv, BackInv, WakeForCancel, threadVars
<1>7. PollerInv'
  BY DEF Inv, PollerInv, WakeForCancel
<1> QED BY <1>1, <1>2, <1>3, <1>4, <1>5, <1>6, <1>7 DEF Inv

\* A handle becomes ready.
LEMMA SignalKeeps ==
  ASSUME Inv, NEW o \in Waiting, Signal(o)
  PROVE  Inv'
<1>1. TypeOK'
  BY DEF Inv, TypeOK, Signal, contextVars, opVars, threadVars
<1>2. ThreadInv'
  BY DEF Inv, ThreadInv, Done, Signal, opVars, threadVars
<1>3. QueueInv'
  BY DEF Inv, QueueInv, Queued, Done, Signal, contextVars, opVars, threadVars
<1>4. ArmedInv'
  BY DEF Inv, ArmedInv, Done, Listed, Signal, contextVars, opVars, threadVars
<1>5. WakeInv'
  BY DEF Inv, WakeInv, Signal, contextVars, opVars, threadVars
<1>6. BackInv'
  BY DEF Inv, BackInv, Signal, threadVars
<1>7. PollerInv'
  BY DEF Inv, PollerInv, Signal
<1> QED BY <1>1, <1>2, <1>3, <1>4, <1>5, <1>6, <1>7 DEF Inv

\* The kernel queues a packet.
LEMMA QueuePacketKeeps ==
  ASSUME Inv, NEW o \in Waiting, QueuePacket(o)
  PROVE  Inv'
<1>1. TypeOK'
  BY DEF Inv, TypeOK, QueuePacket, contextVars, opVars, threadVars
<1>2. ThreadInv'
  BY DEF Inv, ThreadInv, Done, QueuePacket, opVars, threadVars
<1>3. QueueInv'
  BY DEF Inv, QueueInv, Queued, Done, QueuePacket, contextVars, opVars,
     threadVars
<1>4. ArmedInv'
  BY DEF Inv, ArmedInv, Done, Listed, QueuePacket, contextVars, opVars,
     threadVars
<1>5. WakeInv'
  BY DEF Inv, WakeInv, QueuePacket, contextVars, opVars, threadVars
<1>6. BackInv'
  BY DEF Inv, BackInv, QueuePacket, threadVars
<1>7. PollerInv'
  BY DEF Inv, PollerInv, QueuePacket
<1> QED BY <1>1, <1>2, <1>3, <1>4, <1>5, <1>6, <1>7 DEF Inv

\* The owner stops the context.
LEMMA DestroyKeeps ==
  ASSUME Inv, Destroy
  PROVE  Inv'
<1>1. TypeOK'
  BY DEF Inv, TypeOK, Destroy, pollerVars, threadVars
<1>2. ThreadInv'
  BY DEF Inv, ThreadInv, Done, Destroy, threadVars
<1>3. QueueInv'
  BY DEF Inv, QueueInv, Queued, Done, Destroy, threadVars
<1>4. ArmedInv'
  BY DEF Inv, ArmedInv, Done, Listed, Destroy, pollerVars, threadVars
<1>5. WakeInv'
  BY DEF Inv, WakeInv, Destroy, pollerVars, threadVars
<1>6. BackInv'
  BY DEF Inv, BackInv, Destroy, threadVars
<1>7. PollerInv'
  BY DEF Inv, PollerInv, Destroy, pollerVars
<1> QED BY <1>1, <1>2, <1>3, <1>4, <1>5, <1>6, <1>7 DEF Inv

\* The thread takes the stack of tasks.
LEMMA TakeTasksKeeps ==
  ASSUME Inv, TakeTasks
  PROVE  Inv'
<1>1. /\ batch' \in Seq(Ops) /\ ToSet(batch') = ToSet(m_tasks)
      /\ IsInjective(batch')
      /\ m_tasks' = <<>> /\ ToSet(m_tasks') = {} /\ IsInjective(m_tasks')
  BY ReverseFacts, EmptyFacts, Zenon DEF Inv, TypeOK, QueueInv, TakeTasks
<1>2. TypeOK'
  BY <1>1 DEF Inv, TypeOK, TakeTasks, pollerVars, opVars
<1>3. ThreadInv'
  BY DEF Inv, ThreadInv, Done, TakeTasks, opVars
<1>4. QueueInv'
  BY <1>1 DEF Inv, QueueInv, Queued, Done, TakeTasks, opVars
<1>5. ArmedInv'
  BY DEF Inv, ArmedInv, Done, Listed, TakeTasks, pollerVars, opVars
<1>6. WakeInv'
  BY DEF Inv, WakeInv, TakeTasks
<1>7. BackInv'
  BY DEF Inv, BackInv, TakeTasks
<1>8. PollerInv'
  BY DEF Inv, PollerInv, TakeTasks, pollerVars
<1> QED BY <1>2, <1>3, <1>4, <1>5, <1>6, <1>7, <1>8 DEF Inv

\* An operation completes as it is executed.
LEMMA ExecuteKeeps ==
  ASSUME Inv, NEW o \in Ops, execute(o)
  PROVE  Inv'
<1>1. /\ batch' \in Seq(Ops) /\ o \in ToSet(batch)
      /\ ToSet(batch') = ToSet(batch) \ {o}
      /\ IsInjective(batch')
  BY TailFacts, Zenon DEF Inv, TypeOK, QueueInv, execute
<1>2. TypeOK'
  BY DEF Inv, TypeOK, execute, Complete, contextVars
<1>3. ThreadInv'
  BY OpsAssumption DEF Inv, ThreadInv, Done, execute
<1>4. QueueInv'
  BY <1>1 DEF Inv, QueueInv, Queued, Done, execute, Complete, contextVars
<1>5. ArmedInv'
  BY <1>1 DEF Inv, QueueInv, ArmedInv, Queued, Done, Listed, execute, Complete,
     contextVars
<1>6. WakeInv'
  BY DEF Inv, WakeInv, execute, contextVars
<1>7. BackInv'
  BY DEF Inv, BackInv, execute
<1>8. PollerInv'
  BY DEF Inv, PollerInv, execute
<1> QED BY <1>2, <1>3, <1>4, <1>5, <1>6, <1>7, <1>8 DEF Inv

\* A wait begins.
LEMMA BeginWaitKeeps ==
  ASSUME Inv, NEW o \in Waiting, BeginWait(o)
  PROVE  Inv'
<1>1. /\ batch' \in Seq(Ops) /\ o \in ToSet(batch)
      /\ ToSet(batch') = ToSet(batch) \ {o}
      /\ IsInjective(batch')
  BY TailFacts, Zenon DEF Inv, TypeOK, QueueInv, BeginWait
<1>2. TypeOK'
  BY DEF Inv, TypeOK, BeginWait, contextVars, pollerVars, opVars
<1>3. ThreadInv'
  BY <1>1 DEF Inv, ThreadInv, QueueInv, Queued, Done, BeginWait, opVars
<1>4. QueueInv'
  BY <1>1 DEF Inv, QueueInv, Queued, Done, BeginWait, contextVars, opVars
<1>5. ArmedInv'
  BY <1>1, OpsAssumption DEF Inv, TypeOK, ThreadInv, QueueInv, ArmedInv,
     Queued, Done, Listed, BeginWait, contextVars, pollerVars, opVars, Ops
<1>6. WakeInv'
  BY DEF Inv, WakeInv, BeginWait, contextVars, pollerVars, opVars
<1>7. BackInv'
  BY DEF Inv, BackInv, BeginWait
<1>8. PollerInv'
  BY DEF Inv, PollerInv, BeginWait, pollerVars
<1> QED BY <1>2, <1>3, <1>4, <1>5, <1>6, <1>7, <1>8 DEF Inv

\* Its stop callback is installed, and may run at once.
LEMMA ArmKeeps ==
  ASSUME Inv, arm
  PROVE  Inv'
<1>1. m_cancels \in Seq(Waiting)
  BY DEF Inv, TypeOK
<1>2. current \in Waiting
  BY DEF Inv, TypeOK, ThreadInv, arm
<1>3. /\ <<current>> \o m_cancels \in Seq(Waiting)
      /\ ToSet(<<current>> \o m_cancels) = ToSet(m_cancels) \cup {current}
  BY <1>1, <1>2, PushFacts
<1>4. /\ m_cancels' \in Seq(Waiting)
      /\ ToSet(m_cancels') \subseteq ToSet(m_cancels) \cup {current}
  BY <1>1, <1>3 DEF arm, CancelInline
<1>5. TypeOK'
  BY <1>2, <1>4 DEF Inv, TypeOK, arm, CancelInline
<1>6. ThreadInv'
  BY DEF Inv, ThreadInv, Done, arm
<1>7. QueueInv'
  BY DEF Inv, QueueInv, Queued, Done, arm
<1>8. ArmedInv'
  BY <1>4 DEF Inv, TypeOK, ThreadInv, ArmedInv, Done, Listed, arm, CancelInline
<1>9. WakeInv'
  BY DEF Inv, WakeInv, arm, CancelInline
<1>10. BackInv'
  BY DEF Inv, BackInv, arm
<1>11. PollerInv'
  BY DEF Inv, PollerInv, arm
<1> QED BY <1>5, <1>6, <1>7, <1>8, <1>9, <1>10, <1>11 DEF Inv

\* Its handle is registered.
LEMMA AddKeeps ==
  ASSUME Inv, add
  PROVE  Inv'
<1>1. current \in Waiting /\ current \in armed
  BY DEF Inv, TypeOK, ThreadInv, add
<1>2. None \notin Queued
  BY QueuedAreOps, OpsAssumption DEF Inv
<1>3. TypeOK'
  BY <1>1 DEF Inv, TypeOK, add, opVars
<1>4. ThreadInv'
  BY OpsAssumption DEF Inv, ThreadInv, Done, add
<1>5. QueueInv'
  BY <1>2 DEF Inv, QueueInv, Queued, Done, add, opVars
<1>6. ArmedInv'
  BY OpsAssumption DEF Inv, ThreadInv, ArmedInv, Done, Listed, add, opVars, Ops
<1>7. WakeInv'
  BY DEF Inv, WakeInv, add, opVars
<1>8. BackInv'
  BY DEF Inv, BackInv, add
<1>9. PollerInv'
  BY DEF Inv, PollerInv, add
<1> QED BY <1>3, <1>4, <1>5, <1>6, <1>7, <1>8, <1>9 DEF Inv

\* Its handle cannot be registered.
LEMMA AddFailsKeeps ==
  ASSUME Inv, AddFails
  PROVE  Inv'
<1>1. TypeOK'
  BY DEF Inv, TypeOK, AddFails, contextVars, pollerVars, opVars
<1>2. ThreadInv'
  BY DEF Inv, ThreadInv, Done, AddFails, opVars
<1>3. QueueInv'
  BY DEF Inv, QueueInv, Queued, Done, AddFails, contextVars, opVars
<1>4. ArmedInv'
  BY DEF Inv, ArmedInv, Done, Listed, AddFails, contextVars, pollerVars, opVars
<1>5. WakeInv'
  BY DEF Inv, WakeInv, AddFails, contextVars, pollerVars, opVars
<1>6. BackInv'
  BY DEF Inv, BackInv, AddFails
<1>7. PollerInv'
  BY DEF Inv, PollerInv, AddFails, pollerVars
<1> QED BY <1>1, <1>2, <1>3, <1>4, <1>5, <1>6, <1>7 DEF Inv

\* A wait completes and is freed: by now nothing else has it.
LEMMA FinishKeeps ==
  ASSUME Inv, finish
  PROVE  Inv'
<1>1. /\ current \in Waiting /\ ToSet(m_cancels) \subseteq Waiting
      /\ m_cancels' = <<>> /\ ToSet(m_cancels') = {}
  BY EmptyFacts DEF Inv, TypeOK, ThreadInv, finish, take_cancels, ToSet
<1>2. Done' \subseteq Done \cup {current}
  BY <1>1 DEF Inv, TypeOK, Done, finish, Complete, Ops, Waiting
<1>3. None \notin Queued
  BY QueuedAreOps, OpsAssumption DEF Inv
<1>4. TypeOK'
  BY <1>1 DEF Inv, TypeOK, finish, take_cancels, Complete, Ops
<1>5. ThreadInv'
  BY OpsAssumption DEF Inv, TypeOK, ThreadInv, Done, finish
<1>6. QueueInv'
  BY <1>2, <1>3 DEF Inv, QueueInv, Queued, finish
<1>7. ArmedInv'
  BY <1>1, <1>2, OpsAssumption DEF Inv, TypeOK, ArmedInv, Listed, finish,
     take_cancels, disarm, Ops
<1>8. WakeInv'
  BY <1>1 DEF Inv, WakeInv, finish
<1>9. BackInv'
  BY DEF Inv, TypeOK, BackInv, finish
<1>10. PollerInv'
  BY DEF Inv, PollerInv, finish
<1> QED BY <1>4, <1>5, <1>6, <1>7, <1>8, <1>9, <1>10 DEF Inv

\* The thread takes the cancellations.
LEMMA TakeCancelsKeeps ==
  ASSUME Inv, TakeCancels
  PROVE  Inv'
<1>1. /\ current = None /\ ToSet(m_cancels) \subseteq Waiting
      /\ m_cancels' = <<>> /\ ToSet(m_cancels') = {}
  BY EmptyFacts DEF Inv, TypeOK, ThreadInv, TakeCancels, take_cancels, ToSet
<1>2. TypeOK'
  BY <1>1 DEF Inv, TypeOK, TakeCancels, take_cancels, pollerVars, opVars
<1>3. ThreadInv'
  BY DEF Inv, ThreadInv, Done, TakeCancels, opVars
<1>4. QueueInv'
  BY DEF Inv, QueueInv, Queued, Done, TakeCancels, opVars
<1>5. ArmedInv'
  BY <1>1 DEF Inv, ArmedInv, Done, Listed, TakeCancels, take_cancels,
     pollerVars, opVars
<1>6. WakeInv'
  BY <1>1 DEF Inv, WakeInv, TakeCancels, pollerVars, opVars
<1>7. BackInv'
  BY DEF Inv, BackInv, TakeCancels
<1>8. PollerInv'
  BY DEF Inv, PollerInv, TakeCancels, pollerVars
<1> QED BY <1>2, <1>3, <1>4, <1>5, <1>6, <1>7, <1>8 DEF Inv

\* A cancelled wait is taken back from the poller.
LEMMA StopNextKeeps ==
  ASSUME Inv, NEW o \in Waiting, StopNext(o)
  PROVE  Inv'
<1>1. TypeOK'
  BY DEF Inv, TypeOK, StopNext, unregister, contextVars, opVars
<1>2. ThreadInv'
  BY OpsAssumption DEF Inv, ThreadInv, ArmedInv, Done, Listed, StopNext,
     unregister, opVars, Ops
<1>3. QueueInv'
  BY DEF Inv, QueueInv, ArmedInv, Queued, Done, Listed, StopNext, unregister,
     contextVars, opVars
<1>4. ArmedInv'
  BY OpsAssumption DEF Inv, TypeOK, ThreadInv, ArmedInv, Done, Listed,
     StopNext, unregister, contextVars, opVars, Ops
<1>5. WakeInv'
  BY DEF Inv, WakeInv, StopNext, contextVars, opVars
<1>6. BackInv'
  BY DEF Inv, BackInv, StopNext, unregister
<1>7. PollerInv'
  BY DEF Inv, PollerInv, StopNext, unregister
<1> QED BY <1>1, <1>2, <1>3, <1>4, <1>5, <1>6, <1>7 DEF Inv

\* The thread goes to sleep, or ends.
LEMMA StopsDoneKeeps ==
  ASSUME Inv, StopsDone
  PROVE  Inv'
<1>1. TypeOK'
  BY DEF Inv, TypeOK, StopsDone, contextVars, pollerVars, opVars
<1>2. ThreadInv'
  BY DEF Inv, ThreadInv, Done, StopsDone, opVars
<1>3. QueueInv'
  BY DEF Inv, QueueInv, Queued, Done, StopsDone, contextVars, opVars
<1>4. ArmedInv'
  BY DEF Inv, ArmedInv, Done, Listed, StopsDone, contextVars, pollerVars, opVars
<1>5. WakeInv'
  BY DEF Inv, WakeInv, StopsDone, contextVars, pollerVars, opVars
<1>6. BackInv'
  BY DEF Inv, BackInv, StopsDone
<1>7. PollerInv'
  BY DEF Inv, PollerInv, StopsDone, pollerVars
<1> QED BY <1>1, <1>2, <1>3, <1>4, <1>5, <1>6, <1>7 DEF Inv

\* The poller reports waits that are still listed.
LEMMA PollKeeps ==
  ASSUME Inv, poll
  PROVE  Inv'
<1>1. PICK reported \in SUBSET Waiting :
        /\ reported \subseteq Reportable
        /\ packet' = IF poller = "port"
                     THEN [o \in Waiting |-> IF o \in reported THEN "none"
                                             ELSE packet[o]]
                     ELSE packet
        /\ ready' = reported \ (reported \cap removed)
        /\ removed' = removed \ reported
  BY DEF poll, FreedByWait, Reportable
<1>2. \A o \in Waiting : packet'[o] # "none" /\ o \notin removed'
         => packet[o] # "none" /\ o \notin removed
  <2>1. CASE poller = "port"
    BY <1>1, <2>1
  <2>2. CASE poller = "epoll"
    BY <1>1, <2>2 DEF Inv, PollerInv
  <2> QED BY <2>1, <2>2, PollerAssumption DEF Inv, TypeOK
<1>3. ready' \subseteq Listed \ {current}
  BY <1>1 DEF Inv, ArmedInv, Reportable
<1>4. TypeOK'
  BY <1>1, OpsAssumption DEF Inv, TypeOK, poll, contextVars, opVars
<1>5. ThreadInv'
  BY DEF Inv, ThreadInv, Done, poll, opVars
<1>6. QueueInv'
  BY DEF Inv, QueueInv, Queued, Done, poll, contextVars, opVars
<1>7. ArmedInv'
  BY <1>2, <1>3 DEF Inv, ArmedInv, poll, contextVars, opVars, Done, Listed
<1>8. WakeInv'
  BY DEF Inv, WakeInv, poll
<1>9. BackInv'
  BY DEF Inv, BackInv, poll
<1>10. PollerInv'
  BY DEF Inv, PollerInv, poll
<1> QED BY <1>4, <1>5, <1>6, <1>7, <1>8, <1>9, <1>10 DEF Inv

\* The poller reports nothing.
LEMMA PollInterruptedKeeps ==
  ASSUME Inv, PollInterrupted
  PROVE  Inv'
<1>1. TypeOK'
  BY DEF Inv, TypeOK, PollInterrupted, contextVars, pollerVars, opVars
<1>2. ThreadInv'
  BY DEF Inv, ThreadInv, Done, PollInterrupted, opVars
<1>3. QueueInv'
  BY DEF Inv, QueueInv, Queued, Done, PollInterrupted, contextVars, opVars
<1>4. ArmedInv'
  BY DEF Inv, ArmedInv, Done, Listed, PollInterrupted, contextVars, pollerVars,
     opVars
<1>5. WakeInv'
  BY DEF Inv, WakeInv, PollInterrupted
<1>6. BackInv'
  BY DEF Inv, BackInv, PollInterrupted
<1>7. PollerInv'
  BY DEF Inv, PollerInv, PollInterrupted, pollerVars
<1> QED BY <1>1, <1>2, <1>3, <1>4, <1>5, <1>6, <1>7 DEF Inv

\* A wait whose handle is ready is taken back from the poller.
LEMMA HandleWaitKeeps ==
  ASSUME Inv, NEW o \in Waiting, HandleWait(o)
  PROVE  Inv'
<1>1. TypeOK'
  BY DEF Inv, TypeOK, HandleWait, unregister, contextVars, opVars
<1>2. ThreadInv'
  BY DEF Inv, ThreadInv, ArmedInv, Done, HandleWait, unregister, opVars
<1>3. QueueInv'
  BY DEF Inv, QueueInv, ArmedInv, Queued, Done, HandleWait, unregister,
     contextVars, opVars
<1>4. ArmedInv'
  BY OpsAssumption DEF Inv, TypeOK, ThreadInv, ArmedInv, Done, Listed,
     HandleWait, unregister, contextVars, opVars, Ops
<1>5. WakeInv'
  BY DEF Inv, WakeInv, HandleWait, unregister
<1>6. BackInv'
  BY DEF Inv, BackInv, HandleWait, unregister
<1>7. PollerInv'
  BY DEF Inv, PollerInv, HandleWait, unregister
<1> QED BY <1>1, <1>2, <1>3, <1>4, <1>5, <1>6, <1>7 DEF Inv

\* A watch is called, and may cancel itself.
LEMMA HandleWatchKeeps ==
  ASSUME Inv, NEW o \in Waiting, HandleWatch(o)
  PROVE  Inv'
<1>1. m_cancels \in Seq(Waiting)
  BY DEF Inv, TypeOK
<1>2. /\ <<o>> \o m_cancels \in Seq(Waiting)
      /\ ToSet(<<o>> \o m_cancels) = ToSet(m_cancels) \cup {o}
  BY <1>1, PushFacts
<1>3. o \in armed
  BY DEF Inv, ArmedInv, HandleWatch, OnReady
<1>4. /\ m_cancels' \in Seq(Waiting)
      /\ ToSet(m_cancels') \subseteq ToSet(m_cancels) \cup {o}
  BY <1>1, <1>2 DEF HandleWatch, OnReady, CancelInline
<1>5. TypeOK'
  BY <1>4 DEF Inv, TypeOK, HandleWatch, OnReady, CancelInline, rearm, Ops
<1>6. ThreadInv'
  BY DEF Inv, ThreadInv, Done, HandleWatch, OnReady
<1>7. QueueInv'
  BY DEF Inv, QueueInv, Queued, Done, HandleWatch, OnReady
<1>8. ArmedInv'
  BY <1>4 DEF Inv, TypeOK, ArmedInv, Done, Listed, HandleWatch, OnReady,
     CancelInline, rearm
<1>9. WakeInv'
  BY DEF Inv, WakeInv, HandleWatch, OnReady
<1>10. BackInv'
  BY DEF Inv, BackInv, HandleWatch, OnReady
<1>11. PollerInv'
  BY DEF Inv, PollerInv, HandleWatch, OnReady, rearm
<1> QED BY <1>5, <1>6, <1>7, <1>8, <1>9, <1>10, <1>11 DEF Inv

\* A watch that cannot be rearmed is taken back.
LEMMA RearmFailsKeeps ==
  ASSUME Inv, NEW o \in Waiting, RearmFails(o)
  PROVE  Inv'
<1>1. m_cancels \in Seq(Waiting)
  BY DEF Inv, TypeOK
<1>2. /\ <<o>> \o m_cancels \in Seq(Waiting)
      /\ ToSet(<<o>> \o m_cancels) = ToSet(m_cancels) \cup {o}
  BY <1>1, PushFacts
<1>3. o \in armed
  BY DEF Inv, ArmedInv, RearmFails, OnReady
<1>4. /\ m_cancels' \in Seq(Waiting)
      /\ ToSet(m_cancels') \subseteq ToSet(m_cancels) \cup {o}
  BY <1>1, <1>2 DEF RearmFails, OnReady, CancelInline
<1>5. TypeOK'
  <2>1. /\ removed' \subseteq Waiting /\ signalled' \subseteq Waiting
        /\ packet' \in [Waiting -> {"none", "waiting", "queued"}]
    BY DEF Inv, TypeOK, RearmFails, OnReady, unregister
  <2>2. /\ stop_requested' \subseteq Ops /\ wakeup' \in BOOLEAN
        /\ callback' \in [Waiting -> {"none", "running", "wake", "done"}]
    BY DEF Inv, TypeOK, RearmFails, OnReady, CancelInline, Waiting, Ops
  <2>3. /\ current' \in Waiting \cup {None} /\ outcome' = "error"
        /\ back' = "ready" /\ at' = "finish" /\ ready' \subseteq Waiting
    BY DEF Inv, TypeOK, RearmFails, OnReady, unregister
  <2> QED BY <1>4, <2>1, <2>2, <2>3 DEF Inv, TypeOK, RearmFails
<1>6. ThreadInv'
  BY DEF Inv, ThreadInv, ArmedInv, Done, RearmFails, OnReady, unregister
<1>7. QueueInv'
  BY DEF Inv, QueueInv, ArmedInv, Queued, Done, RearmFails, OnReady, unregister
<1>8. ArmedInv'
  BY <1>3, <1>4, OpsAssumption DEF Inv, TypeOK, ThreadInv, ArmedInv, Done,
     Listed, RearmFails, OnReady, CancelInline, unregister, Ops
<1>9. WakeInv'
  BY DEF Inv, WakeInv, RearmFails, OnReady, unregister
<1>10. BackInv'
  BY DEF Inv, BackInv, RearmFails, OnReady, unregister
<1>11. PollerInv'
  BY DEF Inv, PollerInv, RearmFails
<1> QED BY <1>5, <1>6, <1>7, <1>8, <1>9, <1>10, <1>11 DEF Inv

\* The thread starts a new pass.
LEMMA PassDoneKeeps ==
  ASSUME Inv, PassDone
  PROVE  Inv'
<1>1. TypeOK'
  BY DEF Inv, TypeOK, PassDone, contextVars, pollerVars, opVars
<1>2. ThreadInv'
  BY DEF Inv, ThreadInv, Done, PassDone, opVars
<1>3. QueueInv'
  BY DEF Inv, QueueInv, Queued, Done, PassDone, contextVars, opVars
<1>4. ArmedInv'
  BY DEF Inv, ArmedInv, Done, Listed, PassDone, contextVars, pollerVars, opVars
<1>5. WakeInv'
  BY DEF Inv, WakeInv, PassDone
<1>6. BackInv'
  BY DEF Inv, BackInv, PassDone
<1>7. PollerInv'
  BY DEF Inv, PollerInv, PassDone, pollerVars
<1> QED BY <1>1, <1>2, <1>3, <1>4, <1>5, <1>6, <1>7 DEF Inv

\* The next-state relation, and stuttering, keep the invariant.
LEMMA NextKeeps == Inv /\ [Next]_vars => Inv'
<1> SUFFICES ASSUME Inv, [Next]_vars PROVE Inv'
  OBVIOUS
<1>1. CASE Thread
  BY <1>1, TakeTasksKeeps, ArmKeeps, AddKeeps, AddFailsKeeps, FinishKeeps,
     TakeCancelsKeeps, StopsDoneKeeps, PollKeeps, PassDoneKeeps, ExecuteKeeps,
     BeginWaitKeeps, StopNextKeeps, HandleWaitKeeps, HandleWatchKeeps,
     RearmFailsKeeps, Zenon
     DEF Thread
<1>2. CASE PollInterrupted
  BY <1>2, PollInterruptedKeeps
<1>3. CASE \E o \in Ops : submit(o) \/ RequestStop(o)
  BY <1>3, SubmitKeeps, RequestStopKeeps, Zenon
<1>4. CASE \E o \in Ops \cup {None} : Wake(o)
  BY <1>4, WakeKeeps, Zenon
<1>5. CASE \E o \in Waiting : OnStop(o) \/ Signal(o) \/ QueuePacket(o)
  BY <1>5, RunCallbackKeeps, CancelKeeps, WakeForCancelKeeps, SignalKeeps,
     QueuePacketKeeps, Zenon
     DEF OnStop
<1>6. CASE Destroy
  BY <1>6, DestroyKeeps
<1>7. CASE UNCHANGED vars
  <2>1. /\ UNCHANGED <<m_tasks, m_cancels, m_registered, m_cancelled, m_stopping>>
        /\ UNCHANGED <<poller, wakeup, packet, removed, signalled>>
        /\ UNCHANGED <<result, stop_requested, armed, callback, waking>>
        /\ UNCHANGED <<at, batch, ready, current, outcome, back, last>>
    BY <1>7 DEF vars, contextVars, pollerVars, opVars, threadVars
  <2>2. TypeOK' /\ ThreadInv' /\ QueueInv' /\ ArmedInv'
    BY <2>1 DEF Inv, TypeOK, ThreadInv, QueueInv, ArmedInv, Queued, Done, Listed
  <2>3. WakeInv' /\ BackInv' /\ PollerInv'
    BY <2>1 DEF Inv, WakeInv, BackInv, PollerInv
  <2> QED BY <2>2, <2>3 DEF Inv
<1> QED BY <1>1, <1>2, <1>3, <1>4, <1>5, <1>6, <1>7, Zenon DEF Next

-----------------------------------------------------------------------------
\* The invariant holds in every reachable state.
THEOREM IoInvariance == Spec => []Inv
BY InitInv, NextKeeps, PTL DEF Spec

\* The context's, the poller's and the thread's state have their types.
THEOREM IoTypes == Spec => []TypeOK
<1>1. Inv => TypeOK
  BY DEF Inv
<1> QED BY <1>1, IoInvariance, PTL

\* No stack, list, report or stop callback refers to an operation that has
\* completed: finish() has waited out its callback and taken it off m_cancels.
THEOREM NothingFreed == Spec => []NothingFreedIsUsed
<1>1. Inv => NothingFreedIsUsed
  BY DEF Inv, TypeOK, ThreadInv, QueueInv, ArmedInv, NothingFreedIsUsed,
         Referenced, Listed
<1> QED BY <1>1, IoInvariance, PTL

\* The thread never sleeps on a stack that nobody is going to wake it for.
THEOREM WakeupsArrive == Spec => []NoLostWakeup
<1>1. Inv => NoLostWakeup
  BY DEF Inv, WakeInv, NoLostWakeup
<1> QED BY <1>1, IoInvariance, PTL

=============================================================================
