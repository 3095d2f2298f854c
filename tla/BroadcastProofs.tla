--------------------------- MODULE BroadcastProofs ---------------------------
(***************************************************************************)
(* TLAPS proofs about Broadcast: type correctness; that no chat gets the   *)
(* same broadcast twice unless the broker hands out a message that is      *)
(* still in work; that the counters never claim too much and lose at most  *)
(* a batch for each fault or call in progress; that a DONE record counts   *)
(* its audience, leaves out the users who rejected the bot, and stays      *)
(* DONE.                                                                   *)
(***************************************************************************)
EXTENDS Broadcast, FiniteSetTheorems, TLAPS

\* Variables that an action leaves alone keep their types.
LEMMA Frames ==
  /\ RecordTypes /\ UNCHANGED record => RecordTypes'
  /\ BlockTypes /\ UNCHANGED blocks => BlockTypes'
  /\ BrokerTypes /\ UNCHANGED broker => BrokerTypes'
  /\ WorkerTypes /\ UNCHANGED worker => WorkerTypes'
  /\ FaultTypes /\ UNCHANGED faults => FaultTypes'
  /\ HistoryTypes /\ UNCHANGED history => HistoryTypes'
  <1>1. RecordTypes /\ UNCHANGED record => RecordTypes'
    BY DEF RecordTypes, record
  <1>2. BlockTypes /\ UNCHANGED blocks => BlockTypes'
    BY DEF BlockTypes, blocks
  <1>3. BrokerTypes /\ UNCHANGED broker => BrokerTypes'
    BY DEF BrokerTypes, broker
  <1>4. WorkerTypes /\ UNCHANGED worker => WorkerTypes'
    BY DEF WorkerTypes, worker
  <1>5. FaultTypes /\ UNCHANGED faults => FaultTypes'
    BY DEF FaultTypes, faults
  <1>6. HistoryTypes /\ UNCHANGED history => HistoryTypes'
    BY DEF HistoryTypes, history
  <1> QED BY <1>1, <1>2, <1>3, <1>4, <1>5, <1>6

\* What the shared parts of the actions do to the types they touch.
LEMMA DbErrorTypes == FaultTypes /\ DbError => FaultTypes'
  BY DEF FaultTypes, DbError

LEMMA ReturnTypes ==
  ASSUME WorkerTypes, NEW w \in Workers, Return(w)
  PROVE  WorkerTypes'
  BY JobAssumption DEF WorkerTypes, Return, GoTo, PCs

\* A transaction of a busy worker works on one of the broadcasts.
LEMMA BusyHasJob ==
  ASSUME WorkerTypes, NEW w \in Workers, pc[w] # "idle"
  PROVE  job[w] \in Broadcasts
  BY DEF WorkerTypes

LEMMA TypeInit == Init => TypeOK
  BY JobAssumption, BoundAssumption
     DEF Init, TypeOK, RecordTypes, BlockTypes, BrokerTypes, WorkerTypes,
         FaultTypes, HistoryTypes, Statuses, PCs

\* Taking a message off the queue.
LEMMA TakeTypes ==
  ASSUME TypeOK, NEW w \in Workers, NEW b \in Broadcasts,
         pc[w] = "idle", queue[b] > 0,
         queue' = [queue EXCEPT ![b] = @ - 1],
         UNCHANGED <<confirm, todo, sent, failed, current>>
  PROVE  /\ BrokerTypes'
         /\ UNCHANGED <<pc, job>> => WorkerTypes'
         /\ \A step \in PCs \ {"idle", "block", "record"} :
              GoTo(w, step) /\ job' = [job EXCEPT ![w] = b] => WorkerTypes'
  <1>1. BrokerTypes'
    BY DEF TypeOK, BrokerTypes
  <1>2. UNCHANGED <<pc, job>> => WorkerTypes'
    BY DEF TypeOK, WorkerTypes
  <1>3. ASSUME NEW step \in PCs \ {"idle", "block", "record"},
               GoTo(w, step), job' = [job EXCEPT ![w] = b]
        PROVE  WorkerTypes'
    BY <1>3, JobAssumption DEF TypeOK, WorkerTypes, GoTo
  <1> QED BY <1>1, <1>2, <1>3

LEMMA TypeDeliver ==
  ASSUME TypeOK, NEW w \in Workers, NEW b \in Broadcasts,
         Deliver(w, b) \/ DeliverFails(w, b)
  PROVE  TypeOK'
  <1>1. CASE Deliver(w, b)
    <2>1. BrokerTypes' /\ WorkerTypes'
      <3>1. BrokerTypes' /\ (UNCHANGED <<pc, job>> => WorkerTypes')
        BY <1>1, TakeTypes DEF Deliver
      <3>2. CASE Startable(b)
        <4>1. GoTo(w, "claim") /\ job' = [job EXCEPT ![w] = b]
          BY <1>1, <3>2 DEF Deliver
        <4> QED BY <1>1, <3>1, <4>1, TakeTypes DEF Deliver, PCs
      <3>3. CASE ~Startable(b)
        BY <1>1, <3>1, <3>3 DEF Deliver
      <3> QED BY <3>2, <3>3, <3>1
    <2> QED BY <1>1, <2>1, Frames DEF Deliver, TypeOK
  <1>2. CASE DeliverFails(w, b)
    <2>1. BrokerTypes' /\ WorkerTypes'
      BY <1>2, TakeTypes DEF DeliverFails, PCs
    <2> QED BY <1>2, <2>1, Frames, DbErrorTypes DEF DeliverFails, TypeOK
  <1> QED BY <1>1, <1>2

\* The steps between the claim and the first message.
LEMMA TypePrepare ==
  ASSUME TypeOK, NEW w \in Workers,
         MarkRunning(w) \/ Resolve(w) \/ FilterBlocked(w)
  PROVE  TypeOK'
  <1> USE DEF TypeOK
  <1>1. CASE MarkRunning(w)
    <2>1. RecordTypes'
      BY <1>1 DEF MarkRunning, RecordTypes, Statuses
    <2>2. WorkerTypes'
      BY <1>1, JobAssumption DEF MarkRunning, WorkerTypes, GoTo, PCs
    <2> QED BY <1>1, <2>1, <2>2, Frames DEF MarkRunning
  <1>2. CASE Resolve(w)
    <2>1. job[w] \in Broadcasts
      BY <1>2, BusyHasJob DEF Resolve
    <2>2. Candidates(segment[job[w]]) \in SUBSET Chats
      BY <2>1, ChatAssumption DEF Candidates, Segments, Chats, RecordTypes
    <2>3. WorkerTypes'
      BY <1>2, <2>2, JobAssumption DEF Resolve, WorkerTypes, GoTo, PCs
    <2>4. HistoryTypes'
      BY <1>2 DEF Resolve, HistoryTypes
    <2> QED BY <1>2, <2>3, <2>4, Frames DEF Resolve
  <1>3. CASE FilterBlocked(w)
    <2>1. WorkerTypes'
      BY <1>3, JobAssumption DEF FilterBlocked, WorkerTypes, GoTo, PCs
    <2>2. HistoryTypes'
      BY <1>3 DEF FilterBlocked, HistoryTypes, WorkerTypes
    <2> QED BY <1>3, <2>1, <2>2, Frames DEF FilterBlocked
  <1> QED BY <1>1, <1>2, <1>3

\* The send loop.
LEMMA TypeSend ==
  ASSUME TypeOK, NEW w \in Workers,
         \/ \E c \in Chats : SendOk(w, c) \/ \E f \in Failures : SendFails(w, c, f)
         \/ AutoBlock(w) \/ RecordFailure(w)
         \/ FlushCounters(w)
  PROVE  TypeOK'
  <1> USE DEF TypeOK
  <1>1. ASSUME NEW c \in Chats, SendOk(w, c) PROVE TypeOK'
    <2>1. AfterOutcome(sent[w] + 1, failed[w]) \in {"flush", "send"}
      BY DEF AfterOutcome
    <2>2. WorkerTypes'
      BY <1>1, <2>1, JobAssumption DEF SendOk, WorkerTypes, GoTo, PCs
    <2>3. HistoryTypes'
      BY <1>1, BusyHasJob DEF SendOk, HistoryTypes
    <2> QED BY <1>1, <2>2, <2>3, Frames DEF SendOk
  <1>2. ASSUME NEW c \in Chats, NEW f \in Failures, SendFails(w, c, f)
        PROVE  TypeOK'
    <2>2. WorkerTypes'
      BY <1>2, JobAssumption DEF SendFails, WorkerTypes, GoTo, PCs
    <2>3. HistoryTypes'
      <3>1. job[w] \in Broadcasts
        BY <1>2, BusyHasJob DEF SendFails
      <3>2. received' \in [Broadcasts -> [Chats -> Nat]]
        <4>1. CASE UNCHANGED received
          BY <4>1 DEF HistoryTypes
        <4>2. CASE received' = [received EXCEPT ![job[w]][c] = @ + 1]
          BY <3>1, <4>2 DEF HistoryTypes
        <4> QED BY <1>2, <4>1, <4>2 DEF SendFails
      <3>3. attempts' = [attempts EXCEPT ![job[w]] = @ + 1]
        BY <1>2 DEF SendFails
      <3>4. rejected' = rejected \union {c} \/ rejected' = rejected
        BY <1>2 DEF SendFails
      <3>5. UNCHANGED <<oks, audience, knownRejected>>
        BY <1>2 DEF SendFails
      <3> QED BY <3>1, <3>2, <3>3, <3>4, <3>5 DEF HistoryTypes
    <2> QED BY <1>2, <2>2, <2>3, Frames DEF SendFails
  <1>3. CASE RecordFailure(w)
    <2>1. AfterOutcome(sent[w], failed[w]) \in {"flush", "send"}
      BY DEF AfterOutcome
    <2>2. BlockTypes'
      BY <1>3 DEF RecordFailure, BlockTypes, WorkerTypes
    <2>3. FaultTypes'
      BY <1>3, Frames, DbErrorTypes DEF RecordFailure
    <2>4. WorkerTypes'
      BY <1>3, <2>1, JobAssumption DEF RecordFailure, WorkerTypes, GoTo, PCs
    <2> QED BY <1>3, <2>2, <2>3, <2>4, Frames DEF RecordFailure
  <1>4. CASE FlushCounters(w)
    <2>1. RecordTypes'
      BY <1>4 DEF FlushCounters, AddCounters, RecordTypes, WorkerTypes
    <2>2. WorkerTypes'
      BY <1>4, JobAssumption DEF FlushCounters, WorkerTypes, GoTo, PCs
    <2> QED BY <1>4, <2>1, <2>2, Frames DEF FlushCounters
  <1>5. CASE AutoBlock(w)
    <2>1. isBlocked' \in SUBSET Users
      <3>1. current[w] \in Users
        BY <1>5 DEF AutoBlock, WorkerTypes
      <3> QED BY <1>5, <3>1 DEF AutoBlock, BlockTypes
    <2>2. BlockTypes' /\ FaultTypes'
      BY <1>5, <2>1, Frames, DbErrorTypes DEF AutoBlock, BlockTypes
    <2>3. WorkerTypes'
      <3>1. current[w] \in Chats
        BY <1>5 DEF AutoBlock, WorkerTypes, Chats
      <3>2. /\ pc[w] = "block" /\ pc' = [pc EXCEPT ![w] = "record"]
            /\ UNCHANGED <<job, todo, sent, failed, current>>
        BY <1>5 DEF AutoBlock, GoTo
      <3> QED BY <3>1, <3>2, JobAssumption DEF WorkerTypes, PCs
    <2> QED BY <1>5, <2>2, <2>3, Frames DEF AutoBlock
  <1> QED BY <1>1, <1>2, <1>3, <1>4, <1>5

\* The ways a call ends.
LEMMA TypeEnd ==
  ASSUME TypeOK, NEW w \in Workers,
         Finish(w) \/ Report(w) \/ TaskFails(w) \/ MarkFailed(w)
  PROVE  TypeOK'
  <1> USE DEF TypeOK
  <1>1. CASE Finish(w)
    <2>1. RecordTypes'
      BY <1>1 DEF Finish, AddCounters, RecordTypes, WorkerTypes, Statuses
    <2>2. WorkerTypes'
      BY <1>1, JobAssumption DEF Finish, WorkerTypes, GoTo, PCs
    <2> QED BY <1>1, <2>1, <2>2, Frames DEF Finish
  <1>2. CASE Report(w)
    BY <1>2, ReturnTypes, Frames DEF Report
  <1>3. CASE TaskFails(w)
    <2>1. pc[w] # "idle" /\ pc[w] \in PCs
      BY <1>3 DEF TaskFails, WorkerTypes
    <2>2. WorkerTypes'
      BY <1>3, <2>1, JobAssumption DEF TaskFails, WorkerTypes, GoTo, PCs
    <2> QED BY <1>3, <2>2, Frames, DbErrorTypes DEF TaskFails
  <1>4. CASE MarkFailed(w)
    <2>1. RecordTypes'
      BY <1>4 DEF MarkFailed, RecordTypes, Statuses
    <2>2. FaultTypes'
      BY <1>4, Frames, DbErrorTypes DEF MarkFailed
    <2> QED BY <1>4, <2>1, <2>2, ReturnTypes, Frames DEF MarkFailed
  <1> QED BY <1>1, <1>2, <1>3, <1>4

LEMMA TypeStep ==
  ASSUME TypeOK, NEW w \in Workers, Step(w)
  PROVE  TypeOK'
  BY TypeDeliver, TypePrepare, TypeSend, TypeEnd DEF Step

LEMMA TypeNext == TypeOK /\ [Next]_vars => TypeOK'
  <1> SUFFICES ASSUME TypeOK, [Next]_vars PROVE TypeOK'
    OBVIOUS
  <1> USE DEF TypeOK
  <1>1. ASSUME NEW b \in Broadcasts, CreateBroadcast(b) PROVE TypeOK'
    <2>1. RecordTypes' /\ BrokerTypes'
      BY <1>1 DEF CreateBroadcast, RecordTypes, BrokerTypes, Statuses
    <2> QED BY <1>1, <2>1, Frames DEF CreateBroadcast
  <1>2. ASSUME NEW b \in Broadcasts, Enqueue(b) PROVE TypeOK'
    <2>1. BrokerTypes'
      BY <1>2 DEF Enqueue, BrokerTypes
    <2> QED BY <1>2, <2>1, Frames DEF Enqueue
  <1>3. ASSUME NEW w \in Workers, Step(w) PROVE TypeOK'
    BY <1>3, TypeStep
  <1>4. ASSUME NEW w \in Workers, Crash(w) PROVE TypeOK'
    <2>1. BrokerTypes' /\ FaultTypes'
      BY <1>4, BusyHasJob DEF Crash, BrokerTypes, FaultTypes
    <2> QED BY <1>4, <2>1, ReturnTypes, Frames DEF Crash
  <1>5. ASSUME NEW w \in Workers, Redeliver(w) PROVE TypeOK'
    <2>1. BrokerTypes' /\ FaultTypes'
      BY <1>5, BusyHasJob DEF Redeliver, BrokerTypes, FaultTypes
    <2> QED BY <1>5, <2>1, Frames DEF Redeliver
  <1>6. CASE UNCHANGED vars
    BY <1>6, Frames DEF vars
  <1> QED
    BY <1>1, <1>2, <1>3, <1>4, <1>5, <1>6 DEF Next

\* Every variable keeps its type, in particular a worker has a job exactly
\* while it is in a call of process_broadcast_batch.
THEOREM BroadcastTypes == Spec => []TypeOK
  BY TypeInit, TypeNext, PTL DEF Spec

-----------------------------------------------------------------------------
(* No chat gets a broadcast twice. The bound alone is not inductive: a send *)
(* keeps it only because the list it takes the chat from is fresh, which   *)
(* needs that no second worker holds the message (OneCopy) and that a run  *)
(* starts from a status under which nothing was sent.                      *)

AtMostOnce(b) == \A c \in Chats : received[b][c] <= 1

DupInv(b) ==
    OneCopy(b) /\ NothingSentBeforeStart(b) /\ ListIsFresh(b) /\ AtMostOnce(b)

\* All that DupInv depends on.
LEMMA DupFrame ==
  ASSUME NEW b \in Broadcasts, DupInv(b),
         UNCHANGED <<confirm, queue, status, received, pc, job, todo>>
  PROVE  DupInv(b)'
  BY DEF DupInv, OneCopy, NothingSentBeforeStart, ListIsFresh, AtMostOnce

LEMMA DupInit == Init => \A b \in Broadcasts : DupInv(b)
  BY JobAssumption
     DEF Init, DupInv, OneCopy, NothingSentBeforeStart, ListIsFresh, AtMostOnce

LEMMA DupConfirm ==
  ASSUME TypeOK, NEW b \in Broadcasts, DupInv(b), NEW x \in Broadcasts,
         CreateBroadcast(x) \/ Enqueue(x)
  PROVE  DupInv(b)'
  <1> USE DEF TypeOK, RecordTypes, BrokerTypes, DupInv, worker, history, record
  <1>1. CASE CreateBroadcast(x)
    <2>1. OneCopy(b)'
      BY <1>1 DEF CreateBroadcast, OneCopy
    <2>2. NothingSentBeforeStart(b)'
      BY <1>1 DEF CreateBroadcast, NothingSentBeforeStart
    <2>3. ListIsFresh(b)'
      BY <1>1 DEF CreateBroadcast, ListIsFresh, OneCopy
    <2>4. AtMostOnce(b)'
      BY <1>1 DEF CreateBroadcast, AtMostOnce
    <2> QED BY <2>1, <2>2, <2>3, <2>4
  <1>2. CASE Enqueue(x)
    <2>1. UNCHANGED <<status, received, pc, job, todo>>
      BY <1>2 DEF Enqueue
    <2>2. OneCopy(b)'
      BY <1>2, <2>1 DEF Enqueue, OneCopy
    <2>3. NothingSentBeforeStart(b)'
      BY <1>2, <2>1 DEF Enqueue, NothingSentBeforeStart
    <2>4. ListIsFresh(b)' /\ AtMostOnce(b)'
      BY <2>1 DEF ListIsFresh, AtMostOnce
    <2> QED BY <2>2, <2>3, <2>4
  <1> QED BY <1>1, <1>2

LEMMA DupDeliver ==
  ASSUME TypeOK, NEW b \in Broadcasts, DupInv(b), NEW w \in Workers,
         NEW x \in Broadcasts, Deliver(w, x) \/ DeliverFails(w, x)
  PROVE  DupInv(b)'
  <1> USE DEF TypeOK, BrokerTypes, WorkerTypes, DupInv
  <1>1. /\ UNCHANGED <<confirm, status, received, todo>>
        /\ pc[w] = "idle" /\ queue[x] > 0 /\ queue' = [queue EXCEPT ![x] = @ - 1]
    BY DEF Deliver, DeliverFails, record, history
  <1>2. \/ UNCHANGED <<pc, job>>
        \/ /\ pc' = [pc EXCEPT ![w] = "claim"] /\ job' = [job EXCEPT ![w] = x]
           /\ status[x] = "PENDING"
        \/ pc' = [pc EXCEPT ![w] = "fail"] /\ job' = [job EXCEPT ![w] = x]
    BY DEF Deliver, DeliverFails, GoTo, Startable
  <1>3. NothingSentBeforeStart(b)' /\ AtMostOnce(b)'
    BY <1>1 DEF NothingSentBeforeStart, AtMostOnce
  <1>4. OneCopy(b)'
    <2>1. CASE x = b
      <3>1. queue[b] = 1 /\ confirm[b] = "queued" /\ \A v \in Workers : job[v] # b
        BY <1>1, <2>1 DEF OneCopy
      <3>2. queue'[b] = 0
        BY <1>1, <2>1, <3>1
      <3>3. \A v \in Workers : job'[v] = b => v = w
        BY <1>2, <3>1
      <3> QED BY <1>1, <3>1, <3>2, <3>3 DEF OneCopy
    <2>2. CASE x # b
      <3>1. queue'[b] = queue[b] /\ confirm'[b] = confirm[b]
        BY <1>1, <2>2
      <3>2. \A v \in Workers : job'[v] = b => job[v] = b
        BY <1>2, <2>2
      <3> QED BY <3>1, <3>2 DEF OneCopy
    <2> QED BY <2>1, <2>2
  <1>5. ListIsFresh(b)'
    <2> SUFFICES ASSUME NEW v \in Workers, job'[v] = b
                 PROVE  /\ pc'[v] = "claim" => status[b] = "PENDING"
                        /\ pc'[v] \in {"resolve", "filter", "send", "block", "record", "flush"} =>
                               status[b] = "RUNNING"
                        /\ pc'[v] \in {"resolve", "filter"} => \A c \in Chats : received[b][c] = 0
                        /\ \A c \in todo[v] : received[b][c] = 0
      BY <1>1 DEF ListIsFresh
    <2>1. CASE job[v] = b /\ pc'[v] = pc[v]
      BY <2>1 DEF ListIsFresh
    <2>2. CASE v = w /\ pc'[w] \in {"claim", "fail"}
      <3>1. todo[w] = {}
        BY <1>1
      <3>2. pc'[w] = "claim" => status[b] = "PENDING"
        BY <1>1, <1>2, <2>2
      <3> QED BY <2>2, <3>1, <3>2
    <2> QED BY <1>1, <1>2, <2>1, <2>2
  <1> QED BY <1>3, <1>4, <1>5

\* A step inside the loop that sends nothing disturbs nothing.
LEMMA DupQuiet ==
  ASSUME TypeOK, NEW b \in Broadcasts, DupInv(b), NEW w \in Workers,
         UNCHANGED <<confirm, queue, job, todo, status, received>>,
         pc[w] \in {"block", "record", "flush"},
         \E step \in {"send", "record", "flush"} : GoTo(w, step)
  PROVE  DupInv(b)'
  <1> USE DEF TypeOK, WorkerTypes, DupInv
  <1>1. OneCopy(b)' /\ NothingSentBeforeStart(b)' /\ AtMostOnce(b)'
    BY DEF OneCopy, NothingSentBeforeStart, AtMostOnce
  <1>2. ListIsFresh(b)'
    BY DEF ListIsFresh, GoTo
  <1> QED BY <1>1, <1>2

LEMMA DupPrepare ==
  ASSUME TypeOK, NEW b \in Broadcasts, DupInv(b), NEW w \in Workers,
         MarkRunning(w) \/ Resolve(w) \/ FilterBlocked(w)
  PROVE  DupInv(b)'
  <1> USE DEF TypeOK, WorkerTypes, RecordTypes, DupInv
  <1>1. CASE MarkRunning(w)
    <2>1. /\ UNCHANGED <<confirm, queue, job, todo, received>>
          /\ pc[w] = "claim" /\ pc' = [pc EXCEPT ![w] = "resolve"]
          /\ status' = [status EXCEPT ![job[w]] = "RUNNING"]
      BY <1>1 DEF MarkRunning, GoTo, broker, history
    <2>2. OneCopy(b)' /\ AtMostOnce(b)'
      BY <2>1 DEF OneCopy, AtMostOnce
    <2>3. CASE job[w] = b
      <3>1. /\ status[b] = "PENDING" /\ confirm[b] = "queued" /\ status'[b] = "RUNNING"
            /\ \A c \in Chats : received[b][c] = 0
        BY <2>1, <2>3 DEF ListIsFresh, NothingSentBeforeStart, OneCopy
      <3>2. \A v \in Workers : job[v] = b => v = w
        BY <2>3 DEF OneCopy
      <3>3. NothingSentBeforeStart(b)'
        BY <2>1, <3>1 DEF NothingSentBeforeStart
      <3>4. ListIsFresh(b)'
        BY <2>1, <3>1, <3>2 DEF ListIsFresh
      <3> QED BY <2>2, <3>3, <3>4
    <2>4. CASE job[w] # b
      <3>1. status'[b] = status[b]
        BY <2>1, <2>4
      <3>2. NothingSentBeforeStart(b)' /\ ListIsFresh(b)'
        BY <2>1, <2>4, <3>1 DEF NothingSentBeforeStart, ListIsFresh
      <3> QED BY <2>2, <3>2
    <2> QED BY <2>3, <2>4
  <1>2. CASE Resolve(w)
    <2>1. /\ UNCHANGED <<confirm, queue, job, status, received>>
          /\ pc[w] = "resolve" /\ pc' = [pc EXCEPT ![w] = "filter"]
          /\ \A v \in Workers : v # w => todo'[v] = todo[v]
          /\ todo'[w] \subseteq Chats
      BY <1>2, TypePrepare DEF Resolve, GoTo, broker, record
    <2>2. OneCopy(b)' /\ NothingSentBeforeStart(b)' /\ AtMostOnce(b)'
      BY <2>1 DEF OneCopy, NothingSentBeforeStart, AtMostOnce
    <2>3. ListIsFresh(b)'
      BY <2>1 DEF ListIsFresh
    <2> QED BY <2>2, <2>3
  <1>3. CASE FilterBlocked(w)
    <2>1. job[w] \in Broadcasts
      BY <1>3, BusyHasJob DEF FilterBlocked
    <2>2. /\ UNCHANGED <<confirm, queue, job, status, received>>
          /\ pc[w] = "filter" /\ pc' = [pc EXCEPT ![w] = "send"]
          /\ \A v \in Workers : todo'[v] \subseteq todo[v]
      BY <1>3 DEF FilterBlocked, GoTo, broker, record
    <2>3. OneCopy(b)' /\ NothingSentBeforeStart(b)' /\ AtMostOnce(b)'
      BY <2>2 DEF OneCopy, NothingSentBeforeStart, AtMostOnce
    <2>4. ListIsFresh(b)'
      BY <2>2 DEF ListIsFresh
    <2> QED BY <2>3, <2>4
  <1> QED BY <1>1, <1>2, <1>3

\* A message goes to a chat of the worker's list, hence to one that had none.
LEMMA DupContact ==
  ASSUME TypeOK, NEW b \in Broadcasts, DupInv(b), NEW w \in Workers,
         NEW c \in Chats, pc[w] = "send", c \in todo[w],
         UNCHANGED <<confirm, queue, job, status>>,
         \E step \in {"send", "block", "record", "flush"} : GoTo(w, step),
         todo' = [todo EXCEPT ![w] = @ \ {c}],
         \/ UNCHANGED received
         \/ received' = [received EXCEPT ![job[w]][c] = @ + 1]
  PROVE  DupInv(b)'
  <1> USE DEF TypeOK, WorkerTypes, HistoryTypes, DupInv
  <1>1. OneCopy(b)'
    BY DEF OneCopy
  <1>2. job[w] \in Broadcasts
    BY BusyHasJob
  <1>3. \A v \in Workers : /\ todo'[v] \subseteq todo[v]
                          /\ v # w => pc'[v] = pc[v]
    BY DEF GoTo
  <1>4. pc'[w] \in {"send", "block", "record", "flush"} /\ c \notin todo'[w]
    BY DEF GoTo
  <1>5. CASE job[w] = b
    <2>1. \A v \in Workers : job[v] = b => v = w
      BY <1>5 DEF OneCopy
    <2>2. status[b] = "RUNNING" /\ received[b][c] = 0
      BY <1>5 DEF ListIsFresh
    <2>3. \A d \in Chats : d # c => received'[b][d] = received[b][d]
      BY <1>2, <1>5
    <2>4. received'[b][c] \in {0, 1}
      BY <1>2, <1>5, <2>2
    <2>5. AtMostOnce(b)' /\ NothingSentBeforeStart(b)'
      BY <2>2, <2>3, <2>4, SMTT(30) DEF AtMostOnce, NothingSentBeforeStart, OneCopy
    <2>6. ListIsFresh(b)'
      <3>1. \A d \in todo'[w] : received'[b][d] = 0
        BY <1>3, <1>4, <1>5, <2>3 DEF ListIsFresh
      <3> QED BY <1>4, <1>5, <2>1, <2>2, <3>1 DEF ListIsFresh
    <2> QED BY <1>1, <2>5, <2>6
  <1>6. CASE job[w] # b
    <2>1. received'[b] = received[b]
      BY <1>2, <1>6
    <2>2. AtMostOnce(b)' /\ NothingSentBeforeStart(b)'
      BY <2>1 DEF AtMostOnce, NothingSentBeforeStart
    <2>3. ListIsFresh(b)'
      BY <1>3, <1>6, <2>1 DEF ListIsFresh
    <2> QED BY <1>1, <2>2, <2>3
  <1> QED BY <1>5, <1>6

LEMMA DupSend ==
  ASSUME TypeOK, NEW b \in Broadcasts, DupInv(b), NEW w \in Workers,
         \/ \E c \in Chats : SendOk(w, c) \/ \E f \in Failures : SendFails(w, c, f)
         \/ AutoBlock(w) \/ RecordFailure(w)
         \/ FlushCounters(w)
  PROVE  DupInv(b)'
  <1>1. ASSUME NEW c \in Chats, SendOk(w, c) PROVE DupInv(b)'
    BY <1>1, DupContact DEF SendOk, AfterOutcome, broker, record
  <1>2. ASSUME NEW c \in Chats, NEW f \in Failures, SendFails(w, c, f)
        PROVE  DupInv(b)'
    BY <1>2, DupContact DEF SendFails, broker, record
  <1>3. CASE AutoBlock(w) \/ RecordFailure(w)
    BY <1>3, DupQuiet DEF AutoBlock, RecordFailure, AfterOutcome, broker, record, history
  <1>4. CASE FlushCounters(w)
    BY <1>4, DupQuiet DEF FlushCounters, broker, history
  <1> QED BY <1>1, <1>2, <1>3, <1>4

\* A worker whose list is empty, or is dropped, may end its call or fail.
LEMMA DupEnd ==
  ASSUME TypeOK, NEW b \in Broadcasts, DupInv(b), NEW w \in Workers,
         Finish(w) \/ Report(w) \/ TaskFails(w) \/ MarkFailed(w)
  PROVE  DupInv(b)'
  <1> USE DEF TypeOK, WorkerTypes, RecordTypes, DupInv
  <1>1. /\ UNCHANGED <<confirm, queue, received>>
        /\ pc[w] # "idle"
        /\ \/ UNCHANGED status
           \/ status' = [status EXCEPT ![job[w]] = "DONE"]
           \/ status' = [status EXCEPT ![job[w]] = "FAILED"]
    BY DEF Finish, Report, TaskFails, MarkFailed, broker, record, history
  <1>2. \/ UNCHANGED job
        \/ job' = [job EXCEPT ![w] = NoJob]
    BY DEF Finish, Report, TaskFails, MarkFailed, Return
  <1>3. \E step \in {"report", "fail", "idle"} : pc' = [pc EXCEPT ![w] = step]
    BY DEF Finish, Report, TaskFails, MarkFailed, Return, GoTo
  <1>4. todo' = [todo EXCEPT ![w] = {}]
    BY DEF Finish, Report, TaskFails, MarkFailed, Return
  <1>5. \A v \in Workers : job'[v] = b => job[v] = b
    BY <1>2, JobAssumption
  <1>6. OneCopy(b)'
    BY <1>1, <1>5 DEF OneCopy
  <1>7. CASE job[w] = b
    <2>1. \A v \in Workers : job[v] = b => v = w
      BY <1>7 DEF OneCopy
    <2>2. NothingSentBeforeStart(b)'
      BY <1>1, <1>7 DEF NothingSentBeforeStart, OneCopy
    <2>3. ListIsFresh(b)'
      BY <1>3, <1>4, <1>5, <2>1 DEF ListIsFresh
    <2>4. AtMostOnce(b)'
      BY <1>1 DEF AtMostOnce
    <2> QED BY <1>6, <2>2, <2>3, <2>4
  <1>8. CASE job[w] # b
    <2>1. status'[b] = status[b]
      BY <1>1, <1>8
    <2>2. NothingSentBeforeStart(b)' /\ AtMostOnce(b)'
      BY <1>1, <2>1 DEF NothingSentBeforeStart, AtMostOnce
    <2>3. ListIsFresh(b)'
      BY <1>1, <1>3, <1>4, <1>5, <1>8, <2>1 DEF ListIsFresh
    <2> QED BY <1>6, <2>2, <2>3
  <1> QED BY <1>7, <1>8

LEMMA DupCrash ==
  ASSUME TypeOK, NEW b \in Broadcasts, DupInv(b), NEW w \in Workers, Crash(w)
  PROVE  DupInv(b)'
  <1> USE DEF TypeOK, WorkerTypes, BrokerTypes, DupInv
  <1>1. /\ UNCHANGED <<confirm, status, received>>
        /\ queue' = [queue EXCEPT ![job[w]] = @ + 1]
        /\ job' = [job EXCEPT ![w] = NoJob]
        /\ pc' = [pc EXCEPT ![w] = "idle"]
        /\ todo' = [todo EXCEPT ![w] = {}]
    BY DEF Crash, Return, GoTo, record, history
  <1>2. job[w] \in Broadcasts
    BY BusyHasJob DEF Crash
  <1>3. \A v \in Workers : job'[v] = b => job[v] = b /\ v # w
    BY <1>1, JobAssumption
  <1>4. OneCopy(b)'
    <2>1. CASE job[w] = b
      <3>1. \A v \in Workers : job'[v] # b
        BY <1>3, <2>1 DEF OneCopy
      <3>2. queue'[b] = 1 /\ confirm'[b] = "queued"
        BY <1>1, <1>2, <2>1 DEF OneCopy
      <3> QED BY <3>1, <3>2 DEF OneCopy
    <2>2. CASE job[w] # b
      <3>1. queue'[b] = queue[b] /\ confirm'[b] = confirm[b]
        BY <1>1, <1>2, <2>2
      <3> QED BY <1>3, <3>1 DEF OneCopy
    <2> QED BY <2>1, <2>2
  <1>5. NothingSentBeforeStart(b)' /\ AtMostOnce(b)'
    BY <1>1 DEF NothingSentBeforeStart, AtMostOnce
  <1>6. ListIsFresh(b)'
    BY <1>1, <1>3 DEF ListIsFresh
  <1> QED BY <1>4, <1>5, <1>6

LEMMA DupNext ==
  ASSUME TypeOK, [Next]_vars, redeliveries' = 0,
         redeliveries = 0 => \A b \in Broadcasts : DupInv(b)
  PROVE  \A b \in Broadcasts : DupInv(b)'
  <1>1. redeliveries = 0
    <2>1. \/ UNCHANGED redeliveries
          \/ redeliveries' = redeliveries + 1
      <3>1. ASSUME NEW w \in Workers, Step(w) PROVE UNCHANGED redeliveries
        BY <3>1 DEF Step, Deliver, DeliverFails, MarkRunning, Resolve,
             FilterBlocked, SendOk, SendFails, AutoBlock, RecordFailure,
             FlushCounters, Finish, Report, TaskFails, MarkFailed, DbError,
             faults
      <3>2. ASSUME NEW b \in Broadcasts, CreateBroadcast(b) \/ Enqueue(b)
            PROVE  UNCHANGED redeliveries
        BY <3>2 DEF CreateBroadcast, Enqueue, faults
      <3> QED BY <3>1, <3>2 DEF Next, Crash, Redeliver, vars, faults
    <2> QED BY <2>1 DEF TypeOK, FaultTypes
  <1> SUFFICES ASSUME NEW b \in Broadcasts PROVE DupInv(b)'
    OBVIOUS
  <1>2. DupInv(b)
    BY <1>1
  <1>3. ASSUME NEW x \in Broadcasts, CreateBroadcast(x) \/ Enqueue(x)
        PROVE  DupInv(b)'
    BY <1>2, <1>3, DupConfirm
  <1>4. ASSUME NEW w \in Workers, Step(w) PROVE DupInv(b)'
    BY <1>2, <1>4, DupDeliver, DupPrepare, DupSend, DupEnd DEF Step
  <1>5. ASSUME NEW w \in Workers, Crash(w) PROVE DupInv(b)'
    BY <1>2, <1>5, DupCrash
  <1>6. ASSUME NEW w \in Workers, Redeliver(w) PROVE FALSE
    BY <1>1, <1>6 DEF Redeliver
  <1>7. CASE UNCHANGED vars
    BY <1>2, <1>7, DupFrame DEF vars, record, broker, worker, history
  <1> QED BY <1>3, <1>4, <1>5, <1>6, <1>7 DEF Next

\* For every number of broadcasts, chats, workers, crashes and failed
\* transactions, and every batch size: without early redelivery no chat gets
\* the same broadcast twice.
THEOREM NoDuplicates == Spec => []NoDuplicateSend
  <1> DEFINE Inv == redeliveries = 0 => \A b \in Broadcasts : DupInv(b)
  <1>1. Init => Inv
    BY DupInit
  <1>2. TypeOK /\ Inv /\ [Next]_vars => Inv'
    BY DupNext
  <1>3. Inv => NoDuplicateSend
    BY DEF NoDuplicateSend, DupInv, AtMostOnce
  <1> QED BY <1>1, <1>2, <1>3, BroadcastTypes, PTL DEF Spec

-----------------------------------------------------------------------------
(* Outcomes that workers hold and have not put on the record. The counters *)
(* of a worker are added up over the workers of a broadcast by giving each  *)
(* outcome a cell of its own: a sum becomes the cardinality of a set.       *)

\* One cell for each of the n[w] outcomes that a worker w of W holds.
Cells(W, n) == {x \in W \X (1..COUNTER_BATCH) : x[2] <= n[x[1]]}

\* An interval of the naturals has the size it names.
LEMMA CountToSize ==
  ASSUME NEW k \in Nat
  PROVE  IsFiniteSet(1..k) /\ Cardinality(1..k) = k
  BY FS_Interval

\* The cells of a set of workers can be counted.
LEMMA CellsFinite ==
  ASSUME NEW W \in SUBSET Workers, NEW n
  PROVE  IsFiniteSet(Cells(W, n)) /\ Cardinality(Cells(W, n)) \in Nat
  <1>1. IsFiniteSet(W) /\ IsFiniteSet(1..COUNTER_BATCH)
    BY FiniteAssumption, BatchAssumption, FS_Subset, FS_Interval
  <1>2. IsFiniteSet(W \X (1..COUNTER_BATCH))
    BY <1>1, FS_Product
  <1>3. Cells(W, n) \in SUBSET (W \X (1..COUNTER_BATCH))
    BY DEF Cells
  <1>4. IsFiniteSet(Cells(W, n))
    BY <1>2, <1>3, FS_Subset
  <1> QED BY <1>4, FS_CardinalityType

\* Only the workers of W matter.
LEMMA CellsSame ==
  ASSUME NEW W, NEW n, NEW m, \A w \in W : m[w] = n[w]
  PROVE  Cells(W, m) = Cells(W, n)
  <1>1. \A x \in W \X (1..COUNTER_BATCH) : x[1] \in W
    OBVIOUS
  <1> QED BY <1>1 DEF Cells

\* One outcome more.
LEMMA CellsMore ==
  ASSUME NEW W \in SUBSET Workers, NEW n \in [Workers -> Nat], NEW w \in W, NEW m,
         m[w] = n[w] + 1, n[w] + 1 <= COUNTER_BATCH,
         \A v \in W \ {w} : m[v] = n[v]
  PROVE  Cardinality(Cells(W, m)) = Cardinality(Cells(W, n)) + 1
  <1>1. n[w] \in Nat /\ COUNTER_BATCH \in Nat
    BY BatchAssumption
  <1>2. <<w, n[w] + 1>> \in W \X (1..COUNTER_BATCH) /\ <<w, n[w] + 1>> \notin Cells(W, n)
    BY <1>1 DEF Cells
  <1>3. ASSUME NEW x \in W \X (1..COUNTER_BATCH)
        PROVE  x[2] <= m[x[1]] <=> x[2] <= n[x[1]] \/ x = <<w, n[w] + 1>>
    <2>1. x = <<x[1], x[2]>> /\ x[1] \in W /\ x[2] \in Nat
      OBVIOUS
    <2>2. CASE x[1] = w
      BY <1>1, <2>1, <2>2
    <2>3. CASE x[1] # w
      BY <2>1, <2>3
    <2> QED BY <2>2, <2>3
  <1>4. Cells(W, m) = Cells(W, n) \union {<<w, n[w] + 1>>}
    BY <1>2, <1>3 DEF Cells
  <1>5. IsFiniteSet(Cells(W, n))
    BY CellsFinite
  <1>6. Cardinality(Cells(W, n) \union {<<w, n[w] + 1>>}) = Cardinality(Cells(W, n)) + 1
    BY <1>2, <1>5, FS_AddElement
  <1> QED BY <1>4, <1>6

\* A worker leaves with what it holds.
LEMMA CellsWithout ==
  ASSUME NEW W \in SUBSET Workers, NEW n \in [Workers -> Nat], NEW w \in W,
         n[w] <= COUNTER_BATCH
  PROVE  Cardinality(Cells(W, n)) = Cardinality(Cells(W \ {w}, n)) + n[w]
  <1>1. n[w] \in Nat /\ COUNTER_BATCH \in Nat
    BY BatchAssumption
  <1>2. Cells(W, n) = Cells(W \ {w}, n) \union ({w} \X (1..n[w]))
    BY <1>1 DEF Cells
  <1>3. Cells(W \ {w}, n) \intersect ({w} \X (1..n[w])) = {}
    BY DEF Cells
  <1>4. IsFiniteSet({w}) /\ Cardinality({w}) = 1
    BY FS_Singleton
  <1>5. IsFiniteSet(1..n[w]) /\ Cardinality(1..n[w]) = n[w]
    BY <1>1, CountToSize
  <1>6. IsFiniteSet({w} \X (1..n[w])) /\ Cardinality({w} \X (1..n[w])) = n[w]
    <2>1. /\ IsFiniteSet({w} \X (1..n[w]))
          /\ Cardinality({w} \X (1..n[w])) = Cardinality({w}) * Cardinality(1..n[w])
      BY <1>4, <1>5, FS_Product
    <2> QED BY <1>1, <1>4, <1>5, <2>1
  <1>7. W \ {w} \in SUBSET Workers
    OBVIOUS
  <1>8. IsFiniteSet(Cells(W \ {w}, n)) /\ Cardinality(Cells(W \ {w}, n)) \in Nat
    BY <1>7, CellsFinite
  <1>9. Cardinality(Cells(W, n)) = Cardinality(Cells(W \ {w}, n)) + n[w] - Cardinality({})
    BY <1>2, <1>3, <1>6, <1>8, FS_Union
  <1> QED BY <1>1, <1>8, <1>9, FS_EmptySet

\* A worker that holds nothing does not count.
LEMMA CellsNone ==
  ASSUME NEW W \in SUBSET Workers, NEW w, NEW n, n[w] = 0
  PROVE  Cells(W \union {w}, n) = Cells(W \ {w}, n)
  <1>1. ASSUME NEW x \in (W \union {w}) \X (1..COUNTER_BATCH), x[2] <= n[x[1]]
        PROVE  x[1] # w
    BY <1>1, BatchAssumption
  <1> QED BY <1>1 DEF Cells

\* At most a batch for each worker.
LEMMA CellsBound ==
  ASSUME NEW W \in SUBSET Workers, NEW n
  PROVE  /\ Cardinality(W) \in Nat
         /\ Cardinality(Cells(W, n)) <= COUNTER_BATCH * Cardinality(W)
  <1>1. COUNTER_BATCH \in Nat
    BY BatchAssumption
  <1>2. IsFiniteSet(W) /\ Cardinality(W) \in Nat
    BY FiniteAssumption, FS_Subset, FS_CardinalityType
  <1>3. IsFiniteSet(1..COUNTER_BATCH) /\ Cardinality(1..COUNTER_BATCH) = COUNTER_BATCH
    BY BatchAssumption, FS_Interval
  <1>4. /\ IsFiniteSet(W \X (1..COUNTER_BATCH))
        /\ Cardinality(W \X (1..COUNTER_BATCH)) = Cardinality(W) * COUNTER_BATCH
    BY <1>2, <1>3, FS_Product
  <1>5. Cells(W, n) \in SUBSET (W \X (1..COUNTER_BATCH))
    BY DEF Cells
  <1>6. Cardinality(Cells(W, n)) <= Cardinality(W) * COUNTER_BATCH
    BY <1>4, <1>5, FS_Subset
  <1>7. Cardinality(W) * COUNTER_BATCH = COUNTER_BATCH * Cardinality(W)
    BY <1>1, <1>2
  <1> QED BY <1>2, <1>6, <1>7

\* The counters of a call never exceed a batch, and are empty outside the loop
\* but for the report, by when they are on the record.
Loop == {"send", "block", "record", "flush"}

BatchInv ==
    \A w \in Workers :
        /\ pc[w] \notin Loop \union {"report"} => sent[w] = 0 /\ failed[w] = 0
        /\ pc[w] = "send" => sent[w] + failed[w] < COUNTER_BATCH
        /\ pc[w] \in {"block", "record", "flush"} => sent[w] + failed[w] <= COUNTER_BATCH

\* The flush comes no later than the full batch.
LEMMA FullFlushes ==
  ASSUME NEW s \in Nat, NEW f \in Nat, s + f <= COUNTER_BATCH
  PROVE  /\ AfterOutcome(s, f) \in {"flush", "send"}
         /\ AfterOutcome(s, f) = "send" => s + f < COUNTER_BATCH
  <1>1. COUNTER_BATCH % COUNTER_BATCH = 0
    BY BatchAssumption
  <1> QED BY <1>1, BatchAssumption DEF AfterOutcome

LEMMA BatchInit == Init => BatchInv
  BY BatchAssumption DEF Init, BatchInv, Loop

\* Only a worker that moves can leave the bound.
LEMMA BatchFrame ==
  ASSUME BatchInv, NEW w \in Workers,
         \A v \in Workers \ {w} : pc'[v] = pc[v] /\ sent'[v] = sent[v] /\ failed'[v] = failed[v],
         /\ pc'[w] \notin Loop \union {"report"} => sent'[w] = 0 /\ failed'[w] = 0
         /\ pc'[w] = "send" => sent'[w] + failed'[w] < COUNTER_BATCH
         /\ pc'[w] \in {"block", "record", "flush"} => sent'[w] + failed'[w] <= COUNTER_BATCH
  PROVE  BatchInv'
  BY DEF BatchInv

LEMMA BatchWork ==
  ASSUME TypeOK, BatchInv, NEW w \in Workers, Step(w) \/ Crash(w)
  PROVE  BatchInv'
  <1> USE DEF TypeOK, WorkerTypes, Loop
  <1>1. ASSUME NEW b \in Broadcasts, Deliver(w, b) \/ DeliverFails(w, b) PROVE BatchInv'
    BY <1>1, BatchFrame DEF Deliver, DeliverFails, GoTo, BatchInv
  <1>2. CASE MarkRunning(w) \/ Resolve(w)
    BY <1>2, BatchFrame DEF MarkRunning, Resolve, GoTo, BatchInv
  <1>3. CASE FilterBlocked(w)
    BY <1>3, BatchFrame, BatchAssumption DEF FilterBlocked, GoTo, BatchInv
  <1>4. ASSUME NEW c \in Chats, SendOk(w, c) PROVE BatchInv'
    <2>1. /\ pc[w] = "send" /\ pc' = [pc EXCEPT ![w] = AfterOutcome(sent[w] + 1, failed[w])]
          /\ sent' = [sent EXCEPT ![w] = @ + 1] /\ UNCHANGED failed
      BY <1>4 DEF SendOk, GoTo
    <2>2. sent[w] + 1 \in Nat /\ failed[w] \in Nat /\ sent[w] + 1 + failed[w] <= COUNTER_BATCH
      BY <2>1, BatchAssumption DEF BatchInv
    <2>3. /\ AfterOutcome(sent[w] + 1, failed[w]) \in {"flush", "send"}
          /\ AfterOutcome(sent[w] + 1, failed[w]) = "send" => sent[w] + 1 + failed[w] < COUNTER_BATCH
      BY <2>2, FullFlushes
    <2> QED BY <2>1, <2>2, <2>3, BatchFrame
  <1>5. ASSUME NEW c \in Chats, NEW f \in Failures, SendFails(w, c, f) PROVE BatchInv'
    <2>1. /\ pc[w] = "send" /\ \E step \in {"block", "record"} : pc' = [pc EXCEPT ![w] = step]
          /\ failed' = [failed EXCEPT ![w] = @ + 1] /\ UNCHANGED sent
      BY <1>5 DEF SendFails, GoTo
    <2>2. sent[w] \in Nat /\ failed[w] + 1 \in Nat /\ sent[w] + (failed[w] + 1) <= COUNTER_BATCH
      BY <2>1, BatchAssumption DEF BatchInv
    <2> QED BY <2>1, <2>2, BatchFrame
  <1>6. CASE RecordFailure(w)
    <2>1. /\ pc[w] = "record" /\ pc' = [pc EXCEPT ![w] = AfterOutcome(sent[w], failed[w])]
          /\ UNCHANGED <<sent, failed>>
      BY <1>6 DEF RecordFailure, GoTo
    <2>2. sent[w] + failed[w] <= COUNTER_BATCH
      BY <2>1 DEF BatchInv
    <2>3. /\ AfterOutcome(sent[w], failed[w]) \in {"flush", "send"}
          /\ AfterOutcome(sent[w], failed[w]) = "send" => sent[w] + failed[w] < COUNTER_BATCH
      BY <2>2, FullFlushes
    <2> QED BY <2>1, <2>2, <2>3, BatchFrame
  <1>7. CASE FlushCounters(w)
    BY <1>7, BatchFrame, BatchAssumption DEF FlushCounters, GoTo
  <1>8. CASE Finish(w)
    BY <1>8, BatchFrame DEF Finish, GoTo
  <1>9. CASE Report(w) \/ MarkFailed(w) \/ Crash(w)
    BY <1>9, BatchFrame DEF Report, MarkFailed, Crash, Return, GoTo
  <1>10. CASE TaskFails(w)
    BY <1>10, BatchFrame DEF TaskFails, GoTo
  <1>11. CASE AutoBlock(w)
    BY <1>11, BatchFrame DEF AutoBlock, GoTo, BatchInv
  <1> QED BY <1>1, <1>2, <1>3, <1>4, <1>5, <1>6, <1>7, <1>8, <1>9, <1>10, <1>11 DEF Step

LEMMA BatchStep == TypeOK /\ BatchInv /\ [Next]_vars => BatchInv'
  <1> SUFFICES ASSUME TypeOK, BatchInv, [Next]_vars PROVE BatchInv'
    OBVIOUS
  <1>1. ASSUME UNCHANGED worker PROVE BatchInv'
    BY <1>1 DEF worker, BatchInv
  <1>2. ASSUME NEW b \in Broadcasts, CreateBroadcast(b) \/ Enqueue(b) PROVE BatchInv'
    BY <1>1, <1>2 DEF CreateBroadcast, Enqueue
  <1>3. ASSUME NEW w \in Workers, Redeliver(w) PROVE BatchInv'
    BY <1>1, <1>3 DEF Redeliver
  <1> QED BY <1>1, <1>2, <1>3, BatchWork DEF Next, vars

-----------------------------------------------------------------------------
(* The counters                                                            *)

Looping(b) == {w \in Workers : job[w] = b /\ pc[w] \in Loop}
Both == [w \in Workers |-> sent[w] + failed[w]]
Held(b, n) == Cardinality(Cells(Looping(b), n))

\* What is on the record and in the hands of the workers is no more than what
\* happened; what is missing from both was lost with a fault, a batch at most.
Ledger(b) ==
    /\ sentCount[b] + Held(b, sent) <= oks[b]
    /\ failedCount[b] + Held(b, failed) <= attempts[b] - oks[b]
    /\ attempts[b] - (sentCount[b] + failedCount[b])
         <= COUNTER_BATCH * (crashes + dbErrors) + Held(b, Both)

LEMMA LedgerTypes ==
  ASSUME TypeOK, NEW b \in Broadcasts
  PROVE  /\ Looping(b) \in SUBSET Workers /\ Both \in [Workers -> Nat]
         /\ Held(b, sent) \in Nat /\ Held(b, failed) \in Nat /\ Held(b, Both) \in Nat
         /\ sentCount[b] \in Nat /\ failedCount[b] \in Nat
         /\ oks[b] \in Nat /\ attempts[b] \in Nat
         /\ COUNTER_BATCH \in Nat /\ crashes + dbErrors \in Nat
  <1>1. Looping(b) \in SUBSET Workers
    BY DEF Looping
  <1>2. Held(b, sent) \in Nat /\ Held(b, failed) \in Nat /\ Held(b, Both) \in Nat
    BY <1>1, CellsFinite DEF Held
  <1>3. Both \in [Workers -> Nat]
    BY DEF TypeOK, WorkerTypes, Both
  <1> QED
    BY <1>1, <1>2, <1>3, BatchAssumption DEF TypeOK, RecordTypes, HistoryTypes, FaultTypes

\* What faults may have cost grows with the faults, by a batch each.
LEMMA MoreFaults ==
  ASSUME NEW m \in Nat, NEW n \in Nat, m <= n
  PROVE  /\ COUNTER_BATCH * m \in Nat /\ COUNTER_BATCH * n \in Nat
         /\ COUNTER_BATCH * m <= COUNTER_BATCH * n
         /\ m < n => COUNTER_BATCH * m + COUNTER_BATCH <= COUNTER_BATCH * n
  <1>1. COUNTER_BATCH \in Nat
    BY BatchAssumption
  <1>2. PICK d \in Nat : n = m + d
    BY n - m \in Nat
  <1>3. COUNTER_BATCH * n = COUNTER_BATCH * m + COUNTER_BATCH * d
    BY <1>1, <1>2
  <1>4. COUNTER_BATCH * m \in Nat /\ COUNTER_BATCH * d \in Nat /\ COUNTER_BATCH * n \in Nat
    BY <1>1
  <1>5. d # 0 => COUNTER_BATCH * d >= COUNTER_BATCH
    <2>1. SUFFICES ASSUME d # 0 PROVE COUNTER_BATCH * d >= COUNTER_BATCH
      OBVIOUS
    <2>2. PICK e \in Nat : d = e + 1
      BY <2>1, d - 1 \in Nat
    <2>3. COUNTER_BATCH * d = COUNTER_BATCH * e + COUNTER_BATCH /\ COUNTER_BATCH * e \in Nat
      BY <1>1, <2>2
    <2> QED BY <1>1, <2>3
  <1> QED BY <1>1, <1>2, <1>3, <1>4, <1>5

LEMMA SumsGrow ==
  ASSUME NEW m \in Nat, NEW n \in Nat, NEW p \in Nat, NEW q \in Nat, m <= p, n <= q
  PROVE  /\ m + n \in Nat /\ p + q \in Nat /\ m + n <= p + q
         /\ m < p \/ n < q => m + n < p + q
  OBVIOUS

\* A step that sends nothing, writes no counters and drops none.
LEMMA LedgerQuiet ==
  ASSUME TypeOK, TypeOK', NEW b \in Broadcasts, Ledger(b),
         sentCount'[b] = sentCount[b], failedCount'[b] = failedCount[b],
         oks'[b] = oks[b], attempts'[b] = attempts[b],
         crashes <= crashes', dbErrors <= dbErrors',
         Held(b, sent)' = Held(b, sent), Held(b, failed)' = Held(b, failed),
         Held(b, Both)' = Held(b, Both)
  PROVE  Ledger(b)'
  <1>1. /\ COUNTER_BATCH * (crashes + dbErrors) <= COUNTER_BATCH * (crashes' + dbErrors')
        /\ COUNTER_BATCH * (crashes + dbErrors) \in Nat
        /\ COUNTER_BATCH * (crashes' + dbErrors') \in Nat
    <2>1. crashes \in Nat /\ dbErrors \in Nat
      BY DEF TypeOK, FaultTypes
    <2>2. crashes' \in Nat /\ dbErrors' \in Nat
      BY DEF TypeOK, FaultTypes
    <2>3. /\ crashes + dbErrors \in Nat /\ crashes' + dbErrors' \in Nat
          /\ crashes + dbErrors <= crashes' + dbErrors'
      BY <2>1, <2>2, SumsGrow
    <2> QED BY <2>3, MoreFaults
  <1> QED BY <1>1, LedgerTypes DEF Ledger

\* The cells of a broadcast, when its workers and what they hold stay the same.
LEMMA HeldSame ==
  ASSUME TypeOK, TypeOK', NEW b \in Broadcasts, Looping(b)' = Looping(b),
         \A w \in Looping(b) : sent'[w] = sent[w] /\ failed'[w] = failed[w]
  PROVE  /\ Held(b, sent)' = Held(b, sent)
         /\ Held(b, failed)' = Held(b, failed)
         /\ Held(b, Both)' = Held(b, Both)
  <1>1. \A w \in Looping(b) : Both'[w] = Both[w]
    BY DEF Looping, Both
  <1> QED BY <1>1, CellsSame DEF Held

\* A worker that begins its loop, or has written its counters, or drops them.
LEMMA HeldWithout ==
  ASSUME TypeOK, TypeOK', NEW b \in Broadcasts, NEW w \in Workers,
         Looping(b)' \in {Looping(b) \union {w}, Looping(b) \ {w}},
         \A v \in Workers \ {w} : sent'[v] = sent[v] /\ failed'[v] = failed[v],
         w \in Looping(b)' => sent'[w] = 0 /\ failed'[w] = 0
  PROVE  /\ Held(b, sent)' = Cardinality(Cells(Looping(b) \ {w}, sent))
         /\ Held(b, failed)' = Cardinality(Cells(Looping(b) \ {w}, failed))
         /\ Held(b, Both)' = Cardinality(Cells(Looping(b) \ {w}, Both))
  <1>1. Both'[w] = sent'[w] + failed'[w] /\ \A v \in Workers \ {w} : Both'[v] = Both[v]
    BY DEF Both
  <1>2. Looping(b) \in SUBSET Workers
    BY DEF Looping
  <1>3. ASSUME NEW n, NEW m, \A v \in Workers \ {w} : m[v] = n[v], w \in Looping(b)' => m[w] = 0
        PROVE  Cardinality(Cells(Looping(b)', m)) = Cardinality(Cells(Looping(b) \ {w}, n))
    <2>1. Cells(Looping(b)', m) = Cells(Looping(b) \ {w}, m)
      <3>1. CASE w \in Looping(b)'
        <4>1. Looping(b)' = Looping(b) \union {w} /\ m[w] = 0
          BY <1>3, <3>1
        <4> QED BY <1>2, <4>1, CellsNone
      <3>2. CASE w \notin Looping(b)'
        <4>1. Looping(b)' = Looping(b) \ {w}
          BY <3>2
        <4> QED BY <4>1
      <3> QED BY <3>1, <3>2
    <2>2. Cells(Looping(b) \ {w}, m) = Cells(Looping(b) \ {w}, n)
      BY <1>2, <1>3, CellsSame
    <2> QED BY <2>1, <2>2
  <1>4. Held(b, sent)' = Cardinality(Cells(Looping(b)', sent'))
        /\ Held(b, failed)' = Cardinality(Cells(Looping(b)', failed'))
        /\ Held(b, Both)' = Cardinality(Cells(Looping(b)', Both'))
    BY DEF Held
  <1>5. w \in Looping(b)' => Both'[w] = 0
    BY <1>1
  <1> QED BY <1>1, <1>3, <1>4, <1>5

\* A step of w leaves the calls of the other workers alone.
Alone(w) ==
    \A v \in Workers \ {w} :
        pc'[v] = pc[v] /\ job'[v] = job[v] /\ sent'[v] = sent[v] /\ failed'[v] = failed[v]

LEMMA StepAlone ==
  ASSUME TypeOK, NEW w \in Workers, Step(w) \/ Crash(w)
  PROVE  Alone(w)
  <1> USE DEF TypeOK, WorkerTypes, Alone
  <1>1. ASSUME NEW b \in Broadcasts, Deliver(w, b) \/ DeliverFails(w, b) PROVE Alone(w)
    BY <1>1 DEF Deliver, DeliverFails, GoTo
  <1>2. ASSUME NEW c \in Chats, SendOk(w, c) PROVE Alone(w)
    BY <1>2 DEF SendOk, GoTo
  <1>3. ASSUME NEW c \in Chats, NEW f \in Failures, SendFails(w, c, f) PROVE Alone(w)
    BY <1>3 DEF SendFails, GoTo
  <1>4. CASE MarkRunning(w) \/ Resolve(w) \/ FilterBlocked(w) \/ AutoBlock(w) \/ RecordFailure(w)
    BY <1>4 DEF MarkRunning, Resolve, FilterBlocked, AutoBlock, RecordFailure, GoTo
  <1>5. CASE FlushCounters(w) \/ Finish(w) \/ TaskFails(w)
    BY <1>5 DEF FlushCounters, Finish, TaskFails, GoTo
  <1>6. CASE Report(w) \/ MarkFailed(w) \/ Crash(w)
    BY <1>6 DEF Report, MarkFailed, Crash, Return, GoTo
  <1> QED BY <1>1, <1>2, <1>3, <1>4, <1>5, <1>6 DEF Step

LEMMA LoopAlone ==
  ASSUME NEW w \in Workers, Alone(w), NEW b \in Broadcasts
  PROVE  /\ Looping(b)' \ {w} = Looping(b) \ {w}
         /\ Looping(b)' \in {Looping(b) \union {w}, Looping(b) \ {w}}
  <1>1. \A v \in Workers \ {w} : v \in Looping(b)' <=> v \in Looping(b)
    BY DEF Alone, Looping
  <1>2. Looping(b) \in SUBSET Workers /\ Looping(b)' \in SUBSET Workers
    BY DEF Looping
  <1> QED BY <1>1, <1>2

\* The record and the history of a broadcast stay.
Settled(b) ==
    /\ sentCount'[b] = sentCount[b] /\ failedCount'[b] = failedCount[b]
    /\ oks'[b] = oks[b] /\ attempts'[b] = attempts[b]
    /\ crashes <= crashes' /\ dbErrors <= dbErrors'

\* A worker outside the loop of b moves, or begins the loop.
LEMMA LedgerOutside ==
  ASSUME TypeOK, TypeOK', NEW b \in Broadcasts, Ledger(b), NEW w \in Workers, Alone(w), Settled(b),
         w \notin Looping(b), w \in Looping(b)' => sent'[w] = 0 /\ failed'[w] = 0
  PROVE  Ledger(b)'
  <1>1. Looping(b)' \in {Looping(b) \union {w}, Looping(b) \ {w}}
    BY LoopAlone
  <1>2. Looping(b) \ {w} = Looping(b)
    OBVIOUS
  <1>3. \A v \in Workers \ {w} : sent'[v] = sent[v] /\ failed'[v] = failed[v]
    BY DEF Alone
  <1>4. /\ Held(b, sent)' = Held(b, sent) /\ Held(b, failed)' = Held(b, failed)
        /\ Held(b, Both)' = Held(b, Both)
    <2>1. /\ Held(b, sent)' = Cardinality(Cells(Looping(b) \ {w}, sent))
          /\ Held(b, failed)' = Cardinality(Cells(Looping(b) \ {w}, failed))
          /\ Held(b, Both)' = Cardinality(Cells(Looping(b) \ {w}, Both))
      BY <1>1, <1>3, HeldWithout
    <2> QED BY <1>2, <2>1 DEF Held
  <1> QED BY <1>4, LedgerQuiet DEF Settled

\* A worker in the loop writes nothing of this.
LEMMA LedgerInside ==
  ASSUME TypeOK, TypeOK', NEW b \in Broadcasts, Ledger(b), NEW w \in Workers, Alone(w), Settled(b),
         w \in Looping(b), w \in Looping(b)', sent'[w] = sent[w], failed'[w] = failed[w]
  PROVE  Ledger(b)'
  <1>1. Looping(b)' = Looping(b)
    BY LoopAlone
  <1>2. \A v \in Looping(b) : sent'[v] = sent[v] /\ failed'[v] = failed[v]
    BY DEF Alone, Looping
  <1>3. /\ Held(b, sent)' = Held(b, sent) /\ Held(b, failed)' = Held(b, failed)
        /\ Held(b, Both)' = Held(b, Both)
    BY <1>1, <1>2, HeldSame
  <1> QED BY <1>3, LedgerQuiet DEF Settled

\* One outcome more in the hands of w.
LEMMA HeldMore ==
  ASSUME TypeOK, TypeOK', NEW b \in Broadcasts, NEW w \in Workers, Alone(w),
         w \in Looping(b), w \in Looping(b)', sent[w] + failed[w] < COUNTER_BATCH
  PROVE  /\ sent'[w] = sent[w] + 1 => Held(b, sent)' = Held(b, sent) + 1
         /\ sent'[w] = sent[w] => Held(b, sent)' = Held(b, sent)
         /\ failed'[w] = failed[w] + 1 => Held(b, failed)' = Held(b, failed) + 1
         /\ failed'[w] = failed[w] => Held(b, failed)' = Held(b, failed)
         /\ Both'[w] = Both[w] + 1 => Held(b, Both)' = Held(b, Both) + 1
  <1>1. Looping(b)' = Looping(b) /\ Looping(b) \in SUBSET Workers
    BY LoopAlone DEF Looping
  <1>2. \A v \in Looping(b) \ {w} :
            sent'[v] = sent[v] /\ failed'[v] = failed[v] /\ Both'[v] = Both[v]
    BY DEF Alone, Looping, Both
  <1>3. sent \in [Workers -> Nat] /\ failed \in [Workers -> Nat] /\ Both \in [Workers -> Nat]
    BY LedgerTypes DEF TypeOK, WorkerTypes
  <1>4. sent[w] + 1 <= COUNTER_BATCH /\ failed[w] + 1 <= COUNTER_BATCH /\ Both[w] + 1 <= COUNTER_BATCH
    BY <1>3, BatchAssumption DEF Both
  <1>5. sent'[w] = sent[w] + 1 => Held(b, sent)' = Held(b, sent) + 1
    BY <1>1, <1>2, <1>3, <1>4, CellsMore DEF Held
  <1>6. failed'[w] = failed[w] + 1 => Held(b, failed)' = Held(b, failed) + 1
    BY <1>1, <1>2, <1>3, <1>4, CellsMore DEF Held
  <1>7. Both'[w] = Both[w] + 1 => Held(b, Both)' = Held(b, Both) + 1
    BY <1>1, <1>2, <1>3, <1>4, CellsMore DEF Held
  <1>8. sent'[w] = sent[w] => Held(b, sent)' = Held(b, sent)
    BY <1>1, <1>2, CellsSame DEF Held
  <1>9. failed'[w] = failed[w] => Held(b, failed)' = Held(b, failed)
    BY <1>1, <1>2, CellsSame DEF Held
  <1> QED BY <1>5, <1>6, <1>7, <1>8, <1>9

\* What w holds is a part of what the workers of b hold.
LEMMA HeldOf ==
  ASSUME TypeOK, NEW b \in Broadcasts, NEW w \in Looping(b), sent[w] + failed[w] <= COUNTER_BATCH
  PROVE  /\ Held(b, sent) = Cardinality(Cells(Looping(b) \ {w}, sent)) + sent[w]
         /\ Held(b, failed) = Cardinality(Cells(Looping(b) \ {w}, failed)) + failed[w]
         /\ Held(b, Both) = Cardinality(Cells(Looping(b) \ {w}, Both)) + (sent[w] + failed[w])
  <1>1. w \in Workers /\ Looping(b) \in SUBSET Workers
    BY DEF Looping
  <1>2. sent \in [Workers -> Nat] /\ failed \in [Workers -> Nat] /\ Both \in [Workers -> Nat]
    BY LedgerTypes DEF TypeOK, WorkerTypes
  <1>3. Both[w] = sent[w] + failed[w]
    BY <1>1 DEF Both
  <1>4. sent[w] <= COUNTER_BATCH /\ failed[w] <= COUNTER_BATCH /\ Both[w] <= COUNTER_BATCH
    BY <1>1, <1>2, <1>3, BatchAssumption
  <1>5. Held(b, sent) = Cardinality(Cells(Looping(b) \ {w}, sent)) + sent[w]
    BY <1>1, <1>2, <1>4, CellsWithout DEF Held
  <1>6. Held(b, failed) = Cardinality(Cells(Looping(b) \ {w}, failed)) + failed[w]
    BY <1>1, <1>2, <1>4, CellsWithout DEF Held
  <1>7. Held(b, Both) = Cardinality(Cells(Looping(b) \ {w}, Both)) + Both[w]
    BY <1>1, <1>2, <1>4, CellsWithout DEF Held
  <1> QED BY <1>3, <1>5, <1>6, <1>7

\* w adds what it holds to the record, and keeps nothing.
LEMMA LedgerFlushed ==
  ASSUME TypeOK, TypeOK', NEW b \in Broadcasts, Ledger(b), NEW w \in Workers, Alone(w),
         w \in Looping(b), w \in Looping(b)' => sent'[w] = 0 /\ failed'[w] = 0,
         sent[w] + failed[w] <= COUNTER_BATCH,
         sentCount'[b] = sentCount[b] + sent[w], failedCount'[b] = failedCount[b] + failed[w],
         oks'[b] = oks[b], attempts'[b] = attempts[b], UNCHANGED faults
  PROVE  Ledger(b)'
  <1>1. /\ Held(b, sent)' = Cardinality(Cells(Looping(b) \ {w}, sent))
        /\ Held(b, failed)' = Cardinality(Cells(Looping(b) \ {w}, failed))
        /\ Held(b, Both)' = Cardinality(Cells(Looping(b) \ {w}, Both))
    <2>1. Looping(b)' \in {Looping(b) \union {w}, Looping(b) \ {w}}
      BY LoopAlone
    <2>2. \A v \in Workers \ {w} : sent'[v] = sent[v] /\ failed'[v] = failed[v]
      BY DEF Alone
    <2> QED BY <2>1, <2>2, HeldWithout
  <1>2. /\ Held(b, sent) = Held(b, sent)' + sent[w]
        /\ Held(b, failed) = Held(b, failed)' + failed[w]
        /\ Held(b, Both) = Held(b, Both)' + (sent[w] + failed[w])
    BY <1>1, HeldOf
  <1>3. sent[w] \in Nat /\ failed[w] \in Nat
    BY DEF TypeOK, WorkerTypes
  <1>4. crashes' = crashes /\ dbErrors' = dbErrors
    BY DEF faults
  <1>5. COUNTER_BATCH * (crashes + dbErrors) \in Nat
    BY LedgerTypes, MoreFaults
  <1>6. /\ Held(b, sent) \in Nat /\ Held(b, failed) \in Nat /\ Held(b, Both) \in Nat
        /\ sentCount[b] \in Nat /\ failedCount[b] \in Nat /\ oks[b] \in Nat /\ attempts[b] \in Nat
    BY LedgerTypes
  <1>7. Held(b, sent)' \in Nat /\ Held(b, failed)' \in Nat /\ Held(b, Both)' \in Nat
    <2>1. Looping(b) \ {w} \in SUBSET Workers
      BY DEF Looping
    <2> QED BY <1>1, <2>1, CellsFinite
  <1>8. sentCount'[b] + Held(b, sent)' <= oks'[b]
    BY <1>2, <1>3, <1>6, <1>7 DEF Ledger
  <1>9. failedCount'[b] + Held(b, failed)' <= attempts'[b] - oks'[b]
    BY <1>2, <1>3, <1>6, <1>7 DEF Ledger
  <1>10. attempts'[b] - (sentCount'[b] + failedCount'[b])
           <= COUNTER_BATCH * (crashes + dbErrors) + Held(b, Both)'
    BY <1>2, <1>3, <1>5, <1>6, <1>7 DEF Ledger
  <1> QED BY <1>4, <1>8, <1>9, <1>10 DEF Ledger

\* w is gone with what it holds: a fault more.
LEMMA LedgerDropped ==
  ASSUME TypeOK, TypeOK', NEW b \in Broadcasts, Ledger(b), NEW w \in Workers, Alone(w), Settled(b),
         w \in Looping(b), w \notin Looping(b)', sent[w] + failed[w] <= COUNTER_BATCH,
         crashes < crashes' \/ dbErrors < dbErrors'
  PROVE  Ledger(b)'
  <1>1. /\ Held(b, sent)' = Cardinality(Cells(Looping(b) \ {w}, sent))
        /\ Held(b, failed)' = Cardinality(Cells(Looping(b) \ {w}, failed))
        /\ Held(b, Both)' = Cardinality(Cells(Looping(b) \ {w}, Both))
    <2>1. Looping(b)' \in {Looping(b) \union {w}, Looping(b) \ {w}}
      BY LoopAlone
    <2>2. \A v \in Workers \ {w} : sent'[v] = sent[v] /\ failed'[v] = failed[v]
      BY DEF Alone
    <2> QED BY <2>1, <2>2, HeldWithout
  <1>2. /\ Held(b, sent) = Held(b, sent)' + sent[w]
        /\ Held(b, failed) = Held(b, failed)' + failed[w]
        /\ Held(b, Both) = Held(b, Both)' + (sent[w] + failed[w])
    BY <1>1, HeldOf
  <1>3. sent[w] \in Nat /\ failed[w] \in Nat /\ COUNTER_BATCH \in Nat
    BY BatchAssumption DEF TypeOK, WorkerTypes
  <1>4. /\ COUNTER_BATCH * (crashes + dbErrors) \in Nat
        /\ COUNTER_BATCH * (crashes' + dbErrors') \in Nat
        /\ COUNTER_BATCH * (crashes + dbErrors) + COUNTER_BATCH <= COUNTER_BATCH * (crashes' + dbErrors')
    <2>1. crashes \in Nat /\ dbErrors \in Nat
      BY DEF TypeOK, FaultTypes
    <2>2. crashes' \in Nat /\ dbErrors' \in Nat
      BY DEF TypeOK, FaultTypes
    <2>3. crashes <= crashes' /\ dbErrors <= dbErrors'
      BY DEF Settled
    <2>4. /\ crashes + dbErrors \in Nat /\ crashes' + dbErrors' \in Nat
          /\ crashes + dbErrors < crashes' + dbErrors'
      BY <2>1, <2>2, <2>3, SumsGrow
    <2> QED BY <2>4, MoreFaults
  <1>5. /\ Held(b, sent) \in Nat /\ Held(b, failed) \in Nat /\ Held(b, Both) \in Nat
        /\ sentCount[b] \in Nat /\ failedCount[b] \in Nat /\ oks[b] \in Nat /\ attempts[b] \in Nat
    BY LedgerTypes
  <1>6. Held(b, sent)' \in Nat /\ Held(b, failed)' \in Nat /\ Held(b, Both)' \in Nat
    <2>1. Looping(b) \ {w} \in SUBSET Workers
      BY DEF Looping
    <2> QED BY <1>1, <2>1, CellsFinite
  <1>7. /\ sentCount'[b] = sentCount[b] /\ failedCount'[b] = failedCount[b]
        /\ oks'[b] = oks[b] /\ attempts'[b] = attempts[b]
    BY DEF Settled
  <1>8. sentCount'[b] + Held(b, sent)' <= oks'[b]
    BY <1>2, <1>3, <1>5, <1>6, <1>7 DEF Ledger
  <1>9. failedCount'[b] + Held(b, failed)' <= attempts'[b] - oks'[b]
    BY <1>2, <1>3, <1>5, <1>6, <1>7 DEF Ledger
  <1>10. attempts'[b] - (sentCount'[b] + failedCount'[b])
           <= COUNTER_BATCH * (crashes' + dbErrors') + Held(b, Both)'
    BY <1>2, <1>3, <1>4, <1>5, <1>6, <1>7 DEF Ledger
  <1> QED BY <1>8, <1>9, <1>10 DEF Ledger

\* w has one outcome more, of one kind or the other.
LEMMA LedgerMore ==
  ASSUME TypeOK, TypeOK', NEW b \in Broadcasts, Ledger(b), NEW w \in Workers, Alone(w),
         w \in Looping(b), w \in Looping(b)', sent[w] + failed[w] < COUNTER_BATCH,
         \/ sent'[w] = sent[w] + 1 /\ failed'[w] = failed[w] /\ oks'[b] = oks[b] + 1
         \/ sent'[w] = sent[w] /\ failed'[w] = failed[w] + 1 /\ oks'[b] = oks[b],
         sentCount'[b] = sentCount[b], failedCount'[b] = failedCount[b],
         attempts'[b] = attempts[b] + 1, crashes <= crashes', dbErrors <= dbErrors'
  PROVE  Ledger(b)'
  <1>1. sent[w] \in Nat /\ failed[w] \in Nat
    BY DEF TypeOK, WorkerTypes
  <1>2. Both[w] = sent[w] + failed[w] /\ Both'[w] = sent'[w] + failed'[w]
    BY DEF Both
  <1>3. Both'[w] = Both[w] + 1
    BY <1>1, <1>2
  <1>4. /\ COUNTER_BATCH * (crashes + dbErrors) \in Nat
        /\ COUNTER_BATCH * (crashes' + dbErrors') \in Nat
        /\ COUNTER_BATCH * (crashes + dbErrors) <= COUNTER_BATCH * (crashes' + dbErrors')
    <2>1. crashes \in Nat /\ dbErrors \in Nat
      BY DEF TypeOK, FaultTypes
    <2>2. crashes' \in Nat /\ dbErrors' \in Nat
      BY DEF TypeOK, FaultTypes
    <2>3. /\ crashes + dbErrors \in Nat /\ crashes' + dbErrors' \in Nat
          /\ crashes + dbErrors <= crashes' + dbErrors'
      BY <2>1, <2>2, SumsGrow
    <2> QED BY <2>3, MoreFaults
  <1>5. /\ Held(b, sent) \in Nat /\ Held(b, failed) \in Nat /\ Held(b, Both) \in Nat
        /\ sentCount[b] \in Nat /\ failedCount[b] \in Nat /\ oks[b] \in Nat /\ attempts[b] \in Nat
    BY LedgerTypes
  <1>6. Held(b, Both)' = Held(b, Both) + 1
    BY <1>3, HeldMore
  <1>7. \/ Held(b, sent)' = Held(b, sent) + 1 /\ Held(b, failed)' = Held(b, failed) /\ oks'[b] = oks[b] + 1
        \/ Held(b, sent)' = Held(b, sent) /\ Held(b, failed)' = Held(b, failed) + 1 /\ oks'[b] = oks[b]
    BY HeldMore
  <1>8. sentCount'[b] + Held(b, sent)' <= oks'[b]
    BY <1>5, <1>7 DEF Ledger
  <1>9. failedCount'[b] + Held(b, failed)' <= attempts'[b] - oks'[b]
    BY <1>5, <1>7 DEF Ledger
  <1>10. attempts'[b] - (sentCount'[b] + failedCount'[b])
           <= COUNTER_BATCH * (crashes' + dbErrors') + Held(b, Both)'
    BY <1>4, <1>5, <1>6 DEF Ledger
  <1> QED BY <1>8, <1>9, <1>10 DEF Ledger

\* A transaction fails, or none does.
LEMMA FaultsGrow ==
  ASSUME TypeOK
  PROVE  /\ UNCHANGED faults => crashes <= crashes' /\ dbErrors <= dbErrors'
         /\ DbError => crashes <= crashes' /\ dbErrors < dbErrors' /\ dbErrors <= dbErrors'
  <1>1. crashes \in Nat /\ dbErrors \in Nat
    BY DEF TypeOK, FaultTypes
  <1> QED BY <1>1 DEF faults, DbError

LEMMA LedgerWork ==
  ASSUME TypeOK, TypeOK', BatchInv, NEW b \in Broadcasts, Ledger(b),
         NEW w \in Workers, Step(w) \/ Crash(w)
  PROVE  Ledger(b)'
  <1>0. Alone(w)
    BY StepAlone
  <1>t. /\ pc \in [Workers -> PCs] /\ job \in [Workers -> Broadcasts \union {NoJob}]
        /\ sent \in [Workers -> Nat] /\ failed \in [Workers -> Nat]
        /\ sentCount \in [Broadcasts -> Nat] /\ failedCount \in [Broadcasts -> Nat]
        /\ oks \in [Broadcasts -> Nat] /\ attempts \in [Broadcasts -> Nat]
    BY DEF TypeOK, WorkerTypes, RecordTypes, HistoryTypes
  <1>j. /\ w \in Looping(b) <=> job[w] = b /\ pc[w] \in Loop
        /\ w \in Looping(b)' <=> job'[w] = b /\ pc'[w] \in Loop
    BY DEF Looping
  <1>1. ASSUME NEW x \in Broadcasts, Deliver(w, x) \/ DeliverFails(w, x) PROVE Ledger(b)'
    <2>1. pc[w] \notin Loop /\ pc'[w] \notin Loop
      BY <1>1, <1>t DEF Deliver, DeliverFails, GoTo, Loop
    <2>2. Settled(b)
      BY <1>1, FaultsGrow DEF Deliver, DeliverFails, Settled, record, history
    <2> QED BY <1>0, <1>j, <2>1, <2>2, LedgerOutside
  <1>2. CASE MarkRunning(w) \/ Resolve(w) \/ Report(w) \/ MarkFailed(w)
    <2>1. pc[w] \notin Loop /\ pc'[w] \notin Loop
      BY <1>2, <1>t DEF MarkRunning, Resolve, Report, MarkFailed, Return, GoTo, Loop
    <2>2. Settled(b)
      BY <1>2, FaultsGrow DEF MarkRunning, Resolve, Report, MarkFailed, Settled, record, history
    <2> QED BY <1>0, <1>j, <2>1, <2>2, LedgerOutside
  <1>3. CASE FilterBlocked(w)
    <2>1. pc[w] \notin Loop \union {"report"} /\ sent'[w] = sent[w] /\ failed'[w] = failed[w]
      BY <1>3 DEF FilterBlocked, Loop
    <2>2. sent[w] = 0 /\ failed[w] = 0
      BY <2>1 DEF BatchInv
    <2>3. Settled(b)
      BY <1>3, FaultsGrow DEF FilterBlocked, Settled, record
    <2> QED BY <1>0, <1>j, <2>1, <2>2, <2>3, LedgerOutside
  <1>4. ASSUME NEW c \in Chats, SendOk(w, c) PROVE Ledger(b)'
    <2>1. /\ pc[w] = "send" /\ pc' = [pc EXCEPT ![w] = AfterOutcome(sent[w] + 1, failed[w])]
          /\ sent' = [sent EXCEPT ![w] = @ + 1] /\ failed' = failed /\ job' = job
          /\ attempts' = [attempts EXCEPT ![job[w]] = @ + 1] /\ oks' = [oks EXCEPT ![job[w]] = @ + 1]
          /\ sentCount' = sentCount /\ failedCount' = failedCount /\ UNCHANGED faults
      BY <1>4 DEF SendOk, GoTo, record
    <2>2. pc[w] \in Loop /\ pc'[w] \in Loop
      BY <1>t, <2>1 DEF AfterOutcome, Loop
    <2>3. sent[w] + failed[w] < COUNTER_BATCH
      BY <2>1 DEF BatchInv
    <2>4. CASE job[w] = b
      BY <1>0, <1>j, <1>t, <2>1, <2>2, <2>3, <2>4, FaultsGrow, LedgerMore
    <2>5. CASE job[w] # b
      <3>1. Settled(b)
        BY <1>t, <2>1, <2>5, FaultsGrow DEF Settled
      <3> QED BY <1>0, <1>j, <2>1, <2>5, <3>1, LedgerOutside
    <2> QED BY <2>4, <2>5
  <1>5. ASSUME NEW c \in Chats, NEW f \in Failures, SendFails(w, c, f) PROVE Ledger(b)'
    <2>1. /\ pc[w] = "send" /\ \E step \in {"block", "record"} : pc' = [pc EXCEPT ![w] = step]
          /\ failed' = [failed EXCEPT ![w] = @ + 1] /\ sent' = sent /\ job' = job
          /\ attempts' = [attempts EXCEPT ![job[w]] = @ + 1] /\ oks' = oks
          /\ sentCount' = sentCount /\ failedCount' = failedCount
      BY <1>5 DEF SendFails, GoTo, record
    <2>2. pc[w] \in Loop /\ pc'[w] \in Loop
      BY <1>t, <2>1 DEF Loop
    <2>3. sent[w] + failed[w] < COUNTER_BATCH
      BY <2>1 DEF BatchInv
    <2>4. UNCHANGED faults
      BY <1>5 DEF SendFails
    <2>5. crashes <= crashes' /\ dbErrors <= dbErrors'
      BY <2>4, FaultsGrow
    <2>6. CASE job[w] = b
      BY <1>0, <1>j, <1>t, <2>1, <2>2, <2>3, <2>5, <2>6, LedgerMore
    <2>7. CASE job[w] # b
      <3>1. Settled(b)
        BY <1>t, <2>1, <2>5, <2>7 DEF Settled
      <3> QED BY <1>0, <1>j, <2>1, <2>7, <3>1, LedgerOutside
    <2> QED BY <2>6, <2>7
  <1>6. CASE AutoBlock(w) \/ RecordFailure(w)
    <2>1. /\ pc[w] \in {"block", "record"}
          /\ \E step \in {"send", "record", "flush"} : pc' = [pc EXCEPT ![w] = step]
          /\ sent' = sent /\ failed' = failed /\ job' = job
      BY <1>6 DEF AutoBlock, RecordFailure, AfterOutcome, GoTo
    <2>2. pc[w] \in Loop /\ pc'[w] \in Loop
      BY <1>t, <2>1 DEF Loop
    <2>3. UNCHANGED faults \/ DbError
      BY <1>6 DEF AutoBlock, RecordFailure
    <2>4. Settled(b)
      BY <1>6, <2>3, FaultsGrow DEF AutoBlock, RecordFailure, Settled, record, history
    <2>5. w \in Looping(b) <=> w \in Looping(b)'
      BY <1>j, <2>1, <2>2
    <2> QED BY <1>0, <2>1, <2>4, <2>5, LedgerInside, LedgerOutside
  <1>7. CASE FlushCounters(w) \/ Finish(w)
    <2>1. /\ pc[w] \in {"send", "flush"} /\ job' = job
          /\ sentCount' = [sentCount EXCEPT ![job[w]] = @ + sent[w]]
          /\ failedCount' = [failedCount EXCEPT ![job[w]] = @ + failed[w]]
          /\ oks' = oks /\ attempts' = attempts /\ UNCHANGED faults
      BY <1>7 DEF FlushCounters, Finish, AddCounters, history
    <2>2. pc'[w] \in Loop => sent'[w] = 0 /\ failed'[w] = 0
      BY <1>7, <1>t DEF FlushCounters, Finish, GoTo, Loop
    <2>3. sent[w] + failed[w] <= COUNTER_BATCH
      BY <1>t, <2>1, BatchAssumption DEF BatchInv
    <2>4. CASE job[w] = b
      <3>1. w \in Looping(b)
        BY <1>j, <2>1, <2>4 DEF Loop
      <3>2. sentCount'[b] = sentCount[b] + sent[w] /\ failedCount'[b] = failedCount[b] + failed[w]
        BY <1>t, <2>1, <2>4
      <3>3. w \in Looping(b)' => sent'[w] = 0 /\ failed'[w] = 0
        BY <1>j, <2>2
      <3>4. oks'[b] = oks[b] /\ attempts'[b] = attempts[b]
        BY <2>1
      <3>5. UNCHANGED faults
        BY <2>1
      <3> QED BY <1>0, <2>3, <3>1, <3>2, <3>3, <3>4, <3>5, LedgerFlushed
    <2>5. CASE job[w] # b
      <3>1. Settled(b)
        BY <1>t, <2>1, <2>5, FaultsGrow DEF Settled
      <3> QED BY <1>0, <1>j, <2>1, <2>5, <3>1, LedgerOutside
    <2> QED BY <2>4, <2>5
  <1>8. CASE TaskFails(w) \/ Crash(w)
    <2>1. pc'[w] \notin Loop
      BY <1>8, <1>t DEF TaskFails, Crash, Return, GoTo, Loop
    <2>2. crashes < crashes' \/ dbErrors < dbErrors'
      <3>1. crashes \in Nat
        BY DEF TypeOK, FaultTypes
      <3> QED BY <1>8, <3>1, FaultsGrow DEF TaskFails, Crash
    <2>3. Settled(b)
      <3>1. crashes \in Nat /\ dbErrors \in Nat
        BY DEF TypeOK, FaultTypes
      <3> QED BY <1>8, <3>1, FaultsGrow DEF TaskFails, Crash, Settled, record, history
    <2>4. CASE w \in Looping(b)
      <3>1. sent[w] + failed[w] <= COUNTER_BATCH
        BY <1>j, <1>t, <2>4, BatchAssumption DEF BatchInv, Loop
      <3> QED BY <1>0, <1>j, <2>1, <2>2, <2>3, <2>4, <3>1, LedgerDropped
    <2>5. CASE w \notin Looping(b)
      BY <1>0, <1>j, <2>1, <2>3, <2>5, LedgerOutside
    <2> QED BY <2>4, <2>5
  <1> QED BY <1>1, <1>2, <1>3, <1>4, <1>5, <1>6, <1>7, <1>8 DEF Step

LedgerInv == \A b \in Broadcasts : Ledger(b)

LEMMA LedgerInit == TypeOK /\ Init => LedgerInv
  <1> SUFFICES ASSUME TypeOK, Init, NEW b \in Broadcasts PROVE Ledger(b)
    BY DEF LedgerInv
  <1>1. Looping(b) = {}
    BY DEF Init, Looping, Loop
  <1>2. \A n : Cells(Looping(b), n) = {}
    BY <1>1 DEF Cells
  <1>3. Held(b, sent) = 0 /\ Held(b, failed) = 0 /\ Held(b, Both) = 0
    BY <1>2, FS_EmptySet DEF Held
  <1>4. COUNTER_BATCH * (crashes + dbErrors) = 0
    BY BatchAssumption DEF Init
  <1>5. /\ oks[b] = 0 /\ attempts[b] = 0 /\ sentCount[b] = 0 /\ failedCount[b] = 0
    BY DEF Init
  <1> QED BY <1>3, <1>4, <1>5 DEF Ledger

LEMMA LedgerStep == TypeOK /\ TypeOK' /\ BatchInv /\ LedgerInv /\ [Next]_vars => LedgerInv'
  <1> SUFFICES ASSUME TypeOK, TypeOK', BatchInv, LedgerInv, [Next]_vars, NEW b \in Broadcasts
               PROVE  Ledger(b)'
    BY DEF LedgerInv
  <1>0. Ledger(b)
    BY DEF LedgerInv
  <1>1. ASSUME UNCHANGED worker, Settled(b) PROVE Ledger(b)'
    <2>1. Looping(b)' = Looping(b) /\ \A w \in Looping(b) : sent'[w] = sent[w] /\ failed'[w] = failed[w]
      BY <1>1 DEF Looping, worker
    <2>2. /\ Held(b, sent)' = Held(b, sent) /\ Held(b, failed)' = Held(b, failed)
          /\ Held(b, Both)' = Held(b, Both)
      BY <2>1, HeldSame
    <2> QED BY <1>0, <1>1, <2>2, LedgerQuiet DEF Settled
  <1>2. ASSUME NEW x \in Broadcasts, CreateBroadcast(x) \/ Enqueue(x) PROVE Ledger(b)'
    <2>1. UNCHANGED worker /\ UNCHANGED faults
      BY <1>2 DEF CreateBroadcast, Enqueue
    <2>2. Settled(b)
      BY <1>2, <2>1, FaultsGrow DEF CreateBroadcast, Enqueue, Settled, record, history
    <2> QED BY <1>1, <2>1, <2>2
  <1>3. ASSUME NEW w \in Workers, Step(w) \/ Crash(w) PROVE Ledger(b)'
    BY <1>0, <1>3, LedgerWork
  <1>4. ASSUME NEW w \in Workers, Redeliver(w) PROVE Ledger(b)'
    <2>1. crashes \in Nat /\ dbErrors \in Nat
      BY DEF TypeOK, FaultTypes
    <2>2. Settled(b)
      BY <1>4, <2>1 DEF Redeliver, Settled, record, history
    <2> QED BY <1>1, <1>4, <2>2 DEF Redeliver
  <1>5. CASE UNCHANGED vars
    <2>1. Settled(b)
      BY <1>5, FaultsGrow DEF vars, Settled, record, history
    <2> QED BY <1>1, <1>5, <2>1 DEF vars
  <1> QED BY <1>2, <1>3, <1>4, <1>5 DEF Next

\* What the ledger says of the counters on the record.
LEMMA LedgerCounters ==
  ASSUME TypeOK, LedgerInv, NEW b \in Broadcasts
  PROVE  /\ sentCount[b] <= oks[b]
         /\ failedCount[b] <= attempts[b] - oks[b]
         /\ attempts[b] - (sentCount[b] + failedCount[b])
              <= COUNTER_BATCH * (crashes + dbErrors + Cardinality(Busy(b)))
  <1>1. Ledger(b)
    BY DEF LedgerInv
  <1>2. /\ Held(b, sent) \in Nat /\ Held(b, failed) \in Nat /\ Held(b, Both) \in Nat
        /\ sentCount[b] \in Nat /\ failedCount[b] \in Nat /\ oks[b] \in Nat /\ attempts[b] \in Nat
        /\ COUNTER_BATCH \in Nat /\ crashes + dbErrors \in Nat
    BY LedgerTypes
  <1>3. /\ Cardinality(Looping(b)) \in Nat
        /\ Held(b, Both) <= COUNTER_BATCH * Cardinality(Looping(b))
    <2>1. Looping(b) \in SUBSET Workers
      BY DEF Looping
    <2> QED BY <2>1, CellsBound DEF Held
  <1>4. Cardinality(Busy(b)) \in Nat /\ Cardinality(Looping(b)) <= Cardinality(Busy(b))
    <2>1. Looping(b) \in SUBSET Busy(b) /\ Busy(b) \in SUBSET Workers
      BY DEF Looping, Busy
    <2>2. IsFiniteSet(Busy(b))
      BY <2>1, FiniteAssumption, FS_Subset
    <2> QED BY <2>1, <2>2, FS_Subset, FS_CardinalityType
  <1>5. COUNTER_BATCH * Cardinality(Looping(b)) <= COUNTER_BATCH * Cardinality(Busy(b))
    BY <1>3, <1>4, MoreFaults
  <1>6. COUNTER_BATCH * (crashes + dbErrors + Cardinality(Busy(b)))
          = COUNTER_BATCH * (crashes + dbErrors) + COUNTER_BATCH * Cardinality(Busy(b))
    <2> DEFINE f == crashes + dbErrors
    <2> HIDE DEF f
    <2>1. f \in Nat
      BY <1>2 DEF f
    <2>2. COUNTER_BATCH * (f + Cardinality(Busy(b))) = COUNTER_BATCH * f + COUNTER_BATCH * Cardinality(Busy(b))
      BY <1>2, <1>4, <2>1
    <2> QED BY <2>2 DEF f
  <1>7. /\ COUNTER_BATCH * (crashes + dbErrors) \in Nat
        /\ COUNTER_BATCH * Cardinality(Looping(b)) \in Nat
        /\ COUNTER_BATCH * Cardinality(Busy(b)) \in Nat
    BY <1>2, <1>3, <1>4, MoreFaults
  <1>8. sentCount[b] <= oks[b] /\ failedCount[b] <= attempts[b] - oks[b]
    BY <1>1, <1>2 DEF Ledger
  <1>9. attempts[b] - (sentCount[b] + failedCount[b])
          <= COUNTER_BATCH * (crashes + dbErrors) + COUNTER_BATCH * Cardinality(Busy(b))
    BY <1>1, <1>2, <1>3, <1>5, <1>7 DEF Ledger
  <1> QED BY <1>6, <1>8, <1>9

LEMMA LedgerHolds == Spec => [](TypeOK /\ BatchInv /\ LedgerInv)
  <1>1. Init => TypeOK /\ BatchInv /\ LedgerInv
    BY TypeInit, BatchInit, LedgerInit
  <1>2. TypeOK /\ BatchInv /\ LedgerInv /\ [Next]_vars => (TypeOK /\ BatchInv /\ LedgerInv)'
    BY TypeNext, BatchStep, LedgerStep
  <1> QED BY <1>1, <1>2, PTL DEF Spec

\* The counters on the record never claim a message or a failure that did not
\* happen, whichever workers flush, fail or overlap (inc_sent and inc_failed
\* against the local counters of _async_process_broadcast).
THEOREM CountersTrue == Spec => []CountersNeverOverstated
  <1>1. TypeOK /\ BatchInv /\ LedgerInv => CountersNeverOverstated
    BY LedgerCounters DEF CountersNeverOverstated
  <1> QED BY <1>1, LedgerHolds, PTL

\* A lost worker, a failed transaction and a call in progress hide at most one
\* batch of outcomes each: the flush every _COUNTER_BATCH outcomes.
THEOREM CounterLoss == Spec => []CounterLossBounded
  <1>1. TypeOK /\ BatchInv /\ LedgerInv => CounterLossBounded
    BY LedgerCounters DEF CounterLossBounded
  <1> QED BY <1>1, LedgerHolds, PTL

-----------------------------------------------------------------------------
(* The audience of a DONE broadcast. While its message is in one pair of    *)
(* hands, what is counted, held and still to be sent makes up the audience. *)

Counted(b) == sentCount[b] + failedCount[b]

AudienceInv(b) ==
    /\ status[b] \in {"ABSENT", "PENDING"} => Counted(b) = 0
    /\ \A w \in Workers : job[w] = b =>
          /\ pc[w] \in {"resolve", "filter"} => Counted(b) = 0
          /\ pc[w] \in Loop =>
                Counted(b) + sent[w] + failed[w] + Cardinality(todo[w])
                    = Cardinality(audience[b])
    /\ status[b] = "DONE" => Counted(b) = Cardinality(audience[b]) /\ finishedAt[b]

LEMMA AudienceInit == Init => \A b \in Broadcasts : AudienceInv(b)
  <1> SUFFICES ASSUME Init, NEW b \in Broadcasts PROVE AudienceInv(b)
    OBVIOUS
  <1>1. status[b] = "ABSENT" /\ Counted(b) = 0 /\ \A w \in Workers : pc[w] = "idle"
    BY DEF Init, Counted
  <1> QED BY <1>1 DEF AudienceInv, Loop

LEMMA ChatsFinite ==
  ASSUME NEW C \in SUBSET Chats
  PROVE  IsFiniteSet(C) /\ Cardinality(C) \in Nat
  <1>1. IsFiniteSet(Chats)
    BY FiniteAssumption, FS_Union DEF Chats
  <1> QED BY <1>1, FS_Subset, FS_CardinalityType

\* The record of a broadcast and its audience stay.
Standing(b) ==
    /\ status'[b] = status[b] /\ sentCount'[b] = sentCount[b] /\ failedCount'[b] = failedCount[b]
    /\ finishedAt'[b] = finishedAt[b] /\ audience'[b] = audience[b]

\* The chats the other workers still have to send to.
TodoAlone(w) == \A v \in Workers \ {w} : todo'[v] = todo[v]

LEMMA StepTodo ==
  ASSUME TypeOK, NEW w \in Workers, Step(w) \/ Crash(w)
  PROVE  TodoAlone(w)
  <1> USE DEF TypeOK, WorkerTypes, TodoAlone
  <1>1. ASSUME NEW b \in Broadcasts, Deliver(w, b) \/ DeliverFails(w, b) PROVE TodoAlone(w)
    BY <1>1 DEF Deliver, DeliverFails
  <1>2. ASSUME NEW c \in Chats, SendOk(w, c) PROVE TodoAlone(w)
    BY <1>2 DEF SendOk
  <1>3. ASSUME NEW c \in Chats, NEW f \in Failures, SendFails(w, c, f) PROVE TodoAlone(w)
    BY <1>3 DEF SendFails
  <1>4. CASE MarkRunning(w) \/ Resolve(w) \/ FilterBlocked(w) \/ AutoBlock(w) \/ RecordFailure(w)
    BY <1>4 DEF MarkRunning, Resolve, FilterBlocked, AutoBlock, RecordFailure
  <1>5. CASE FlushCounters(w) \/ Finish(w) \/ TaskFails(w)
    BY <1>5 DEF FlushCounters, Finish, TaskFails
  <1>6. CASE Report(w) \/ MarkFailed(w) \/ Crash(w)
    BY <1>6 DEF Report, MarkFailed, Crash, Return
  <1> QED BY <1>1, <1>2, <1>3, <1>4, <1>5, <1>6 DEF Step

\* A worker of another broadcast moves, or one that has nothing takes the
\* message of b.
LEMMA AudienceOutside ==
  ASSUME NEW b \in Broadcasts, AudienceInv(b), NEW w \in Workers, Alone(w), TodoAlone(w),
         Standing(b), job[w] # b, job'[w] = b => pc'[w] \in {"claim", "fail"}
  PROVE  AudienceInv(b)'
  <1>1. Counted(b)' = Counted(b)
    BY DEF Standing, Counted
  <1>2. ASSUME NEW v \in Workers, job'[v] = b
        PROVE  /\ pc'[v] \in {"resolve", "filter"} => Counted(b) = 0
               /\ pc'[v] \in Loop =>
                     Counted(b) + sent'[v] + failed'[v] + Cardinality(todo'[v])
                         = Cardinality(audience[b])
    <2>1. CASE v = w
      BY <1>2, <2>1 DEF Loop
    <2>2. CASE v # w
      BY <1>2, <2>2 DEF Alone, TodoAlone, AudienceInv
    <2> QED BY <2>1, <2>2
  <1> QED BY <1>1, <1>2 DEF AudienceInv, Standing

\* The worker of b moves.
LEMMA AudienceInside ==
  ASSUME NEW b \in Broadcasts, OneCopy(b), NEW w \in Workers, Alone(w), job[w] = b,
         status'[b] \in {"ABSENT", "PENDING"} => Counted(b)' = 0,
         job'[w] = b /\ pc'[w] \in {"resolve", "filter"} => Counted(b)' = 0,
         job'[w] = b /\ pc'[w] \in Loop =>
            Counted(b)' + sent'[w] + failed'[w] + Cardinality(todo'[w]) = Cardinality(audience'[b]),
         status'[b] = "DONE" => Counted(b)' = Cardinality(audience'[b]) /\ finishedAt'[b]
  PROVE  AudienceInv(b)'
  <1>1. \A v \in Workers : job'[v] = b => v = w
    BY DEF OneCopy, Alone
  <1> QED BY <1>1 DEF AudienceInv

LEMMA AudienceWork ==
  ASSUME TypeOK, BatchInv, NEW b \in Broadcasts, DupInv(b), AudienceInv(b),
         NEW w \in Workers, Step(w) \/ Crash(w)
  PROVE  AudienceInv(b)'
  <1>0. Alone(w) /\ TodoAlone(w)
    BY StepAlone, StepTodo
  <1>d. OneCopy(b) /\ NothingSentBeforeStart(b) /\ ListIsFresh(b)
    BY DEF DupInv
  <1>t. /\ pc \in [Workers -> PCs] /\ job \in [Workers -> Broadcasts \union {NoJob}]
        /\ todo \in [Workers -> SUBSET Chats]
        /\ sent \in [Workers -> Nat] /\ failed \in [Workers -> Nat]
        /\ sentCount \in [Broadcasts -> Nat] /\ failedCount \in [Broadcasts -> Nat]
        /\ status \in [Broadcasts -> Statuses] /\ audience \in [Broadcasts -> SUBSET Chats]
    BY DEF TypeOK, WorkerTypes, RecordTypes, HistoryTypes
  <1>c. Counted(b) \in Nat /\ Cardinality(todo[w]) \in Nat /\ Cardinality(audience[b]) \in Nat
    BY <1>t, ChatsFinite DEF Counted
  <1>s. ASSUME Standing(b) PROVE Counted(b)' = Counted(b)
    BY <1>s DEF Standing, Counted
  <1>1. ASSUME NEW x \in Broadcasts, Deliver(w, x) \/ DeliverFails(w, x) PROVE AudienceInv(b)'
    <2>1. job[w] # b /\ Standing(b)
      BY <1>1, JobAssumption DEF Deliver, DeliverFails, Standing, record, history, TypeOK, WorkerTypes
    <2>2. job'[w] = b => pc'[w] \in {"claim", "fail"}
      BY <1>1, <1>t, <2>1 DEF Deliver, DeliverFails, GoTo
    <2> QED BY <1>0, <2>1, <2>2, AudienceOutside
  <1>2. CASE MarkRunning(w)
    <2>1. /\ pc[w] = "claim" /\ pc' = [pc EXCEPT ![w] = "resolve"] /\ job' = job
          /\ status' = [status EXCEPT ![job[w]] = "RUNNING"]
          /\ UNCHANGED <<sentCount, failedCount, finishedAt, audience>>
      BY <1>2 DEF MarkRunning, GoTo, history
    <2>2. CASE job[w] = b
      <3>1. Counted(b)' = Counted(b) /\ Counted(b) = 0
        BY <1>d, <2>1, <2>2 DEF ListIsFresh, AudienceInv, Counted
      <3>2. status'[b] = "RUNNING" /\ pc'[w] = "resolve"
        BY <1>t, <2>1, <2>2
      <3> QED BY <1>0, <1>d, <2>2, <3>1, <3>2, AudienceInside DEF Loop
    <2>3. CASE job[w] # b
      <3>1. Standing(b)
        BY <1>t, <2>1, <2>3 DEF Standing
      <3> QED BY <1>0, <2>1, <2>3, <3>1, AudienceOutside
    <2> QED BY <2>2, <2>3
  <1>3. CASE Resolve(w)
    <2>1. pc[w] = "resolve" /\ pc' = [pc EXCEPT ![w] = "filter"] /\ job' = job /\ Standing(b)
      BY <1>3 DEF Resolve, GoTo, record, Standing
    <2>2. CASE job[w] = b
      <3>1. Counted(b)' = 0 /\ status'[b] = "RUNNING" /\ pc'[w] = "filter"
        BY <1>d, <1>s, <1>t, <2>1, <2>2 DEF ListIsFresh, AudienceInv, Standing
      <3> QED BY <1>0, <1>d, <2>2, <3>1, AudienceInside DEF Loop
    <2>3. CASE job[w] # b
      BY <1>0, <2>1, <2>3, AudienceOutside
    <2> QED BY <2>2, <2>3
  <1>4. CASE FilterBlocked(w)
    <2>1. /\ pc[w] = "filter" /\ pc' = [pc EXCEPT ![w] = "send"]
          /\ UNCHANGED <<job, sent, failed, status, sentCount, failedCount, finishedAt>>
          /\ \E A : /\ todo' = [todo EXCEPT ![w] = A] /\ A \subseteq todo[w]
                    /\ audience' = [audience EXCEPT ![job[w]] = A]
      BY <1>4 DEF FilterBlocked, GoTo, record
    <2>2. CASE job[w] = b
      <3>1. Counted(b)' = 0 /\ status'[b] = "RUNNING"
        BY <1>d, <1>t, <2>1, <2>2 DEF ListIsFresh, AudienceInv, Counted
      <3>2. sent'[w] = 0 /\ failed'[w] = 0
        BY <2>1 DEF BatchInv, Loop
      <3>3. pc'[w] = "send" /\ todo'[w] = audience'[b] /\ todo'[w] \in SUBSET Chats
        BY <1>t, <2>1, <2>2
      <3>4. Cardinality(todo'[w]) \in Nat
        BY <3>3, ChatsFinite
      <3>5. Counted(b)' + sent'[w] + failed'[w] + Cardinality(todo'[w]) = Cardinality(audience'[b])
        BY <3>1, <3>2, <3>3, <3>4
      <3> QED BY <1>0, <1>d, <2>2, <3>1, <3>3, <3>5, AudienceInside
    <2>3. CASE job[w] # b
      <3>1. Standing(b)
        BY <1>t, <2>1, <2>3 DEF Standing
      <3> QED BY <1>0, <2>1, <2>3, <3>1, AudienceOutside
    <2> QED BY <2>2, <2>3
  <1>5. ASSUME NEW c \in Chats, SendOk(w, c) \/ \E f \in Failures : SendFails(w, c, f)
        PROVE  AudienceInv(b)'
    <2>1. /\ pc[w] = "send" /\ c \in todo[w] /\ todo' = [todo EXCEPT ![w] = @ \ {c}]
          /\ job' = job /\ Standing(b)
          /\ \/ sent' = [sent EXCEPT ![w] = @ + 1] /\ failed' = failed
             \/ sent' = sent /\ failed' = [failed EXCEPT ![w] = @ + 1]
      BY <1>5 DEF SendOk, SendFails, record, Standing
    <2>2. CASE job[w] = b
      <3>1. status'[b] = "RUNNING"
        BY <1>d, <2>1, <2>2 DEF ListIsFresh, Standing
      <3>2. pc'[w] \notin {"resolve", "filter"}
        BY <1>5, <1>t DEF SendOk, SendFails, GoTo, AfterOutcome
      <3>3. Counted(b) + sent[w] + failed[w] + Cardinality(todo[w]) = Cardinality(audience[b])
        BY <2>1, <2>2 DEF AudienceInv, Loop
      <3>4. Cardinality(todo'[w]) = Cardinality(todo[w]) - 1
        <4>1. IsFiniteSet(todo[w])
          BY <1>t, ChatsFinite
        <4>2. todo'[w] = todo[w] \ {c}
          BY <1>t, <2>1
        <4> QED BY <2>1, <4>1, <4>2, FS_RemoveElement
      <3>5. sent'[w] + failed'[w] = sent[w] + failed[w] + 1
        BY <1>t, <2>1
      <3>6. sent[w] \in Nat /\ failed[w] \in Nat /\ sent'[w] \in Nat /\ failed'[w] \in Nat
        BY <1>t, <2>1
      <3>7. Counted(b) + sent'[w] + failed'[w] + Cardinality(todo'[w]) = Cardinality(audience[b])
        BY <1>c, <3>3, <3>4, <3>5, <3>6
      <3>8. Counted(b)' = Counted(b) /\ audience'[b] = audience[b]
        BY <1>s, <2>1 DEF Standing
      <3> QED BY <1>0, <1>d, <2>2, <3>1, <3>2, <3>7, <3>8, AudienceInside
    <2>3. CASE job[w] # b
      BY <1>0, <2>1, <2>3, AudienceOutside
    <2> QED BY <2>2, <2>3
  <1>6. CASE AutoBlock(w) \/ RecordFailure(w)
    <2>1. /\ pc[w] \in {"block", "record"}
          /\ \E step \in {"send", "record", "flush"} : pc' = [pc EXCEPT ![w] = step]
          /\ job' = job /\ sent' = sent /\ failed' = failed /\ todo' = todo /\ Standing(b)
      BY <1>6 DEF AutoBlock, RecordFailure, AfterOutcome, GoTo, record, history, Standing
    <2>2. CASE job[w] = b
      <3>1. status'[b] = "RUNNING"
        BY <1>d, <2>1, <2>2 DEF ListIsFresh, Standing
      <3>2. pc'[w] \notin {"resolve", "filter"}
        BY <1>t, <2>1
      <3>3. Counted(b) + sent[w] + failed[w] + Cardinality(todo[w]) = Cardinality(audience[b])
        BY <2>1, <2>2 DEF AudienceInv, Loop
      <3>4. Counted(b)' = Counted(b) /\ audience'[b] = audience[b]
        BY <1>s, <2>1 DEF Standing
      <3> QED BY <1>0, <1>d, <2>1, <2>2, <3>1, <3>2, <3>3, <3>4, AudienceInside
    <2>3. CASE job[w] # b
      BY <1>0, <2>1, <2>3, AudienceOutside
    <2> QED BY <2>2, <2>3
  <1>7. CASE FlushCounters(w) \/ Finish(w)
    <2>1. /\ pc[w] \in {"send", "flush"} /\ job' = job /\ todo' = todo /\ audience' = audience
          /\ sentCount' = [sentCount EXCEPT ![job[w]] = @ + sent[w]]
          /\ failedCount' = [failedCount EXCEPT ![job[w]] = @ + failed[w]]
      BY <1>7 DEF FlushCounters, Finish, AddCounters, history
    <2>2. CASE job[w] = b
      <3>1. status[b] = "RUNNING"
        BY <1>d, <2>1, <2>2 DEF ListIsFresh
      <3>2. Counted(b) + sent[w] + failed[w] + Cardinality(todo[w]) = Cardinality(audience[b])
        BY <2>1, <2>2 DEF AudienceInv, Loop
      <3>3. sent[w] \in Nat /\ failed[w] \in Nat /\ sentCount[b] \in Nat /\ failedCount[b] \in Nat
        BY <1>t
      <3>4. sentCount'[b] = sentCount[b] + sent[w] /\ failedCount'[b] = failedCount[b] + failed[w]
        BY <1>t, <2>1, <2>2
      <3>5. Counted(b)' = Counted(b) + sent[w] + failed[w]
        BY <3>3, <3>4 DEF Counted
      <3>6. CASE FlushCounters(w)
        <4>1. pc'[w] = "send" /\ sent'[w] = 0 /\ failed'[w] = 0 /\ status'[b] = "RUNNING"
          BY <1>t, <3>1, <3>6 DEF FlushCounters, GoTo
        <4>2. Counted(b)' + 0 + 0 + Cardinality(todo[w]) = Cardinality(audience[b])
          BY <1>c, <3>2, <3>3, <3>5
        <4> QED BY <1>0, <1>d, <2>1, <2>2, <4>1, <4>2, AudienceInside
      <3>7. CASE Finish(w)
        <4>1. /\ pc'[w] = "report" /\ todo[w] = {} /\ status'[b] = "DONE" /\ finishedAt'[b]
          BY <1>t, <2>2, <3>7 DEF Finish, GoTo, TypeOK, RecordTypes
        <4>2. Cardinality(todo[w]) = 0
          BY <4>1, FS_EmptySet
        <4>3. Counted(b)' = Cardinality(audience[b])
          BY <1>c, <3>2, <3>3, <3>5, <4>2
        <4> QED BY <1>0, <1>d, <2>1, <2>2, <4>1, <4>3, AudienceInside DEF Loop
      <3> QED BY <1>7, <3>6, <3>7
    <2>3. CASE job[w] # b
      <3>1. finishedAt'[b] = finishedAt[b]
        BY <1>7, <2>3 DEF FlushCounters, Finish, TypeOK, RecordTypes
      <3>2. status'[b] = status[b]
        BY <1>7, <1>t, <2>3 DEF FlushCounters, Finish
      <3>3. sentCount'[b] = sentCount[b] /\ failedCount'[b] = failedCount[b] /\ audience'[b] = audience[b]
        BY <1>t, <2>1, <2>3
      <3>4. Standing(b)
        BY <3>1, <3>2, <3>3 DEF Standing
      <3> QED BY <1>0, <2>1, <2>3, <3>4, AudienceOutside
    <2> QED BY <2>2, <2>3
  <1>8. CASE Report(w) \/ Crash(w) \/ TaskFails(w)
    <2>1. Standing(b) /\ (job'[w] = job[w] \/ job'[w] = NoJob)
      BY <1>8, <1>t DEF Report, Crash, TaskFails, Return, record, history, Standing
    <2>2. pc'[w] \notin {"resolve", "filter"} \union Loop
      BY <1>8, <1>t DEF Report, Crash, TaskFails, Return, GoTo, Loop
    <2>3. CASE job[w] = b
      <3>1. Counted(b)' = Counted(b)
        BY <1>s, <2>1
      <3> QED BY <1>0, <1>d, <2>1, <2>2, <2>3, <3>1, AudienceInside DEF Standing, AudienceInv
    <2>4. CASE job[w] # b
      BY <1>0, <2>1, <2>4, JobAssumption, AudienceOutside
    <2> QED BY <2>3, <2>4
  <1>9. CASE MarkFailed(w)
    <2>1. /\ pc'[w] = "idle" /\ job'[w] = NoJob /\ UNCHANGED <<sentCount, failedCount, finishedAt, audience>>
          /\ status' = [status EXCEPT ![job[w]] = "FAILED"] \/ status' = status
      BY <1>9, <1>t DEF MarkFailed, Return, GoTo, history
    <2>2. Counted(b)' = Counted(b)
      BY <2>1 DEF Counted
    <2>3. CASE job[w] = b
      <3>1. status'[b] = "FAILED" \/ status'[b] = status[b]
        BY <1>t, <2>1, <2>3
      <3> QED BY <1>0, <1>d, <2>1, <2>2, <2>3, <3>1, AudienceInside DEF AudienceInv, Loop
    <2>4. CASE job[w] # b
      <3>1. Standing(b)
        BY <1>t, <2>1, <2>4 DEF Standing
      <3> QED BY <1>0, <2>1, <2>4, <3>1, JobAssumption, AudienceOutside
    <2> QED BY <2>3, <2>4
  <1> QED BY <1>1, <1>2, <1>3, <1>4, <1>5, <1>6, <1>7, <1>8, <1>9 DEF Step

LEMMA FaultsCount ==
  ASSUME TypeOK, [Next]_vars
  PROVE  crashes <= crashes' /\ dbErrors <= dbErrors' /\ redeliveries <= redeliveries'
  <1>1. crashes \in Nat /\ dbErrors \in Nat /\ redeliveries \in Nat
    BY DEF TypeOK, FaultTypes
  <1>2. ASSUME UNCHANGED faults \/ DbError
        PROVE  crashes <= crashes' /\ dbErrors <= dbErrors' /\ redeliveries <= redeliveries'
    BY <1>1, <1>2 DEF faults, DbError
  <1>3. ASSUME NEW b \in Broadcasts, CreateBroadcast(b) \/ Enqueue(b) PROVE UNCHANGED faults
    BY <1>3 DEF CreateBroadcast, Enqueue
  <1>4. ASSUME NEW w \in Workers, Step(w) PROVE UNCHANGED faults \/ DbError
    BY <1>4 DEF Step, Deliver, DeliverFails, MarkRunning, Resolve, FilterBlocked, SendOk, SendFails,
         AutoBlock, RecordFailure, FlushCounters, Finish, Report, TaskFails, MarkFailed
  <1>5. ASSUME NEW w \in Workers, Crash(w) \/ Redeliver(w)
        PROVE  crashes <= crashes' /\ dbErrors <= dbErrors' /\ redeliveries <= redeliveries'
    BY <1>1, <1>5 DEF Crash, Redeliver
  <1> QED BY <1>2, <1>3, <1>4, <1>5 DEF Next, vars

LEMMA AudienceNext ==
  ASSUME TypeOK, BatchInv, [Next]_vars, redeliveries' = 0,
         redeliveries = 0 => \A b \in Broadcasts : DupInv(b) /\ AudienceInv(b)
  PROVE  \A b \in Broadcasts : AudienceInv(b)'
  <1>1. redeliveries = 0
    BY FaultsCount DEF TypeOK, FaultTypes
  <1> SUFFICES ASSUME NEW b \in Broadcasts PROVE AudienceInv(b)'
    OBVIOUS
  <1>2. DupInv(b) /\ AudienceInv(b)
    BY <1>1
  <1>3. ASSUME UNCHANGED worker, Standing(b) PROVE AudienceInv(b)'
    BY <1>2, <1>3 DEF AudienceInv, Standing, Counted, worker
  <1>4. ASSUME NEW x \in Broadcasts, CreateBroadcast(x) PROVE AudienceInv(b)'
    <2>1. /\ confirm[x] = "composing" /\ status' = [status EXCEPT ![x] = "PENDING"]
          /\ UNCHANGED <<worker, sentCount, failedCount, finishedAt, audience>>
      BY <1>4 DEF CreateBroadcast, history
    <2>2. CASE x = b
      <3>1. status[b] = "ABSENT" /\ status'[b] = "PENDING"
        BY <1>2, <2>1, <2>2 DEF DupInv, NothingSentBeforeStart, TypeOK, RecordTypes
      <3> QED BY <1>2, <2>1, <3>1 DEF AudienceInv, Counted, worker
    <2>3. CASE x # b
      BY <1>3, <2>1, <2>3 DEF Standing, TypeOK, RecordTypes
    <2> QED BY <2>2, <2>3
  <1>5. ASSUME NEW x \in Broadcasts, Enqueue(x) PROVE AudienceInv(b)'
    BY <1>3, <1>5 DEF Enqueue, Standing, record, history
  <1>6. ASSUME NEW w \in Workers, Step(w) \/ Crash(w) PROVE AudienceInv(b)'
    BY <1>2, <1>6, AudienceWork
  <1>7. ASSUME NEW w \in Workers, Redeliver(w) PROVE FALSE
    BY <1>1, <1>7 DEF Redeliver
  <1>8. CASE UNCHANGED vars
    BY <1>3, <1>8 DEF vars, Standing, record, history
  <1> QED BY <1>4, <1>5, <1>6, <1>7, <1>8 DEF Next

\* What holds as long as no message is handed out early.
OneHand == redeliveries = 0 => \A b \in Broadcasts : DupInv(b) /\ AudienceInv(b)

LEMMA OneHandHolds == Spec => [](TypeOK /\ BatchInv /\ OneHand)
  <1>1. Init => TypeOK /\ BatchInv /\ OneHand
    BY TypeInit, BatchInit, DupInit, AudienceInit DEF OneHand
  <1>2. TypeOK /\ BatchInv /\ OneHand /\ [Next]_vars => (TypeOK /\ BatchInv /\ OneHand)'
    BY TypeNext, BatchStep, DupNext, AudienceNext DEF OneHand
  <1> QED BY <1>1, <1>2, PTL DEF Spec

\* A DONE record counts its audience exactly and carries finished_at, unless
\* a second copy of the message was in work (finalize against the counters).
THEOREM DoneCounts == Spec => []DoneCountsAudience
  <1>1. TypeOK /\ BatchInv /\ OneHand => DoneCountsAudience
    BY DEF OneHand, AudienceInv, Counted, DoneCountsAudience
  <1> QED BY <1>1, OneHandHolds, PTL

-----------------------------------------------------------------------------
(* Users who rejected the bot. The refusal, the update of users and the      *)
(* upsert of blocked_chats are three steps, between which other workers      *)
(* resolve and the process may be lost: a ledger says what that can cost.    *)

RejectInv == RejectionLedger /\ RejectedUsersExcluded

\* Only w changes hands.
HandsAlone(w) == \A v \in Workers \ {w} : pc'[v] = pc[v] /\ current'[v] = current[v]

LEMMA StepHands ==
  ASSUME TypeOK, NEW w \in Workers, Step(w) \/ Crash(w)
  PROVE  HandsAlone(w)
  <1>0. \A v \in Workers \ {w} : pc'[v] = pc[v]
    BY StepAlone DEF Alone
  <1> USE DEF TypeOK, WorkerTypes, HandsAlone
  <1>1. ASSUME NEW b \in Broadcasts, Deliver(w, b) \/ DeliverFails(w, b) PROVE HandsAlone(w)
    BY <1>0, <1>1 DEF Deliver, DeliverFails
  <1>2. ASSUME NEW c \in Chats, SendOk(w, c) \/ \E f \in Failures : SendFails(w, c, f)
        PROVE  HandsAlone(w)
    BY <1>0, <1>2 DEF SendOk, SendFails
  <1>3. CASE \/ MarkRunning(w) \/ Resolve(w) \/ FilterBlocked(w) \/ AutoBlock(w) \/ RecordFailure(w)
             \/ FlushCounters(w) \/ Finish(w) \/ TaskFails(w)
    BY <1>0, <1>3 DEF MarkRunning, Resolve, FilterBlocked, AutoBlock, RecordFailure, FlushCounters,
         Finish, TaskFails
  <1>4. CASE Report(w) \/ MarkFailed(w) \/ Crash(w)
    BY <1>0, <1>4 DEF Report, MarkFailed, Crash, Return
  <1> QED BY <1>1, <1>2, <1>3, <1>4 DEF Step

\* A step that w is not in before or after it has the same chats in hand.
LEMMA SameHands ==
  ASSUME NEW w \in Workers, HandsAlone(w), NEW step, pc[w] # step, pc'[w] # step
  PROVE  AtStep(step)' = AtStep(step)
  BY DEF HandsAlone, AtStep

\* w comes to a step with c, or leaves it.
LEMMA TakesInHand ==
  ASSUME NEW w \in Workers, HandsAlone(w), NEW step, pc[w] # step, pc'[w] = step
  PROVE  AtStep(step)' = AtStep(step) \union {current'[w]}
  BY DEF HandsAlone, AtStep

LEMMA LeavesHand ==
  ASSUME NEW w \in Workers, HandsAlone(w), NEW step, pc[w] = step, pc'[w] # step
  PROVE  AtStep(step) = AtStep(step)' \union {current[w]}
  BY DEF HandsAlone, AtStep

\* Finite sets of chats that grow or shrink by one chat.
LEMMA ByOne ==
  ASSUME NEW S \in SUBSET Chats, NEW T \in SUBSET Chats, NEW c
  PROVE  /\ Cardinality(S) \in Nat /\ Cardinality(T) \in Nat
         /\ T \subseteq S => Cardinality(T) <= Cardinality(S)
         /\ T \subseteq S \union {c} => Cardinality(T) <= Cardinality(S) + 1
         /\ c \in S /\ T \subseteq S \ {c} => Cardinality(T) <= Cardinality(S) - 1
  <1>1. /\ IsFiniteSet(S) /\ Cardinality(S) \in Nat
        /\ IsFiniteSet(T) /\ Cardinality(T) \in Nat
    BY ChatsFinite
  <1>2. T \subseteq S => Cardinality(T) <= Cardinality(S)
    BY <1>1, FS_Subset
  <1>3. ASSUME T \subseteq S \union {c} PROVE Cardinality(T) <= Cardinality(S) + 1
    <2>1. /\ IsFiniteSet(S \union {c})
          /\ Cardinality(S \union {c}) \in {Cardinality(S), Cardinality(S) + 1}
      BY <1>1, FS_AddElement
    <2>2. Cardinality(T) <= Cardinality(S \union {c})
      BY <1>3, <2>1, FS_Subset
    <2> QED BY <1>1, <2>1, <2>2
  <1>4. ASSUME c \in S, T \subseteq S \ {c} PROVE Cardinality(T) <= Cardinality(S) - 1
    <2>1. IsFiniteSet(S \ {c}) /\ Cardinality(S \ {c}) = Cardinality(S) - 1
      BY <1>1, <1>4, FS_RemoveElement
    <2>2. Cardinality(T) <= Cardinality(S \ {c})
      BY <1>4, <2>1, FS_Subset
    <2> QED BY <2>1, <2>2
  <1> QED BY <1>1, <1>2, <1>3, <1>4

Cost == 2 * Cardinality(Lost) + Cardinality(AtStake)
Paid == 2 * crashes + dbErrors

\* Of two pairs of naturals.
LEMMA PaysMore ==
  ASSUME NEW x \in Nat, NEW y \in Nat, NEW u \in Nat, NEW v \in Nat
  PROVE  2 * x + y \in Nat /\ (x <= u /\ y <= v => 2 * x + y <= 2 * u + v)
  OBVIOUS

LEMMA PaidTypes ==
  ASSUME TypeOK, TypeOK'
  PROVE  Paid \in Nat /\ Paid' \in Nat
  <1>1. crashes \in Nat /\ dbErrors \in Nat
    BY DEF TypeOK, FaultTypes
  <1>2. crashes' \in Nat /\ dbErrors' \in Nat
    BY DEF TypeOK, FaultTypes
  <1> QED BY <1>1, <1>2, PaysMore DEF Paid

LEMMA UsersAreChats == Lost \in SUBSET Chats /\ AtStake \in SUBSET Chats
  BY DEF Lost, AtStake, Chats

\* The moves of the ledger: nothing is lost; a rejection goes from lost to at
\* stake; a transaction fails; a worker is lost.
LEMMA Moves ==
  ASSUME TypeOK, TypeOK', Cost <= Paid, NEW c,
         \/ Lost' \subseteq Lost /\ AtStake' \subseteq AtStake /\ Paid <= Paid'
         \/ c \in Lost /\ Lost' \subseteq Lost \ {c} /\ AtStake' \subseteq AtStake \union {c} /\ Paid <= Paid'
         \/ Lost' \subseteq Lost /\ AtStake' \subseteq AtStake \union {c} /\ Paid + 1 <= Paid'
         \/ c \in AtStake /\ Lost' \subseteq Lost \union {c} /\ AtStake' \subseteq AtStake \ {c} /\ Paid + 1 <= Paid'
         \/ Lost' \subseteq Lost \union {c} /\ AtStake' \subseteq AtStake /\ Paid + 2 <= Paid'
  PROVE  Cost' <= Paid'
  <1>1. Lost \in SUBSET Chats /\ AtStake \in SUBSET Chats
    BY UsersAreChats
  <1>2. Lost' \in SUBSET Chats /\ AtStake' \in SUBSET Chats
    BY DEF Lost, AtStake, Chats
  <1> DEFINE l == Cardinality(Lost)
             m == Cardinality(Lost')
             s == Cardinality(AtStake)
             t == Cardinality(AtStake')
  <1>3. /\ l \in Nat /\ m \in Nat
        /\ Lost' \subseteq Lost => m <= l
        /\ Lost' \subseteq Lost \union {c} => m <= l + 1
        /\ c \in Lost /\ Lost' \subseteq Lost \ {c} => m <= l - 1
    BY <1>1, <1>2, ByOne
  <1>4. /\ s \in Nat /\ t \in Nat
        /\ AtStake' \subseteq AtStake => t <= s
        /\ AtStake' \subseteq AtStake \union {c} => t <= s + 1
        /\ c \in AtStake /\ AtStake' \subseteq AtStake \ {c} => t <= s - 1
    BY <1>1, <1>2, ByOne
  <1>5. Cost = 2 * l + s /\ Cost' = 2 * m + t
    BY DEF Cost
  <1>6. Paid \in Nat /\ Paid' \in Nat
    BY PaidTypes
  <1>7. 2 * l + s <= Paid
    BY <1>5
  <1>8. \/ m <= l /\ t <= s /\ Paid <= Paid'
        \/ m <= l - 1 /\ t <= s + 1 /\ Paid <= Paid'
        \/ m <= l /\ t <= s + 1 /\ Paid + 1 <= Paid'
        \/ m <= l + 1 /\ t <= s - 1 /\ Paid + 1 <= Paid'
        \/ m <= l + 1 /\ t <= s /\ Paid + 2 <= Paid'
    BY <1>3, <1>4
  <1> HIDE DEF l, m, s, t
  <1>9. 2 * m + t <= Paid'
    BY <1>3, <1>4, <1>6, <1>7, <1>8
  <1> QED BY <1>5, <1>9

\* What a step pays: nothing, a transaction, a worker.
LEMMA PaidBy ==
  ASSUME TypeOK
  PROVE  /\ UNCHANGED faults => Paid' = Paid
         /\ DbError => Paid' = Paid + 1
         /\ crashes' = crashes + 1 /\ UNCHANGED dbErrors => Paid' = Paid + 2
  BY DEF Paid, TypeOK, FaultTypes, faults, DbError

LEMMA CostWork ==
  ASSUME TypeOK, TypeOK', Cost <= Paid, NEW w \in Workers, Step(w) \/ Crash(w)
  PROVE  Cost' <= Paid'
  <1>0. HandsAlone(w)
    BY StepHands
  <1>t. /\ pc \in [Workers -> PCs] /\ current \in [Workers -> Chats \union {NoChat}]
        /\ crashes \in Nat /\ dbErrors \in Nat
    BY DEF TypeOK, WorkerTypes, FaultTypes
  <1> USE DEF InHand, Recorded
  <1>q. ASSUME UNCHANGED <<rejected, isBlocked, blockedChats>>,
               pc[w] \notin {"block", "record"}, pc'[w] \notin {"block", "record"}, Paid <= Paid'
        PROVE  Cost' <= Paid'
    <2>1. AtStep("block")' = AtStep("block") /\ AtStep("record")' = AtStep("record")
      BY <1>0, <1>q, SameHands
    <2>2. Lost' = Lost /\ AtStake' = AtStake
      BY <1>q, <2>1 DEF Lost, AtStake
    <2> QED BY <1>q, <2>2, Moves
  <1>p. UNCHANGED faults \/ DbError => Paid <= Paid'
    <2>1. Paid \in Nat
      BY <1>t DEF Paid
    <2> QED BY <2>1, PaidBy
  <1>1. ASSUME NEW b \in Broadcasts, Deliver(w, b) \/ DeliverFails(w, b) PROVE Cost' <= Paid'
    <2>1. /\ UNCHANGED <<rejected, isBlocked, blockedChats>>
          /\ pc[w] \notin {"block", "record"} /\ pc'[w] \notin {"block", "record"}
          /\ UNCHANGED faults \/ DbError
      BY <1>1, <1>t DEF Deliver, DeliverFails, GoTo, history, blocks
    <2> QED BY <1>p, <1>q, <2>1
  <1>2. CASE MarkRunning(w) \/ Resolve(w) \/ FilterBlocked(w) \/ FlushCounters(w) \/ Finish(w)
    <2>1. /\ UNCHANGED <<rejected, isBlocked, blockedChats>>
          /\ pc[w] \notin {"block", "record"} /\ pc'[w] \notin {"block", "record"}
          /\ UNCHANGED faults
      BY <1>2, <1>t DEF MarkRunning, Resolve, FilterBlocked, FlushCounters, Finish, GoTo, history, blocks
    <2> QED BY <1>p, <1>q, <2>1
  <1>3. CASE Report(w) \/ TaskFails(w) \/ MarkFailed(w)
    <2>1. /\ UNCHANGED <<rejected, isBlocked, blockedChats>>
          /\ pc[w] \notin {"block", "record"} /\ pc'[w] \notin {"block", "record"}
          /\ UNCHANGED faults \/ DbError
      BY <1>3, <1>t DEF Report, TaskFails, MarkFailed, Return, GoTo, history, blocks
    <2> QED BY <1>p, <1>q, <2>1
  <1>4. ASSUME NEW c \in Chats, SendOk(w, c) PROVE Cost' <= Paid'
    <2>1. /\ UNCHANGED <<rejected, isBlocked, blockedChats>>
          /\ pc[w] \notin {"block", "record"} /\ pc'[w] \notin {"block", "record"}
          /\ UNCHANGED faults
      BY <1>4, <1>t DEF SendOk, AfterOutcome, GoTo, blocks
    <2> QED BY <1>p, <1>q, <2>1
  <1>5. ASSUME NEW c \in Chats, NEW f \in Failures, SendFails(w, c, f) PROVE Cost' <= Paid'
    <2>1. /\ pc[w] = "send" /\ UNCHANGED <<isBlocked, blockedChats, faults>>
          /\ pc'[w] = IF f.terminal /\ c \in Users THEN "block" ELSE "record"
          /\ rejected' = IF f.terminal THEN rejected \union {c} ELSE rejected
          /\ current'[w] = c
      BY <1>5, <1>t DEF SendFails, GoTo, blocks
    <2>2. Paid <= Paid'
      BY <1>p, <2>1
    <2>3. CASE f.terminal /\ c \in Users
      <3>1. /\ AtStep("block")' = AtStep("block") \union {c}
            /\ AtStep("record")' = AtStep("record")
        BY <1>0, <2>1, <2>3, SameHands, TakesInHand
      <3>2. Lost' \subseteq Lost /\ AtStake' \subseteq AtStake
        BY <2>1, <2>3, <3>1 DEF Lost, AtStake
      <3> QED BY <2>2, <3>2, Moves
    <2>4. CASE ~(f.terminal /\ c \in Users)
      <3>1. /\ AtStep("block")' = AtStep("block")
            /\ AtStep("record")' = AtStep("record") \union {c}
        BY <1>0, <2>1, <2>4, SameHands, TakesInHand
      <3>2. rejected' \intersect Users = rejected \intersect Users
        BY <2>1, <2>4
      <3>3. CASE c \in Lost
        <4>1. Lost' \subseteq Lost \ {c} /\ AtStake' \subseteq AtStake \union {c}
          BY <2>1, <3>1, <3>2 DEF Lost, AtStake
        <4> QED BY <2>2, <3>3, <4>1, Moves
      <3>4. CASE c \notin Lost
        <4>1. Lost' \subseteq Lost
          BY <2>1, <3>1, <3>2 DEF Lost
        <4>2. AtStake' \subseteq AtStake
          BY <2>1, <3>1, <3>2, <3>4 DEF Lost, AtStake
        <4> QED BY <2>2, <4>1, <4>2, Moves
      <3> QED BY <3>3, <3>4
    <2> QED BY <2>3, <2>4
  <1>6. CASE AutoBlock(w)
    <2>1. /\ pc[w] = "block" /\ pc'[w] = "record" /\ current'[w] = current[w]
          /\ UNCHANGED <<rejected, blockedChats>>
          /\ \/ isBlocked' = isBlocked \union {current[w]} /\ UNCHANGED faults
             \/ isBlocked' = isBlocked /\ DbError
      BY <1>6, <1>t DEF AutoBlock, GoTo, history
    <2>2. /\ AtStep("block") = AtStep("block")' \union {current[w]}
          /\ AtStep("record")' = AtStep("record") \union {current[w]}
      BY <1>0, <2>1, TakesInHand, LeavesHand
    <2>3. Lost' \subseteq Lost
      BY <2>1, <2>2 DEF Lost
    <2>4. CASE isBlocked' = isBlocked \union {current[w]} /\ UNCHANGED faults
      <3>1. AtStake' \subseteq AtStake
        BY <2>1, <2>2, <2>4 DEF AtStake
      <3> QED BY <1>p, <2>3, <2>4, <3>1, Moves
    <2>5. CASE isBlocked' = isBlocked /\ DbError
      <3>1. AtStake' \subseteq AtStake \union {current[w]}
        BY <2>1, <2>2, <2>5 DEF AtStake
      <3>2. Paid + 1 <= Paid'
        BY <1>t, <2>5, PaidBy DEF Paid
      <3> QED BY <2>3, <3>1, <3>2, Moves
    <2> QED BY <2>1, <2>4, <2>5
  <1>7. CASE RecordFailure(w)
    <2>1. /\ pc[w] = "record" /\ pc'[w] \notin {"block", "record"}
          /\ UNCHANGED <<rejected, isBlocked>>
          /\ \/ blockedChats' = blockedChats \union {current[w]} /\ UNCHANGED faults
             \/ blockedChats' = blockedChats /\ DbError
      BY <1>7, <1>t DEF RecordFailure, AfterOutcome, GoTo, history
    <2>2. /\ AtStep("block")' = AtStep("block")
          /\ AtStep("record") = AtStep("record")' \union {current[w]}
      BY <1>0, <2>1, SameHands, LeavesHand
    <2>3. CASE blockedChats' = blockedChats \union {current[w]} /\ UNCHANGED faults
      <3>1. Lost' \subseteq Lost /\ AtStake' \subseteq AtStake
        BY <2>1, <2>2, <2>3 DEF Lost, AtStake
      <3> QED BY <1>p, <2>3, <3>1, Moves
    <2>4. CASE blockedChats' = blockedChats /\ DbError
      <3>1. Paid + 1 <= Paid' /\ Paid <= Paid'
        BY <1>t, <2>4, PaidBy DEF Paid
      <3>2. AtStake' \subseteq AtStake
        BY <2>1, <2>2, <2>4 DEF AtStake
      <3>3. CASE current[w] \in Lost'
        <4>1. current[w] \in AtStake /\ current[w] \notin AtStake'
          BY <2>1, <2>2, <2>4, <3>3 DEF Lost, AtStake
        <4>2. Lost' \subseteq Lost \union {current[w]}
          BY <2>1, <2>2, <2>4 DEF Lost
        <4> QED BY <3>1, <3>2, <4>1, <4>2, Moves
      <3>4. CASE current[w] \notin Lost'
        <4>1. Lost' \subseteq Lost
          BY <2>1, <2>2, <2>4, <3>4 DEF Lost
        <4> QED BY <3>1, <3>2, <4>1, Moves
      <3> QED BY <3>3, <3>4
    <2> QED BY <2>1, <2>3, <2>4
  <1>8. CASE Crash(w)
    <2>1. /\ UNCHANGED <<rejected, isBlocked, blockedChats>> /\ pc'[w] = "idle"
          /\ crashes' = crashes + 1 /\ dbErrors' = dbErrors
      BY <1>8, <1>t DEF Crash, Return, GoTo, history, blocks
    <2>2. Paid + 2 <= Paid' /\ Paid + 1 <= Paid' /\ Paid <= Paid'
      BY <1>t, <2>1 DEF Paid
    <2>3. CASE pc[w] \notin {"block", "record"}
      BY <1>q, <2>1, <2>2, <2>3
    <2>4. CASE pc[w] = "record"
      <3>1. /\ AtStep("block")' = AtStep("block")
            /\ AtStep("record") = AtStep("record")' \union {current[w]}
        BY <1>0, <2>1, <2>4, SameHands, LeavesHand
      <3>2. Lost' \subseteq Lost \union {current[w]} /\ AtStake' \subseteq AtStake
        BY <2>1, <3>1 DEF Lost, AtStake
      <3> QED BY <2>2, <3>2, Moves
    <2>5. CASE pc[w] = "block"
      <3>1. /\ AtStep("block") = AtStep("block")' \union {current[w]}
            /\ AtStep("record")' = AtStep("record")
        BY <1>0, <2>1, <2>5, SameHands, LeavesHand
      <3>2. CASE current[w] \in AtStep("record")
        <4>1. Lost' \subseteq Lost /\ AtStake' \subseteq AtStake \union {current[w]}
          BY <2>1, <3>1, <3>2 DEF Lost, AtStake
        <4> QED BY <2>2, <4>1, Moves
      <3>3. CASE current[w] \notin AtStep("record")
        <4>1. Lost' \subseteq Lost \union {current[w]} /\ AtStake' \subseteq AtStake
          BY <2>1, <3>1, <3>3 DEF Lost, AtStake
        <4> QED BY <2>2, <4>1, Moves
      <3> QED BY <3>2, <3>3
    <2> QED BY <2>3, <2>4, <2>5
  <1> QED BY <1>1, <1>2, <1>3, <1>4, <1>5, <1>6, <1>7, <1>8 DEF Step

\* The two bounds on one worker's list.
Unfiltered(w) ==
    pc[w] = "filter" /\ segment[job[w]] = "ALL_PRIVATE" =>
        2 * Cardinality((todo[w] \intersect knownRejected[w]) \ blockedChats) <= Paid

Filtered(w) ==
    pc[w] \in Loop /\ segment[job[w]] = "ALL_PRIVATE" =>
        2 * Cardinality(todo[w] \intersect knownRejected[w]) <= Paid

LEMMA RejectParts ==
  RejectInv <=> Cost <= Paid /\ \A w \in Workers : Unfiltered(w) /\ Filtered(w)
  BY DEF RejectInv, RejectionLedger, RejectedUsersExcluded, Unfiltered, Filtered, Loop, Cost, Paid

\* A set of chats within one that keeps to a bound keeps to it, and to any
\* that is higher.
LEMMA WithinPaid ==
  ASSUME TypeOK, TypeOK', Paid <= Paid', NEW S \in SUBSET Chats, NEW T \in SUBSET Chats, T \subseteq S,
         2 * Cardinality(S) <= Paid
  PROVE  2 * Cardinality(T) <= Paid'
  <1>1. Cardinality(S) \in Nat /\ Cardinality(T) \in Nat /\ Cardinality(T) <= Cardinality(S)
    BY ByOne
  <1>2. Paid \in Nat /\ Paid' \in Nat
    BY PaidTypes
  <1> QED BY <1>1, <1>2

\* A worker that stays where it is in its list, or goes on.
LEMMA ListShrinks ==
  ASSUME TypeOK, TypeOK', Paid <= Paid', NEW v \in Workers, Unfiltered(v), Filtered(v),
         UNCHANGED segment, blockedChats \subseteq blockedChats',
         pc'[v] \in Loop \union {"filter"} =>
             /\ job'[v] = job[v] /\ knownRejected'[v] = knownRejected[v] /\ todo'[v] \subseteq todo[v]
             /\ pc[v] = "filter" \/ (pc[v] \in Loop /\ pc'[v] \in Loop)
             /\ pc[v] = "filter" /\ pc'[v] \in Loop /\ segment[job[v]] = "ALL_PRIVATE" =>
                    todo'[v] \intersect blockedChats = {}
  PROVE  Unfiltered(v)' /\ Filtered(v)'
  <1>t. todo[v] \in SUBSET Chats /\ todo'[v] \in SUBSET Chats
    BY DEF TypeOK, WorkerTypes
  <1>1. Unfiltered(v)'
    <2> SUFFICES ASSUME pc'[v] = "filter", segment[job[v]] = "ALL_PRIVATE"
                 PROVE  2 * Cardinality((todo'[v] \intersect knownRejected'[v]) \ blockedChats') <= Paid'
      BY DEF Unfiltered
    <2>1. pc[v] = "filter" /\ todo'[v] \subseteq todo[v] /\ knownRejected'[v] = knownRejected[v]
      BY DEF Loop
    <2>2. 2 * Cardinality((todo[v] \intersect knownRejected[v]) \ blockedChats) <= Paid
      BY <2>1 DEF Unfiltered
    <2> QED BY <1>t, <2>1, <2>2, WithinPaid
  <1>2. Filtered(v)'
    <2> SUFFICES ASSUME pc'[v] \in Loop, segment[job[v]] = "ALL_PRIVATE"
                 PROVE  2 * Cardinality(todo'[v] \intersect knownRejected'[v]) <= Paid'
      BY DEF Filtered
    <2>1. CASE pc[v] = "filter"
      <3>1. 2 * Cardinality((todo[v] \intersect knownRejected[v]) \ blockedChats) <= Paid
        BY <2>1 DEF Unfiltered
      <3>2. todo'[v] \intersect knownRejected'[v] \subseteq (todo[v] \intersect knownRejected[v]) \ blockedChats
        BY <2>1
      <3> QED BY <1>t, <3>1, <3>2, WithinPaid
    <2>2. CASE pc[v] # "filter"
      <3>1. 2 * Cardinality(todo[v] \intersect knownRejected[v]) <= Paid
        BY <2>2 DEF Filtered
      <3>2. todo'[v] \intersect knownRejected'[v] \subseteq todo[v] \intersect knownRejected[v]
        OBVIOUS
      <3> QED BY <1>t, <3>1, <3>2, WithinPaid
    <2> QED BY <2>1, <2>2
  <1> QED BY <1>1, <1>2

\* At Resolve the rejections on the list are lost ones.
LEMMA ResolveLost ==
  ASSUME TypeOK, TypeOK', Cost <= Paid, NEW w \in Workers, Resolve(w)
  PROVE  Unfiltered(w)' /\ Filtered(w)'
  <1>t. /\ todo \in [Workers -> SUBSET Chats] /\ knownRejected \in [Workers -> SUBSET Chats]
        /\ pc \in [Workers -> PCs]
    BY DEF TypeOK, WorkerTypes, HistoryTypes
  <1>1. /\ pc'[w] = "filter" /\ UNCHANGED <<job, segment, blockedChats>> /\ Paid' = Paid
        /\ todo'[w] = Candidates(segment[job[w]]) /\ knownRejected'[w] = rejected \ InHand
    BY <1>t, PaidBy DEF Resolve, GoTo, record, blocks
  <1>2. ASSUME segment[job[w]] = "ALL_PRIVATE"
        PROVE  (todo'[w] \intersect knownRejected'[w]) \ blockedChats' = Lost
    BY <1>1, <1>2 DEF Candidates, Lost, Recorded
  <1>3. 2 * Cardinality(Lost) <= Paid
    <2>1. Cardinality(Lost) \in Nat /\ Cardinality(AtStake) \in Nat
      BY UsersAreChats, ByOne
    <2>2. Paid \in Nat
      BY DEF Paid, TypeOK, FaultTypes
    <2> QED BY <2>1, <2>2 DEF Cost
  <1> QED BY <1>1, <1>2, <1>3 DEF Unfiltered, Filtered, Loop

LEMMA RejectWork ==
  ASSUME TypeOK, TypeOK', RejectInv, NEW w \in Workers, Step(w) \/ Crash(w), Paid <= Paid'
  PROVE  RejectInv'
  <1>0. Alone(w) /\ TodoAlone(w) /\ Cost <= Paid /\ \A v \in Workers : Unfiltered(v) /\ Filtered(v)
    BY StepAlone, StepTodo, RejectParts
  <1>t. /\ pc \in [Workers -> PCs] /\ todo \in [Workers -> SUBSET Chats]
        /\ knownRejected \in [Workers -> SUBSET Chats]
    BY DEF TypeOK, WorkerTypes, HistoryTypes
  <1>1. Cost' <= Paid'
    BY <1>0, CostWork
  <1>2. UNCHANGED segment /\ blockedChats \subseteq blockedChats'
    BY DEF Step, Deliver, DeliverFails, MarkRunning, Resolve, FilterBlocked, SendOk, SendFails,
         AutoBlock, RecordFailure, FlushCounters, Finish, Report, TaskFails, MarkFailed, Crash,
         record, blocks
  <1>3. ASSUME NEW v \in Workers, v # w PROVE Unfiltered(v)' /\ Filtered(v)'
    <2>1. pc'[v] = pc[v] /\ job'[v] = job[v] /\ todo'[v] = todo[v]
      BY <1>0, <1>3 DEF Alone, TodoAlone
    <2>2. knownRejected'[v] = knownRejected[v]
      BY <1>3, <1>t DEF Step, Deliver, DeliverFails, MarkRunning, Resolve, FilterBlocked, SendOk,
           SendFails, AutoBlock, RecordFailure, FlushCounters, Finish, Report, TaskFails, MarkFailed,
           Crash, history
    <2>3. ASSUME pc'[v] = "filter" PROVE pc'[v] \notin Loop
      BY <2>3 DEF Loop
    <2> QED BY <1>0, <1>2, <2>1, <2>2, <2>3, ListShrinks
  <1>4. Unfiltered(w)' /\ Filtered(w)'
    <2>1. CASE Resolve(w)
      BY <1>0, <2>1, ResolveLost
    <2>2. CASE FilterBlocked(w)
      <3>1. /\ pc[w] = "filter" /\ pc'[w] = "send" /\ UNCHANGED <<job, knownRejected>>
            /\ todo'[w] = IF segment[job[w]] = "ALL_PRIVATE" THEN todo[w] \ blockedChats ELSE todo[w]
        BY <1>t, <2>2 DEF FilterBlocked, GoTo
      <3> QED BY <1>0, <1>2, <3>1, ListShrinks
    <2>3. ASSUME NEW c \in Chats, SendOk(w, c) \/ \E f \in Failures : SendFails(w, c, f)
          PROVE  Unfiltered(w)' /\ Filtered(w)'
      <3>1. /\ pc[w] = "send" /\ pc'[w] \in Loop /\ UNCHANGED <<job, knownRejected>>
            /\ todo'[w] \subseteq todo[w]
        BY <1>t, <2>3 DEF SendOk, SendFails, GoTo, AfterOutcome, Loop
      <3> QED BY <1>0, <1>2, <3>1, ListShrinks DEF Loop
    <2>4. CASE AutoBlock(w) \/ RecordFailure(w) \/ FlushCounters(w)
      <3>1. /\ pc[w] \in Loop /\ pc'[w] \in Loop /\ UNCHANGED <<job, knownRejected, todo>>
        BY <1>t, <2>4 DEF AutoBlock, RecordFailure, FlushCounters, GoTo, AfterOutcome, Loop, history
      <3>2. pc[w] # "filter"
        BY <3>1 DEF Loop
      <3> QED BY <1>0, <1>2, <3>1, <3>2, ListShrinks
    <2>5. CASE \/ \E b \in Broadcasts : Deliver(w, b) \/ DeliverFails(w, b)
               \/ MarkRunning(w) \/ Finish(w) \/ Report(w) \/ TaskFails(w) \/ MarkFailed(w) \/ Crash(w)
      <3>1. pc'[w] \notin Loop \union {"filter"}
        BY <1>t, <2>5 DEF Deliver, DeliverFails, MarkRunning, Finish, Report, TaskFails, MarkFailed, Crash,
             Return, GoTo, Loop
      <3> QED BY <3>1 DEF Unfiltered, Filtered
    <2> QED BY <2>1, <2>2, <2>3, <2>4, <2>5 DEF Step
  <1>5. \A v \in Workers : Unfiltered(v)' /\ Filtered(v)'
    BY <1>3, <1>4
  <1> QED
    BY <1>1, <1>5 DEF RejectInv, RejectionLedger, RejectedUsersExcluded, Unfiltered, Filtered, Loop, Cost, Paid

LEMMA RejectInit == TypeOK /\ Init => RejectInv
  <1> SUFFICES ASSUME TypeOK, Init PROVE RejectInv
    OBVIOUS
  <1>1. Lost = {} /\ AtStake = {}
    BY DEF Init, Lost, AtStake
  <1>2. Cost <= Paid
    BY <1>1, FS_EmptySet DEF Init, Cost, Paid
  <1>3. \A w \in Workers : pc[w] = "idle"
    BY DEF Init
  <1> QED BY <1>2, <1>3, RejectParts DEF Unfiltered, Filtered, Loop

LEMMA RejectNext == TypeOK /\ TypeOK' /\ RejectInv /\ [Next]_vars => RejectInv'
  <1> SUFFICES ASSUME TypeOK, TypeOK', RejectInv, [Next]_vars PROVE RejectInv'
    OBVIOUS
  <1>1. Paid <= Paid'
    <2>1. crashes \in Nat /\ dbErrors \in Nat
      BY DEF TypeOK, FaultTypes
    <2>2. crashes' \in Nat /\ dbErrors' \in Nat
      BY DEF TypeOK, FaultTypes
    <2>3. crashes <= crashes' /\ dbErrors <= dbErrors'
      BY FaultsCount
    <2> QED BY <2>1, <2>2, <2>3, PaysMore DEF Paid
  <1>2. ASSUME UNCHANGED <<worker, blocks, segment, rejected, knownRejected, crashes, dbErrors>>
        PROVE  RejectInv'
    BY <1>2 DEF worker, blocks, RejectInv, RejectionLedger, RejectedUsersExcluded, Lost, AtStake,
         Recorded, InHand, AtStep
  <1>3. ASSUME NEW b \in Broadcasts, CreateBroadcast(b) \/ Enqueue(b) PROVE RejectInv'
    BY <1>2, <1>3 DEF CreateBroadcast, Enqueue, faults, history, record
  <1>4. ASSUME NEW w \in Workers, Step(w) \/ Crash(w) PROVE RejectInv'
    BY <1>1, <1>4, RejectWork
  <1>5. ASSUME NEW w \in Workers, Redeliver(w) PROVE RejectInv'
    BY <1>2, <1>5 DEF Redeliver, record, history
  <1>6. CASE UNCHANGED vars
    BY <1>2, <1>6 DEF vars, record, faults, history
  <1> QED BY <1>3, <1>4, <1>5, <1>6 DEF Next

\* Whatever workers are lost, transactions fail, messages come twice and calls
\* overlap between the refusal, _auto_block_chat and _upsert_blocked_chat: a
\* private audience has at most one user of a dealt-with rejection for each
\* crash, and one for two failed transactions.
THEOREM RejectedExcluded == Spec => []RejectedUsersExcluded
  <1>1. TypeOK /\ Init => RejectInv
    BY RejectInit
  <1>2. TypeOK /\ TypeOK' /\ RejectInv /\ [Next]_vars => RejectInv'
    BY RejectNext
  <1>3. RejectInv => RejectedUsersExcluded
    BY DEF RejectInv
  <1> QED BY <1>1, <1>2, <1>3, BroadcastTypes, PTL DEF Spec

-----------------------------------------------------------------------------
(* DONE is final. After the worker that wrote DONE nobody has the message    *)
(* but for a copy that a crash requeued, and that copy writes FAILED only if *)
(* it cannot even load the record.                                          *)

FailInv == \A w \in Workers : pc[w] = "fail" => dbErrors > 0

Closed(b) ==
    status[b] = "DONE" =>
        /\ confirm[b] = "queued"
        /\ crashes > 0 \/ (queue[b] = 0 /\ \A w \in Workers : job[w] = b => pc[w] = "report")

FinalInv == FailInv /\ (redeliveries = 0 => \A b \in Broadcasts : Closed(b))

LEMMA FinalInit == Init => FinalInv
  BY DEF Init, FinalInv, FailInv, Closed

\* Only a failed transaction leads to the except branch.
LEMMA FailNext ==
  ASSUME TypeOK, FailInv, [Next]_vars
  PROVE  FailInv'
  <1>t. pc \in [Workers -> PCs] /\ dbErrors \in Nat /\ dbErrors' \in Nat
    BY TypeNext DEF TypeOK, WorkerTypes, FaultTypes
  <1>0. dbErrors > 0 => dbErrors' > 0
    BY <1>t, FaultsCount
  <1>1. ASSUME \A w \in Workers : pc'[w] = "fail" => pc[w] = "fail" PROVE FailInv'
    BY <1>0, <1>1 DEF FailInv
  <1>2. ASSUME NEW b \in Broadcasts, CreateBroadcast(b) \/ Enqueue(b) PROVE FailInv'
    BY <1>1, <1>2 DEF CreateBroadcast, Enqueue, worker
  <1>3. ASSUME NEW w \in Workers, NEW b \in Broadcasts, Deliver(w, b) PROVE FailInv'
    BY <1>1, <1>3, <1>t DEF Deliver, GoTo
  <1>4. ASSUME NEW w \in Workers, NEW b \in Broadcasts, DeliverFails(w, b) PROVE FailInv'
    BY <1>4, <1>t DEF DeliverFails, DbError, FailInv
  <1>5. ASSUME NEW w \in Workers, TaskFails(w) PROVE FailInv'
    BY <1>5, <1>t DEF TaskFails, DbError, FailInv
  <1>6. ASSUME NEW w \in Workers,
               MarkRunning(w) \/ Resolve(w) \/ FilterBlocked(w) \/ AutoBlock(w) \/ RecordFailure(w)
                 \/ FlushCounters(w) \/ Finish(w) \/ Report(w) \/ MarkFailed(w) \/ Crash(w) \/ Redeliver(w)
        PROVE  FailInv'
    BY <1>1, <1>6, <1>t DEF MarkRunning, Resolve, FilterBlocked, AutoBlock, RecordFailure, FlushCounters, Finish,
         Report, MarkFailed, Crash, Redeliver, Return, GoTo, AfterOutcome, worker
  <1>7. ASSUME NEW w \in Workers, NEW c \in Chats, SendOk(w, c) \/ \E f \in Failures : SendFails(w, c, f)
        PROVE  FailInv'
    BY <1>1, <1>7, <1>t DEF SendOk, SendFails, GoTo, AfterOutcome
  <1>8. CASE UNCHANGED vars
    BY <1>1, <1>8 DEF vars, worker
  <1> QED BY <1>2, <1>3, <1>4, <1>5, <1>6, <1>7, <1>8 DEF Next, Step

\* A broadcast that stays DONE, or is not, with no new copy in work.
LEMMA ClosedFrame ==
  ASSUME NEW b \in Broadcasts, Closed(b), crashes > 0 => crashes' > 0,
         status'[b] = "DONE" => status[b] = "DONE", confirm'[b] = confirm[b],
         crashes > 0 \/ crashes' > 0 \/
           /\ queue'[b] = queue[b]
           /\ \A w \in Workers : job'[w] = b => job[w] = b /\ (pc[w] = "report" => pc'[w] = "report")
  PROVE  Closed(b)'
  BY DEF Closed

LEMMA ClosedWork ==
  ASSUME TypeOK, NEW b \in Broadcasts, DupInv(b), Closed(b), NEW w \in Workers, Step(w) \/ Crash(w)
  PROVE  Closed(b)'
  <1>t. /\ pc \in [Workers -> PCs] /\ job \in [Workers -> Broadcasts \union {NoJob}]
        /\ status \in [Broadcasts -> Statuses] /\ queue \in [Broadcasts -> Nat]
        /\ crashes \in Nat
    BY DEF TypeOK, WorkerTypes, RecordTypes, BrokerTypes, FaultTypes
  <1>0. Alone(w)
    BY StepAlone
  <1>c. UNCHANGED crashes \/ Crash(w)
    BY DEF Step, Deliver, DeliverFails, MarkRunning, Resolve, FilterBlocked, SendOk, SendFails,
         AutoBlock, RecordFailure, FlushCounters, Finish, Report, TaskFails, MarkFailed, DbError, faults
  <1>1. ASSUME NEW x \in Broadcasts, Deliver(w, x) \/ DeliverFails(w, x) PROVE Closed(b)'
    <2>1. /\ status' = status /\ confirm' = confirm /\ crashes' = crashes
          /\ queue[x] > 0 /\ queue' = [queue EXCEPT ![x] = @ - 1]
          /\ (job' = job /\ pc' = pc) \/ job' = [job EXCEPT ![w] = x]
      BY <1>1 DEF Deliver, DeliverFails, DbError, faults, record
    <2>2. CASE x = b
      <3>1. status[b] = "DONE" => crashes > 0
        BY <1>t, <2>1, <2>2 DEF Closed
      <3> QED BY <2>1, <3>1 DEF Closed
    <2>3. CASE x # b
      <3>1. queue'[b] = queue[b]
        BY <1>t, <2>1, <2>3
      <3>2. \A v \in Workers : job'[v] = b => job[v] = b /\ (pc[v] = "report" => pc'[v] = "report")
        BY <1>0, <1>t, <2>1, <2>3 DEF Alone
      <3> QED BY <2>1, <3>1, <3>2, ClosedFrame
    <2> QED BY <2>2, <2>3
  <1>2. CASE Crash(w)
    <2>1. crashes' > 0 /\ status' = status /\ confirm' = confirm
      BY <1>2, <1>t DEF Crash, record
    <2> QED BY <2>1 DEF Closed
  <1>3. CASE Finish(w)
    <2>1. /\ status' = [status EXCEPT ![job[w]] = "DONE"] /\ UNCHANGED <<confirm, queue, job>>
          /\ pc' = [pc EXCEPT ![w] = "report"]
      BY <1>3 DEF Finish, GoTo, broker
    <2>2. CASE job[w] = b
      <3>1. confirm[b] = "queued" /\ queue[b] = 0 /\ \A v \in Workers : job[v] = b => v = w
        BY <2>2 DEF DupInv, OneCopy
      <3>2. pc'[w] = "report"
        BY <1>t, <2>1
      <3> QED BY <2>1, <3>1, <3>2 DEF Closed
    <2>3. CASE job[w] # b
      <3>1. status'[b] = status[b]
        BY <1>t, <2>1, <2>3
      <3>2. \A v \in Workers : pc[v] = "report" => pc'[v] = "report"
        BY <1>t, <2>1
      <3> QED BY <1>3, <2>1, <3>1, <3>2, ClosedFrame DEF Finish, faults
    <2> QED BY <2>2, <2>3
  <1>4. CASE Report(w) \/ MarkFailed(w)
    <2>1. /\ UNCHANGED <<confirm, queue, crashes>> /\ job' = [job EXCEPT ![w] = NoJob]
          /\ status' = status \/ status' = [status EXCEPT ![job[w]] = "FAILED"]
      BY <1>4, <1>c DEF Report, MarkFailed, Return, DbError, faults, record, broker
    <2>2. \A v \in Workers : job'[v] = b => job[v] = b /\ pc'[v] = pc[v]
      BY <1>0, <1>t, <2>1, JobAssumption DEF Alone
    <2>3. status'[b] = "DONE" => status[b] = "DONE"
      BY <1>t, <2>1
    <2> QED BY <2>1, <2>2, <2>3, ClosedFrame
  <1>5. CASE MarkRunning(w)
    <2>1. /\ UNCHANGED <<confirm, queue, job, crashes>> /\ pc[w] = "claim"
          /\ status' = [status EXCEPT ![job[w]] = "RUNNING"]
      BY <1>5 DEF MarkRunning, broker, faults
    <2>2. \A v \in Workers : pc[v] = "report" => pc'[v] = "report"
      BY <1>0, <2>1 DEF Alone
    <2>3. status'[b] = "DONE" => status[b] = "DONE"
      BY <1>t, <2>1
    <2> QED BY <2>1, <2>2, <2>3, ClosedFrame
  <1>6. ASSUME \/ Resolve(w) \/ FilterBlocked(w) \/ AutoBlock(w) \/ RecordFailure(w) \/ FlushCounters(w)
               \/ TaskFails(w)
               \/ \E c \in Chats : SendOk(w, c) \/ \E f \in Failures : SendFails(w, c, f)
        PROVE  Closed(b)'
    <2>1. pc[w] # "report" /\ pc[w] # "idle" /\ UNCHANGED <<confirm, queue, job, status>>
      BY <1>6 DEF Resolve, FilterBlocked, AutoBlock, RecordFailure, FlushCounters, TaskFails, SendOk,
           SendFails, broker, record
    <2>2. UNCHANGED crashes
      <3>1. ASSUME Crash(w) PROVE FALSE
        <4>1. job[w] # NoJob
          BY <2>1 DEF TypeOK, WorkerTypes
        <4>2. job' = [job EXCEPT ![w] = NoJob]
          BY <3>1 DEF Crash, Return
        <4> QED BY <1>t, <2>1, <4>1, <4>2
      <3> QED BY <1>c, <3>1
    <2>3. \A v \in Workers : pc[v] = "report" => pc'[v] = "report"
      BY <1>0, <2>1 DEF Alone
    <2> QED BY <2>1, <2>2, <2>3, ClosedFrame
  <1> QED BY <1>1, <1>2, <1>3, <1>4, <1>5, <1>6 DEF Step

LEMMA FinalNext == TypeOK /\ OneHand /\ FinalInv /\ [Next]_vars => FinalInv'
  <1> SUFFICES ASSUME TypeOK, OneHand, FinalInv, [Next]_vars, redeliveries' = 0, NEW b \in Broadcasts
               PROVE  Closed(b)'
    BY FailNext DEF FinalInv
  <1>1. redeliveries = 0
    BY FaultsCount DEF TypeOK, FaultTypes
  <1>2. DupInv(b) /\ Closed(b)
    BY <1>1 DEF OneHand, FinalInv
  <1>3. ASSUME NEW x \in Broadcasts, CreateBroadcast(x) PROVE Closed(b)'
    <2>1. /\ confirm[x] = "composing" /\ confirm' = [confirm EXCEPT ![x] = "committed"]
          /\ status' = [status EXCEPT ![x] = "PENDING"] /\ UNCHANGED <<queue, worker, crashes>>
      BY <1>3 DEF CreateBroadcast, faults
    <2>2. CASE x = b
      <3>1. status'[b] = "PENDING"
        BY <2>1, <2>2 DEF TypeOK, RecordTypes
      <3> QED BY <3>1 DEF Closed
    <2>3. CASE x # b
      <3>1. status'[b] = status[b] /\ confirm'[b] = confirm[b]
        BY <2>1, <2>3 DEF TypeOK, RecordTypes, BrokerTypes
      <3> QED BY <1>2, <2>1, <3>1, ClosedFrame DEF worker
    <2> QED BY <2>2, <2>3
  <1>4. ASSUME NEW x \in Broadcasts, Enqueue(x) PROVE Closed(b)'
    <2>1. /\ confirm[x] = "committed" /\ UNCHANGED <<record, worker, crashes>>
          /\ \E how : confirm' = [confirm EXCEPT ![x] = how]
          /\ queue' = queue \/ queue' = [queue EXCEPT ![x] = @ + 1]
      BY <1>4 DEF Enqueue, faults
    <2>2. CASE x = b
      <3>1. status'[b] # "DONE"
        BY <1>2, <2>1, <2>2 DEF Closed, record
      <3> QED BY <3>1 DEF Closed
    <2>3. CASE x # b
      <3>1. queue'[b] = queue[b] /\ confirm'[b] = confirm[b]
        BY <2>1, <2>3 DEF TypeOK, BrokerTypes
      <3> QED BY <1>2, <2>1, <3>1, ClosedFrame DEF worker, record
    <2> QED BY <2>2, <2>3
  <1>5. ASSUME NEW w \in Workers, Step(w) \/ Crash(w) PROVE Closed(b)'
    BY <1>2, <1>5, ClosedWork
  <1>6. ASSUME NEW w \in Workers, Redeliver(w) PROVE FALSE
    BY <1>1, <1>6 DEF Redeliver
  <1>7. CASE UNCHANGED vars
    BY <1>2, <1>7, ClosedFrame DEF vars, record, broker, worker, faults
  <1> QED BY <1>3, <1>4, <1>5, <1>6, <1>7 DEF Next

\* Who may take DONE away.
LEMMA FinalAction ==
  ASSUME TypeOK, OneHand, FinalInv, [Next]_vars, NEW b \in Broadcasts,
         status[b] = "DONE", status'[b] # "DONE"
  PROVE  redeliveries > 0 \/ (crashes > 0 /\ dbErrors > 0)
  <1> SUFFICES ASSUME redeliveries = 0 PROVE crashes > 0 /\ dbErrors > 0
    BY DEF TypeOK, FaultTypes
  <1>1. DupInv(b) /\ Closed(b) /\ FailInv
    BY DEF OneHand, FinalInv
  <1>2. ASSUME NEW w \in Workers, MarkFailed(w) PROVE crashes > 0 /\ dbErrors > 0
    <2>1. pc[w] = "fail" /\ (status' = status \/ status' = [status EXCEPT ![job[w]] = "FAILED"])
      BY <1>2 DEF MarkFailed
    <2>2. job[w] = b
      BY <2>1 DEF TypeOK, RecordTypes
    <2> QED BY <1>1, <2>1, <2>2 DEF Closed, FailInv
  <1>3. ASSUME NEW w \in Workers, MarkRunning(w) PROVE FALSE
    <2>1. pc[w] = "claim" /\ status' = [status EXCEPT ![job[w]] = "RUNNING"]
      BY <1>3 DEF MarkRunning
    <2>2. job[w] = b
      BY <2>1 DEF TypeOK, RecordTypes
    <2> QED BY <1>1, <2>1, <2>2 DEF DupInv, ListIsFresh
  <1>4. ASSUME NEW w \in Workers, Finish(w) PROVE FALSE
    <2>1. status' = [status EXCEPT ![job[w]] = "DONE"]
      BY <1>4 DEF Finish
    <2> QED BY <2>1 DEF TypeOK, RecordTypes
  <1>5. ASSUME NEW x \in Broadcasts, CreateBroadcast(x) PROVE FALSE
    <2>1. confirm[x] = "composing" /\ status' = [status EXCEPT ![x] = "PENDING"]
      BY <1>5 DEF CreateBroadcast
    <2>2. x = b
      BY <2>1 DEF TypeOK, RecordTypes
    <2> QED BY <1>1, <2>1, <2>2 DEF DupInv, NothingSentBeforeStart
  <1>6. UNCHANGED status => FALSE
    OBVIOUS
  <1>7. ASSUME NEW w \in Workers, Step(w), ~MarkFailed(w), ~MarkRunning(w), ~Finish(w)
        PROVE  UNCHANGED status
    BY <1>7 DEF Step, Deliver, DeliverFails, Resolve, FilterBlocked, SendOk, SendFails, AutoBlock,
         RecordFailure, FlushCounters, Report, TaskFails, record
  <1>8. ASSUME NEW w \in Workers, Crash(w) \/ Redeliver(w) PROVE UNCHANGED status
    BY <1>8 DEF Crash, Redeliver, record
  <1>9. ASSUME NEW x \in Broadcasts, Enqueue(x) PROVE UNCHANGED status
    BY <1>9 DEF Enqueue, record
  <1> QED BY <1>2, <1>3, <1>4, <1>5, <1>6, <1>7, <1>8, <1>9 DEF Next, vars, record

\* DONE is taken away only where a second copy of the message was in work, or
\* where a copy that a crash requeued could not load the record and its
\* except branch wrote FAILED.
THEOREM DoneStays == Spec => DoneIsFinal
  <1>1. Init => FinalInv
    BY FinalInit
  <1>2. TypeOK /\ OneHand /\ FinalInv /\ [Next]_vars => FinalInv'
    BY FinalNext
  <1>3. TypeOK /\ OneHand /\ FinalInv /\ [Next]_vars =>
          [ \A b \in Broadcasts : status[b] = "DONE" /\ status'[b] # "DONE" =>
                redeliveries > 0 \/ (crashes > 0 /\ dbErrors > 0) ]_vars
    BY FinalAction
  <1> QED BY <1>1, <1>2, <1>3, OneHandHolds, PTL DEF Spec, DoneIsFinal
-----------------------------------------------------------------------------
(* Broadcast implements BroadcastContract. The contract lets an audience be  *)
(* chosen once and messages go to none but it; in the code that is the list  *)
(* of the one worker that has the message.                                  *)

Addressed(b) ==
    /\ status[b] = "ABSENT" => confirm[b] = "composing"
    /\ status[b] \in {"ABSENT", "PENDING"} => audience[b] = {}
    /\ \A w \in Workers : job[w] = b =>
          /\ pc[w] \in {"resolve", "filter"} => audience[b] = {}
          /\ pc[w] \in Loop => todo[w] \subseteq audience[b]

LEMMA AddressedInit == Init => \A b \in Broadcasts : Addressed(b)
  BY JobAssumption DEF Init, Addressed

\* A worker moves, and what it has left keeps to the audience.
LEMMA AddressedBy ==
  ASSUME NEW b \in Broadcasts, OneCopy(b), Addressed(b), NEW w \in Workers, Alone(w), TodoAlone(w),
         confirm'[b] = confirm[b],
         status'[b] = status[b] \/ status'[b] \in {"RUNNING", "DONE", "FAILED"},
         audience'[b] = audience[b] \/ (job[w] = b /\ status'[b] = "RUNNING"),
         job'[w] = b /\ pc'[w] \in {"resolve", "filter"} => audience'[b] = {},
         job'[w] = b /\ pc'[w] \in Loop => todo'[w] \subseteq audience'[b]
  PROVE  Addressed(b)'
  <1>1. ASSUME NEW v \in Workers, job'[v] = b
        PROVE  /\ pc'[v] \in {"resolve", "filter"} => audience'[b] = {}
               /\ pc'[v] \in Loop => todo'[v] \subseteq audience'[b]
    <2>1. CASE v = w
      BY <1>1, <2>1
    <2>2. CASE v # w
      <3>1. job[v] = b /\ pc'[v] = pc[v] /\ todo'[v] = todo[v]
        BY <1>1, <2>2 DEF Alone, TodoAlone
      <3>2. audience'[b] = audience[b]
        BY <2>2, <3>1 DEF OneCopy
      <3> QED BY <3>1, <3>2 DEF Addressed
    <2> QED BY <2>1, <2>2
  <1> QED BY <1>1 DEF Addressed

LEMMA AddressedWork ==
  ASSUME TypeOK, NEW b \in Broadcasts, DupInv(b), Addressed(b), NEW w \in Workers, Step(w) \/ Crash(w)
  PROVE  Addressed(b)'
  <1>0. Alone(w) /\ TodoAlone(w) /\ OneCopy(b) /\ ListIsFresh(b)
    BY StepAlone, StepTodo DEF DupInv
  <1>t. /\ pc \in [Workers -> PCs] /\ job \in [Workers -> Broadcasts \union {NoJob}]
        /\ todo \in [Workers -> SUBSET Chats] /\ status \in [Broadcasts -> Statuses]
        /\ audience \in [Broadcasts -> SUBSET Chats]
    BY DEF TypeOK, WorkerTypes, RecordTypes, HistoryTypes
  <1>c. confirm' = confirm
    BY DEF Step, Deliver, DeliverFails, MarkRunning, Resolve, FilterBlocked, SendOk, SendFails,
         AutoBlock, RecordFailure, FlushCounters, Finish, Report, TaskFails, MarkFailed, Crash, broker
  <1>1. ASSUME NEW x \in Broadcasts, Deliver(w, x) \/ DeliverFails(w, x) PROVE Addressed(b)'
    <2>1. UNCHANGED <<status, audience>> /\ pc[w] = "idle"
      BY <1>1 DEF Deliver, DeliverFails, record, history
    <2>2. pc'[w] \in {"idle", "claim", "fail"}
      BY <1>1, <1>t, <2>1 DEF Deliver, DeliverFails, GoTo
    <2> QED BY <1>0, <1>c, <2>1, <2>2, AddressedBy DEF Loop
  <1>2. CASE MarkRunning(w)
    <2>1. /\ pc[w] = "claim" /\ pc' = [pc EXCEPT ![w] = "resolve"] /\ job' = job /\ audience' = audience
          /\ status' = [status EXCEPT ![job[w]] = "RUNNING"]
      BY <1>2 DEF MarkRunning, GoTo, history
    <2>2. job[w] = b => audience[b] = {}
      BY <1>0, <2>1 DEF ListIsFresh, Addressed
    <2>3. status'[b] \in {status[b], "RUNNING"} /\ pc'[w] = "resolve"
      BY <1>t, <2>1
    <2> QED BY <1>0, <1>c, <2>1, <2>2, <2>3, AddressedBy DEF Loop
  <1>3. CASE Resolve(w)
    <2>1. pc[w] = "resolve" /\ pc' = [pc EXCEPT ![w] = "filter"] /\ UNCHANGED <<job, status, audience>>
      BY <1>3 DEF Resolve, GoTo, record
    <2>2. pc'[w] = "filter"
      BY <1>t, <2>1
    <2> QED BY <1>0, <1>c, <2>1, <2>2, AddressedBy DEF Loop, Addressed
  <1>4. CASE FilterBlocked(w)
    <2>1. /\ pc[w] = "filter" /\ pc' = [pc EXCEPT ![w] = "send"] /\ UNCHANGED <<job, status>>
          /\ \E A : todo' = [todo EXCEPT ![w] = A] /\ audience' = [audience EXCEPT ![job[w]] = A]
      BY <1>4 DEF FilterBlocked, GoTo, record
    <2>2. pc'[w] = "send"
      BY <1>t, <2>1
    <2>3. job[w] = b => status'[b] = "RUNNING" /\ todo'[w] = audience'[b]
      BY <1>0, <1>t, <2>1 DEF ListIsFresh
    <2>4. job[w] # b => audience'[b] = audience[b]
      BY <1>t, <2>1
    <2> QED BY <1>0, <1>c, <2>1, <2>2, <2>3, <2>4, AddressedBy
  <1>5. CASE \/ AutoBlock(w) \/ RecordFailure(w) \/ FlushCounters(w)
             \/ \E c \in Chats : SendOk(w, c) \/ \E f \in Failures : SendFails(w, c, f)
    <2>1. /\ pc[w] \in Loop /\ UNCHANGED <<job, status, audience>>
          /\ todo' = todo \/ \E c \in Chats : todo' = [todo EXCEPT ![w] = @ \ {c}]
      BY <1>5 DEF AutoBlock, RecordFailure, FlushCounters, SendOk, SendFails, Loop, record, history
    <2>2. pc'[w] \notin {"resolve", "filter"}
      BY <1>5, <1>t DEF AutoBlock, RecordFailure, FlushCounters, SendOk, SendFails, GoTo, AfterOutcome
    <2>3. todo'[w] \subseteq todo[w]
      BY <1>t, <2>1
    <2> QED BY <1>0, <1>c, <2>1, <2>2, <2>3, AddressedBy DEF Addressed
  <1>6. CASE Finish(w) \/ Report(w) \/ TaskFails(w) \/ MarkFailed(w) \/ Crash(w)
    <2>1. /\ audience' = audience
          /\ \/ status' = status
             \/ \E s \in {"DONE", "FAILED"} : status' = [status EXCEPT ![job[w]] = s]
      BY <1>6 DEF Finish, Report, TaskFails, MarkFailed, Crash, record, history
    <2>2. pc'[w] \in {"report", "fail", "idle"}
      BY <1>6, <1>t DEF Finish, Report, TaskFails, MarkFailed, Crash, Return, GoTo
    <2>3. status'[b] \in {status[b], "DONE", "FAILED"}
      BY <1>t, <2>1
    <2> QED BY <1>0, <1>c, <2>1, <2>2, <2>3, AddressedBy DEF Loop
  <1> QED BY <1>1, <1>2, <1>3, <1>4, <1>5, <1>6 DEF Step

PromiseInv == redeliveries = 0 => \A b \in Broadcasts : Addressed(b)

LEMMA PromiseNext == TypeOK /\ OneHand /\ PromiseInv /\ [Next]_vars => PromiseInv'
  <1> SUFFICES ASSUME TypeOK, OneHand, PromiseInv, [Next]_vars, redeliveries' = 0, NEW b \in Broadcasts
               PROVE  Addressed(b)'
    BY DEF PromiseInv
  <1>1. redeliveries = 0
    BY FaultsCount DEF TypeOK, FaultTypes
  <1>2. DupInv(b) /\ Addressed(b)
    BY <1>1 DEF OneHand, PromiseInv
  <1>3. ASSUME UNCHANGED <<worker, audience>>, confirm'[b] = confirm[b], status'[b] = status[b]
        PROVE  Addressed(b)'
    BY <1>2, <1>3 DEF Addressed, worker
  <1>4. ASSUME NEW x \in Broadcasts, CreateBroadcast(x) PROVE Addressed(b)'
    <2>1. /\ confirm[x] = "composing" /\ confirm' = [confirm EXCEPT ![x] = "committed"]
          /\ status' = [status EXCEPT ![x] = "PENDING"] /\ UNCHANGED <<worker, audience>>
      BY <1>4 DEF CreateBroadcast, history
    <2>2. CASE x = b
      <3>1. status[b] = "ABSENT" /\ status'[b] = "PENDING"
        BY <1>2, <2>1, <2>2 DEF DupInv, NothingSentBeforeStart, TypeOK, RecordTypes
      <3> QED BY <1>2, <2>1, <3>1 DEF Addressed, worker
    <2>3. CASE x # b
      BY <1>3, <2>1, <2>3 DEF TypeOK, RecordTypes, BrokerTypes
    <2> QED BY <2>2, <2>3
  <1>5. ASSUME NEW x \in Broadcasts, Enqueue(x) PROVE Addressed(b)'
    <2>1. /\ confirm[x] = "committed" /\ UNCHANGED <<record, worker, audience>>
          /\ \E how : confirm' = [confirm EXCEPT ![x] = how]
      BY <1>5 DEF Enqueue, history
    <2>2. CASE x = b
      <3>1. status[b] # "ABSENT"
        BY <1>2, <2>1, <2>2 DEF Addressed
      <3> QED BY <1>2, <2>1, <3>1 DEF Addressed, worker, record
    <2>3. CASE x # b
      BY <1>3, <2>1, <2>3 DEF TypeOK, BrokerTypes, record
    <2> QED BY <2>2, <2>3
  <1>6. ASSUME NEW w \in Workers, Step(w) \/ Crash(w) PROVE Addressed(b)'
    BY <1>2, <1>6, AddressedWork
  <1>7. ASSUME NEW w \in Workers, Redeliver(w) PROVE FALSE
    BY <1>1, <1>7 DEF Redeliver
  <1>8. CASE UNCHANGED vars
    BY <1>3, <1>8 DEF vars, record, broker, history
  <1> QED BY <1>4, <1>5, <1>6, <1>7, <1>8 DEF Next

\* What the contract sees of the counters.
Reported == [b \in Broadcasts |-> sentCount[b] + failedCount[b]]

LEMMA PromiseInit == Init => PromiseInv /\ Contract!Init
  <1>1. Init => PromiseInv
    BY AddressedInit DEF PromiseInv
  <1>2. Init => Contract!Init
    BY DEF Init, Contract!Init
  <1> QED BY <1>1, <1>2

LEMMA ReportedBy ==
  ASSUME NEW b \in Broadcasts, NEW n, n = Counted(b)',
         \A x \in Broadcasts \ {b} : sentCount'[x] = sentCount[x] /\ failedCount'[x] = failedCount[x]
  PROVE  Reported' = [Reported EXCEPT ![b] = n]
  BY DEF Reported, Counted

\* A worker's step is one of its broadcast's contract, or none of it.
LEMMA PromiseWork ==
  ASSUME TypeOK, NEW w \in Workers, NEW b \in Broadcasts, job[w] = b, pc[w] # "idle", Step(w),
         DupInv(b), AudienceInv(b), AudienceInv(b)', Addressed(b)
  PROVE  Contract!Next \/ UNCHANGED <<status, audience, received, Reported>>
  <1>d. OneCopy(b) /\ NothingSentBeforeStart(b) /\ ListIsFresh(b)
    BY DEF DupInv
  <1>t. /\ pc \in [Workers -> PCs] /\ todo \in [Workers -> SUBSET Chats]
        /\ sent \in [Workers -> Nat] /\ failed \in [Workers -> Nat]
        /\ sentCount \in [Broadcasts -> Nat] /\ failedCount \in [Broadcasts -> Nat]
        /\ status \in [Broadcasts -> Statuses] /\ audience \in [Broadcasts -> SUBSET Chats]
        /\ received \in [Broadcasts -> [Chats -> Nat]]
    BY DEF TypeOK, WorkerTypes, RecordTypes, HistoryTypes
  <1>q. ASSUME UNCHANGED <<sentCount, failedCount>> PROVE UNCHANGED Reported
    BY <1>q DEF Reported
  <1>1. CASE MarkRunning(w)
    <2>1. /\ pc[w] = "claim" /\ UNCHANGED <<audience, received, sentCount, failedCount>>
          /\ status' = [status EXCEPT ![b] = "RUNNING"]
      BY <1>1 DEF MarkRunning, history
    <2>2. status[b] = "PENDING"
      BY <1>d, <2>1 DEF ListIsFresh
    <2>3. Contract!Start(b)
      BY <1>q, <2>1, <2>2 DEF Contract!Start, Reported
    <2> QED BY <2>3 DEF Contract!Next
  <1>2. CASE FilterBlocked(w)
    <2>1. /\ pc[w] = "filter" /\ UNCHANGED <<status, received, sentCount, failedCount>>
          /\ \E A : A \subseteq todo[w] /\ audience' = [audience EXCEPT ![b] = A]
      BY <1>2 DEF FilterBlocked, record
    <2>2. PICK A : A \subseteq todo[w] /\ audience' = [audience EXCEPT ![b] = A]
      BY <2>1
    <2>3. A \in SUBSET Chats
      BY <1>t, <2>2
    <2>4. status[b] = "RUNNING" /\ audience[b] = {} /\ \A c \in Chats : received[b][c] = 0
      BY <1>d, <2>1 DEF ListIsFresh, Addressed
    <2>5. sentCount[b] + failedCount[b] = 0
      BY <1>d, <2>1 DEF AudienceInv, Counted
    <2>6. Contract!Address(b, A)
      BY <1>q, <2>1, <2>2, <2>4, <2>5 DEF Contract!Address, Reported
    <2> QED BY <2>3, <2>6 DEF Contract!Next
  <1>3. ASSUME NEW c \in Chats, SendOk(w, c) \/ \E f \in Failures : SendFails(w, c, f)
        PROVE  Contract!Next \/ UNCHANGED <<status, audience, received, Reported>>
    <2>1. /\ pc[w] = "send" /\ c \in todo[w] /\ UNCHANGED <<status, audience, sentCount, failedCount>>
          /\ received' = received \/ received' = [received EXCEPT ![b][c] = @ + 1]
      BY <1>3 DEF SendOk, SendFails, record
    <2>2. status[b] = "RUNNING" /\ received[b][c] = 0 /\ c \in audience[b]
      BY <1>d, <2>1 DEF ListIsFresh, Addressed, Loop
    <2>3. CASE received' = received
      BY <1>q, <2>1, <2>3
    <2>4. CASE received' = [received EXCEPT ![b][c] = @ + 1]
      <3>1. received' = [received EXCEPT ![b][c] = 1]
        BY <1>t, <2>2, <2>4
      <3>2. Contract!Send(b, c)
        BY <1>q, <2>1, <2>2, <3>1 DEF Contract!Send, Reported
      <3> QED BY <3>2 DEF Contract!Next
    <2> QED BY <2>1, <2>3, <2>4
  <1>4. CASE FlushCounters(w) \/ Finish(w)
    <2>1. /\ pc[w] \in {"send", "flush"} /\ UNCHANGED <<todo, audience, received>>
          /\ sentCount' = [sentCount EXCEPT ![b] = @ + sent[w]]
          /\ failedCount' = [failedCount EXCEPT ![b] = @ + failed[w]]
      BY <1>4 DEF FlushCounters, Finish, AddCounters, history
    <2>2. status[b] = "RUNNING"
      BY <1>d, <2>1 DEF ListIsFresh
    <2>3. Counted(b) + sent[w] + failed[w] + Cardinality(todo[w]) = Cardinality(audience[b])
      BY <1>d, <2>1 DEF AudienceInv, Loop
    <2>4. /\ Counted(b) \in Nat /\ Counted(b)' = Counted(b) + sent[w] + failed[w]
          /\ Reported[b] = Counted(b)
      BY <1>t, <2>1 DEF Counted, Reported
    <2>5. Reported' = [Reported EXCEPT ![b] = Counted(b)']
      BY <1>t, <2>1, ReportedBy
    <2>6. CASE FlushCounters(w)
      <3>1. Cardinality(todo[w]) \in Nat /\ Cardinality(audience[b]) \in Nat
        BY <1>t, ChatsFinite
      <3>2. Counted(b)' \in Counted(b) .. Cardinality(audience[b])
        BY <1>t, <2>3, <2>4, <3>1
      <3>3. UNCHANGED status
        BY <2>6 DEF FlushCounters
      <3>4. Contract!Count(b)
        BY <2>1, <2>2, <2>4, <2>5, <3>2, <3>3
           DEF Contract!Count, Reported, Contract!Cardinality, Cardinality
      <3> QED BY <3>4 DEF Contract!Next
    <2>7. CASE Finish(w)
      <3>1. status' = [status EXCEPT ![b] = "DONE"]
        BY <2>7 DEF Finish
      <3>2. Counted(b)' = Cardinality(audience[b])
        BY <1>d, <1>t, <2>1, <3>1 DEF AudienceInv
      <3>3. Contract!Complete(b)
        BY <2>1, <2>2, <2>5, <3>1, <3>2
           DEF Contract!Complete, Reported, Contract!Cardinality, Cardinality
      <3> QED BY <3>3 DEF Contract!Next
    <2> QED BY <1>4, <2>6, <2>7
  <1>5. CASE MarkFailed(w)
    <2>1. /\ UNCHANGED <<audience, received, sentCount, failedCount>>
          /\ status' = status \/ status' = [status EXCEPT ![b] = "FAILED"]
      BY <1>5 DEF MarkFailed, history
    <2>2. status[b] # "ABSENT"
      BY <1>d DEF OneCopy, Addressed
    <2>3. CASE status' = status
      BY <1>q, <2>1, <2>3
    <2>4. CASE status' = [status EXCEPT ![b] = "FAILED"]
      <3>1. Contract!Fail(b)
        BY <1>q, <2>1, <2>2, <2>4 DEF Contract!Fail, Reported
      <3> QED BY <3>1 DEF Contract!Next
    <2> QED BY <2>1, <2>3, <2>4
  <1>6. CASE Resolve(w) \/ AutoBlock(w) \/ RecordFailure(w) \/ Report(w) \/ TaskFails(w)
    BY <1>6, <1>q DEF Resolve, AutoBlock, RecordFailure, Report, TaskFails, record, history
  <1>7. ASSUME NEW x \in Broadcasts, Deliver(w, x) \/ DeliverFails(w, x) PROVE FALSE
    BY <1>7 DEF Deliver, DeliverFails
  <1> QED BY <1>1, <1>2, <1>3, <1>4, <1>5, <1>6, <1>7 DEF Step

LEMMA PromiseStep ==
  ASSUME TypeOK, BatchInv, OneHand, OneHand', PromiseInv, [Next]_vars, redeliveries' = 0
  PROVE  Contract!Next \/ UNCHANGED <<status, audience, received, Reported>>
  <1>1. redeliveries = 0
    BY FaultsCount DEF TypeOK, FaultTypes
  <1>2. \A b \in Broadcasts : DupInv(b) /\ AudienceInv(b) /\ Addressed(b)
    BY <1>1 DEF OneHand, PromiseInv
  <1>3. \A b \in Broadcasts : AudienceInv(b)'
    BY DEF OneHand
  <1>4. ASSUME UNCHANGED <<record, audience, received>>
        PROVE  UNCHANGED <<status, audience, received, Reported>>
    BY <1>4 DEF record, Reported
  <1>5. ASSUME NEW b \in Broadcasts, CreateBroadcast(b) PROVE Contract!Next
    <2>1. /\ confirm[b] = "composing" /\ status' = [status EXCEPT ![b] = "PENDING"]
          /\ UNCHANGED <<sentCount, failedCount, audience, received>>
      BY <1>5 DEF CreateBroadcast, history
    <2>2. status[b] = "ABSENT"
      BY <1>2, <2>1 DEF DupInv, NothingSentBeforeStart
    <2>3. Contract!Order(b)
      BY <2>1, <2>2 DEF Contract!Order
    <2> QED BY <2>3 DEF Contract!Next
  <1>6. ASSUME NEW b \in Broadcasts, Enqueue(b)
        PROVE  UNCHANGED <<status, audience, received, Reported>>
    BY <1>4, <1>6 DEF Enqueue, history
  <1>7. ASSUME NEW w \in Workers, Step(w)
        PROVE  Contract!Next \/ UNCHANGED <<status, audience, received, Reported>>
    <2>1. CASE pc[w] = "idle"
      <3>1. \E x \in Broadcasts : Deliver(w, x) \/ DeliverFails(w, x)
        BY <1>7, <2>1 DEF Step, MarkRunning, Resolve, FilterBlocked, SendOk, SendFails, AutoBlock,
             RecordFailure, FlushCounters, Finish, Report, TaskFails, MarkFailed
      <3> QED BY <1>4, <3>1 DEF Deliver, DeliverFails, history
    <2>2. CASE pc[w] # "idle"
      <3>1. PICK b \in Broadcasts : job[w] = b
        BY <2>2, BusyHasJob DEF TypeOK
      <3> QED BY <1>2, <1>3, <1>7, <2>2, <3>1, PromiseWork
    <2> QED BY <2>1, <2>2
  <1>8. ASSUME NEW w \in Workers, Crash(w) \/ Redeliver(w)
        PROVE  UNCHANGED <<status, audience, received, Reported>>
    BY <1>4, <1>8 DEF Crash, Redeliver, history
  <1>9. CASE UNCHANGED vars
    BY <1>4, <1>9 DEF vars, history
  <1> QED BY <1>5, <1>6, <1>7, <1>8, <1>9 DEF Next

\* In every behaviour whose broker redelivers no message of a live worker,
\* whatever crashes, send failures and database errors it has, each step is
\* one of BroadcastContract or changes nothing it names: no chat outside the
\* audience gets the message, none gets it twice, and nothing goes out or is
\* counted once the broadcast is done.
THEOREM KeepsItsContract == Spec => KeepsContract
  <1>1. Init => PromiseInv /\ Contract!Init
    BY PromiseInit
  <1>2. TypeOK /\ OneHand /\ PromiseInv /\ [Next]_vars => PromiseInv'
    BY PromiseNext
  <1>3. TypeOK /\ BatchInv /\ OneHand /\ OneHand' /\ PromiseInv /\ [Next]_vars =>
          [redeliveries' = 0 => Contract!Next]_(Contract!promise)
    BY PromiseStep DEF Contract!promise, Reported
  <1> QED BY <1>1, <1>2, <1>3, OneHandHolds, PTL DEF Spec, KeepsContract

LEMMA NoBoundRedelivers ==
  ASSUME MaxRedeliveries = 0, redeliveries = 0, [Next]_vars
  PROVE  redeliveries' = 0
  <1>1. ASSUME NEW w \in Workers, Redeliver(w) PROVE FALSE
    BY <1>1 DEF Redeliver
  <1>2. ASSUME NEW w \in Workers, Step(w) \/ Crash(w) PROVE redeliveries' = redeliveries
    BY <1>2 DEF Step, Deliver, DeliverFails, MarkRunning, Resolve, FilterBlocked, SendOk, SendFails,
         RecordFailure, FlushCounters, Finish, Report, TaskFails, AutoBlock, MarkFailed, Crash,
         DbError, faults
  <1>3. ASSUME NEW x \in Broadcasts, CreateBroadcast(x) \/ Enqueue(x)
        PROVE  redeliveries' = redeliveries
    BY <1>3 DEF CreateBroadcast, Enqueue, faults
  <1> QED BY <1>1, <1>2, <1>3 DEF Next, vars, faults

\* Where the broker redelivers no message of a live worker, Broadcast is an
\* implementation of BroadcastContract outright.
COROLLARY ImplementsContract ==
  ASSUME MaxRedeliveries = 0
  PROVE  Spec => Contract!Spec
  <1> DEFINE Never == redeliveries = 0
  <1>1. Init => Never
    BY DEF Init
  <1>2. Never /\ [Next]_vars => Never'
    BY NoBoundRedelivers
  <1>3. [redeliveries' = 0 => Contract!Next]_(Contract!promise) /\ Never' =>
          [Contract!Next]_(Contract!promise)
    OBVIOUS
  <1> HIDE DEF Never
  <1> QED BY <1>1, <1>2, <1>3, KeepsItsContract, PTL DEF Spec, KeepsContract, Contract!Spec
==============================================================================
