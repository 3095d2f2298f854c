------------------------------ MODULE Broadcast ------------------------------
(***************************************************************************)
(* The broadcast ("rassilka") pipeline: the admin's confirm handler writes *)
(* a PENDING record and enqueues a Celery task; worker processes take the  *)
(* task, mark the record RUNNING, resolve the audience, send chat by chat, *)
(* flush the counters in batches and finally mark the record DONE.         *)
(*                                                                         *)
(* The broker is at-least-once (task_acks_late, task_reject_on_worker_lost *)
(* on Redis): a message is handed out again when its worker is lost, and   *)
(* also while its worker is still busy, once the visibility timeout ends.  *)
(* Every database call is a transaction of its own and may fail.           *)
(***************************************************************************)
EXTENDS Naturals, FiniteSets

CONSTANTS
    Broadcasts,       \* ids of broadcast records
    Users,            \* private chats (chat_id > 0), all of them rows of users
    Groups,           \* groups (chat_id < 0), incl. main_group_id
    StageUsers,       \* users whose latest pipeline stage is the targeted one
    Workers,          \* Celery worker processes
    COUNTER_BATCH,    \* _COUNTER_BATCH
    NoJob, NoChat,
    MaxCrashes,       \* bound: worker processes lost
    MaxDbErrors,      \* bound: transactions that fail
    MaxRedeliveries   \* bound: visibility timeouts of a message still in work

Chats == Users \union Groups

ASSUME BatchAssumption == COUNTER_BATCH \in Nat \ {0}
ASSUME BoundAssumption == {MaxCrashes, MaxDbErrors, MaxRedeliveries} \subseteq Nat
ASSUME ChatAssumption == StageUsers \subseteq Users /\ NoChat \notin Chats
ASSUME JobAssumption == NoJob \notin Broadcasts
ASSUME FiniteAssumption == IsFiniteSet(Workers) /\ IsFiniteSet(Users) /\ IsFiniteSet(Groups)

Segments == {"ALL_PRIVATE", "LEAD_STAGE", "ADMIN_GROUPS"}
Statuses == {"ABSENT", "PENDING", "RUNNING", "DONE", "FAILED"}

(* The buckets of _classify_error, each with the verdict of                *)
(* _is_terminal_error: the two functions look at different phrases, so all *)
(* of these pairs occur ("user is deactivated" is terminal but "other",    *)
(* "not enough rights" is forbidden but not terminal).                     *)
Failures == { [code |-> "blocked",   terminal |-> TRUE],
              [code |-> "forbidden", terminal |-> TRUE],
              [code |-> "forbidden", terminal |-> FALSE],
              [code |-> "other",     terminal |-> TRUE],
              [code |-> "other",     terminal |-> FALSE] }

VARIABLES
    \* the broadcasts table
    status, segment, sentCount, failedCount, finishedAt,
    \* users.is_blocked and the blocked_chats table
    isBlocked, blockedChats,
    \* how far cb_confirm got, and the task messages waiting in the broker
    confirm, queue,
    \* one call of process_broadcast_batch per busy worker
    pc, job, todo, sent, failed, current,
    \* faults so far
    crashes, dbErrors, redeliveries,
    \* history: messages each chat got, outcomes per broadcast, the audience
    \* of the last run, the rejections behind a call when it resolved its
    \* audience, and the chats that answered with a terminal error
    received, attempts, oks, audience, knownRejected, rejected

record  == <<status, segment, sentCount, failedCount, finishedAt>>
blocks  == <<isBlocked, blockedChats>>
broker  == <<confirm, queue>>
worker  == <<pc, job, todo, sent, failed, current>>
faults  == <<crashes, dbErrors, redeliveries>>
history == <<received, attempts, oks, audience, knownRejected, rejected>>
vars    == <<record, blocks, broker, worker, faults, history>>

PCs == {"idle", "claim", "resolve", "filter", "send", "block", "record",
        "flush", "report", "fail"}

RecordTypes ==
    /\ status \in [Broadcasts -> Statuses]
    /\ segment \in [Broadcasts -> Segments]
    /\ sentCount \in [Broadcasts -> Nat]
    /\ failedCount \in [Broadcasts -> Nat]
    /\ finishedAt \in [Broadcasts -> BOOLEAN]

BlockTypes ==
    /\ isBlocked \in SUBSET Users
    /\ blockedChats \in SUBSET Chats

BrokerTypes ==
    /\ confirm \in [Broadcasts -> {"composing", "committed", "queued", "lost"}]
    /\ queue \in [Broadcasts -> Nat]

WorkerTypes ==
    /\ pc \in [Workers -> PCs]
    /\ job \in [Workers -> Broadcasts \union {NoJob}]
    /\ todo \in [Workers -> SUBSET Chats]
    /\ sent \in [Workers -> Nat]
    /\ failed \in [Workers -> Nat]
    /\ current \in [Workers -> Chats \union {NoChat}]
    /\ \A w \in Workers : (pc[w] = "idle") <=> (job[w] = NoJob)
    /\ \A w \in Workers : pc[w] = "block" => current[w] \in Users
    /\ \A w \in Workers : pc[w] = "record" => current[w] \in Chats
    /\ \A w \in Workers :
           pc[w] \in {"filter", "send", "block", "record", "flush"} \/ todo[w] = {}

FaultTypes == crashes \in Nat /\ dbErrors \in Nat /\ redeliveries \in Nat

HistoryTypes ==
    /\ received \in [Broadcasts -> [Chats -> Nat]]
    /\ attempts \in [Broadcasts -> Nat]
    /\ oks \in [Broadcasts -> Nat]
    /\ audience \in [Broadcasts -> SUBSET Chats]
    /\ knownRejected \in [Workers -> SUBSET Chats]
    /\ rejected \in SUBSET Chats

\* Every variable has its type; a worker has a job exactly while it is in a
\* call of process_broadcast_batch, a list of chats only in its loop, and a
\* chat while it handles a failure (a user in _auto_block_chat).
TypeOK ==
    /\ RecordTypes /\ BlockTypes /\ BrokerTypes
    /\ WorkerTypes /\ FaultTypes /\ HistoryTypes

Init ==
    /\ status = [b \in Broadcasts |-> "ABSENT"]
    /\ segment \in [Broadcasts -> Segments]
    /\ sentCount = [b \in Broadcasts |-> 0]
    /\ failedCount = [b \in Broadcasts |-> 0]
    /\ finishedAt = [b \in Broadcasts |-> FALSE]
    /\ isBlocked = {} /\ blockedChats = {}
    /\ confirm = [b \in Broadcasts |-> "composing"]
    /\ queue = [b \in Broadcasts |-> 0]
    /\ pc = [w \in Workers |-> "idle"]
    /\ job = [w \in Workers |-> NoJob]
    /\ todo = [w \in Workers |-> {}]
    /\ sent = [w \in Workers |-> 0]
    /\ failed = [w \in Workers |-> 0]
    /\ current = [w \in Workers |-> NoChat]
    /\ crashes = 0 /\ dbErrors = 0 /\ redeliveries = 0
    /\ received = [b \in Broadcasts |-> [c \in Chats |-> 0]]
    /\ attempts = [b \in Broadcasts |-> 0]
    /\ oks = [b \in Broadcasts |-> 0]
    /\ audience = [b \in Broadcasts |-> {}]
    /\ knownRejected = [w \in Workers |-> {}]
    /\ rejected = {}

-----------------------------------------------------------------------------
(* apps/bot/handlers/admin/broadcasts.py                                   *)

\* cb_confirm, first half: create_broadcast_v2 and commit.
CreateBroadcast(b) ==
    /\ confirm[b] = "composing"
    /\ confirm' = [confirm EXCEPT ![b] = "committed"]
    /\ status' = [status EXCEPT ![b] = "PENDING"]
    /\ UNCHANGED <<segment, sentCount, failedCount, finishedAt, blocks, queue,
                   worker, faults, history>>

\* cb_confirm, second half: .delay(); an exception is logged and swallowed,
\* and the admin reads "queued" in both cases.
Enqueue(b) ==
    /\ confirm[b] = "committed"
    /\ \/ /\ confirm' = [confirm EXCEPT ![b] = "queued"]
          /\ queue' = [queue EXCEPT ![b] = @ + 1]
       \/ /\ confirm' = [confirm EXCEPT ![b] = "lost"]
          /\ UNCHANGED queue
    /\ UNCHANGED <<record, blocks, worker, faults, history>>

-----------------------------------------------------------------------------
(* infrastructure/queue/tasks/broadcast_tasks.py                           *)

GoTo(w, step) == pc' = [pc EXCEPT ![w] = step]

\* The call returned or raised: the message is acknowledged, the locals go.
Return(w) ==
    /\ GoTo(w, "idle")
    /\ job' = [job EXCEPT ![w] = NoJob]
    /\ todo' = [todo EXCEPT ![w] = {}]
    /\ sent' = [sent EXCEPT ![w] = 0]
    /\ failed' = [failed EXCEPT ![w] = 0]
    /\ current' = [current EXCEPT ![w] = NoChat]

DbError ==
    /\ dbErrors < MaxDbErrors
    /\ dbErrors' = dbErrors + 1
    /\ UNCHANGED <<crashes, redeliveries>>

\* Mutants: a check that lets an interrupted run start over, and no check.
StartableWhenRunning(b) == status[b] \in {"PENDING", "RUNNING"}
StartableAlways(b) == status[b] # "ABSENT"

\* The test of step 1 (no code ever writes SCHEDULED).
Startable(b) == status[b] = "PENDING"

\* A worker takes a message and runs step 1: the status check, on a snapshot.
Deliver(w, b) ==
    /\ pc[w] = "idle" /\ queue[b] > 0
    /\ queue' = [queue EXCEPT ![b] = @ - 1]
    /\ IF Startable(b)
       THEN GoTo(w, "claim") /\ job' = [job EXCEPT ![w] = b]
       ELSE UNCHANGED <<pc, job>>
    /\ UNCHANGED <<record, blocks, confirm, todo, sent, failed, current, faults,
                   history>>

\* The snapshot itself cannot be read: the call goes to its except branch.
DeliverFails(w, b) ==
    /\ pc[w] = "idle" /\ queue[b] > 0
    /\ queue' = [queue EXCEPT ![b] = @ - 1]
    /\ GoTo(w, "fail") /\ job' = [job EXCEPT ![w] = b]
    /\ DbError
    /\ UNCHANGED <<record, blocks, confirm, todo, sent, failed, current, history>>

\* Step 2, a transaction of its own that does not look at the status again.
MarkRunning(w) ==
    /\ pc[w] = "claim"
    /\ status' = [status EXCEPT ![job[w]] = "RUNNING"]
    /\ GoTo(w, "resolve")
    /\ UNCHANGED <<segment, sentCount, failedCount, finishedAt, blocks, broker,
                   job, todo, sent, failed, current, faults, history>>

\* get_all_private_user_ids, get_user_ids_by_stage, list_all_chat_ids (with
\* main_group_id appended)
Candidates(seg) ==
    CASE seg = "ALL_PRIVATE"  -> Users \ isBlocked
      [] seg = "LEAD_STAGE"   -> StageUsers
      [] seg = "ADMIN_GROUPS" -> Groups

\* The chats whose failure some call has not finished to handle.
AtStep(step) == {current[v] : v \in {u \in Workers : pc[u] = step}}
InHand == AtStep("block") \union AtStep("record")

\* Step 3, first transaction.
Resolve(w) ==
    /\ pc[w] = "resolve"
    /\ todo' = [todo EXCEPT ![w] = Candidates(segment[job[w]])]
    /\ knownRejected' = [knownRejected EXCEPT ![w] = rejected \ InHand]
    /\ GoTo(w, "filter")
    /\ UNCHANGED <<record, blocks, broker, job, sent, failed, current, faults,
                   received, attempts, oks, audience, rejected>>

\* Step 3, second transaction: bulk_filter_blocked, for ALL_PRIVATE only.
FilterBlocked(w) ==
    /\ pc[w] = "filter"
    /\ LET allowed == IF segment[job[w]] = "ALL_PRIVATE"
                      THEN todo[w] \ blockedChats ELSE todo[w]
       IN /\ todo' = [todo EXCEPT ![w] = allowed]
          /\ audience' = [audience EXCEPT ![job[w]] = allowed]
    /\ GoTo(w, "send")
    /\ UNCHANGED <<record, blocks, broker, job, sent, failed, current, faults,
                   received, attempts, oks, knownRejected, rejected>>

\* Mutant: the counters wait for the end of the run.
AfterOutcomeNoBatch(s, f) == "send"

\* Counters go to the database when sent + failed is a multiple of the batch.
AfterOutcome(s, f) == IF (s + f) % COUNTER_BATCH = 0 THEN "flush" ELSE "send"

\* _send_one came back with "ok" (at the first call or after one RetryAfter).
SendOk(w, c) ==
    /\ pc[w] = "send" /\ c \in todo[w]
    /\ todo' = [todo EXCEPT ![w] = @ \ {c}]
    /\ sent' = [sent EXCEPT ![w] = @ + 1]
    /\ GoTo(w, AfterOutcome(sent[w] + 1, failed[w]))
    /\ received' = [received EXCEPT ![job[w]][c] = @ + 1]
    /\ attempts' = [attempts EXCEPT ![job[w]] = @ + 1]
    /\ oks' = [oks EXCEPT ![job[w]] = @ + 1]
    /\ UNCHANGED <<record, blocks, broker, job, failed, current, faults,
                   audience, knownRejected, rejected>>

\* _send_one met an error. A timeout ("other", not terminal) may still have
\* reached the chat. A terminal error of a private user goes to
\* _auto_block_chat first, which passes groups over.
SendFails(w, c, f) ==
    /\ pc[w] = "send" /\ c \in todo[w]
    /\ todo' = [todo EXCEPT ![w] = @ \ {c}]
    /\ failed' = [failed EXCEPT ![w] = @ + 1]
    /\ current' = [current EXCEPT ![w] = c]
    /\ GoTo(w, IF f.terminal /\ c \in Users THEN "block" ELSE "record")
    /\ \/ UNCHANGED received
       \/ /\ f = [code |-> "other", terminal |-> FALSE]
          /\ received' = [received EXCEPT ![job[w]][c] = @ + 1]
    /\ attempts' = [attempts EXCEPT ![job[w]] = @ + 1]
    /\ rejected' = IF f.terminal THEN rejected \union {c} ELSE rejected
    /\ UNCHANGED <<record, blocks, broker, job, sent, faults, oks, audience,
                   knownRejected>>

\* Mutant: the terminal error does not reach users.is_blocked.
AutoBlockNothing(w) ==
    /\ pc[w] = "block"
    /\ GoTo(w, "record")
    /\ UNCHANGED <<record, blocks, broker, job, todo, sent, failed, current,
                   faults, history>>

\* _auto_block_chat: an UPDATE in a session of its own; its failure is swallowed.
AutoBlock(w) ==
    /\ pc[w] = "block"
    /\ \/ isBlocked' = isBlocked \union {current[w]} /\ UNCHANGED faults
       \/ DbError /\ UNCHANGED isBlocked
    /\ GoTo(w, "record")
    /\ UNCHANGED <<record, blockedChats, broker, job, todo, sent, failed, current,
                   history>>

\* _upsert_blocked_chat after every failure, whatever its bucket; a failed
\* upsert is swallowed.
RecordFailure(w) ==
    /\ pc[w] = "record"
    /\ \/ blockedChats' = blockedChats \union {current[w]} /\ UNCHANGED faults
       \/ DbError /\ UNCHANGED blockedChats
    /\ current' = [current EXCEPT ![w] = NoChat]
    /\ GoTo(w, AfterOutcome(sent[w], failed[w]))
    /\ UNCHANGED <<record, isBlocked, broker, job, todo, sent, failed, history>>

\* inc_sent and inc_failed: in-place increments in one transaction.
AddCounters(w) ==
    /\ sentCount' = [sentCount EXCEPT ![job[w]] = @ + sent[w]]
    /\ failedCount' = [failedCount EXCEPT ![job[w]] = @ + failed[w]]

\* Mutant: the local counters survive the flush.
FlushWithoutReset(w) ==
    /\ pc[w] = "flush"
    /\ AddCounters(w)
    /\ GoTo(w, "send")
    /\ UNCHANGED <<status, segment, finishedAt, blocks, broker, job, todo,
                   sent, failed, current, faults, history>>

FlushCounters(w) ==
    /\ pc[w] = "flush"
    /\ AddCounters(w)
    /\ sent' = [sent EXCEPT ![w] = 0]
    /\ failed' = [failed EXCEPT ![w] = 0]
    /\ GoTo(w, "send")
    /\ UNCHANGED <<status, segment, finishedAt, blocks, broker, job, todo,
                   current, faults, history>>

\* Mutant: DONE without the last flush.
FinishWithoutFlush(w) ==
    /\ pc[w] = "send" /\ todo[w] = {}
    /\ finishedAt' = [finishedAt EXCEPT ![job[w]] = TRUE]
    /\ status' = [status EXCEPT ![job[w]] = "DONE"]
    /\ GoTo(w, "report")
    /\ UNCHANGED <<segment, sentCount, failedCount, blocks, broker, job, todo,
                   sent, failed, current, faults, history>>

\* Step 5: the rest of the counters, finalize and DONE in one transaction.
Finish(w) ==
    /\ pc[w] = "send" /\ todo[w] = {}
    /\ AddCounters(w)
    /\ finishedAt' = [finishedAt EXCEPT ![job[w]] = TRUE]
    /\ status' = [status EXCEPT ![job[w]] = "DONE"]
    /\ GoTo(w, "report")
    /\ UNCHANGED <<segment, blocks, broker, job, todo, sent, failed, current,
                   faults, history>>

\* Step 6: the report to the admin never raises; then the call returns.
Report(w) ==
    /\ pc[w] = "report"
    /\ Return(w)
    /\ UNCHANGED <<record, blocks, broker, faults, history>>

\* A transaction of steps 2 to 5 raises: the exception leaves
\* _async_process_broadcast, taking the unflushed counters with it.
TaskFails(w) ==
    /\ \/ pc[w] \in {"claim", "resolve", "flush"}
       \/ pc[w] = "filter" /\ segment[job[w]] = "ALL_PRIVATE" /\ todo[w] # {}
       \/ pc[w] = "send" /\ todo[w] = {}
    /\ DbError
    /\ GoTo(w, "fail")
    /\ todo' = [todo EXCEPT ![w] = {}]
    /\ sent' = [sent EXCEPT ![w] = 0]
    /\ failed' = [failed EXCEPT ![w] = 0]
    /\ UNCHANGED <<record, blocks, broker, job, current, history>>

\* Mutant: the except branch only re-raises.
MarkFailedNothing(w) ==
    /\ pc[w] = "fail"
    /\ Return(w)
    /\ UNCHANGED <<record, blocks, broker, faults, history>>

\* process_broadcast_batch's except branch: _mark_failed looks at nothing, and
\* its own failure is passed over. The message is acknowledged either way.
MarkFailed(w) ==
    /\ pc[w] = "fail"
    /\ \/ status' = [status EXCEPT ![job[w]] = "FAILED"] /\ UNCHANGED faults
       \/ DbError /\ UNCHANGED status
    /\ Return(w)
    /\ UNCHANGED <<segment, sentCount, failedCount, finishedAt, blocks, broker,
                   history>>

-----------------------------------------------------------------------------
(* The broker and the machines                                             *)

\* The worker process is lost: task_reject_on_worker_lost requeues.
Crash(w) ==
    /\ pc[w] # "idle" /\ crashes < MaxCrashes
    /\ crashes' = crashes + 1
    /\ queue' = [queue EXCEPT ![job[w]] = @ + 1]
    /\ Return(w)
    /\ UNCHANGED <<record, blocks, confirm, dbErrors, redeliveries, history>>

\* The visibility timeout ends while the message is still in work.
Redeliver(w) ==
    /\ pc[w] # "idle" /\ redeliveries < MaxRedeliveries
    /\ redeliveries' = redeliveries + 1
    /\ queue' = [queue EXCEPT ![job[w]] = @ + 1]
    /\ UNCHANGED <<record, blocks, confirm, worker, crashes, dbErrors, history>>

Step(w) ==
    \/ \E b \in Broadcasts : Deliver(w, b) \/ DeliverFails(w, b)
    \/ MarkRunning(w) \/ Resolve(w) \/ FilterBlocked(w)
    \/ \E c \in Chats : SendOk(w, c) \/ \E f \in Failures : SendFails(w, c, f)
    \/ AutoBlock(w) \/ RecordFailure(w) \/ FlushCounters(w) \/ Finish(w) \/ Report(w)
    \/ TaskFails(w) \/ MarkFailed(w)

Next ==
    \/ \E b \in Broadcasts : CreateBroadcast(b) \/ Enqueue(b)
    \/ \E w \in Workers : Step(w) \/ Crash(w) \/ Redeliver(w)

Spec == Init /\ [][Next]_vars

\* A live worker pool takes messages and runs its coroutine to the end.
FairSpec == Spec /\ \A w \in Workers : WF_vars(Step(w))

-----------------------------------------------------------------------------
(* Properties                                                              *)

\* Nobody gets the same broadcast twice as long as the broker does not hand
\* out a message that is still in work: a worker lost at any point, before or
\* after the RUNNING commit, costs messages but never repeats one.
NoDuplicateSend ==
    redeliveries = 0 =>
        \A b \in Broadcasts, c \in Chats : received[b][c] <= 1

\* Why it holds. Without early redelivery a broadcast has one message, in the
\* queue or in one worker's hands;
OneCopy(b) ==
    /\ confirm[b] # "queued" => queue[b] = 0
    /\ queue[b] <= 1
    /\ \A w \in Workers : job[w] = b => confirm[b] = "queued" /\ queue[b] = 0
    /\ \A v, w \in Workers : job[v] = b /\ job[w] = b => v = w

\* while the status still lets a run start, nobody got anything;
NothingSentBeforeStart(b) ==
    /\ confirm[b] = "composing" => status[b] = "ABSENT"
    /\ status[b] \in {"ABSENT", "PENDING"} => \A c \in Chats : received[b][c] = 0

\* and a run has sent nothing to the chats on its list.
ListIsFresh(b) ==
    \A w \in Workers : job[w] = b =>
        /\ pc[w] = "claim" => status[b] = "PENDING"
        /\ pc[w] \in {"resolve", "filter", "send", "block", "record", "flush"} =>
               status[b] = "RUNNING"
        /\ pc[w] \in {"resolve", "filter"} => \A c \in Chats : received[b][c] = 0
        /\ \A c \in todo[w] : received[b][c] = 0

\* The persisted counters never claim more than what happened, whichever
\* workers flush, fail or overlap.
CountersNeverOverstated ==
    \A b \in Broadcasts :
        /\ sentCount[b] <= oks[b]
        /\ failedCount[b] <= attempts[b] - oks[b]

Busy(b) == {w \in Workers : job[w] = b}

\* "Flush counters every 50 sends": each lost worker, failed transaction or
\* call in progress hides at most one batch of outcomes from the counters.
CounterLossBounded ==
    \A b \in Broadcasts :
        attempts[b] - (sentCount[b] + failedCount[b])
            <= COUNTER_BATCH * (crashes + dbErrors + Cardinality(Busy(b)))

\* A DONE record of a broadcast whose message was in one pair of hands at a
\* time counts its resolved audience exactly, and carries finished_at.
DoneCountsAudience ==
    redeliveries = 0 =>
        \A b \in Broadcasts : status[b] = "DONE" =>
            /\ sentCount[b] + failedCount[b] = Cardinality(audience[b])
            /\ finishedAt[b]

\* The private audience of a call leaves out every user whose rejection was
\* dealt with when it was resolved: only a crash loses a rejection, or a failure
\* of both the update of users and the upsert of blocked_chats. So a list holds
\* at most one such user per crash and one per two failed transactions, early
\* redelivery and calls at work side by side included.
RejectedUsersExcluded ==
    \A w \in Workers :
        pc[w] \in {"send", "block", "record", "flush"} /\ segment[job[w]] = "ALL_PRIVATE" =>
            2 * Cardinality(todo[w] \intersect knownRejected[w]) <= 2 * crashes + dbErrors

\* Why it holds. Lost are the rejections that neither table has and no call has
\* in hand; at stake those that only the upsert in hand can still save.
Recorded == isBlocked \union blockedChats
Lost == ((rejected \intersect Users) \ Recorded) \ InHand
AtStake == (((rejected \intersect Users) \intersect AtStep("record")) \ Recorded)
               \ AtStep("block")

\* Each crash loses one rejection at most, each failed transaction half of one,
\* and what a call still has before its filter was lost when it resolved.
RejectionLedger ==
    /\ 2 * Cardinality(Lost) + Cardinality(AtStake) <= 2 * crashes + dbErrors
    /\ \A w \in Workers :
           pc[w] = "filter" /\ segment[job[w]] = "ALL_PRIVATE" =>
               2 * Cardinality((todo[w] \intersect knownRejected[w]) \ blockedChats)
                   <= 2 * crashes + dbErrors

\* DONE is final unless a second copy of the message was in work, or a copy
\* requeued by a crash could not even load the record (its except branch
\* then writes FAILED over DONE).
DoneIsFinal ==
    [][ \A b \in Broadcasts :
            status[b] = "DONE" /\ status'[b] # "DONE" =>
                redeliveries > 0 \/ (crashes > 0 /\ dbErrors > 0) ]_vars

\* As long as no message is handed out early, a broadcast keeps its contract.
Contract == INSTANCE BroadcastContract WITH
    state <- status,
    counted <- [b \in Broadcasts |-> sentCount[b] + failedCount[b]]

KeepsContract ==
    Contract!Init /\ [][redeliveries' = 0 => Contract!Next]_(Contract!promise)

\* Under a live worker pool that is not killed, a queued broadcast settles.
QueuedSettles ==
    \A b \in Broadcasts :
        confirm[b] = "queued" ~> status[b] \in {"DONE", "FAILED"}

\* What models/blocked_chat.py says of the table: "chat IDs (private users AND
\* groups) that have permanently rejected the bot".
BlockedChatsRejectedTheBot == blockedChats \subseteq rejected

\* What the admin is told at the end of cb_confirm: the broadcast "was put in
\* the queue" and runs in the background.
AnnouncedBroadcastStarts ==
    \A b \in Broadcasts :
        confirm[b] \in {"queued", "lost"} ~> status[b] # "PENDING"
==============================================================================
