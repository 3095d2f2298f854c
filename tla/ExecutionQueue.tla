--------------------------- MODULE ExecutionQueue ---------------------------
(***************************************************************************)
(* One proposal of the sales agent that waits for an administrator:          *)
(* AgentExecutionQueueService on a row of agent_execution_records. Approve,  *)
(* reject and expire load the row, decide on what they have loaded and write *)
(* by primary key; nothing compares the row with the copy. The sender's      *)
(* batch works on copies too. Only the sweep is a conditional UPDATE.        *)
(* Nothing in src calls create_record, mark_executed or mark_failed, so the  *)
(* proposal is there from the start and hand-over is the end of a batch.     *)
(***************************************************************************)
EXTENDS HandlerTasks

ExecutionStatuses == {"proposed", "approved", "rejected", "expired", "blocked"}

\* _FINAL_STATUSES, as far as a record gets there. "blocked" is none of them.
FinalButRejected == {"expired"}
FinalStatuses == {"rejected", "expired"}

ASSUME StatusAssumption == NoOne \notin ExecutionStatuses

VARIABLES
    verdict,     \* the committed status of the record
    late,        \* expires_at has passed
    safe,        \* its payload passes validate_before_send
    job,         \* what a task does
    goal,        \* the status it is going to write
    refused,     \* history: it has been rejected, and no approval that was
                 \* under way then has come through since
    behind,      \* history: the task was under way when it was rejected
    fresh        \* history: the batch has selected it after it was rejected

queueHistory == <<refused, behind, fresh>>
queueVars == <<verdict, late, safe, job, goal, queueHistory, pc, rowLock>>

QueueTypeOK ==
    /\ verdict \in ExecutionStatuses /\ late \in BOOLEAN /\ safe \in BOOLEAN /\ refused \in BOOLEAN
    /\ pc \in [Handlers -> {"idle", "write", "check", "commit"}] /\ rowLock \in Handlers \union {NoOne}
    /\ job \in [Handlers -> {"approve", "api", "reject", "expire", "sweep", "batch", NoOne}]
    /\ goal \in [Handlers -> ExecutionStatuses \union {NoOne}]
    /\ behind \in [Handlers -> BOOLEAN] /\ fresh \in [Handlers -> BOOLEAN]
    /\ \A h \in Handlers : /\ pc[h] \in {"write", "commit"} => goal[h] \in ExecutionStatuses \ {"proposed"}
                           /\ pc[h] = "commit" <=> rowLock = h

QueueInit ==
    /\ TasksIdle
    /\ verdict = "proposed" /\ late = FALSE /\ safe \in BOOLEAN
    /\ job = [h \in Handlers |-> NoOne] /\ goal = [h \in Handlers |-> NoOne]
    /\ refused = FALSE
    /\ behind = [h \in Handlers |-> FALSE] /\ fresh = [h \in Handlers |-> FALSE]

-----------------------------------------------------------------------------
\* A task loads the record, decides, and is about to do its UPDATE.
Decides(h, j, s) ==
    /\ pc[h] = "idle"
    /\ pc' = [pc EXCEPT ![h] = "write"] /\ job' = [job EXCEPT ![h] = j] /\ goal' = [goal EXCEPT ![h] = s]
    /\ UNCHANGED <<verdict, late, safe, queueHistory, rowLock>>

\* A late approval writes "expired"; the bot commits it.
Approvable == verdict \notin FinalStatuses \union {"approved"}
ApproveUndated(h) == \E j \in {"approve", "api"} : Approvable /\ Decides(h, j, "approved")
Approve(h) ==
    \E j \in {"approve", "api"} : Approvable /\ Decides(h, j, IF late THEN "expired" ELSE "approved")
Reject(h) == verdict \notin FinalStatuses /\ Decides(h, "reject", "rejected")
ExpireOne(h) == verdict \notin FinalStatuses /\ Decides(h, "expire", "expired")

\* flush() of the changed columns, by primary key.
WriteRecord(h) ==
    /\ pc[h] = "write" /\ rowLock = NoOne
    /\ rowLock' = h /\ pc' = [pc EXCEPT ![h] = "commit"]
    /\ UNCHANGED <<verdict, late, safe, job, goal, queueHistory>>

\* expire_pending: one UPDATE, which looks at the row again after a wait.
Sweep(h) ==
    /\ pc[h] = "idle" /\ rowLock = NoOne
    /\ late /\ verdict \in {"proposed", "approved"}
    /\ rowLock' = h /\ pc' = [pc EXCEPT ![h] = "commit"]
    /\ job' = [job EXCEPT ![h] = "sweep"] /\ goal' = [goal EXCEPT ![h] = "expired"]
    /\ UNCHANGED <<verdict, late, safe, queueHistory>>

\* A batch of the sender loads the record, and validates its copy when it comes
\* to it, possibly after the UPDATEs of others.
Select(h) ==
    /\ pc[h] = "idle" /\ verdict = "approved" /\ ~late
    /\ pc' = [pc EXCEPT ![h] = "check"] /\ job' = [job EXCEPT ![h] = "batch"]
    /\ fresh' = [fresh EXCEPT ![h] = refused]
    /\ UNCHANGED <<verdict, late, safe, goal, refused, behind, rowLock>>

\* The task is over.
Leaves(h) ==
    /\ pc' = [pc EXCEPT ![h] = "idle"] /\ job' = [job EXCEPT ![h] = NoOne]
    /\ goal' = [goal EXCEPT ![h] = NoOne] /\ fresh' = [fresh EXCEPT ![h] = FALSE]
    /\ rowLock' = Unlocked(h) /\ UNCHANGED <<late, safe>>

HandOver(h) ==
    /\ pc[h] = "check" /\ ~late /\ safe
    /\ Leaves(h) /\ behind' = [behind EXCEPT ![h] = FALSE] /\ UNCHANGED <<verdict, refused>>

\* Otherwise the batch leaves it, or writes "blocked" if settings say so. The
\* status it has loaded is not compared again.
MarkBlocked(h) ==
    /\ pc[h] = "check" /\ (late \/ ~safe)
    /\ pc' = [pc EXCEPT ![h] = "write"] /\ goal' = [goal EXCEPT ![h] = "blocked"]
    /\ UNCHANGED <<verdict, late, safe, job, queueHistory, rowLock>>

\* The API answers a late approval with an error, which rolls "expired" back.
CommitRecord(h) ==
    /\ pc[h] = "commit" /\ ~(job[h] = "api" /\ goal[h] = "expired")
    /\ verdict' = goal[h]
    /\ refused' = \/ goal[h] = "rejected"
                  \/ refused /\ ~(goal[h] = "approved" /\ behind[h])
    /\ behind' = IF goal[h] = "rejected" THEN [g \in Handlers |-> g # h /\ Active(g)]
                 ELSE [behind EXCEPT ![h] = FALSE]
    /\ Leaves(h)

\* An error, or a batch that leaves an unfit record alone.
GiveUp(h) ==
    /\ Active(h)
    /\ Leaves(h) /\ behind' = [behind EXCEPT ![h] = FALSE] /\ UNCHANGED <<verdict, refused>>

DeadlinePasses ==
    /\ ~late /\ late' = TRUE
    /\ UNCHANGED <<verdict, safe, job, goal, queueHistory, pc, rowLock>>

-----------------------------------------------------------------------------
QueueNext ==
    \/ DeadlinePasses
    \/ \E h \in Handlers :
          \/ Approve(h) \/ Reject(h) \/ ExpireOne(h) \/ WriteRecord(h) \/ Sweep(h)
          \/ Select(h) \/ HandOver(h) \/ MarkBlocked(h) \/ CommitRecord(h) \/ GiveUp(h)

QueueSpec == QueueInit /\ [][QueueNext]_queueVars

-----------------------------------------------------------------------------
(* Properties                                                              *)

\* A batch that selects the record after an administrator has rejected it does
\* not hand it over: not even when a batch that had selected it before writes
\* "blocked" over the rejection, which makes it open to approval again. Only an
\* approval that was already under way at the rejection can undo it.
RejectedNotHandedOver == [][\A h \in Handlers : HandOver(h) => ~fresh[h]]_queueVars

\* Past its deadline, once it is neither proposed nor approved and no approval
\* from before is under way, a record stays that way: what the sweep has expired
\* is not revived, whatever buttons, batches and API calls follow.
Expired ==
    /\ late /\ verdict \notin {"proposed", "approved"}
    /\ \A h \in Handlers : Active(h) => goal[h] # "approved"

ExpiryIsFinal == [][Expired => Expired']_queueVars
=============================================================================
