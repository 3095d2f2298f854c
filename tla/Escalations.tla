----------------------------- MODULE Escalations ------------------------------
(***************************************************************************)
(* The cards about one customer who ignores the follow-ups. The escalation   *)
(* job sends a card and then stamps the customer's row of agent_memory, in a *)
(* transaction that holds the stamps of its whole batch; the card's buttons  *)
(* stamp the row or opt the customer out. Customers share nothing but the    *)
(* transaction of a batch.                                                   *)
(***************************************************************************)
EXTENDS HandlerTasks

CONSTANTS
    Cooldown,   \* agent_admin_escalation_cooldown_minutes
    LastMinute  \* bound of the clock

ASSUME CooldownAssumption == Cooldown \in Nat /\ LastMinute \in Nat

VARIABLES
    minute,     \* the clock
    stamp,      \* last_admin_escalation_at, as committed; 0 for none
    optedOut,   \* followup_enabled is false
    task,       \* what a handler does
    stampAt,    \* the time that it is going to write, 0 if it has read none
    broken,     \* a statement of its transaction has failed
    card,       \* history: when the last card was sent; 0 for never
    excused     \* history: its stamp was lost, or overwritten by an older one

escalationVars == <<minute, stamp, optedOut, task, stampAt, broken, card, excused, pc, rowLock>>

EscalationTypeOK ==
    /\ minute \in Nat \ {0} /\ stamp \in Nat /\ optedOut \in BOOLEAN
    /\ card \in Nat /\ excused \in BOOLEAN
    /\ pc \in [Handlers -> {"idle", "card", "stamp", "others", "update", "commit"}]
    /\ rowLock \in Handlers \union {NoOne}
    /\ task \in [Handlers -> {"cards", "contacted", "stop", "none"}]
    /\ stampAt \in [Handlers -> Nat] /\ broken \in [Handlers -> BOOLEAN]

EscalationInit ==
    /\ TasksIdle
    /\ minute = 1 /\ stamp = 0 /\ optedOut = FALSE
    /\ task = [h \in Handlers |-> "none"] /\ stampAt = [h \in Handlers |-> 0]
    /\ broken = [h \in Handlers |-> FALSE] /\ card = 0 /\ excused = FALSE

-----------------------------------------------------------------------------
\* get_escalation_candidates, then should_escalate on the row it has loaded; the
\* temperature and the number of follow-ups are as they should be. The scheduler
\* does not run the job while it is running.
CoolEnoughOnceMore == stamp = 0 \/ minute - stamp >= Cooldown
CoolEnough == stamp = 0 \/ minute - stamp > Cooldown
StartBatch(h) ==
    /\ pc[h] = "idle" /\ \A g \in Handlers : task[g] # "cards"
    /\ ~optedOut /\ CoolEnough
    /\ task' = [task EXCEPT ![h] = "cards"] /\ pc' = [pc EXCEPT ![h] = "card"]
    /\ UNCHANGED <<minute, stamp, optedOut, stampAt, broken, card, excused, rowLock>>

\* A statement of the batch fails, for this customer or another: PostgreSQL
\* refuses the rest of the transaction. The loop goes on sending.
StatementFails(h) ==
    /\ task[h] = "cards" /\ ~broken[h]
    /\ broken' = [broken EXCEPT ![h] = TRUE]
    /\ UNCHANGED <<minute, stamp, optedOut, task, stampAt, card, excused, pc, rowLock>>

\* The card is sent, and mark_escalated reads the time; or the answer is lost,
\* and the row is not going to be stamped.
SendCard(h) ==
    /\ pc[h] = "card"
    /\ card' = minute
    /\ \/ /\ pc' = [pc EXCEPT ![h] = "stamp"] /\ stampAt' = [stampAt EXCEPT ![h] = minute]
          /\ excused' = FALSE
       \/ pc' = [pc EXCEPT ![h] = "others"] /\ excused' = TRUE /\ UNCHANGED stampAt
    /\ UNCHANGED <<minute, stamp, optedOut, task, broken, rowLock>>

SendFails(h) ==
    /\ pc[h] = "card"
    /\ pc' = [pc EXCEPT ![h] = "others"]
    /\ UNCHANGED <<minute, stamp, optedOut, task, stampAt, broken, card, excused, rowLock>>

\* The UPDATE, which waits for another transaction on the row.
StampCard(h) ==
    /\ pc[h] = "stamp" /\ rowLock = NoOne /\ ~broken[h]
    /\ rowLock' = h /\ pc' = [pc EXCEPT ![h] = "others"]
    /\ UNCHANGED <<minute, stamp, optedOut, task, stampAt, broken, card, excused>>

\* "Contacted" and "not needed": the time is read before the UPDATE waits.
PressButton(h) ==
    /\ pc[h] = "idle"
    /\ \E b \in {"contacted", "stop"} : task' = [task EXCEPT ![h] = b]
    /\ stampAt' = [stampAt EXCEPT ![h] = minute] /\ pc' = [pc EXCEPT ![h] = "update"]
    /\ UNCHANGED <<minute, stamp, optedOut, broken, card, excused, rowLock>>

UpdateMemory(h) ==
    /\ pc[h] = "update" /\ rowLock = NoOne
    /\ rowLock' = h /\ pc' = [pc EXCEPT ![h] = "commit"]
    /\ UNCHANGED <<minute, stamp, optedOut, task, stampAt, broken, card, excused>>

\* The handler is over, with its transaction.
IsOver(h) ==
    /\ pc' = [pc EXCEPT ![h] = "idle"] /\ task' = [task EXCEPT ![h] = "none"]
    /\ stampAt' = [stampAt EXCEPT ![h] = 0] /\ broken' = [broken EXCEPT ![h] = FALSE]
    /\ rowLock' = Unlocked(h) /\ UNCHANGED <<minute, card>>

CommitBatch(h) ==
    /\ pc[h] = "others" /\ rowLock = h /\ ~broken[h]
    /\ stamp' = stampAt[h]
    /\ IsOver(h) /\ UNCHANGED <<optedOut, excused>>

CommitContacted(h) ==
    /\ pc[h] = "commit" /\ task[h] = "contacted"
    /\ stamp' = stampAt[h] /\ excused' = (excused \/ stampAt[h] < card)
    /\ IsOver(h) /\ UNCHANGED optedOut

\* It also cancels the follow-ups that AgentFollowups has pending.
CommitStop(h) ==
    /\ pc[h] = "commit" /\ task[h] = "stop"
    /\ optedOut' = TRUE
    /\ IsOver(h) /\ UNCHANGED <<stamp, excused>>

\* An error, a crash, or the commit of a transaction in which a statement has
\* failed, which is a rollback.
Lost(h) == task[h] = "cards" /\ stampAt[h] # 0
RollBackMemory(h) ==
    /\ Active(h)
    /\ excused' = (excused \/ Lost(h))
    /\ IsOver(h) /\ UNCHANGED <<stamp, optedOut>>

MinutePasses ==
    /\ minute < LastMinute /\ minute' = minute + 1
    /\ UNCHANGED <<stamp, optedOut, task, stampAt, broken, card, excused, pc, rowLock>>

-----------------------------------------------------------------------------
EscalationNext ==
    \/ MinutePasses
    \/ \E h \in Handlers :
          \/ StartBatch(h) \/ StatementFails(h) \/ SendCard(h) \/ SendFails(h) \/ StampCard(h)
          \/ PressButton(h) \/ UpdateMemory(h)
          \/ CommitBatch(h) \/ CommitContacted(h) \/ CommitStop(h) \/ RollBackMemory(h)

EscalationSpec == EscalationInit /\ [][EscalationNext]_escalationVars

-----------------------------------------------------------------------------
(* Properties                                                              *)

\* "cooldown has elapsed since last escalation": another card about the customer
\* comes sooner only if the stamp of the last one was lost with its batch, or
\* overwritten by a button that had read the time before it. Buttons that wait
\* for the batch, late answers and opt-outs do not bring it forward.
CardsSpaced ==
    [][\A h \in Handlers : SendCard(h) => card = 0 \/ excused \/ minute - card > Cooldown]_escalationVars
=============================================================================
