---------------------------- MODULE ChatReminders ----------------------------
(***************************************************************************)
(* The two reminders to a customer who has gone silent in the chat with the  *)
(* assistant. Each message stores a new nonce in Redis and leaves a task     *)
(* that sleeps; the task reminds only while its nonce is the stored one and  *)
(* the customer has left no phone. That the phone was left is a field of a   *)
(* JSON value which messages, tasks and the phone's handler read, change and *)
(* write back, each in two calls. The waiting is left out: what may happen   *)
(* in the meantime may happen before any step.                               *)
(***************************************************************************)
EXTENDS HandlerTasks

CONSTANT MaxNonces   \* bound: messages

ASSUME NoncesAssumption == MaxNonces \in Nat

Nonces == 1 .. MaxNonces

VARIABLES
    nonce,      \* the stored nonce; 0 for none
    leadKnown,  \* lead_created in the stored value
    issued,     \* nonces drawn so far
    mine,       \* the nonce of a message's handler; 0 for the phone's
    seen,       \* lead_created as a handler has read it
    reminder,   \* where the task of a nonce is, and with which reminder
    view,       \* lead_created as the task has read it
    captured    \* history: the phone's mark was written, and nobody who had not
                \* read it has written the value since, nor has that expired

redisKeys == <<nonce, leadKnown, captured>>
reminderVars == <<redisKeys, issued, mine, seen, reminder, view, pc, rowLock>>

ReminderTypeOK ==
    /\ nonce \in 0 .. MaxNonces /\ issued \in 0 .. MaxNonces
    /\ leadKnown \in BOOLEAN /\ captured \in BOOLEAN
    /\ pc \in [Handlers -> {"idle", "nonce", "read", "write"}] /\ rowLock = NoOne
    /\ mine \in [Handlers -> 0 .. MaxNonces] /\ seen \in [Handlers -> BOOLEAN]
    /\ reminder \in [Nonces -> [step : {"none", "sleep", "check", "send", "sent", "mark"}, no : 1 .. 2]]
    /\ view \in [Nonces -> BOOLEAN]

ReminderInit ==
    /\ TasksIdle
    /\ nonce = 0 /\ leadKnown = FALSE /\ issued = 0 /\ captured = FALSE
    /\ mine = [h \in Handlers |-> 0] /\ seen = [h \in Handlers |-> FALSE]
    /\ reminder = [n \in Nonces |-> [step |-> "none", no |-> 1]] /\ view = [n \in Nonces |-> FALSE]

-----------------------------------------------------------------------------
\* A message to the assistant draws a nonce; a phone number is to be marked.
Message(h) ==
    /\ pc[h] = "idle" /\ issued < MaxNonces
    /\ issued' = issued + 1 /\ mine' = [mine EXCEPT ![h] = issued']
    /\ pc' = [pc EXCEPT ![h] = "nonce"]
    /\ UNCHANGED <<redisKeys, seen, reminder, view, rowLock>>
Phone(h) ==
    /\ pc[h] = "idle" /\ pc' = [pc EXCEPT ![h] = "read"]
    /\ UNCHANGED <<redisKeys, issued, mine, seen, reminder, view, rowLock>>

StoreNonce(h) ==
    /\ pc[h] = "nonce"
    /\ nonce' = mine[h] /\ pc' = [pc EXCEPT ![h] = "read"]
    /\ UNCHANGED <<leadKnown, captured, issued, mine, seen, reminder, view, rowLock>>

ReadState(h) ==
    /\ pc[h] = "read"
    /\ seen' = [seen EXCEPT ![h] = leadKnown] /\ pc' = [pc EXCEPT ![h] = "write"]
    /\ UNCHANGED <<redisKeys, issued, mine, reminder, view, rowLock>>

\* The handler is over; a message leaves its task behind.
Schedules(h) ==
    /\ reminder' = IF mine[h] = 0 THEN reminder ELSE [reminder EXCEPT ![mine[h]].step = "sleep"]
    /\ pc' = [pc EXCEPT ![h] = "idle"] /\ mine' = [mine EXCEPT ![h] = 0]
    /\ seen' = [seen EXCEPT ![h] = FALSE]
    /\ UNCHANGED <<nonce, issued, view, rowLock>>

\* _refresh_ai_followup_nonce keeps what it has read of the lead.
RefreshAnew(h) ==
    /\ pc[h] = "write" /\ mine[h] # 0
    /\ leadKnown' = FALSE /\ captured' = (captured /\ seen[h]) /\ Schedules(h)
Refresh(h) ==
    /\ pc[h] = "write" /\ mine[h] # 0
    /\ leadKnown' = seen[h] /\ captured' = (captured /\ seen[h]) /\ Schedules(h)

MarkPhone(h) ==
    /\ pc[h] = "write" /\ mine[h] = 0
    /\ leadKnown' = TRUE /\ captured' = TRUE /\ Schedules(h)

\* Redis fails; the error is swallowed, and a message goes on to schedule.
RedisFails(h) == Active(h) /\ Schedules(h) /\ UNCHANGED <<leadKnown, captured>>

-----------------------------------------------------------------------------
Steps(n, s) ==
    /\ reminder' = [reminder EXCEPT ![n].step = s]
    /\ UNCHANGED <<nonce, issued, mine, seen, pc, rowLock>>

\* The task is over, or sleeps until the second reminder.
GoesToSleep(n) ==
    /\ reminder' = [reminder EXCEPT ![n] = IF @.no = 1 THEN [step |-> "sleep", no |-> 2]
                                           ELSE [step |-> "none", no |-> 1]]
    /\ UNCHANGED <<nonce, issued, mine, seen, pc, rowLock>>

\* _cancelled: first the nonce, then the state and the lead. A state in which
\* the assistant waits for an answer of the form cancels too, and so does Redis.
CheckNonce(n) ==
    /\ reminder[n].step = "sleep"
    /\ IF nonce = n THEN Steps(n, "check") ELSE Steps(n, "none")
    /\ UNCHANGED <<leadKnown, captured, view>>
CheckLead(n) ==
    /\ reminder[n].step = "check" /\ ~leadKnown
    /\ Steps(n, "send") /\ UNCHANGED <<leadKnown, captured, view>>
Cancel(n) ==
    /\ reminder[n].step # "none"
    /\ Steps(n, "none") /\ UNCHANGED <<leadKnown, captured, view>>

\* The reminder goes out, and _mark_sent reads and writes the value.
Remind(n) ==
    /\ reminder[n].step = "send"
    /\ Steps(n, "sent") /\ UNCHANGED <<leadKnown, captured, view>>
ReadMark(n) ==
    /\ reminder[n].step = "sent"
    /\ view' = [view EXCEPT ![n] = leadKnown] /\ Steps(n, "mark") /\ UNCHANGED <<leadKnown, captured>>
WriteMark(n) ==
    /\ reminder[n].step = "mark"
    /\ leadKnown' = view[n] /\ captured' = (captured /\ view[n])
    /\ view' = [view EXCEPT ![n] = FALSE] /\ GoesToSleep(n)
MarkFails(n) ==
    /\ reminder[n].step \in {"sent", "mark"}
    /\ view' = [view EXCEPT ![n] = FALSE] /\ GoesToSleep(n) /\ UNCHANGED <<leadKnown, captured>>

\* A day after the last write.
StateExpires ==
    /\ leadKnown /\ leadKnown' = FALSE /\ captured' = FALSE
    /\ UNCHANGED <<nonce, issued, mine, seen, reminder, view, pc, rowLock>>

-----------------------------------------------------------------------------
ReminderNext ==
    \/ StateExpires
    \/ \E h \in Handlers : \/ Message(h) \/ Phone(h) \/ StoreNonce(h) \/ ReadState(h)
                           \/ Refresh(h) \/ MarkPhone(h) \/ RedisFails(h)
    \/ \E n \in Nonces : \/ CheckNonce(n) \/ CheckLead(n) \/ Cancel(n)
                         \/ Remind(n) \/ ReadMark(n) \/ WriteMark(n) \/ MarkFails(n)

ReminderSpec == ReminderInit /\ [][ReminderNext]_reminderVars

-----------------------------------------------------------------------------
(* Properties                                                              *)

\* A customer who has left a phone is not reminded: no task decides to remind
\* after the mark, although later messages write the value anew; unless the mark
\* has expired, or was overwritten by someone who had read the value before it.
QuietAfterPhone == [][\A n \in Nonces : CheckLead(n) => ~captured]_reminderVars
=============================================================================
