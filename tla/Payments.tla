------------------------------- MODULE Payments -------------------------------
(***************************************************************************)
(* Manual payments: a client's two-step submission in a private chat       *)
(* (apps/bot/handlers/private/payment.py) and the admin's approve and      *)
(* reject buttons (apps/bot/handlers/callbacks/payment_callbacks.py) on    *)
(* top of PaymentService and its repository.                               *)
(*                                                                         *)
(* Updates are handled as concurrent tasks: two proof messages of an album *)
(* and two presses of a button all interleave at their awaits. The row is  *)
(* protected by SELECT ... FOR UPDATE, the conversation state by nothing.  *)
(* A restart of the bot kills every task and keeps database and Redis.     *)
(***************************************************************************)
EXTENDS Naturals, Sequences

CONSTANTS
    Payments,      \* ids of payment rows
    Proofs,        \* proof messages (photo or document) of one client
    Clicks,        \* presses of a button under an admin message
    None,
    MaxRestarts,   \* bound: restarts of the bot
    MaxEntries     \* bound: presses of the payment menu button

ASSUME BoundsAssumption == MaxRestarts \in Nat /\ MaxEntries \in Nat
ASSUME NoneAssumption == None \notin Payments \union Clicks

VARIABLES
    \* payments.status and paid_at, the audit log, row locks
    status, paidAt, audit, lockedBy,
    \* conversation state in Redis: the state, and the keys in its data
    fsm, fsmData, entries,
    \* the message with the two buttons in the admin's chat
    buttons,
    \* one task per proof message: where it is, the row it created
    proofPc, proofRow,
    \* one task per press: where it is, the row and the verdict
    clickPc, clickRow, clickVerdict,
    \* messages the client got about a row
    notices, restarts

table == <<status, paidAt, audit>>
chat  == <<fsm, fsmData, entries>>
proof == <<proofPc, proofRow>>
click == <<clickPc, clickRow, clickVerdict>>
vars  == <<table, lockedBy, chat, buttons, proof, click, notices, restarts>>

Statuses == {"absent", "pending", "paid", "rejected"}
Verdicts == {"paid", "rejected"}

TypeOK ==
    /\ status \in [Payments -> Statuses]
    /\ paidAt \in [Payments -> BOOLEAN]
    /\ audit \in [Payments -> Seq(Verdicts)]
    /\ lockedBy \in [Payments -> Clicks \union {None}]
    /\ fsm \in {"none", "waiting_amount", "waiting_proof"}
    /\ fsmData \in SUBSET {"lead_id", "amount"}
    /\ entries \in Nat
    /\ buttons \in [Payments -> BOOLEAN]
    /\ proofPc \in [Proofs -> {"new", "read", "save", "clear", "notify", "done"}]
    /\ proofRow \in [Proofs -> Payments \union {None}]
    /\ clickPc \in [Clicks -> {"new", "lock", "commit", "tell", "edit", "done"}]
    /\ clickRow \in [Clicks -> Payments \union {None}]
    /\ clickVerdict \in [Clicks -> Verdicts]
    /\ notices \in [Payments -> Seq(Verdicts)]
    /\ restarts \in Nat

Init ==
    /\ status = [p \in Payments |-> "absent"]
    /\ paidAt = [p \in Payments |-> FALSE]
    /\ audit = [p \in Payments |-> <<>>]
    /\ lockedBy = [p \in Payments |-> None]
    /\ fsm = "none" /\ fsmData = {} /\ entries = 0
    /\ buttons = [p \in Payments |-> FALSE]
    /\ proofPc = [m \in Proofs |-> "new"]
    /\ proofRow = [m \in Proofs |-> None]
    /\ clickPc = [k \in Clicks |-> "new"]
    /\ clickRow = [k \in Clicks |-> None]
    /\ clickVerdict \in [Clicks -> Verdicts]
    /\ notices = [p \in Payments |-> <<>>]
    /\ restarts = 0

-----------------------------------------------------------------------------
(* The client's submission                                                 *)

\* cmd_payment_start, for a client who has a lead: whatever the conversation
\* was, it starts over.
StartPayment ==
    /\ entries < MaxEntries
    /\ entries' = entries + 1
    /\ fsm' = "waiting_amount" /\ fsmData' = {"lead_id"}
    /\ UNCHANGED <<table, lockedBy, buttons, proof, click, notices, restarts>>

\* handle_payment_amount with a positive number (anything else is refused
\* without a change).
EnterAmount ==
    /\ fsm = "waiting_amount"
    /\ fsm' = "waiting_proof" /\ fsmData' = fsmData \union {"amount"}
    /\ UNCHANGED <<entries, table, lockedBy, buttons, proof, click, notices, restarts>>

\* A proof passes the StateFilter of its handler.
ProofArrives(m) ==
    /\ proofPc[m] = "new" /\ fsm = "waiting_proof"
    /\ proofPc' = [proofPc EXCEPT ![m] = "read"]
    /\ UNCHANGED <<table, lockedBy, chat, buttons, proofRow, click, notices, restarts>>

\* _save_and_confirm reads the data; another proof's task may have cleared it
\* since the filter, and the missing key ends this task.
ReadData(m) ==
    /\ proofPc[m] = "read"
    /\ proofPc' = [proofPc EXCEPT ![m] =
                      IF fsmData = {"lead_id", "amount"} THEN "save" ELSE "done"]
    /\ UNCHANGED <<table, lockedBy, chat, buttons, proofRow, click, notices, restarts>>

\* create_payment and commit, or an exception that is logged.
SavePayment(m) ==
    /\ proofPc[m] = "save"
    /\ proofPc' = [proofPc EXCEPT ![m] = "clear"]
    /\ \/ \E p \in Payments :
             /\ status[p] = "absent"
             /\ status' = [status EXCEPT ![p] = "pending"]
             /\ proofRow' = [proofRow EXCEPT ![m] = p]
       \/ UNCHANGED <<status, proofRow>>
    /\ UNCHANGED <<paidAt, audit, lockedBy, chat, buttons, click, notices, restarts>>

\* finally: state.clear()
ClearState(m) ==
    /\ proofPc[m] = "clear"
    /\ fsm' = "none" /\ fsmData' = {}
    /\ proofPc' = [proofPc EXCEPT ![m] = IF proofRow[m] = None THEN "done" ELSE "notify"]
    /\ UNCHANGED <<entries, table, lockedBy, buttons, proofRow, click, notices, restarts>>

\* _notify_admin: the receipt with its buttons; a failure to send is logged.
NotifyAdmin(m) ==
    /\ proofPc[m] = "notify"
    /\ proofPc' = [proofPc EXCEPT ![m] = "done"]
    /\ \/ buttons' = [buttons EXCEPT ![proofRow[m]] = TRUE]
       \/ UNCHANGED buttons
    /\ UNCHANGED <<table, lockedBy, chat, proofRow, click, notices, restarts>>

-----------------------------------------------------------------------------
(* The admin's decision                                                    *)

\* A button that is still shown is pressed.
Press(k, p) ==
    /\ clickPc[k] = "new" /\ buttons[p]
    /\ clickPc' = [clickPc EXCEPT ![k] = "lock"]
    /\ clickRow' = [clickRow EXCEPT ![k] = p]
    /\ UNCHANGED <<table, lockedBy, chat, buttons, proof, clickVerdict, notices, restarts>>

\* Mutant: no expected status.
LockRowAnyStatus(k) ==
    /\ clickPc[k] = "lock" /\ lockedBy[clickRow[k]] = None
    /\ lockedBy' = [lockedBy EXCEPT ![clickRow[k]] = k]
    /\ clickPc' = [clickPc EXCEPT ![k] = "commit"]
    /\ UNCHANGED <<table, chat, buttons, proof, clickRow, clickVerdict, notices, restarts>>

\* update_status: SELECT ... FOR UPDATE waits for the row, then sees what the
\* last holder committed. An unexpected status raises; the handler rolls back
\* (which frees the row) and answers with an alert.
LockRow(k) ==
    /\ clickPc[k] = "lock" /\ lockedBy[clickRow[k]] = None
    /\ IF status[clickRow[k]] = "pending"
       THEN /\ lockedBy' = [lockedBy EXCEPT ![clickRow[k]] = k]
            /\ clickPc' = [clickPc EXCEPT ![k] = "commit"]
       ELSE /\ clickPc' = [clickPc EXCEPT ![k] = "done"]
            /\ UNCHANGED lockedBy
    /\ UNCHANGED <<table, chat, buttons, proof, clickRow, clickVerdict, notices, restarts>>

\* Mutant: the client hears the verdict although the transaction failed.
RollbackTells(k) ==
    /\ clickPc[k] = "commit"
    /\ lockedBy' = [lockedBy EXCEPT ![clickRow[k]] = None]
    /\ clickPc' = [clickPc EXCEPT ![k] = "tell"]
    /\ UNCHANGED <<table, chat, buttons, proof, clickRow, clickVerdict, notices, restarts>>

\* Mutant: the row stays locked after an error.
RollbackKeepsLock(k) ==
    /\ clickPc[k] = "commit"
    /\ clickPc' = [clickPc EXCEPT ![k] = "done"]
    /\ UNCHANGED <<table, lockedBy, chat, buttons, proof, clickRow, clickVerdict,
                   notices, restarts>>

\* Status, paid_at and the audit entry in one transaction.
CommitDecision(k) ==
    LET p == clickRow[k] IN
    /\ clickPc[k] = "commit"
    /\ status' = [status EXCEPT ![p] = clickVerdict[k]]
    /\ paidAt' = [paidAt EXCEPT ![p] = @ \/ clickVerdict[k] = "paid"]
    /\ audit' = [audit EXCEPT ![p] = Append(@, clickVerdict[k])]
    /\ lockedBy' = [lockedBy EXCEPT ![p] = None]
    /\ clickPc' = [clickPc EXCEPT ![k] = "tell"]
    /\ UNCHANGED <<chat, buttons, proof, clickRow, clickVerdict, notices, restarts>>

\* The audit insert or the commit raises: rollback, alert, return.
Rollback(k) ==
    /\ clickPc[k] = "commit"
    /\ lockedBy' = [lockedBy EXCEPT ![clickRow[k]] = None]
    /\ clickPc' = [clickPc EXCEPT ![k] = "done"]
    /\ UNCHANGED <<table, chat, buttons, proof, clickRow, clickVerdict, notices, restarts>>

\* The client's message; a failure to send is logged.
TellClient(k) ==
    /\ clickPc[k] = "tell"
    /\ clickPc' = [clickPc EXCEPT ![k] = "edit"]
    /\ \/ notices' = [notices EXCEPT ![clickRow[k]] = Append(@, clickVerdict[k])]
       \/ UNCHANGED notices
    /\ UNCHANGED <<table, lockedBy, chat, buttons, proof, clickRow, clickVerdict, restarts>>

\* _edit_admin_caption removes the buttons, if Telegram lets it.
EditCaption(k) ==
    /\ clickPc[k] = "edit"
    /\ clickPc' = [clickPc EXCEPT ![k] = "done"]
    /\ \/ buttons' = [buttons EXCEPT ![clickRow[k]] = FALSE]
       \/ UNCHANGED buttons
    /\ UNCHANGED <<table, lockedBy, chat, proof, clickRow, clickVerdict, notices, restarts>>

-----------------------------------------------------------------------------
\* The bot restarts: its tasks are gone and the database frees their rows.
Restart ==
    /\ restarts < MaxRestarts
    /\ restarts' = restarts + 1
    /\ proofPc' = [m \in Proofs |-> IF proofPc[m] = "new" THEN "new" ELSE "done"]
    /\ clickPc' = [k \in Clicks |-> IF clickPc[k] = "new" THEN "new" ELSE "done"]
    /\ lockedBy' = [p \in Payments |-> None]
    /\ UNCHANGED <<table, chat, buttons, proofRow, clickRow, clickVerdict, notices>>

Submission(m) ==
    ReadData(m) \/ SavePayment(m) \/ ClearState(m) \/ NotifyAdmin(m)

Handling(k) ==
    LockRow(k) \/ CommitDecision(k) \/ Rollback(k) \/ TellClient(k) \/ EditCaption(k)

Next ==
    \/ StartPayment \/ EnterAmount \/ Restart
    \/ \E m \in Proofs : ProofArrives(m) \/ Submission(m)
    \/ \E k \in Clicks : Handling(k) \/ \E p \in Payments : Press(k, p)

Spec == Init /\ [][Next]_vars

\* The event loop runs every task it started.
FairSpec ==
    /\ Spec
    /\ \A m \in Proofs : WF_vars(Submission(m))
    /\ \A k \in Clicks : WF_vars(Handling(k))

-----------------------------------------------------------------------------
(* Properties                                                              *)

\* A payment is decided once: the audit log holds exactly the decision the
\* row shows, and nothing as long as the row is open.
AuditMatchesRow ==
    \A p \in Payments :
        audit[p] = IF status[p] \in Verdicts THEN <<status[p]>> ELSE <<>>

\* "paid_at set atomically on PAID transition": it is set exactly on paid rows.
PaidAtMatchesStatus == \A p \in Payments : paidAt[p] <=> status[p] = "paid"

\* Two tasks never work on the same row.
RowLockExclusive ==
    \A j, k \in Clicks :
        clickPc[j] = "commit" /\ clickPc[k] = "commit" /\ clickRow[j] = clickRow[k]
            => j = k

\* The component keeps its contract: one decision, told at most once and truly.
Contract == INSTANCE PaymentContract WITH
    decision <- [p \in Payments |-> IF status[p] = "absent" THEN "none" ELSE status[p]],
    notices <- notices

KeepsContract == Contract!Spec

\* No press waits for a row forever.
EveryPressAnswered ==
    \A k \in Clicks : clickPc[k] = "lock" ~> clickPc[k] = "done"
==============================================================================
