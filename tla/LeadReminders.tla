---------------------------- MODULE LeadReminders ----------------------------
(***************************************************************************)
(* Reminders about leads. Two jobs of the scheduler read the leads table and *)
(* message the administrator: check_due_followups (every minute, leads whose *)
(* next_follow_up_at has passed) and check_inactive_leads (every quarter of  *)
(* an hour, leads without an update for 24 hours, 72 hours or 7 days). Each  *)
(* loads its leads once, works through them in one READ COMMITTED            *)
(* transaction and commits at the end; an UPDATE locks its row until then.   *)
(* Meanwhile administrators and customers change the same leads.             *)
(***************************************************************************)
EXTENDS Naturals

CONSTANTS
    Leads,
    None,
    InitialLeads, \* what the leads of this instance start from
    Cap,          \* _MAX_FOLLOWUP_COUNT, and MAX_FOLLOWUP_COUNT of the brain
    MaxEvents     \* bound: what time, other people and faults do to a run

Jobs == {"due", "inactive"}
Skip == {"deal", "lost"}
Statuses == {"open", "deal", "won", "lost"}

ASSUME CapAssumption == Cap \in Nat /\ Cap >= 2
ASSUME BoundsAssumption == MaxEvents \in Nat
ASSUME NoneAssumption == None \notin Leads \union Jobs

\* A row of leads: lead_status ("open" for all that close nothing); is
\* next_follow_up_at set, and passed; follow_up_count; full days since
\* updated_at (1: 24 hours, 2: 72 hours, 3: 7 days).
Rows == [status : Statuses, next : {"none", "later", "now"}, count : Nat, age : 0..3]
NoRow == [status |-> "open", next |-> "none", count |-> 0, age |-> 0]

ASSUME InitialAssumption ==
    \A start \in InitialLeads :
        /\ start \in [Leads -> Rows]
        /\ \A l \in Leads : start[l].status = "open" /\ start[l].count <= Cap

VARIABLES
    lead,       \* committed rows
    stage,      \* latest row of pipeline_stages: before, at or off the end
    lock,       \* the job whose transaction has updated the row
    draft,      \* the locked row's new version
    pc,         \* per job: "idle", "loop", or what it is about to do to cur
    todo,       \* leads of the batch that are left
    cur,
    snap,       \* the rows as the batch has loaded them
    aborted,    \* a statement has failed: PostgreSQL ignores the rest
    offHours,   \* the inactivity batch runs outside business hours
    closed,     \* history: leads an administrator has closed
    closedThen, \* those that were when a job's batch began
    sends,      \* reminders handed to Telegram
    inTx,       \* of which by a job's open transaction
    unrecorded, \* of which by transactions that were rolled back
    events

work    == <<pc, todo, cur, snap, aborted, offHours>>
closing == <<stage, closed>>
history == <<sends, inTx, unrecorded>>
vars    == <<lead, closing, closedThen, lock, draft, work, history, events>>

TypeOK ==
    /\ lead \in [Leads -> Rows] /\ draft \in [Leads -> Rows]
    /\ lock \in [Leads -> Jobs \union {None}]
    /\ pc \in [Jobs -> {"idle", "loop", "clear", "reschedule", "lose", "announce", "remind"}]
    /\ todo \in [Jobs -> SUBSET Leads] /\ cur \in [Jobs -> Leads \union {None}]
    /\ snap \in [Jobs -> [Leads -> Rows]]
    /\ aborted \in BOOLEAN /\ offHours \in BOOLEAN
    /\ stage \in [Leads -> {"open", "completed", "lost"}] /\ closed \in SUBSET Leads
    /\ closedThen \in [Jobs -> SUBSET Leads]
    /\ sends \in [Leads -> Nat] /\ unrecorded \in [Leads -> Nat]
    /\ inTx \in [Jobs -> SUBSET Leads]
    /\ events \in Nat
    /\ \A j \in Jobs : pc[j] \notin {"idle", "loop"} => cur[j] \in Leads

\* Open leads of any age, with or without a reminder, that have been reminded
\* about before.
Init ==
    /\ lead \in InitialLeads
    /\ stage = [l \in Leads |-> "open"] /\ closed = {}
    /\ closedThen = [j \in Jobs |-> {}]
    /\ lock = [l \in Leads |-> None] /\ draft = [l \in Leads |-> NoRow]
    /\ pc = [j \in Jobs |-> "idle"] /\ todo = [j \in Jobs |-> {}]
    /\ cur = [j \in Jobs |-> None] /\ snap = [j \in Jobs |-> [l \in Leads |-> NoRow]]
    /\ aborted = FALSE /\ offHours = FALSE
    /\ sends = [l \in Leads |-> lead[l].count]
    /\ inTx = [j \in Jobs |-> {}] /\ unrecorded = [l \in Leads |-> 0]
    /\ events = 0

Event == events < MaxEvents /\ events' = events + 1

-----------------------------------------------------------------------------
(* Time                                                                    *)

Tick(l, row) ==
    /\ Event
    /\ lock[l] = None /\ lead' = [lead EXCEPT ![l] = row]
    /\ UNCHANGED <<closing, closedThen, lock, draft, work, history>>

FallsDue(l) == lead[l].next = "later" /\ Tick(l, [lead[l] EXCEPT !.next = "now"])
GrowsOld(l) == lead[l].age < 3 /\ Tick(l, [lead[l] EXCEPT !.age = @ + 1])

-----------------------------------------------------------------------------
(* Administrators and customers, one short transaction each.                *)

Changes(l) ==
    /\ Event
    /\ UNCHANGED <<closedThen, lock, draft, work, history>>

\* An UPDATE of the row waits for a job that holds it, and renews updated_at.
Writes(l, status, next) ==
    /\ lock[l] = None
    /\ lead' = [lead EXCEPT ![l] = [@ EXCEPT !.status = status, !.next = next, !.age = 0]]
    /\ Changes(l)

Closes(l, yes) == closed' = IF yes THEN closed \union {l} ELSE closed \ {l}

\* The status buttons of a lead card; deal and lost clear the reminder.
CardStatus(l, s) ==
    /\ s \in {"open", "deal", "lost"}
    /\ Writes(l, s, IF s \in Skip THEN "none" ELSE lead[l].next)
    /\ Closes(l, s \in Skip) /\ UNCHANGED stage

\* A column of the kanban board: status and stage, whatever they were.
MoveTarget == [open |-> "open", won |-> "completed", lost |-> "lost"]

KanbanMove(l, s) ==
    /\ s \in DOMAIN MoveTarget
    /\ Writes(l, s, lead[l].next)
    /\ stage' = [stage EXCEPT ![l] = MoveTarget[s]] /\ Closes(l, s # "open")

\* The stage buttons: lost, with a reason on the row, from every stage before
\* the last; and out of lost and completed again, which leaves the row alone.
PipelineLost(l) ==
    /\ stage[l] = "open" /\ stage' = [stage EXCEPT ![l] = "lost"]
    /\ Writes(l, lead[l].status, lead[l].next) /\ Closes(l, TRUE)

PipelineReopen(l) ==
    /\ stage[l] # "open" /\ stage' = [stage EXCEPT ![l] = "open"]
    /\ Changes(l) /\ Closes(l, FALSE) /\ UNCHANGED lead

\* hot, warm, cold or blocked; or a package, which is a stage as well.
PackageStatus(l) ==
    /\ Writes(l, "open", lead[l].next) /\ Closes(l, FALSE)
    /\ stage' \in {stage, [stage EXCEPT ![l] = "open"]}

\* A conversation with the assistant sets the next reminder, or postpones it.
Schedules(l) == Writes(l, lead[l].status, "later") /\ UNCHANGED closing

-----------------------------------------------------------------------------
(* The jobs                                                                *)

\* get_due_followups and get_inactive_leads.
Active(l) == lead[l].status \notin Skip
DueLeadsAll == {l \in Leads : lead[l].next = "now"}
DueLeads == {l \in Leads : lead[l].next = "now" /\ Active(l)}
InactiveLeads == {l \in Leads : lead[l].age >= 1 /\ Active(l)}

\* An empty batch returns at once; a job never runs twice at a time.
Begin(j, batch) ==
    /\ pc[j] = "idle" /\ batch # {}
    /\ pc' = [pc EXCEPT ![j] = "loop"] /\ todo' = [todo EXCEPT ![j] = batch]
    /\ snap' = [snap EXCEPT ![j] = [l \in Leads |-> IF l \in batch THEN lead[l] ELSE NoRow]]
    /\ closedThen' = [closedThen EXCEPT ![j] = closed \intersect batch]
    /\ UNCHANGED <<lead, closing, lock, draft, cur, history, events>>

StartDue == Begin("due", DueLeads) /\ UNCHANGED <<aborted, offHours>>
StartInactive == Begin("inactive", InactiveLeads) /\ offHours' \in BOOLEAN /\ UNCHANGED aborted

Take(j, l, next) ==
    /\ pc[j] = "loop" /\ l \in todo[j]
    /\ todo' = [todo EXCEPT ![j] = @ \ {l}]
    /\ pc' = [pc EXCEPT ![j] = next]
    /\ cur' = [cur EXCEPT ![j] = IF next = "loop" THEN None ELSE l]
    /\ UNCHANGED <<lead, closing, closedThen, lock, draft, snap, aborted, offHours,
                   unrecorded>>

Sent(j, l) ==
    /\ sends' = [sends EXCEPT ![l] = @ + 1]
    /\ inTx' = [inTx EXCEPT ![j] = @ \union {l}]

NothingSent == UNCHANGED <<sends, inTx>>

\* At the cap, which is also all the brain goes by here, the reminder is cleared.
DueGivesUp(l) ==
    /\ snap["due"][l].count >= Cap
    /\ Take("due", l, "clear") /\ NothingSent /\ UNCHANGED events

DueSendsOnceMore(l) ==
    /\ snap["due"][l].count <= Cap
    /\ Take("due", l, "reschedule") /\ Sent("due", l) /\ UNCHANGED events

\* safe_send_message retries, and its answer is not looked at.
DueSends(l) ==
    /\ snap["due"][l].count < Cap
    /\ Take("due", l, "reschedule") /\ Sent("due", l) /\ UNCHANGED events

\* An exception is logged and the next lead taken.
DueSendFails(l) ==
    /\ snap["due"][l].count < Cap /\ Event
    /\ Take("due", l, "loop") /\ NothingSent

\* After a week the lead is lost: first the row, then the message. The tiers
\* count reminders and keep to business hours.
WeekOver(l) == snap["inactive"][l].age > 3
Week(l) == snap["inactive"][l].age = 3
NeedsReminder(l) ==
    LET row == snap["inactive"][l]
    IN  row.age \in {1, 2} /\ row.count < row.age /\ ~offHours

InactiveLoses(l) == Week(l) /\ Take("inactive", l, "lose") /\ NothingSent /\ UNCHANGED events

InactiveReminds(l) ==
    NeedsReminder(l) /\ Take("inactive", l, "remind") /\ Sent("inactive", l) /\ UNCHANGED events

InactiveSkips(l) ==
    /\ ~Week(l) /\ ~NeedsReminder(l)
    /\ Take("inactive", l, "loop") /\ NothingSent /\ UNCHANGED events

UpdatedKeepsDue(row, statement) ==
    CASE statement = "clear"      -> [row EXCEPT !.age = 0]
      [] statement = "reschedule" -> [row EXCEPT !.next = "later", !.count = @ + 1, !.age = 0]
      [] statement = "remind"     -> [row EXCEPT !.count = @ + 1, !.age = 0]
      [] statement = "lose"       -> [row EXCEPT !.status = "lost", !.age = 0]

\* What update_ai_scoring, update_lead_status and set_lost_reason make of a
\* row: only the columns they name, and updated_at.
Updated(row, statement) ==
    CASE statement = "clear"      -> [row EXCEPT !.next = "none", !.age = 0]
      [] statement = "reschedule" -> [row EXCEPT !.next = "later", !.count = @ + 1, !.age = 0]
      [] statement = "remind"     -> [row EXCEPT !.count = @ + 1, !.age = 0]
      [] statement = "lose"       -> [row EXCEPT !.status = "lost", !.age = 0]

UpdateLoaded(j) ==
    /\ pc[j] \in {"clear", "reschedule", "remind", "lose"}
    /\ ~(j = "due" /\ aborted)
    /\ lock[cur[j]] \in {j, None}
    /\ lock' = [lock EXCEPT ![cur[j]] = j]
    /\ draft' = [draft EXCEPT ![cur[j]] = Updated(snap[j][cur[j]], pc[j])]
    /\ pc' = [pc EXCEPT ![j] = IF pc[j] = "lose" THEN "announce" ELSE "loop"]
    /\ UNCHANGED <<lead, closing, closedThen, todo, cur, snap, aborted, offHours, history, events>>

\* UPDATE ... WHERE id = :id waits for the row and applies to what is then
\* committed.
Update(j) ==
    /\ pc[j] \in {"clear", "reschedule", "remind", "lose"}
    /\ ~(j = "due" /\ aborted)
    /\ lock[cur[j]] \in {j, None}
    /\ lock' = [lock EXCEPT ![cur[j]] = j]
    /\ draft' = [draft EXCEPT ![cur[j]] =
                    Updated(IF lock[cur[j]] = j THEN @ ELSE lead[cur[j]], pc[j])]
    /\ pc' = [pc EXCEPT ![j] = IF pc[j] = "lose" THEN "announce" ELSE "loop"]
    /\ UNCHANGED <<lead, closing, closedThen, todo, cur, snap, aborted, offHours, history, events>>

Announce ==
    /\ pc["inactive"] = "announce" /\ pc' = [pc EXCEPT !["inactive"] = "loop"]
    /\ UNCHANGED <<lead, closing, closedThen, lock, draft, todo, cur, snap, aborted, offHours, history, events>>

\* The due job takes the statements that fail after a failed one for errors of
\* their leads, and goes on.
UpdateIgnored ==
    /\ pc["due"] \in {"clear", "reschedule"} /\ aborted
    /\ pc' = [pc EXCEPT !["due"] = "loop"]
    /\ UNCHANGED <<lead, closing, closedThen, lock, draft, todo, cur, snap, aborted, offHours, history, events>>

Held(j) == {l \in Leads : lock[l] = j}

\* The transactions of J end, or have failed: their locks are gone, and what
\* the jobs of W wait for is theirs.
Release(J, W) ==
    LET granted(l) == {k \in W : cur[k] = l}
    IN  /\ lock' = [l \in Leads |-> IF lock[l] \notin J THEN lock[l]
                                    ELSE IF granted(l) = {} THEN None ELSE CHOOSE k \in granted(l) : TRUE]
        /\ draft' = [l \in Leads |-> IF lock[l] \notin J THEN draft[l]
                                     ELSE IF granted(l) = {} THEN NoRow ELSE lead[l]]

\* Their jobs end: nothing of them remains.
Finish(J, W) ==
    /\ Release(J, W)
    /\ inTx' = [j \in Jobs |-> IF j \in J THEN {} ELSE inTx[j]]
    /\ pc' = [j \in Jobs |-> IF j \in J THEN "idle" ELSE pc[j]]
    /\ todo' = [j \in Jobs |-> IF j \in J THEN {} ELSE todo[j]]
    /\ cur' = [j \in Jobs |-> IF j \in J THEN None ELSE cur[j]]
    /\ snap' = [j \in Jobs |-> IF j \in J THEN [l \in Leads |-> NoRow] ELSE snap[j]]
    /\ closedThen' = [j \in Jobs |-> IF j \in J THEN {} ELSE closedThen[j]]
    /\ aborted' = (aborted /\ "due" \notin J) /\ offHours' = (offHours /\ "inactive" \notin J)
    /\ UNCHANGED <<closing, sends>>

Unrecorded(J) ==
    unrecorded' = [l \in Leads |-> unrecorded[l] + (IF "due" \in J /\ l \in inTx["due"] THEN 1 ELSE 0)
                                     + (IF "inactive" \in J /\ l \in inTx["inactive"] THEN 1 ELSE 0)]

\* COMMIT of a failed transaction is a rollback, and no error.
Commit(j) ==
    /\ pc[j] = "loop" /\ todo[j] = {}
    /\ lead' = [l \in Leads |-> IF lock[l] = j THEN draft[l] ELSE lead[l]]
    /\ Unrecorded(IF j = "due" /\ aborted THEN {j} ELSE {})
    /\ Finish({j}, {}) /\ UNCHANGED events

\* An exception in the inactivity job is the end of it.
Gone(J, W) == Unrecorded(J) /\ Finish(J, W) /\ UNCHANGED lead

\* A failed statement gives up what its transaction has done so far, but the
\* due job does not know and goes on.
StatementFails(j, W) ==
    \/ /\ j = "due" /\ aborted' = TRUE /\ Release({j}, W)
       /\ pc' = [pc EXCEPT ![j] = "loop"]
       /\ UNCHANGED <<lead, closing, closedThen, todo, cur, snap, offHours, history>>
    \/ j = "inactive" /\ Gone({j}, W)

DbError(j) ==
    /\ pc[j] \in {"clear", "reschedule", "remind", "lose"} /\ ~(j = "due" /\ aborted)
    /\ Event
    /\ StatementFails(j, {})

\* Each job waits for a row of the other; the database fails one
\* statement, and the other goes through.
Deadlock(j) ==
    /\ \A k \in Jobs : /\ pc[k] \in {"clear", "reschedule", "remind", "lose"}
                       /\ lock[cur[k]] \in Jobs \ {k}
    /\ StatementFails(j, Jobs \ {j}) /\ UNCHANGED events

\* An exception of the send, of a reminder or of the last message.
InactiveFails ==
    /\ \/ pc["inactive"] = "announce"
       \/ pc["inactive"] = "loop" /\ \E l \in todo["inactive"] : NeedsReminder(l)
    /\ Event
    /\ Gone({"inactive"}, {})

\* The jobs share a process.
Crash ==
    /\ \E j \in Jobs : pc[j] # "idle"
    /\ Event
    /\ Gone(Jobs, {})

-----------------------------------------------------------------------------
StepOf(j) ==
    \/ Update(j) \/ Commit(j) \/ Deadlock(j)
    \/ j = "due" /\ (StartDue \/ UpdateIgnored \/ \E l \in Leads : DueGivesUp(l) \/ DueSends(l))
    \/ j = "inactive" /\ \/ StartInactive \/ Announce
                         \/ \E l \in Leads : \/ InactiveLoses(l) \/ InactiveReminds(l)
                                             \/ InactiveSkips(l)

Next ==
    \/ \E j \in Jobs : StepOf(j) \/ DbError(j)
    \/ \E l \in Leads :
          \/ FallsDue(l) \/ GrowsOld(l)
          \/ \E s \in Statuses : CardStatus(l, s) \/ KanbanMove(l, s)
          \/ PipelineLost(l) \/ PipelineReopen(l) \/ PackageStatus(l) \/ Schedules(l)
          \/ DueSendFails(l)
    \/ InactiveFails \/ Crash

Spec == Init /\ [][Next]_vars
FairSpec == Spec /\ \A j \in Jobs : SF_vars(StepOf(j))

-----------------------------------------------------------------------------
(* Properties                                                              *)

\* follow_up_count stands for the reminders that went out, except those whose
\* transaction was rolled back: neither job loses an increment of the other.
CountMatchesSends ==
    \A l \in Leads :
        sends[l] = lead[l].count + unrecorded[l]
                     + (IF l \in inTx["due"] THEN 1 ELSE 0)
                     + (IF l \in inTx["inactive"] THEN 1 ELSE 0)

\* "Max 5 follow-ups per lead cap": read before the batch and raised at its
\* end, the counter passes the cap by one at most, when both jobs are at work.
CapHolds == \A l \in Leads : lead[l].count <= Cap + 1

\* "Skipping terminal statuses": a batch that begins after a lead's status is
\* deal or lost neither reminds about the lead nor touches its row.
SkippedLeftAlone ==
    [][\A l \in Leads, j \in Jobs :
          (l \in inTx'[j] \ inTx[j]) \/ (lock[l] = j /\ lead'[l] # lead[l])
          => snap[j][l].status \notin Skip]_vars

\* A reminder that is due is sent or cleared, unless the lead is closed,
\* although the two jobs may hold what the other one waits for.
DueSettles ==
    \A l \in Leads : l \in DueLeads ~> l \notin DueLeads

\* After a week without an update a lead is lost, or somebody has updated it.
WeekSettles ==
    \A l \in Leads : lead[l].age = 3 /\ Active(l) ~> lead[l].age # 3 \/ ~Active(l)

\* "All follow-ups are stopped at once" when a lead is closed, on its card, on
\* the kanban board or with the stage buttons. (Violated.)
ClosedLeftAlone ==
    [][\A l \in Leads, j \in Jobs : l \in inTx'[j] \ inTx[j] => l \notin closedThen[j]]_vars
==============================================================================
