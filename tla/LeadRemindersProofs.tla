------------------------- MODULE LeadRemindersProofs -------------------------
(***************************************************************************)
(* TLAPS proofs about LeadReminders: type correctness; that the counter of *)
(* a lead stands for the reminders that went out; that it passes the cap by *)
(* one at most; that leads of a terminal status are left alone.            *)
(***************************************************************************)
EXTENDS LeadReminders, TLAPS

Statements == {"clear", "reschedule", "lose", "remind"}

\* A row with a column of its own set is a row.
LEMMA Columns ==
  \A row \in Rows :
      /\ \A s \in Statuses : [row EXCEPT !.status = s] \in Rows
      /\ \A n \in {"none", "later", "now"} : [row EXCEPT !.next = n] \in Rows
      /\ [row EXCEPT !.count = @ + 1] \in Rows
      /\ \A a \in 0..3 : [row EXCEPT !.age = a] \in Rows
  <1> TAKE row \in Rows
  <1>1. ASSUME NEW s \in Statuses PROVE [row EXCEPT !.status = s] \in Rows
    BY DEF Rows
  <1>2. ASSUME NEW n \in {"none", "later", "now"} PROVE [row EXCEPT !.next = n] \in Rows
    BY DEF Rows
  <1>3. [row EXCEPT !.count = @ + 1] \in Rows
    BY DEF Rows
  <1>4. ASSUME NEW a \in 0..3 PROVE [row EXCEPT !.age = a] \in Rows
    BY DEF Rows
  <1> QED BY <1>1, <1>2, <1>3, <1>4

\* What a statement makes of a row: a row, with the counter raised by the two
\* that follow a reminder.
LEMMA UpdatedRow ==
  ASSUME NEW row \in Rows, NEW s \in Statements
  PROVE  /\ Updated(row, s) \in Rows
         /\ s \in {"reschedule", "remind"} => Updated(row, s).count = row.count + 1
         /\ s \in {"clear", "lose"} => Updated(row, s).count = row.count
  <1> "lost" \in Statuses /\ 0 \in 0..3
    BY DEF Statuses
  <1>1. CASE s = "clear"
    <2> DEFINE r == [row EXCEPT !.next = "none"]
    <2>1. r \in Rows /\ r.count = row.count
      BY Columns DEF Rows
    <2>2. Updated(row, s) = [r EXCEPT !.age = 0]
      BY <1>1 DEF Updated
    <2> HIDE DEF r
    <2> QED BY <1>1, <2>1, <2>2, Columns DEF Rows
  <1>2. CASE s = "reschedule"
    <2> DEFINE r == [row EXCEPT !.next = "later"]
               q == [r EXCEPT !.count = @ + 1]
    <2>1. r \in Rows /\ r.count = row.count
      BY Columns DEF Rows
    <2>2. Updated(row, s) = [q EXCEPT !.age = 0]
      BY <1>2 DEF Updated
    <2>3. q \in Rows /\ q.count = row.count + 1
      <3> HIDE DEF r
      <3> QED BY <2>1, Columns DEF Rows
    <2> HIDE DEF q
    <2> QED BY <1>2, <2>2, <2>3, Columns DEF Rows
  <1>3. CASE s = "remind"
    <2> DEFINE r == [row EXCEPT !.count = @ + 1]
    <2>1. r \in Rows /\ r.count = row.count + 1
      BY Columns DEF Rows
    <2>2. Updated(row, s) = [r EXCEPT !.age = 0]
      BY <1>3 DEF Updated
    <2> HIDE DEF r
    <2> QED BY <1>3, <2>1, <2>2, Columns DEF Rows
  <1>4. CASE s = "lose"
    <2> DEFINE r == [row EXCEPT !.status = "lost"]
    <2>1. r \in Rows /\ r.count = row.count
      BY Columns DEF Rows
    <2>2. Updated(row, s) = [r EXCEPT !.age = 0]
      BY <1>4 DEF Updated
    <2> HIDE DEF r
    <2> QED BY <1>4, <2>1, <2>2, Columns DEF Rows
  <1> QED BY <1>1, <1>2, <1>3, <1>4 DEF Statements

LEMMA NoRowType == NoRow \in Rows
  BY DEF NoRow, Rows, Statuses

\* When transactions end, a row is with who held it, with nobody, or with one
\* who waited for it; a row that changes hands has lost its new version.
LEMMA Released ==
  ASSUME TypeOK, NEW J \in SUBSET Jobs, NEW W \in SUBSET Jobs, Release(J, W),
         NEW l \in Leads
  PROVE  /\ lock'[l] \in Jobs \union {None}
         /\ draft'[l] \in Rows
         /\ lock[l] \notin J => lock'[l] = lock[l] /\ draft'[l] = draft[l]
         /\ lock[l] \in J /\ lock'[l] \in Jobs =>
               /\ lock'[l] \in W /\ cur[lock'[l]] = l
               /\ draft'[l] = lead[l]
  <1> DEFINE granted == {k \in W : cur[k] = l}
  <1>1. CASE lock[l] \notin J
    BY <1>1 DEF Release, TypeOK
  <1>2. CASE lock[l] \in J /\ granted = {}
    BY <1>2, NoRowType, NoneAssumption DEF Release, TypeOK
  <1>3. CASE lock[l] \in J /\ granted # {}
    <2>1. lock'[l] = CHOOSE k \in granted : TRUE
      BY <1>3 DEF Release
    <2>2. lock'[l] \in granted
      <3> HIDE DEF granted
      <3> QED BY <1>3, <2>1
    <2>3. draft'[l] = lead[l]
      BY <1>3 DEF Release
    <2> QED BY <1>3, <2>2, <2>3 DEF TypeOK
  <1> QED BY <1>1, <1>2, <1>3

LEMMA ReleaseTypes ==
  ASSUME TypeOK, NEW J \in SUBSET Jobs, NEW W \in SUBSET Jobs, Release(J, W)
  PROVE  lock' \in [Leads -> Jobs \union {None}] /\ draft' \in [Leads -> Rows]
  <1>1. lock' = [l \in Leads |-> lock'[l]] /\ draft' = [l \in Leads |-> draft'[l]]
    BY DEF Release
  <1>2. \A l \in Leads : lock'[l] \in Jobs \union {None} /\ draft'[l] \in Rows
    BY Released
  <1> HIDE DEF Release
  <1> QED BY <1>1, <1>2

LEMMA FinishTypes ==
  ASSUME TypeOK, NEW J \in SUBSET Jobs, NEW W \in SUBSET Jobs, Finish(J, W),
         lead' \in [Leads -> Rows], unrecorded' \in [Leads -> Nat], events' \in Nat
  PROVE  TypeOK'
  <1>1. lock' \in [Leads -> Jobs \union {None}] /\ draft' \in [Leads -> Rows]
    BY ReleaseTypes DEF Finish
  <1>2. /\ inTx' \in [Jobs -> SUBSET Leads] /\ todo' \in [Jobs -> SUBSET Leads]
        /\ cur' \in [Jobs -> Leads \union {None}]
        /\ closedThen' \in [Jobs -> SUBSET Leads]
        /\ snap' \in [Jobs -> [Leads -> Rows]]
        /\ pc' \in [Jobs -> {"idle", "loop", "clear", "reschedule", "lose", "announce", "remind"}]
    BY NoRowType DEF TypeOK, Finish
  <1>3. aborted' \in BOOLEAN /\ offHours' \in BOOLEAN
    BY DEF TypeOK, Finish
  <1>4. UNCHANGED <<stage, closed, sends>>
    BY DEF Finish, closing
  <1>5. \A j \in Jobs : pc'[j] \notin {"idle", "loop"} => cur'[j] \in Leads
    BY DEF TypeOK, Finish
  <1> QED BY <1>1, <1>2, <1>3, <1>4, <1>5 DEF TypeOK

LEMMA UnrecordedTypes ==
  ASSUME TypeOK, NEW J \in SUBSET Jobs, Unrecorded(J)
  PROVE  unrecorded' \in [Leads -> Nat]
  BY DEF TypeOK, Unrecorded

LEMMA TypeInit == Init => TypeOK
  <1> SUFFICES ASSUME Init PROVE TypeOK
    OBVIOUS
  <1>1. lead \in [Leads -> Rows] /\ \A l \in Leads : lead[l].count \in Nat
    BY InitialAssumption DEF Init, Rows
  <1>2. sends \in [Leads -> Nat] /\ unrecorded \in [Leads -> Nat]
    BY <1>1 DEF Init
  <1> QED BY <1>1, <1>2, NoRowType DEF Init, TypeOK

\* Time and other people.
LEMMA TypeTick ==
  ASSUME TypeOK, NEW l \in Leads, NEW row \in Rows, Tick(l, row)
  PROVE  TypeOK'
  BY DEF TypeOK, Tick, Event, closing, work, history

LEMMA TypeWrites ==
  ASSUME TypeOK, NEW l \in Leads, NEW status \in Statuses,
         NEW next \in {"none", "later", "now"}, Writes(l, status, next),
         stage' \in [Leads -> {"open", "completed", "lost"}], closed' \in SUBSET Leads
  PROVE  TypeOK'
  <1> DEFINE s == [lead[l] EXCEPT !.status = status]
             n == [s EXCEPT !.next = next]
             row == [n EXCEPT !.age = 0]
  <1>1. s \in Rows
    <2>1. lead[l] \in Rows
      BY DEF TypeOK
    <2> QED BY <2>1, Columns
  <1>2. n \in Rows
    <2> HIDE DEF s
    <2> QED BY <1>1, Columns
  <1>3. row \in Rows
    <2>1. 0 \in 0..3
      OBVIOUS
    <2> HIDE DEF n
    <2> QED BY <1>2, <2>1, Columns
  <1>4. lead' = [lead EXCEPT ![l] = row]
    <2>1. [lead[l] EXCEPT !.status = status, !.next = next, !.age = 0] = row
      OBVIOUS
    <2> QED BY <2>1 DEF Writes
  <1>5. /\ UNCHANGED <<closedThen, lock, draft, pc, todo, cur, snap, aborted, offHours>>
        /\ UNCHANGED <<sends, inTx, unrecorded>> /\ events' = events + 1
    BY DEF Writes, Changes, Event, work, history
  <1>6. lead' \in [Leads -> Rows]
    <2> HIDE DEF row
    <2> QED BY <1>3, <1>4 DEF TypeOK
  <1> QED BY <1>5, <1>6 DEF TypeOK

LEMMA TypeOthers ==
  ASSUME TypeOK, NEW l \in Leads,
         \/ FallsDue(l) \/ GrowsOld(l)
         \/ \E s \in Statuses : CardStatus(l, s) \/ KanbanMove(l, s)
         \/ PipelineLost(l) \/ PipelineReopen(l) \/ PackageStatus(l) \/ Schedules(l)
  PROVE  TypeOK'
  <1>0. /\ lead[l] \in Rows /\ lead[l].status \in Statuses /\ lead[l].age \in 0..3
        /\ lead[l].next \in {"none", "later", "now"}
    BY DEF TypeOK, Rows
  <1>1. CASE FallsDue(l)
    <2>1. [lead[l] EXCEPT !.next = "now"] \in Rows
      BY <1>0, Columns
    <2> QED BY <1>1, <2>1, TypeTick DEF FallsDue
  <1>2. CASE GrowsOld(l)
    <2>1. lead[l].age + 1 \in 0..3
      BY <1>0, <1>2 DEF GrowsOld
    <2>2. [lead[l] EXCEPT !.age = @ + 1] \in Rows
      BY <1>0, <2>1 DEF Rows
    <2> QED BY <1>2, <2>2, TypeTick DEF GrowsOld
  <1>3. ASSUME NEW s \in Statuses, CardStatus(l, s) PROVE TypeOK'
    <2>1. (IF s \in Skip THEN "none" ELSE lead[l].next) \in {"none", "later", "now"}
      BY <1>0
    <2>2. stage' \in [Leads -> {"open", "completed", "lost"}] /\ closed' \in SUBSET Leads
      BY <1>3 DEF CardStatus, Closes, TypeOK
    <2> QED BY <1>3, <2>1, <2>2, TypeWrites DEF CardStatus
  <1>4. ASSUME NEW s \in Statuses, KanbanMove(l, s) PROVE TypeOK'
    <2>1. stage' \in [Leads -> {"open", "completed", "lost"}] /\ closed' \in SUBSET Leads
      BY <1>4 DEF KanbanMove, MoveTarget, Closes, TypeOK
    <2> QED BY <1>0, <1>4, <2>1, TypeWrites DEF KanbanMove
  <1>5. CASE PipelineLost(l)
    <2>1. stage' \in [Leads -> {"open", "completed", "lost"}] /\ closed' \in SUBSET Leads
      BY <1>5 DEF PipelineLost, Closes, TypeOK
    <2> QED BY <1>0, <1>5, <2>1, TypeWrites DEF PipelineLost
  <1>6. CASE PipelineReopen(l)
    BY <1>6 DEF PipelineReopen, Changes, Closes, TypeOK, Event, work, history
  <1>7. CASE PackageStatus(l)
    <2>1. stage' \in [Leads -> {"open", "completed", "lost"}] /\ closed' \in SUBSET Leads
      BY <1>7 DEF PackageStatus, Closes, TypeOK
    <2> QED BY <1>0, <1>7, <2>1, TypeWrites DEF PackageStatus, Statuses
  <1>8. CASE Schedules(l)
    <2>1. stage' \in [Leads -> {"open", "completed", "lost"}] /\ closed' \in SUBSET Leads
      BY <1>8 DEF Schedules, closing, TypeOK
    <2> QED BY <1>0, <1>8, <2>1, TypeWrites DEF Schedules
  <1> QED BY <1>1, <1>2, <1>3, <1>4, <1>5, <1>6, <1>7, <1>8

\* A job begins, and takes the next lead.
LEMMA TypeBegin ==
  ASSUME TypeOK, NEW j \in Jobs, NEW batch \in SUBSET Leads, Begin(j, batch),
         aborted' \in BOOLEAN, offHours' \in BOOLEAN
  PROVE  TypeOK'
  BY NoRowType DEF TypeOK, Begin, closing, history

LEMMA TypeTake ==
  ASSUME TypeOK, NEW j \in Jobs, NEW l \in Leads,
         NEW next \in Statements \union {"loop"}, Take(j, l, next),
         Sent(j, l) \/ NothingSent, events' \in Nat
  PROVE  TypeOK'
  <1>1. CASE Sent(j, l)
    <2>1. sends' \in [Leads -> Nat]
      BY <1>1 DEF TypeOK, Sent
    <2>2. inTx' \in [Jobs -> SUBSET Leads]
      BY <1>1 DEF TypeOK, Sent
    <2> QED BY <2>1, <2>2 DEF TypeOK, Take, closing, Statements
  <1>2. CASE NothingSent
    BY <1>2 DEF TypeOK, Take, NothingSent, closing, Statements
  <1> QED BY <1>1, <1>2

LEMMA TypeUpdate ==
  ASSUME TypeOK, NEW j \in Jobs, Update(j)
  PROVE  TypeOK'
  <1>1. cur[j] \in Leads /\ pc[j] \in Statements
    BY DEF TypeOK, Update, Statements
  <1>2. draft' \in [Leads -> Rows]
    <2> DEFINE row == IF lock[cur[j]] = j THEN draft[cur[j]] ELSE lead[cur[j]]
    <2>1. row \in Rows
      BY <1>1 DEF TypeOK
    <2>2. draft' = [draft EXCEPT ![cur[j]] = Updated(row, pc[j])]
      BY <1>1 DEF TypeOK, Update
    <2> HIDE DEF row
    <2> QED BY <1>1, <2>1, <2>2, UpdatedRow DEF TypeOK
  <1> QED BY <1>1, <1>2 DEF TypeOK, Update, closing, history

LEMMA TypeStatementFails ==
  ASSUME TypeOK, NEW j \in Jobs, NEW W \in SUBSET Jobs, StatementFails(j, W), events' \in Nat
  PROVE  TypeOK'
  <1>1. CASE j = "due"
    <2>1. Release({"due"}, W) /\ aborted' = TRUE /\ pc' = [pc EXCEPT !["due"] = "loop"]
          /\ UNCHANGED <<lead, closing, closedThen, todo, cur, snap, offHours, history>>
      BY <1>1 DEF StatementFails
    <2>2. lock' \in [Leads -> Jobs \union {None}] /\ draft' \in [Leads -> Rows]
      BY <2>1, ReleaseTypes DEF Jobs
    <2> QED BY <2>1, <2>2 DEF TypeOK, closing, history, Jobs
  <1>2. CASE j = "inactive"
    BY <1>2, UnrecordedTypes, FinishTypes DEF StatementFails, Gone, TypeOK, Jobs
  <1> QED BY <1>1, <1>2 DEF Jobs

LEMMA TypeCommit ==
  ASSUME TypeOK, NEW j \in Jobs, Commit(j)
  PROVE  TypeOK'
  <1> DEFINE J == IF j = "due" /\ aborted THEN {j} ELSE {}
  <1>1. lead' \in [Leads -> Rows]
    BY DEF TypeOK, Commit
  <1>2. unrecorded' \in [Leads -> Nat]
    <2>1. J \in SUBSET Jobs /\ Unrecorded(J)
      BY DEF Commit
    <2> QED BY <2>1, UnrecordedTypes
  <1> QED BY <1>1, <1>2, FinishTypes DEF Commit, TypeOK

LEMMA TypeStep == TypeOK /\ [Next]_vars => TypeOK'
  <1> SUFFICES ASSUME TypeOK, [Next]_vars PROVE TypeOK'
    OBVIOUS
  <1>0. CASE UNCHANGED vars
    BY <1>0 DEF vars, work, closing, history, TypeOK
  <1>1. ASSUME NEW j \in Jobs, Update(j) PROVE TypeOK'
    BY <1>1, TypeUpdate
  <1>2. ASSUME NEW j \in Jobs, Commit(j) PROVE TypeOK'
    BY <1>2, TypeCommit
  <1>3. ASSUME NEW j \in Jobs, Deadlock(j) PROVE TypeOK'
    BY <1>3, TypeStatementFails DEF Deadlock, TypeOK
  <1>4. ASSUME NEW j \in Jobs, DbError(j) PROVE TypeOK'
    BY <1>4, TypeStatementFails DEF DbError, Event, TypeOK
  <1>5. CASE StartDue
    BY <1>5, TypeBegin DEF StartDue, DueLeads, Jobs, TypeOK
  <1>6. CASE StartInactive
    BY <1>6, TypeBegin DEF StartInactive, InactiveLeads, Jobs, TypeOK
  <1>7. ASSUME NEW l \in Leads, DueGivesUp(l) PROVE TypeOK'
    BY <1>7, TypeTake DEF DueGivesUp, Jobs, Statements, TypeOK
  <1>8. ASSUME NEW l \in Leads, DueSends(l) PROVE TypeOK'
    BY <1>8, TypeTake DEF DueSends, Jobs, Statements, TypeOK
  <1>9. ASSUME NEW l \in Leads, DueSendFails(l) PROVE TypeOK'
    BY <1>9, TypeTake DEF DueSendFails, Jobs, Statements, TypeOK, Event
  <1>10. ASSUME NEW l \in Leads, InactiveLoses(l) PROVE TypeOK'
    BY <1>10, TypeTake DEF InactiveLoses, Jobs, Statements, TypeOK
  <1>11. ASSUME NEW l \in Leads, InactiveReminds(l) PROVE TypeOK'
    BY <1>11, TypeTake DEF InactiveReminds, Jobs, Statements, TypeOK
  <1>12. ASSUME NEW l \in Leads, InactiveSkips(l) PROVE TypeOK'
    BY <1>12, TypeTake DEF InactiveSkips, Jobs, Statements, TypeOK
  <1>13. CASE UpdateIgnored \/ Announce
    BY <1>13 DEF UpdateIgnored, Announce, TypeOK, closing, history, Jobs
  <1>14. CASE InactiveFails \/ Crash
    <2>1. PICK J \in {{"inactive"}, Jobs} : Gone(J, {})
      BY <1>14 DEF InactiveFails, Crash
    <2>2. J \in SUBSET Jobs /\ events' \in Nat
      BY <1>14 DEF InactiveFails, Crash, Event, TypeOK, Jobs
    <2>3. Unrecorded(J) /\ Finish(J, {}) /\ lead' \in [Leads -> Rows]
      BY <2>1 DEF Gone, TypeOK
    <2>4. unrecorded' \in [Leads -> Nat]
      BY <2>2, <2>3, UnrecordedTypes
    <2>5. {} \in SUBSET Jobs
      OBVIOUS
    <2> QED BY <2>2, <2>3, <2>4, <2>5, FinishTypes
  <1>15. ASSUME NEW l \in Leads,
                \/ FallsDue(l) \/ GrowsOld(l)
                \/ \E s \in Statuses : CardStatus(l, s) \/ KanbanMove(l, s)
                \/ PipelineLost(l) \/ PipelineReopen(l) \/ PackageStatus(l) \/ Schedules(l)
         PROVE TypeOK'
    BY <1>15, TypeOthers
  <1> QED BY <1>0, <1>1, <1>2, <1>3, <1>4, <1>5, <1>6, <1>7, <1>8, <1>9, <1>10, <1>11,
             <1>12, <1>13, <1>14, <1>15 DEF Next, StepOf

\* Every variable keeps its type, and a job that is at a statement has a lead.
THEOREM ReminderTypes == Spec => []TypeOK
  <1> QED BY TypeInit, TypeStep, PTL DEF Spec
-----------------------------------------------------------------------------
(* The counter                                                             *)

InTx(j, l) == IF l \in inTx[j] THEN 1 ELSE 0

\* The reminder about l is out, its statement is not.
Unwritten(j, l) == cur[j] = l /\ pc[j] \in {"reschedule", "remind"}
Written(j, l) == IF l \in inTx[j] /\ ~Unwritten(j, l) THEN 1 ELSE 0

Failed(j) == j = "due" /\ aborted

\* What a job knows of the reminders of its transaction: unless it has failed,
\* it holds the rows it has sent about, and their new versions count them.
JobInv(j) ==
    /\ pc[j] = "idle" => inTx[j] = {} /\ todo[j] = {} /\ \A l \in Leads : lock[l] # j
    /\ inTx[j] \intersect todo[j] = {}
    /\ pc[j] \in {"reschedule", "remind"} => cur[j] \in inTx[j]
    /\ pc[j] \in {"clear", "lose"} => cur[j] \notin inTx[j]
    /\ Failed(j) => \A l \in Leads : lock[l] # j
    /\ ~Failed(j) => \A l \in inTx[j] : lock[l] = j \/ Unwritten(j, l)
    /\ \A l \in Leads : lock[l] = j => draft[l].count = lead[l].count + Written(j, l)

\* Who is at a statement has not counted its reminder yet.
LEMMA NothingWritten ==
  ASSUME TypeOK, NEW j \in Jobs, JobInv(j), pc[j] \in Statements
  PROVE  cur[j] \in Leads /\ Written(j, cur[j]) = 0
  BY DEF TypeOK, JobInv, Written, Unwritten, Statements

\* A step that leaves a job and its rows alone.
JobFrame(j) ==
    /\ pc'[j] = pc[j] /\ cur'[j] = cur[j] /\ inTx'[j] = inTx[j] /\ todo'[j] = todo[j]
    /\ Failed(j)' <=> Failed(j)
    /\ \A l \in Leads : lock'[l] = j <=> lock[l] = j
    /\ \A l \in Leads : lock[l] = j => /\ draft'[l] = draft[l]
                                       /\ lead'[l].count = lead[l].count

LEMMA JobInvFrame ==
  ASSUME TypeOK, NEW j \in Jobs, JobInv(j), JobFrame(j)
  PROVE  JobInv(j)'
  <1>1. \A l \in Leads : Unwritten(j, l)' <=> Unwritten(j, l)
    BY DEF JobFrame, Unwritten
  <1>2. \A l \in Leads : Written(j, l)' = Written(j, l)
    BY <1>1 DEF JobFrame, Written
  <1>3. \A l \in Leads : lock'[l] = j => draft'[l].count = lead'[l].count + Written(j, l)'
    BY <1>2 DEF JobInv, JobFrame
  <1>4. ~Failed(j)' => \A l \in inTx'[j] : lock'[l] = j \/ Unwritten(j, l)'
    <2>1. inTx[j] \subseteq Leads
      BY DEF TypeOK
    <2> QED BY <1>1, <2>1 DEF JobInv, JobFrame
  <1>5. Failed(j)' => \A l \in Leads : lock'[l] # j
    BY DEF JobInv, JobFrame
  <1> QED BY <1>3, <1>4, <1>5 DEF JobInv, JobFrame

\* Time and other people leave counters, and rows that are held, alone.
Others ==
    \E l \in Leads :
        \/ FallsDue(l) \/ GrowsOld(l)
        \/ \E s \in Statuses : CardStatus(l, s) \/ KanbanMove(l, s)
        \/ PipelineLost(l) \/ PipelineReopen(l) \/ PackageStatus(l) \/ Schedules(l)

LEMMA OthersFrame ==
  ASSUME TypeOK, Others
  PROVE  /\ \A l \in Leads : lead'[l].count = lead[l].count
         /\ UNCHANGED <<lock, draft, work, history>>
  <1>1. PICK l \in Leads :
          \/ FallsDue(l) \/ GrowsOld(l)
          \/ \E s \in Statuses : CardStatus(l, s) \/ KanbanMove(l, s)
          \/ PipelineLost(l) \/ PipelineReopen(l) \/ PackageStatus(l) \/ Schedules(l)
    BY DEF Others
  <1>2. lead[l] \in Rows
    BY DEF TypeOK
  <1>3. ASSUME NEW status, NEW next, Writes(l, status, next)
        PROVE  /\ \A k \in Leads : lead'[k].count = lead[k].count
               /\ UNCHANGED <<lock, draft, work, history>>
    <2> DEFINE row == [lead[l] EXCEPT !.status = status, !.next = next, !.age = 0]
    <2>1. row.count = lead[l].count
      BY <1>2 DEF Rows
    <2>2. lead' = [lead EXCEPT ![l] = row] /\ UNCHANGED <<lock, draft, work, history>>
      BY <1>3 DEF Writes, Changes
    <2> HIDE DEF row
    <2> QED BY <2>1, <2>2 DEF TypeOK
  <1>4. CASE FallsDue(l)
    <2> DEFINE row == [lead[l] EXCEPT !.next = "now"]
    <2>1. row.count = lead[l].count
      BY <1>2 DEF Rows
    <2>2. lead' = [lead EXCEPT ![l] = row] /\ UNCHANGED <<lock, draft, work, history>>
      BY <1>4 DEF FallsDue, Tick
    <2> HIDE DEF row
    <2> QED BY <2>1, <2>2 DEF TypeOK
  <1>5. CASE GrowsOld(l)
    <2> DEFINE row == [lead[l] EXCEPT !.age = @ + 1]
    <2>1. row.count = lead[l].count
      BY <1>2 DEF Rows
    <2>2. lead' = [lead EXCEPT ![l] = row] /\ UNCHANGED <<lock, draft, work, history>>
      BY <1>5 DEF GrowsOld, Tick
    <2> HIDE DEF row
    <2> QED BY <2>1, <2>2 DEF TypeOK
  <1>6. CASE PipelineReopen(l)
    BY <1>6 DEF PipelineReopen, Changes
  <1> QED BY <1>1, <1>3, <1>4, <1>5, <1>6
          DEF CardStatus, KanbanMove, PipelineLost, PackageStatus, Schedules

LEMMA InitJobs == Init => CountMatchesSends /\ \A j \in Jobs : JobInv(j)
  <1> SUFFICES ASSUME Init PROVE CountMatchesSends /\ \A j \in Jobs : JobInv(j)
    OBVIOUS
  <1>1. \A l \in Leads : lead[l].count \in Nat
    BY InitialAssumption DEF Init, Rows
  <1>2. CountMatchesSends
    <2> SUFFICES ASSUME NEW l \in Leads
                 PROVE  sends[l] = lead[l].count + unrecorded[l]
                                     + (IF l \in inTx["due"] THEN 1 ELSE 0)
                                     + (IF l \in inTx["inactive"] THEN 1 ELSE 0)
      BY DEF CountMatchesSends
    <2>1. sends[l] = lead[l].count /\ unrecorded[l] = 0
      BY DEF Init
    <2>2. l \notin inTx["due"] /\ l \notin inTx["inactive"]
      BY DEF Init, Jobs
    <2> QED BY <1>1, <2>1, <2>2
  <1>3. ASSUME NEW j \in Jobs PROVE JobInv(j)
    BY NoneAssumption DEF Init, JobInv, Failed
  <1> QED BY <1>2, <1>3

\* A job takes a lead, and may send about it.
Takes(j, l) ==
    \E next \in Statements \union {"loop"} :
        /\ Take(j, l, next)
        /\ IF next \in {"reschedule", "remind"} THEN Sent(j, l) ELSE NothingSent

LEMMA TakesInv ==
  ASSUME TypeOK, NEW j \in Jobs, NEW l \in Leads, Takes(j, l),
         CountMatchesSends, \A k \in Jobs : JobInv(k)
  PROVE  CountMatchesSends' /\ \A k \in Jobs : JobInv(k)'
  <1>1. PICK next \in Statements \union {"loop"} :
          /\ Take(j, l, next)
          /\ IF next \in {"reschedule", "remind"} THEN Sent(j, l) ELSE NothingSent
    BY DEF Takes
  <1>2. l \in todo[j] /\ l \notin inTx[j] /\ pc[j] = "loop"
    BY <1>1 DEF Take, JobInv
  <1>3. CountMatchesSends'
    <2>1. CASE next \in {"reschedule", "remind"}
      BY <1>1, <1>2, <2>1, SMTT(30) DEF Take, Sent, CountMatchesSends, TypeOK, Jobs, Rows
    <2>2. CASE next \notin {"reschedule", "remind"}
      BY <1>1, <2>2 DEF Take, NothingSent, CountMatchesSends
    <2> QED BY <2>1, <2>2
  <1>4. ASSUME NEW k \in Jobs, k # j PROVE JobInv(k)'
    <2>1. JobFrame(k)
      BY <1>1, <1>4 DEF Take, Sent, NothingSent, JobFrame, Failed, TypeOK
    <2> QED BY <2>1, JobInvFrame
  <1>5. JobInv(j)'
    <2>1. CASE next \in {"reschedule", "remind"}
      <3>1. /\ pc'[j] = next /\ cur'[j] = l /\ inTx'[j] = inTx[j] \union {l}
            /\ todo'[j] = todo[j] \ {l} /\ UNCHANGED <<lock, draft, lead, aborted>>
        BY <1>1, <2>1 DEF Take, Sent, TypeOK
      <3> QED BY <1>2, <2>1, <3>1 DEF JobInv, Written, Unwritten, Failed
    <2>2. CASE next \notin {"reschedule", "remind"}
      <3>1. /\ pc'[j] = next /\ inTx'[j] = inTx[j] /\ todo'[j] = todo[j] \ {l}
            /\ next # "loop" => cur'[j] = l
            /\ UNCHANGED <<lock, draft, lead, aborted>>
        BY <1>1, <2>2 DEF Take, NothingSent, TypeOK
      <3> QED BY <1>2, <2>2, <3>1 DEF JobInv, Written, Unwritten, Failed, Statements
    <2> QED BY <2>1, <2>2
  <1> QED BY <1>3, <1>4, <1>5

\* A statement adds its reminder to the row's new version.
LEMMA UpdateInv ==
  ASSUME TypeOK, NEW j \in Jobs, Update(j),
         CountMatchesSends, \A k \in Jobs : JobInv(k)
  PROVE  CountMatchesSends' /\ \A k \in Jobs : JobInv(k)'
  <1>1. pc[j] \in Statements /\ ~Failed(j) /\ lock[cur[j]] \in {j, None}
    BY DEF Update, Statements, Failed
  <1>2. cur[j] \in Leads /\ Written(j, cur[j]) = 0
    BY <1>1, NothingWritten
  <1> DEFINE row == IF lock[cur[j]] = j THEN draft[cur[j]] ELSE lead[cur[j]]
  <1>3. row \in Rows /\ row.count = lead[cur[j]].count
    BY <1>2 DEF TypeOK, JobInv, Rows
  <1>4. draft' = [draft EXCEPT ![cur[j]] = Updated(row, pc[j])]
    BY <1>2 DEF TypeOK, Update
  <1> HIDE DEF row
  <1>5. CountMatchesSends'
    BY DEF Update, CountMatchesSends, history
  <1>6. ASSUME NEW k \in Jobs, k # j PROVE JobInv(k)'
    <2>1. JobFrame(k)
      BY <1>1, <1>2, <1>4, <1>6, NoneAssumption DEF Update, JobFrame, Failed, TypeOK, history
    <2> QED BY <2>1, JobInvFrame
  <1>7. JobInv(j)'
    <2>1. /\ pc'[j] \in {"announce", "loop"} /\ UNCHANGED <<cur, inTx, todo, lead, aborted>>
          /\ lock' = [lock EXCEPT ![cur[j]] = j]
      BY DEF Update, TypeOK, history
    <2>2. Updated(row, pc[j]).count = lead[cur[j]].count
                                        + (IF pc[j] \in {"reschedule", "remind"} THEN 1 ELSE 0)
      <3>1. lead[cur[j]].count \in Nat
        BY <1>2 DEF TypeOK, Rows
      <3>2. /\ pc[j] \in {"reschedule", "remind"} => Updated(row, pc[j]).count = row.count + 1
            /\ pc[j] \in {"clear", "lose"} => Updated(row, pc[j]).count = row.count
        BY <1>1, <1>3, UpdatedRow
      <3> QED BY <1>1, <1>3, <3>1, <3>2 DEF Statements
    <2>3. \A l \in Leads : lock'[l] = j => draft'[l].count = lead'[l].count + Written(j, l)'
      <3> TAKE l \in Leads
      <3>1. CASE l = cur[j]
        BY <1>1, <1>2, <1>4, <2>1, <2>2, <3>1 DEF Written, Unwritten, JobInv, TypeOK, Statements
      <3>2. CASE l # cur[j]
        BY <1>2, <1>4, <2>1, <3>2 DEF Written, Unwritten, JobInv, TypeOK
      <3> QED BY <3>1, <3>2
    <2>4. \A l \in inTx'[j] : lock'[l] = j
      BY <1>1, <1>2, <2>1 DEF JobInv, Unwritten, TypeOK
    <2> QED BY <1>1, <2>1, <2>3, <2>4 DEF JobInv, Failed
  <1> QED BY <1>5, <1>6, <1>7

\* COMMIT writes the counters of the rows it holds, unless it has failed.
LEMMA CommitCounts ==
  ASSUME TypeOK, NEW j \in Jobs, Commit(j), JobInv(j), NEW l \in Leads
  PROVE  /\ lead'[l].count = lead[l].count + (IF Failed(j) THEN 0 ELSE InTx(j, l))
         /\ unrecorded'[l] = unrecorded[l] + (IF Failed(j) THEN InTx(j, l) ELSE 0)
  <1>1. pc[j] = "loop" /\ ~Unwritten(j, l)
    BY DEF Commit, Unwritten
  <1>2. lead'[l] = IF lock[l] = j THEN draft[l] ELSE lead[l]
    BY DEF Commit
  <1>3. lead[l].count \in Nat /\ unrecorded[l] \in Nat
    BY DEF TypeOK, Rows
  <1>4. lead'[l].count = lead[l].count + (IF Failed(j) THEN 0 ELSE InTx(j, l))
    BY <1>1, <1>2, <1>3 DEF JobInv, Written, InTx
  <1>5. unrecorded'[l] = unrecorded[l] + (IF Failed(j) THEN InTx(j, l) ELSE 0)
    <2>1. CASE Failed(j)
      BY <1>3, <2>1 DEF Commit, Unrecorded, InTx, Failed
    <2>2. CASE ~Failed(j)
      BY <1>3, <2>2 DEF Commit, Unrecorded, Failed
    <2> QED BY <2>1, <2>2
  <1> QED BY <1>4, <1>5

\* The jobs of J end and the others get the rows they wait for; those were not
\* failed, and have counted nothing on these rows yet.
LEMMA FinishInv ==
  ASSUME TypeOK, NEW J \in SUBSET Jobs, NEW W \in SUBSET (Jobs \ J), Finish(J, W),
         NEW k \in Jobs, JobInv(k),
         \A l \in Leads : lock[l] \notin J => lead'[l].count = lead[l].count,
         W # {} => UNCHANGED lead,
         k \in W => ~Failed(k) /\ pc[k] \in Statements
  PROVE  JobInv(k)'
  <1>1. Release(J, W)
    BY DEF Finish
  <1>2. CASE k \in J
    <2>1. pc'[k] = "idle" /\ inTx'[k] = {} /\ todo'[k] = {}
      BY <1>2 DEF Finish
    <2>2. \A l \in Leads : lock'[l] # k
      <3> TAKE l \in Leads
      <3>1. k \notin W
        BY <1>2
      <3> QED BY <1>1, <1>2, <3>1, Released
    <2> QED BY <2>1, <2>2 DEF JobInv
  <1>3. CASE k \notin J
    <2>1. pc'[k] = pc[k] /\ inTx'[k] = inTx[k] /\ todo'[k] = todo[k] /\ cur'[k] = cur[k]
      BY <1>3 DEF Finish
    <2>2. Failed(k)' <=> Failed(k)
      BY <1>3 DEF Finish, Failed, TypeOK
    <2>3. \A l \in Leads : lock[l] = k => lock'[l] = k /\ draft'[l] = draft[l]
      <3> TAKE l \in Leads
      <3>1. lock[l] \notin J => lock'[l] = lock[l] /\ draft'[l] = draft[l]
        BY <1>1, Released
      <3> QED BY <1>3, <3>1
    <2>4. \A l \in Leads : lock'[l] = k =>
             lock[l] = k \/ (k \in W /\ cur[k] = l /\ draft'[l] = lead[l])
      <3> TAKE l \in Leads
      <3> QED BY <1>1, <1>3, Released
    <2>5. \A l \in Leads : Unwritten(k, l)' <=> Unwritten(k, l)
      BY <2>1 DEF Unwritten
    <2>6. \A l \in Leads : Written(k, l)' = Written(k, l)
      BY <2>1, <2>5 DEF Written
    <2>7. ASSUME NEW l \in Leads, lock'[l] = k
          PROVE  draft'[l].count = lead'[l].count + Written(k, l)'
      <3>1. CASE lock[l] = k
        BY <1>3, <2>3, <2>6, <3>1 DEF JobInv
      <3>2. CASE k \in W /\ cur[k] = l /\ draft'[l] = lead[l]
        <4>1. Written(k, l)' = 0 /\ lead'[l] = lead[l] /\ lead[l].count \in Nat
          BY <2>6, <3>2, NothingWritten DEF TypeOK, Rows
        <4> QED BY <3>2, <4>1
      <3> QED BY <2>4, <2>7, <3>1, <3>2
    <2>8. Failed(k)' => \A l \in Leads : lock'[l] # k
      BY <2>2, <2>4 DEF JobInv
    <2>9. ~Failed(k)' => \A l \in inTx'[k] : lock'[l] = k \/ Unwritten(k, l)'
      <3>1. inTx[k] \subseteq Leads
        BY DEF TypeOK
      <3> QED BY <2>1, <2>2, <2>3, <2>5, <3>1 DEF JobInv
    <2>10. pc'[k] = "idle" => \A l \in Leads : lock'[l] # k
      BY <2>1, <2>4 DEF JobInv, Statements
    <2> QED BY <2>1, <2>7, <2>8, <2>9, <2>10 DEF JobInv
  <1> QED BY <1>2, <1>3

LEMMA CommitInv ==
  ASSUME TypeOK, NEW j \in Jobs, Commit(j),
         CountMatchesSends, \A k \in Jobs : JobInv(k)
  PROVE  CountMatchesSends' /\ \A k \in Jobs : JobInv(k)'
  <1>1. Finish({j}, {}) /\ \A l \in Leads : lock[l] \notin {j} => lead'[l].count = lead[l].count
    BY DEF Commit
  <1>2. ASSUME NEW k \in Jobs PROVE JobInv(k)'
    BY <1>1, <1>2, FinishInv
  <1>3. ASSUME NEW l \in Leads
        PROVE  sends'[l] = lead'[l].count + unrecorded'[l]
                             + InTx("due", l)' + InTx("inactive", l)'
    <2>1. sends'[l] = lead[l].count + unrecorded[l] + InTx("due", l) + InTx("inactive", l)
      BY <1>1 DEF Finish, CountMatchesSends, InTx
    <2>2. /\ InTx(j, l)' = 0
          /\ \A k \in Jobs \ {j} : InTx(k, l)' = InTx(k, l)
      BY <1>1 DEF Finish, InTx
    <2>3. lead'[l].count + unrecorded'[l] = lead[l].count + unrecorded[l] + InTx(j, l)
      <3>1. lead[l].count \in Nat /\ unrecorded[l] \in Nat /\ InTx(j, l) \in Nat
        BY DEF TypeOK, Rows, InTx
      <3> QED BY <3>1, CommitCounts
    <2>4. /\ lead[l].count \in Nat /\ unrecorded[l] \in Nat
          /\ lead'[l].count \in Nat /\ unrecorded'[l] \in Nat
          /\ InTx("due", l) \in Nat /\ InTx("inactive", l) \in Nat
      <3>1. TypeOK'
        BY TypeCommit
      <3> QED BY <3>1 DEF TypeOK, Rows, InTx
    <2> QED BY <2>1, <2>2, <2>3, <2>4 DEF Jobs
  <1> QED BY <1>2, <1>3 DEF CountMatchesSends, InTx

\* Transactions that are given up with their jobs.
LEMMA GoneInv ==
  ASSUME TypeOK, NEW J \in SUBSET Jobs, NEW W \in SUBSET (Jobs \ J), Gone(J, W),
         CountMatchesSends, \A k \in Jobs : JobInv(k),
         \A k \in W : ~Failed(k) /\ pc[k] \in Statements
  PROVE  CountMatchesSends' /\ \A k \in Jobs : JobInv(k)'
  <1>1. Finish(J, W) /\ Unrecorded(J) /\ UNCHANGED lead
    BY DEF Gone
  <1>2. ASSUME NEW k \in Jobs PROVE JobInv(k)'
    BY <1>1, <1>2, FinishInv
  <1>3. ASSUME NEW l \in Leads
        PROVE  sends'[l] = lead'[l].count + unrecorded'[l]
                             + InTx("due", l)' + InTx("inactive", l)'
    <2>1. sends'[l] = lead[l].count + unrecorded[l] + InTx("due", l) + InTx("inactive", l)
      BY <1>1 DEF Finish, CountMatchesSends, InTx
    <2>2. \A k \in Jobs : InTx(k, l)' = IF k \in J THEN 0 ELSE InTx(k, l)
      BY <1>1 DEF Finish, InTx
    <2>3. unrecorded'[l] = unrecorded[l] + (IF "due" \in J THEN InTx("due", l) ELSE 0)
                                         + (IF "inactive" \in J THEN InTx("inactive", l) ELSE 0)
      BY <1>1 DEF Unrecorded, InTx
    <2>4. /\ lead[l].count \in Nat /\ unrecorded[l] \in Nat
          /\ InTx("due", l) \in Nat /\ InTx("inactive", l) \in Nat
      BY DEF TypeOK, Rows, InTx
    <2> QED BY <1>1, <2>1, <2>2, <2>3, <2>4 DEF Jobs
  <1> QED BY <1>2, <1>3 DEF CountMatchesSends, InTx

\* A statement fails, and another job may get the rows of its transaction.
LEMMA StatementFailsInv ==
  ASSUME TypeOK, NEW j \in Jobs, NEW W \in SUBSET (Jobs \ {j}), StatementFails(j, W),
         CountMatchesSends, \A k \in Jobs : JobInv(k),
         \A k \in W : ~Failed(k) /\ pc[k] \in Statements
  PROVE  CountMatchesSends' /\ \A k \in Jobs : JobInv(k)'
  <1>1. CASE j = "inactive"
    <2>1. Gone({"inactive"}, W)
      BY <1>1 DEF StatementFails
    <2> QED BY <1>1, <2>1, GoneInv DEF Jobs
  <1>2. CASE j = "due"
    <2>1. /\ Release({"due"}, W) /\ aborted' /\ pc' = [pc EXCEPT !["due"] = "loop"]
          /\ UNCHANGED <<lead, todo, cur, history>>
      BY <1>2 DEF StatementFails
    <2>2. CountMatchesSends'
      BY <2>1 DEF CountMatchesSends, history
    <2>3. JobInv("due")'
      <3>1. \A l \in Leads : lock'[l] # "due"
        <4> TAKE l \in Leads
        <4> QED BY <1>2, <2>1, Released DEF Jobs
      <3> QED BY <1>2, <2>1, <3>1 DEF JobInv, Failed, TypeOK, history
    <2>4. JobInv("inactive")'
      <3> DEFINE k == "inactive"
      <3>1. pc'[k] = pc[k] /\ inTx'[k] = inTx[k] /\ todo'[k] = todo[k] /\ cur'[k] = cur[k]
        BY <2>1 DEF TypeOK, Jobs, history
      <3>2. /\ \A l \in Leads : lock[l] = k => lock'[l] = k /\ draft'[l] = draft[l]
            /\ \A l \in Leads : lock'[l] = k =>
                 lock[l] = k \/ (k \in W /\ cur[k] = l /\ draft'[l] = lead[l])
        <4>1. ASSUME NEW l \in Leads
              PROVE  /\ lock[l] = k => lock'[l] = k /\ draft'[l] = draft[l]
                     /\ lock'[l] = k =>
                          lock[l] = k \/ (k \in W /\ cur[k] = l /\ draft'[l] = lead[l])
          BY <1>2, <2>1, Released DEF Jobs
        <4> QED BY <4>1
      <3>3. \A l \in Leads : Unwritten(k, l)' <=> Unwritten(k, l)
        BY <3>1 DEF Unwritten
      <3>4. \A l \in Leads : Written(k, l)' = Written(k, l)
        BY <3>1, <3>3 DEF Written
      <3>5. ASSUME NEW l \in Leads, lock'[l] = k
            PROVE  draft'[l].count = lead'[l].count + Written(k, l)'
        <4>1. CASE lock[l] = k
          BY <2>1, <3>2, <3>4, <4>1 DEF JobInv, Jobs
        <4>2. CASE k \in W /\ cur[k] = l /\ draft'[l] = lead[l]
          <5>1. Written(k, l)' = 0 /\ lead'[l] = lead[l] /\ lead[l].count \in Nat
            BY <2>1, <3>4, <4>2, NothingWritten DEF TypeOK, Rows, Jobs
          <5> QED BY <4>2, <5>1
        <4> QED BY <3>2, <3>5, <4>1, <4>2
      <3>6. ~Failed(k) /\ ~Failed(k)'
        BY DEF Failed
      <3>7. \A l \in inTx'[k] : lock'[l] = k \/ Unwritten(k, l)'
        <4>1. inTx[k] \subseteq Leads
          BY DEF TypeOK, Jobs
        <4> QED BY <3>1, <3>2, <3>3, <3>6, <4>1 DEF JobInv, Jobs
      <3>8. pc'[k] = "idle" => \A l \in Leads : lock'[l] # k
        BY <3>1, <3>2 DEF JobInv, Statements, Jobs
      <3> QED BY <3>1, <3>5, <3>6, <3>7, <3>8 DEF JobInv, Jobs
    <2> QED BY <2>2, <2>3, <2>4 DEF Jobs
  <1> QED BY <1>1, <1>2 DEF Jobs

BatchStep ==
    \/ StartDue \/ StartInactive
    \/ UpdateIgnored \/ Announce
    \/ InactiveFails \/ Crash
    \/ \E j \in Jobs : Update(j) \/ Commit(j) \/ Deadlock(j) \/ DbError(j)
    \/ \E l \in Leads :
          DueGivesUp(l) \/ DueSends(l) \/ DueSendFails(l)
          \/ InactiveLoses(l) \/ InactiveReminds(l) \/ InactiveSkips(l)

LEMMA NextSplit == Next => Others \/ BatchStep
  BY DEF Next, StepOf, Others, BatchStep

\* The actions that take a lead, by what they do with it.
LEMMA TakesCases ==
  ASSUME NEW l \in Leads
  PROVE  /\ DueGivesUp(l) \/ DueSends(l) \/ DueSendFails(l) => Takes("due", l)
         /\ InactiveLoses(l) \/ InactiveReminds(l) \/ InactiveSkips(l) => Takes("inactive", l)
  <1>1. ASSUME DueGivesUp(l) PROVE Takes("due", l)
    BY <1>1 DEF DueGivesUp, Takes, Statements
  <1>2. ASSUME DueSends(l) PROVE Takes("due", l)
    BY <1>2 DEF DueSends, Takes, Statements
  <1>3. ASSUME DueSendFails(l) PROVE Takes("due", l)
    BY <1>3 DEF DueSendFails, Takes, Statements
  <1>4. ASSUME InactiveLoses(l) PROVE Takes("inactive", l)
    BY <1>4 DEF InactiveLoses, Takes, Statements
  <1>5. ASSUME InactiveReminds(l) PROVE Takes("inactive", l)
    BY <1>5 DEF InactiveReminds, Takes, Statements
  <1>6. ASSUME InactiveSkips(l) PROVE Takes("inactive", l)
    BY <1>6 DEF InactiveSkips, Takes, Statements
  <1> QED BY <1>1, <1>2, <1>3, <1>4, <1>5, <1>6

\* A job begins with nothing sent and nothing held.
LEMMA BeginInv ==
  ASSUME TypeOK, NEW j \in Jobs, NEW batch, Begin(j, batch),
         Failed(j)' <=> Failed(j), \A k \in Jobs \ {j} : Failed(k)' <=> Failed(k),
         CountMatchesSends, \A k \in Jobs : JobInv(k)
  PROVE  CountMatchesSends' /\ \A k \in Jobs : JobInv(k)'
  <1>1. CountMatchesSends'
    BY DEF Begin, CountMatchesSends, history
  <1>2. ASSUME NEW k \in Jobs, k # j PROVE JobInv(k)'
    <2>1. JobFrame(k)
      BY <1>2 DEF Begin, JobFrame, history, TypeOK
    <2> QED BY <2>1, JobInvFrame
  <1>3. JobInv(j)'
    <2>1. /\ pc'[j] = "loop" /\ inTx'[j] = {} /\ \A l \in Leads : lock'[l] # j
      BY DEF Begin, JobInv, history, TypeOK
    <2> QED BY <2>1 DEF JobInv
  <1> QED BY <1>1, <1>2, <1>3

\* A step of a job that only moves on.
LEMMA MoveInv ==
  ASSUME TypeOK, UpdateIgnored \/ Announce,
         CountMatchesSends, \A k \in Jobs : JobInv(k)
  PROVE  CountMatchesSends' /\ \A k \in Jobs : JobInv(k)'
  <1>1. CountMatchesSends'
    BY DEF UpdateIgnored, Announce, CountMatchesSends, history
  <1>2. PICK j \in Jobs :
          /\ pc' = [pc EXCEPT ![j] = "loop"]
          /\ pc[j] = "announce" \/ Failed(j)
    BY DEF UpdateIgnored, Announce, Failed, Jobs
  <1>3. UNCHANGED <<lead, lock, draft, todo, cur, aborted, inTx>>
    BY DEF UpdateIgnored, Announce, history
  <1>4. ASSUME NEW k \in Jobs, k # j PROVE JobInv(k)'
    <2>1. JobFrame(k)
      BY <1>2, <1>3, <1>4 DEF JobFrame, Failed, TypeOK
    <2> QED BY <2>1, JobInvFrame
  <1>5. JobInv(j)'
    <2>1. pc'[j] = "loop" /\ (Failed(j)' <=> Failed(j))
      BY <1>2, <1>3 DEF TypeOK, Failed
    <2>2. CASE Failed(j)
      BY <1>3, <2>1, <2>2 DEF JobInv
    <2>3. CASE ~Failed(j)
      <3>1. pc[j] = "announce"
        BY <1>2, <2>3
      <3>2. \A l \in Leads : ~Unwritten(j, l) /\ ~Unwritten(j, l)'
        BY <2>1, <3>1 DEF Unwritten
      <3>3. \A l \in Leads : Written(j, l)' = Written(j, l)
        BY <1>3, <3>2 DEF Written
      <3>4. inTx[j] \subseteq Leads
        BY DEF TypeOK
      <3> QED BY <1>3, <2>1, <2>3, <3>2, <3>3, <3>4 DEF JobInv
    <2> QED BY <2>2, <2>3
  <1> QED BY <1>1, <1>4, <1>5

LEMMA CountStep ==
  TypeOK /\ CountMatchesSends /\ (\A j \in Jobs : JobInv(j)) /\ [Next]_vars
    => CountMatchesSends' /\ \A j \in Jobs : JobInv(j)'
  <1> SUFFICES ASSUME TypeOK, CountMatchesSends, \A j \in Jobs : JobInv(j), [Next]_vars
               PROVE  CountMatchesSends' /\ \A j \in Jobs : JobInv(j)'
    OBVIOUS
  <1> DEFINE Goal == CountMatchesSends' /\ \A j \in Jobs : JobInv(j)'
  <1>1. CASE Others \/ UNCHANGED vars
    <2>1. /\ \A l \in Leads : lead'[l].count = lead[l].count
          /\ UNCHANGED <<lock, draft, work, history>>
      BY <1>1, OthersFrame DEF vars
    <2>2. CountMatchesSends'
      BY <2>1 DEF CountMatchesSends, history
    <2>3. ASSUME NEW j \in Jobs PROVE JobInv(j)'
      <3>1. JobFrame(j)
        BY <2>1 DEF JobFrame, Failed, work, history
      <3> QED BY <3>1, JobInvFrame
    <2> QED BY <2>2, <2>3
  <1>2. CASE StartDue \/ StartInactive
    <2>1. PICK j \in Jobs, batch \in {DueLeads, InactiveLeads} : Begin(j, batch)
      BY <1>2 DEF StartDue, StartInactive, Jobs
    <2>2. UNCHANGED aborted
      BY <1>2 DEF StartDue, StartInactive
    <2>3. \A k \in Jobs : Failed(k)' <=> Failed(k)
      BY <2>2 DEF Failed
    <2> QED BY <2>1, <2>3, BeginInv
  <1>3. CASE UpdateIgnored \/ Announce
    BY <1>3, MoveInv
  <1>4. CASE InactiveFails \/ Crash
    <2>1. PICK J \in {{"inactive"}, Jobs} : Gone(J, {})
      BY <1>4 DEF InactiveFails, Crash
    <2>2. J \in SUBSET Jobs /\ {} \in SUBSET (Jobs \ J)
      BY DEF Jobs
    <2> QED BY <2>1, <2>2, GoneInv
  <1>5. ASSUME NEW j \in Jobs, Update(j) PROVE Goal
    BY <1>5, UpdateInv
  <1>6. ASSUME NEW j \in Jobs, Commit(j) PROVE Goal
    BY <1>6, CommitInv
  <1>7. ASSUME NEW j \in Jobs, DbError(j) PROVE Goal
    <2>1. StatementFails(j, {}) /\ {} \in SUBSET (Jobs \ {j})
      BY <1>7 DEF DbError
    <2> QED BY <2>1, StatementFailsInv
  <1>8. ASSUME NEW j \in Jobs, Deadlock(j) PROVE Goal
    <2>1. StatementFails(j, Jobs \ {j}) /\ Jobs \ {j} \in SUBSET (Jobs \ {j})
      BY <1>8 DEF Deadlock
    <2>2. ASSUME NEW k \in Jobs PROVE ~Failed(k) /\ pc[k] \in Statements
      <3>1. pc[k] \in Statements
        BY <1>8 DEF Deadlock, Statements
      <3>2. PICK i \in Jobs \ {k} : lock[cur[i]] \in Jobs \ {i} /\ cur[i] \in Leads
        BY <1>8 DEF Deadlock, TypeOK, Jobs
      <3>3. lock[cur[i]] = k
        BY <3>2 DEF Jobs
      <3> QED BY <3>1, <3>2, <3>3 DEF JobInv
    <2> QED BY <2>1, <2>2, StatementFailsInv
  <1>9. ASSUME NEW l \in Leads,
               DueGivesUp(l) \/ DueSends(l) \/ DueSendFails(l)
               \/ InactiveLoses(l) \/ InactiveReminds(l) \/ InactiveSkips(l)
        PROVE  Goal
    <2>1. PICK j \in Jobs : Takes(j, l)
      BY <1>9, TakesCases DEF Jobs
    <2> QED BY <2>1, TakesInv
  <1> QED BY <1>1, <1>2, <1>3, <1>4, <1>5, <1>6, <1>7, <1>8, <1>9, NextSplit DEF BatchStep

\* For any number of leads, faults and changes by others: follow_up_count is
\* the number of reminders sent, but for those of transactions rolled back or
\* still open; neither job loses an increment of the other.
THEOREM NoLostIncrement == Spec => []CountMatchesSends
  <1> DEFINE JobsInv == \A j \in Jobs : JobInv(j)
  <1>1. Init => CountMatchesSends /\ JobsInv
    BY InitJobs
  <1>2. TypeOK /\ (CountMatchesSends /\ JobsInv) /\ [Next]_vars
          => CountMatchesSends' /\ JobsInv'
    BY CountStep
  <1> HIDE DEF JobsInv
  <1> QED BY <1>1, <1>2, ReminderTypes, PTL DEF Spec

-----------------------------------------------------------------------------
(* The cap                                                                 *)

\* The job has sent about l, or has yet to and found l below the cap when the
\* batch was loaded.
May(j, l) == IF l \in inTx[j] \/ (l \in todo[j] /\ snap[j][l].count < Cap) THEN 1 ELSE 0

\* A lead at the cap has at most one job left to raise it, one past it none: a
\* job that has raised it to the cap sees so when it loads its next batch.
CapInv == \A l \in Leads : lead[l].count + May("due", l) + May("inactive", l) <= Cap + 1

LEMMA CapInit == Init => CapInv
  <1> SUFFICES ASSUME Init, NEW l \in Leads
               PROVE  lead[l].count + May("due", l) + May("inactive", l) <= Cap + 1
    BY DEF CapInv
  <1>1. lead[l].count \in Nat /\ lead[l].count <= Cap
    BY InitialAssumption DEF Init, Rows
  <1>2. May("due", l) = 0 /\ May("inactive", l) = 0
    BY DEF Init, May, Jobs
  <1> QED BY <1>1, <1>2, CapAssumption

\* A step after which no job may do more than before.
LEMMA CapDown ==
  ASSUME TypeOK, CapInv, \A l \in Leads : lead'[l].count = lead[l].count,
         \A j \in Jobs : /\ inTx'[j] \subseteq inTx[j] /\ todo'[j] \subseteq todo[j]
                         /\ \A l \in todo'[j] : snap'[j][l] = snap[j][l]
  PROVE  CapInv'
  <1> SUFFICES ASSUME NEW l \in Leads
               PROVE  lead'[l].count + May("due", l)' + May("inactive", l)' <= Cap + 1
    BY DEF CapInv
  <1>1. \A j \in Jobs : May(j, l) \in {0, 1} /\ May(j, l)' \in {0, 1} /\ May(j, l)' <= May(j, l)
    BY DEF May
  <1>2. lead[l].count \in Nat
    BY DEF TypeOK, Rows
  <1> QED BY <1>1, <1>2, CapAssumption DEF CapInv, Jobs

LEMMA CapBegin ==
  ASSUME TypeOK, CapInv, NEW j \in Jobs, NEW batch, Begin(j, batch), JobInv(j)
  PROVE  CapInv'
  <1> SUFFICES ASSUME NEW l \in Leads
               PROVE  lead'[l].count + May("due", l)' + May("inactive", l)' <= Cap + 1
    BY DEF CapInv
  <1>1. lead'[l].count = lead[l].count /\ lead[l].count \in Nat
    BY DEF TypeOK, Rows, Begin
  <1>2. \A k \in Jobs : k # j => May(k, l)' = May(k, l)
    BY DEF Begin, May, TypeOK, history
  <1>3. May(j, l)' = 1 => lead[l].count < Cap
    <2>1. inTx'[j] = {}
      BY DEF Begin, JobInv, history
    <2>2. l \in todo'[j] => l \in batch /\ snap'[j][l] = lead[l]
      BY DEF Begin, TypeOK
    <2> QED BY <2>1, <2>2 DEF May
  <1>4. \A k \in Jobs : May(k, l) \in {0, 1} /\ May(k, l)' \in {0, 1}
    BY DEF May
  <1>5. May(j, l)' <= May(j, l) \/ lead[l].count < Cap
    BY <1>3, <1>4 DEF Jobs
  <1>6. CASE j = "due"
    BY <1>1, <1>2, <1>4, <1>5, <1>6, CapAssumption DEF CapInv, Jobs
  <1>7. CASE j = "inactive"
    BY <1>1, <1>2, <1>4, <1>5, <1>7, CapAssumption DEF CapInv, Jobs
  <1> QED BY <1>6, <1>7 DEF Jobs

\* Both jobs send only about leads they have loaded below the cap: the tiers of
\* the inactivity job end before it.
LEMMA CapTakes ==
  ASSUME TypeOK, CapInv, NEW l \in Leads,
         DueGivesUp(l) \/ DueSends(l) \/ DueSendFails(l)
         \/ InactiveLoses(l) \/ InactiveReminds(l) \/ InactiveSkips(l)
  PROVE  CapInv'
  <1>1. CASE DueSends(l) \/ InactiveReminds(l)
    <2>1. PICK j \in Jobs, next \in Statements :
            Take(j, l, next) /\ Sent(j, l) /\ snap[j][l].count < Cap
      <3>1. ASSUME InactiveReminds(l) PROVE snap["inactive"][l].count < Cap
        <4>1. snap["inactive"][l] \in Rows
          BY DEF TypeOK, Jobs
        <4>2. snap["inactive"][l].age \in {1, 2} /\ snap["inactive"][l].count < snap["inactive"][l].age
          BY <3>1 DEF InactiveReminds, NeedsReminder
        <4> QED BY <4>1, <4>2, CapAssumption DEF Rows
      <3> QED BY <1>1, <3>1 DEF DueSends, InactiveReminds, Jobs, Statements
    <2>2. UNCHANGED <<lead, snap>> /\ todo'[j] = todo[j] \ {l} /\ inTx'[j] = inTx[j] \union {l}
      BY <2>1 DEF Take, Sent, TypeOK
    <2>3. \A k \in Jobs \ {j} : todo'[k] = todo[k] /\ inTx'[k] = inTx[k]
      BY <2>1 DEF Take, Sent, TypeOK
    <2>4. l \in todo[j]
      BY <2>1 DEF Take
    <2>5. \A k \in Jobs, m \in Leads : May(k, m)' = May(k, m)
      <3> TAKE k \in Jobs, m \in Leads
      <3>1. CASE k = j
        BY <2>1, <2>2, <2>4, <3>1 DEF May
      <3>2. CASE k # j
        BY <2>2, <2>3, <3>2 DEF May
      <3> QED BY <3>1, <3>2
    <2> QED BY <2>2, <2>5 DEF CapInv, Jobs
  <1>2. CASE DueGivesUp(l) \/ DueSendFails(l) \/ InactiveLoses(l) \/ InactiveSkips(l)
    <2>1. PICK j \in Jobs, next \in Statements \union {"loop"} : Take(j, l, next) /\ NothingSent
      BY <1>2 DEF DueGivesUp, DueSendFails, InactiveLoses, InactiveSkips, Jobs, Statements
    <2> QED BY <2>1, CapDown DEF Take, NothingSent, TypeOK
  <1> QED BY <1>1, <1>2

LEMMA CapCommit ==
  ASSUME TypeOK, CapInv, NEW j \in Jobs, Commit(j), JobInv(j)
  PROVE  CapInv'
  <1> SUFFICES ASSUME NEW l \in Leads
               PROVE  lead'[l].count + May("due", l)' + May("inactive", l)' <= Cap + 1
    BY DEF CapInv
  <1>1. Finish({j}, {})
    BY DEF Commit
  <1>2. May(j, l)' = 0 /\ \A k \in Jobs : k # j => May(k, l)' = May(k, l)
    BY <1>1 DEF Finish, May
  <1>3. lead[l].count \in Nat
    BY DEF TypeOK, Rows
  <1>4. \A k \in Jobs : May(k, l) \in {0, 1}
    BY DEF May
  <1>5. lead'[l].count \in Nat /\ lead'[l].count <= lead[l].count + May(j, l)
    <2>1. InTx(j, l) \in {0, 1} /\ InTx(j, l) <= May(j, l)
      BY DEF InTx, May
    <2>2. lead'[l].count = lead[l].count + (IF Failed(j) THEN 0 ELSE InTx(j, l))
      BY CommitCounts
    <2> QED BY <1>3, <1>4, <2>1, <2>2
  <1>6. CASE j = "due"
    BY <1>2, <1>3, <1>4, <1>5, <1>6, CapAssumption DEF CapInv, Jobs
  <1>7. CASE j = "inactive"
    BY <1>2, <1>3, <1>4, <1>5, <1>7, CapAssumption DEF CapInv, Jobs
  <1> QED BY <1>6, <1>7 DEF Jobs

LEMMA CapGone ==
  ASSUME TypeOK, CapInv, NEW J \in SUBSET Jobs, NEW W, Gone(J, W)
  PROVE  CapInv'
  BY CapDown DEF Gone, Finish, TypeOK

LEMMA CapStatementFails ==
  ASSUME TypeOK, CapInv, NEW j \in Jobs, NEW W, StatementFails(j, W)
  PROVE  CapInv'
  <1>1. CASE j = "due"
    BY <1>1, CapDown DEF StatementFails, history
  <1>2. CASE j = "inactive"
    <2>1. Gone({"inactive"}, W)
      BY <1>2 DEF StatementFails
    <2> QED BY <2>1, CapGone DEF Jobs
  <1> QED BY <1>1, <1>2 DEF Jobs

LEMMA CapStep ==
  TypeOK /\ (\A j \in Jobs : JobInv(j)) /\ CapInv /\ [Next]_vars => CapInv'
  <1> SUFFICES ASSUME TypeOK, \A j \in Jobs : JobInv(j), CapInv, [Next]_vars PROVE CapInv'
    OBVIOUS
  <1>1. CASE Others \/ UNCHANGED vars
    <2>1. (\A l \in Leads : lead'[l].count = lead[l].count) /\ UNCHANGED <<work, history>>
      BY <1>1, OthersFrame DEF vars
    <2> QED BY <2>1, CapDown DEF work, history
  <1>2. CASE StartDue \/ StartInactive
    BY <1>2, CapBegin DEF StartDue, StartInactive, Jobs
  <1>3. CASE UpdateIgnored \/ Announce
    BY <1>3, CapDown DEF UpdateIgnored, Announce, history
  <1>4. CASE InactiveFails \/ Crash
    BY <1>4, CapGone DEF InactiveFails, Crash, Jobs
  <1>5. ASSUME NEW j \in Jobs, Update(j) PROVE CapInv'
    BY <1>5, CapDown DEF Update, history
  <1>6. ASSUME NEW j \in Jobs, Commit(j) PROVE CapInv'
    BY <1>6, CapCommit
  <1>7. ASSUME NEW j \in Jobs, DbError(j) \/ Deadlock(j) PROVE CapInv'
    BY <1>7, CapStatementFails DEF DbError, Deadlock
  <1>8. ASSUME NEW l \in Leads,
               DueGivesUp(l) \/ DueSends(l) \/ DueSendFails(l)
               \/ InactiveLoses(l) \/ InactiveReminds(l) \/ InactiveSkips(l)
        PROVE  CapInv'
    BY <1>8, CapTakes
  <1> QED BY <1>1, <1>2, <1>3, <1>4, <1>5, <1>6, <1>7, <1>8, NextSplit DEF BatchStep

\* For any number of leads and batches: the counter passes the cap by one at
\* most, although both jobs compare it with what they have loaded.
THEOREM CapPassedByOne == Spec => []CapHolds
  <1> DEFINE JobsInv == \A j \in Jobs : JobInv(j)
  <1>1. Init => (CountMatchesSends /\ JobsInv) /\ CapInv
    BY InitJobs, CapInit
  <1>2. TypeOK /\ ((CountMatchesSends /\ JobsInv) /\ CapInv) /\ [Next]_vars
          => (CountMatchesSends' /\ JobsInv') /\ CapInv'
    BY CountStep, CapStep
  <1>3. TypeOK /\ CapInv => CapHolds
    <2> SUFFICES ASSUME TypeOK, CapInv, NEW l \in Leads PROVE lead[l].count <= Cap + 1
      BY DEF CapHolds
    <2>1. lead[l].count \in Nat /\ \A j \in Jobs : May(j, l) \in {0, 1}
      BY DEF TypeOK, Rows, May
    <2> QED BY <2>1, CapAssumption DEF CapInv, Jobs
  <1> HIDE DEF JobsInv
  <1> QED BY <1>1, <1>2, <1>3, ReminderTypes, PTL DEF Spec

-----------------------------------------------------------------------------
(* Terminal statuses                                                       *)

\* No batch has loaded a lead that was deal or lost.
LoadedOpen == \A j \in Jobs, l \in Leads : snap[j][l].status \notin Skip

\* Batches are loaded without closed leads, and only a commit of the job that
\* holds a row, or somebody who finds it free, changes it.
THEOREM TerminalLeadsLeftAlone == Spec => SkippedLeftAlone
  <1>1. Init => LoadedOpen
    <2>1. NoRow.status \notin Skip
      BY DEF NoRow, Skip
    <2>2. ASSUME Init, NEW j \in Jobs, NEW l \in Leads PROVE snap[j][l] = NoRow
      <3>1. snap = [k \in Jobs |-> [m \in Leads |-> NoRow]]
        BY <2>2 DEF Init
      <3> QED BY <3>1
    <2> QED BY <2>1, <2>2 DEF LoadedOpen
  <1>2. LoadedOpen /\ TypeOK /\ [Next]_vars => LoadedOpen'
    <2> SUFFICES ASSUME LoadedOpen, TypeOK, [Next]_vars PROVE LoadedOpen'
      OBVIOUS
    <2>1. CASE UNCHANGED snap
      BY <2>1 DEF LoadedOpen
    <2>2. CASE StartDue \/ StartInactive
      <3>1. PICK j \in Jobs, batch \in {DueLeads, InactiveLeads} : Begin(j, batch)
        BY <2>2 DEF StartDue, StartInactive, Jobs
      <3>2. \A l \in Leads : snap'[j][l] = IF l \in batch THEN lead[l] ELSE NoRow
        BY <3>1 DEF Begin, TypeOK
      <3>3. \A l \in Leads : l \in batch => lead[l].status \notin Skip
        BY <3>1 DEF DueLeads, InactiveLeads, Active
      <3>4. NoRow.status \notin Skip
        BY DEF NoRow, Skip
      <3>5. \A k \in Jobs : k # j => snap'[k] = snap[k]
        BY <3>1 DEF Begin, TypeOK
      <3> QED BY <3>2, <3>3, <3>4, <3>5 DEF LoadedOpen
    <2>3. ASSUME NEW J \in SUBSET Jobs, NEW W, Finish(J, W) PROVE LoadedOpen'
      <3>1. \A k \in Jobs, l \in Leads : snap'[k][l] \in {snap[k][l], NoRow}
        BY <2>3 DEF Finish, TypeOK
      <3> QED BY <3>1 DEF LoadedOpen, NoRow, Skip
    <2>4. \/ UNCHANGED snap \/ StartDue \/ StartInactive
          \/ \E J \in SUBSET Jobs, W \in SUBSET Jobs : Finish(J, W)
      <3>1. CASE Others \/ UNCHANGED vars
        BY <3>1, OthersFrame DEF vars, work
      <3>2. CASE UpdateIgnored \/ Announce
        BY <3>2 DEF UpdateIgnored, Announce
      <3>3. CASE InactiveFails \/ Crash
        BY <3>3 DEF InactiveFails, Crash, Gone, Jobs
      <3>4. ASSUME NEW j \in Jobs, Update(j) \/ Commit(j)
            PROVE  UNCHANGED snap \/ \E J \in SUBSET Jobs, W \in SUBSET Jobs : Finish(J, W)
        BY <3>4 DEF Update, Commit
      <3>5. ASSUME NEW j \in Jobs, DbError(j) \/ Deadlock(j)
            PROVE  UNCHANGED snap \/ \E J \in SUBSET Jobs, W \in SUBSET Jobs : Finish(J, W)
        <4>1. PICK W \in SUBSET Jobs : StatementFails(j, W)
          BY <3>5 DEF DbError, Deadlock
        <4> QED BY <4>1 DEF StatementFails, Gone
      <3>6. ASSUME NEW l \in Leads,
                   DueGivesUp(l) \/ DueSends(l) \/ DueSendFails(l)
                   \/ InactiveLoses(l) \/ InactiveReminds(l) \/ InactiveSkips(l)
            PROVE  UNCHANGED snap
        BY <3>6, TakesCases DEF Takes, Take
      <3> QED BY <3>1, <3>2, <3>3, <3>4, <3>5, <3>6, NextSplit DEF BatchStep
    <2> QED BY <2>1, <2>2, <2>3, <2>4
  <1>3. LoadedOpen => \A l \in Leads, j \in Jobs :
          (l \in inTx'[j] \ inTx[j]) \/ (lock[l] = j /\ lead'[l] # lead[l])
             => snap[j][l].status \notin Skip
    BY DEF LoadedOpen
  <1> QED BY <1>1, <1>2, <1>3, ReminderTypes, PTL DEF Spec, SkippedLeftAlone
=============================================================================
