-------------------------- MODULE OperationsProofs ---------------------------
(***************************************************************************)
(* Proofs about the components in which the tasks of many people and jobs  *)
(* meet: the queue of executions, the operators' alerts and cards, the     *)
(* link guard, the agent's settings and the forms of a conversation. Each  *)
(* is proved for any number of tasks, on an inductive invariant of its own.*)
(***************************************************************************)
EXTENDS ExecutionQueue, LeadAlerts, Escalations, LinkGuard, AgentSettings, Conversations, TLAPS

-----------------------------------------------------------------------------
(* The queue. A record is decided by whoever reads it as proposed and commits *)
(* first; the invariant says what the others still hold of it.               *)

LEMMA QueueTypesInit == QueueInit => QueueTypeOK
  BY NoOneAssumption DEF QueueInit, QueueTypeOK, TasksIdle, ExecutionStatuses

LEMMA DecidesTypes ==
    ASSUME QueueTypeOK, NEW h \in Handlers, NEW j \in {"approve", "api", "reject", "expire"},
           NEW s \in ExecutionStatuses \ {"proposed"}, Decides(h, j, s)
    PROVE  QueueTypeOK'
  <1>1. rowLock # h /\ pc[h] = "idle"
    BY DEF QueueTypeOK, Decides
  <1> QED BY <1>1 DEF QueueTypeOK, Decides, queueHistory

LEMMA LeavesTypes ==
    ASSUME QueueTypeOK, NEW h \in Handlers, Leaves(h), verdict' \in ExecutionStatuses,
           refused' \in BOOLEAN, behind' \in [Handlers -> BOOLEAN]
    PROVE  QueueTypeOK'
  BY NoOneAssumption DEF QueueTypeOK, Leaves, Unlocked

LEMMA QueueTypesStep ==
    ASSUME QueueTypeOK, [QueueNext]_queueVars
    PROVE  QueueTypeOK'
  <1>u. CASE UNCHANGED queueVars
    BY <1>u DEF queueVars, queueHistory, QueueTypeOK
  <1>d. CASE DeadlinePasses
    BY <1>d DEF DeadlinePasses, queueHistory, QueueTypeOK
  <1>n. ASSUME NEW h \in Handlers,
               \/ Approve(h) \/ Reject(h) \/ ExpireOne(h) \/ WriteRecord(h) \/ Sweep(h)
               \/ Select(h) \/ HandOver(h) \/ MarkBlocked(h) \/ CommitRecord(h) \/ GiveUp(h)
        PROVE  QueueTypeOK'
    <2>1. CASE Approve(h)
      <3>1. PICK j \in {"approve", "api"} : Decides(h, j, IF late THEN "expired" ELSE "approved")
        BY <2>1 DEF Approve
      <3> QED BY <3>1, DecidesTypes DEF ExecutionStatuses
    <2>2. CASE Reject(h) \/ ExpireOne(h)
      BY <2>2, DecidesTypes DEF Reject, ExpireOne, ExecutionStatuses
    <2>3. CASE WriteRecord(h)
      BY <2>3, NoOneAssumption DEF WriteRecord, QueueTypeOK, queueHistory
    <2>4. CASE Sweep(h)
      BY <2>4, NoOneAssumption DEF Sweep, QueueTypeOK, queueHistory, ExecutionStatuses
    <2>5. CASE Select(h)
      <3>1. rowLock # h
        BY <2>5 DEF Select, QueueTypeOK
      <3> QED BY <2>5, <3>1 DEF Select, QueueTypeOK
    <2>6. CASE HandOver(h) \/ GiveUp(h)
      BY <2>6, LeavesTypes DEF HandOver, GiveUp, QueueTypeOK
    <2>7. CASE MarkBlocked(h)
      <3>1. rowLock # h
        BY <2>7 DEF MarkBlocked, QueueTypeOK
      <3> QED BY <2>7, <3>1 DEF MarkBlocked, QueueTypeOK, queueHistory, ExecutionStatuses
    <2>8. CASE CommitRecord(h)
      <3>1. goal[h] \in ExecutionStatuses /\ refused' \in BOOLEAN /\ behind' \in [Handlers -> BOOLEAN]
        BY <2>8 DEF CommitRecord, QueueTypeOK
      <3> QED BY <2>8, <3>1, LeavesTypes DEF CommitRecord
    <2> QED BY <1>n, <2>1, <2>2, <2>3, <2>4, <2>5, <2>6, <2>7, <2>8
  <1> QED BY <1>u, <1>d, <1>n DEF QueueNext

\* Every variable keeps its type, and the row is locked by the one about to commit.
THEOREM QueueTypes == QueueSpec => []QueueTypeOK
  BY QueueTypesInit, QueueTypesStep, PTL DEF QueueSpec

-----------------------------------------------------------------------------
\* After a rejection the record is open to approval again only as "blocked",
\* and blocked is only what is unfit or late.
RejectionHolds ==
    refused => /\ verdict # "proposed"
               /\ verdict = "approved" => ~safe
               /\ verdict = "blocked" => late \/ ~safe

\* The same of what tasks are about to write or to hand over.
WritersAgree ==
    \A h \in Handlers :
        /\ Active(h) /\ goal[h] = "approved" /\ refused /\ ~behind[h] => ~safe
        /\ Active(h) /\ goal[h] = "blocked" => late \/ ~safe
        /\ ~Active(h) => goal[h] = NoOne
        /\ fresh[h] => Active(h) /\ ~safe

QueueInv == QueueTypeOK /\ RejectionHolds /\ WritersAgree

LEMMA QueueInvInit == QueueInit => QueueInv
  BY QueueTypesInit DEF QueueInit, QueueInv, RejectionHolds, WritersAgree, TasksIdle, Active

LEMMA QueueInvStep ==
    ASSUME QueueInv, [QueueNext]_queueVars
    PROVE  QueueInv'
  <1> USE DEF QueueInv
  <1>t. QueueTypeOK'
    BY QueueTypesStep
  <1>u. CASE UNCHANGED queueVars
    BY <1>u, <1>t DEF queueVars, queueHistory, RejectionHolds, WritersAgree, Active
  <1>d. CASE DeadlinePasses
    BY <1>d, <1>t DEF DeadlinePasses, queueHistory, RejectionHolds, WritersAgree, Active
  <1>n. ASSUME NEW h \in Handlers,
               \/ Approve(h) \/ Reject(h) \/ ExpireOne(h) \/ WriteRecord(h) \/ Sweep(h)
               \/ Select(h) \/ HandOver(h) \/ MarkBlocked(h) \/ CommitRecord(h) \/ GiveUp(h)
        PROVE  RejectionHolds' /\ WritersAgree'
    <2>i. pc[h] = "idle" => ~Active(h)
      BY DEF Active
    <2>1. ASSUME Approve(h) \/ Reject(h) \/ ExpireOne(h)
          PROVE  RejectionHolds' /\ WritersAgree'
      <3>1. PICK j, s : /\ Decides(h, j, s) /\ s # "blocked"
                        /\ s = "approved" => verdict \notin FinalStatuses \union {"approved"} /\ ~late
        BY <2>1 DEF Approve, Approvable, Reject, ExpireOne
      <3>2. s = "approved" /\ refused => ~safe
        BY <3>1 DEF RejectionHolds, FinalStatuses, QueueTypeOK, ExecutionStatuses
      <3>3. /\ UNCHANGED <<verdict, late, safe, refused, behind, fresh>>
            /\ goal'[h] = s /\ pc[h] = "idle"
            /\ \A g \in Handlers \ {h} : goal'[g] = goal[g] /\ (Active(g)' <=> Active(g))
        BY <3>1 DEF Decides, queueHistory, QueueTypeOK, Active
      <3>4. ~fresh[h]
        BY <3>3, <2>i DEF WritersAgree
      <3>5. Active(h)'
        BY <3>1 DEF Decides, QueueTypeOK, Active
      <3> QED BY <3>1, <3>2, <3>3, <3>4, <3>5 DEF RejectionHolds, WritersAgree
    <2>3. CASE WriteRecord(h)
      BY <2>3 DEF WriteRecord, QueueTypeOK, queueHistory, RejectionHolds, WritersAgree, Active
    <2>4. CASE Sweep(h)
      <3>1. /\ UNCHANGED <<verdict, late, safe, refused, behind, fresh>>
            /\ goal'[h] = "expired" /\ ~fresh[h] /\ Active(h)'
            /\ \A g \in Handlers \ {h} : goal'[g] = goal[g] /\ (Active(g)' <=> Active(g))
        BY <2>4, <2>i DEF Sweep, queueHistory, QueueTypeOK, Active, WritersAgree
      <3> QED BY <3>1 DEF RejectionHolds, WritersAgree
    <2>5. CASE Select(h)
      <3>1. /\ UNCHANGED <<verdict, late, safe, refused, behind, goal>> /\ Active(h)' /\ ~Active(h)
            /\ verdict = "approved" /\ (fresh'[h] <=> refused)
            /\ \A g \in Handlers \ {h} : (fresh'[g] <=> fresh[g]) /\ (Active(g)' <=> Active(g))
        BY <2>5 DEF Select, QueueTypeOK, Active
      <3>2. goal[h] \notin {"approved", "blocked"}
        BY <3>1, StatusAssumption DEF WritersAgree, ExecutionStatuses
      <3> QED BY <3>1, <3>2 DEF RejectionHolds, WritersAgree
    <2>6. CASE HandOver(h) \/ GiveUp(h)
      <3>1. /\ UNCHANGED <<verdict, late, safe, refused>> /\ ~Active(h)' /\ ~fresh'[h] /\ goal'[h] = NoOne
            /\ \A g \in Handlers \ {h} : /\ goal'[g] = goal[g] /\ (fresh'[g] <=> fresh[g])
                                         /\ (behind'[g] <=> behind[g]) /\ (Active(g)' <=> Active(g))
        BY <2>6 DEF HandOver, GiveUp, Leaves, QueueTypeOK, Active
      <3>2. RejectionHolds'
        BY <3>1 DEF RejectionHolds
      <3>3. ASSUME NEW g \in Handlers, g # h
            PROVE  /\ Active(g)' /\ goal'[g] = "approved" /\ refused' /\ ~behind'[g] => ~safe'
                   /\ Active(g)' /\ goal'[g] = "blocked" => late' \/ ~safe'
                   /\ ~Active(g)' => goal'[g] = NoOne
                   /\ fresh'[g] => Active(g)' /\ ~safe'
        BY <3>1, <3>3 DEF WritersAgree
      <3> QED BY <3>1, <3>2, <3>3 DEF WritersAgree
    <2>7. CASE MarkBlocked(h)
      BY <2>7 DEF MarkBlocked, QueueTypeOK, queueHistory, RejectionHolds, WritersAgree, Active
    <2>8. CASE CommitRecord(h)
      <3>1. goal[h] \in ExecutionStatuses \ {"proposed"} /\ Active(h)
        BY <2>8 DEF CommitRecord, QueueTypeOK, Active
      <3>2. /\ \A g \in Handlers \ {h} : goal'[g] = goal[g] /\ fresh'[g] = fresh[g] /\ (Active(g)' <=> Active(g))
            /\ ~Active(h)' /\ UNCHANGED <<late, safe>>
        BY <2>8 DEF CommitRecord, Leaves, QueueTypeOK, Active
      <3>3. RejectionHolds'
        BY <2>8, <3>1, <3>2 DEF CommitRecord, RejectionHolds, WritersAgree
      <3>4. ASSUME NEW g \in Handlers, Active(g)', goal'[g] = "approved", refused', ~behind'[g]
            PROVE  ~safe'
        BY <2>8, <3>2, <3>4 DEF CommitRecord, WritersAgree, QueueTypeOK
      <3>5. ~fresh'[h] /\ goal'[h] = NoOne
        BY <2>8 DEF CommitRecord, Leaves, QueueTypeOK
      <3> QED BY <3>2, <3>3, <3>4, <3>5 DEF WritersAgree
    <2> QED BY <1>n, <2>1, <2>3, <2>4, <2>5, <2>6, <2>7, <2>8
  <1> QED BY <1>t, <1>u, <1>d, <1>n DEF QueueNext

\* A batch that selects a record after its rejection does not hand it over, for any
\* number of approvals, batches and calls in between.
THEOREM RejectionIsNotUndone == QueueSpec => RejectedNotHandedOver
  <1>1. QueueInv /\ [QueueNext]_queueVars => [\A h \in Handlers : HandOver(h) => ~fresh[h]]_queueVars
    BY DEF QueueInv, WritersAgree, HandOver
  <1> QED BY <1>1, QueueInvInit, QueueInvStep, PTL DEF QueueSpec, RejectedNotHandedOver

\* After its deadline a record that is closed stays closed.
THEOREM ExpiryStands == QueueSpec => ExpiryIsFinal
  <1>1. ASSUME QueueTypeOK, QueueTypeOK', QueueNext, Expired
        PROVE  Expired'
    <2>1. ~DeadlinePasses
      BY <1>1 DEF Expired, DeadlinePasses
    <2> PICK h \in Handlers :
          \/ Approve(h) \/ Reject(h) \/ ExpireOne(h) \/ WriteRecord(h) \/ Sweep(h)
          \/ Select(h) \/ HandOver(h) \/ MarkBlocked(h) \/ CommitRecord(h) \/ GiveUp(h)
      BY <1>1, <2>1 DEF QueueNext
    <2>2. ASSUME Approve(h) \/ Reject(h) \/ ExpireOne(h)
          PROVE  Expired'
      <3>1. PICK j, s : Decides(h, j, s) /\ s # "approved"
        BY <1>1, <2>2 DEF Approve, Reject, ExpireOne, Expired
      <3> QED BY <1>1, <3>1 DEF Decides, Expired, Active, QueueTypeOK
    <2>3. CASE WriteRecord(h) \/ MarkBlocked(h)
      BY <1>1, <2>3 DEF WriteRecord, MarkBlocked, Expired, Active, QueueTypeOK
    <2>4. CASE Sweep(h) \/ Select(h)
      BY <1>1, <2>4 DEF Sweep, Select, Expired
    <2>5. CASE HandOver(h) \/ GiveUp(h)
      BY <1>1, <2>5 DEF HandOver, GiveUp, Leaves, Expired, Active, QueueTypeOK
    <2>6. CASE CommitRecord(h)
      <3>1. goal[h] \in ExecutionStatuses \ {"proposed", "approved"} /\ verdict' = goal[h]
        BY <1>1, <2>6 DEF CommitRecord, Expired, Active, QueueTypeOK
      <3>2. late' /\ \A g \in Handlers : Active(g)' => goal'[g] # "approved"
        BY <1>1, <2>6 DEF CommitRecord, Leaves, Expired, Active, QueueTypeOK
      <3> QED BY <3>1, <3>2 DEF Expired
    <2> QED BY <2>2, <2>3, <2>4, <2>5, <2>6
  <1>2. QueueTypeOK /\ QueueTypeOK' /\ [QueueNext]_queueVars => [Expired => Expired']_queueVars
    BY <1>1
  <1> QED BY <1>2, QueueTypesInit, QueueTypesStep, PTL DEF QueueSpec, ExpiryIsFinal

-----------------------------------------------------------------------------
(* Alerts. A key that someone took still runs, or ran out before the next one *)
(* took it; so those who have told, and those who are about to, took it apart. *)
Spaced(m, n) == m >= n + KeyTtl \/ n >= m + KeyTtl

TellingInv ==
    /\ AlertTypeOK
    /\ \A a \in AlertKeys : \A t \in told[a] : t.took + KeyTtl <= keyUntil[a]
    /\ \A h \in Handlers : pc[h] = "tell" =>
          /\ took[h] + KeyTtl <= keyUntil[Head(rest[h])]
          /\ \A t \in told[Head(rest[h])] :
                t = [by |-> h, took |-> took[h]] \/ Spaced(took[h], t.took)
          /\ \A g \in Handlers \ {h} :
                pc[g] = "tell" /\ Head(rest[g]) = Head(rest[h]) => Spaced(took[h], took[g])

\* What a scan may send are alerts of the instance.
LEMMA ListsOfAlerts ==
    ASSUME NEW s \in Scans, NEW hours \in {"inHours", "offHours"}
    PROVE  Alerts[s][hours] \in Seq(AlertKeys) /\ s \in DOMAIN Alerts
  <1>1. s \in DOMAIN Alerts
    BY AlertsAssumption
  <1>2. s \in {"hot", "closing", "auto_sales", "health", "delay", "autopilot", "chat"}
    BY <1>1 DEF Alerts
  <1>3. /\ Alerts["hot"] = HotScan /\ Alerts["closing"] = ClosingScan
        /\ Alerts["auto_sales"] = AutoSalesScan /\ Alerts["health"] = HealthScan
        /\ Alerts["delay"] = DelayScan /\ Alerts["autopilot"] = AutopilotScan
        /\ Alerts["chat"] = ChatEscalation
    BY DEF Alerts
  <1> DEFINE list == Alerts[s][hours]
  <1> DEFINE Names == {"hot_alert", "closer_opp", "closer_risk", "escalation", "stalled", "cooling", "insight",
                       "delay", "autopilot_opp", "autopilot_risk", "autopilot_close", "chat_escalation"}
  <1>a. HotScan["inHours"] \in Seq(Names) /\ HotScan["offHours"] \in Seq(Names)
    BY DEF HotScan
  <1>b. ClosingScan["inHours"] \in Seq(Names) /\ ClosingScan["offHours"] \in Seq(Names)
    BY DEF ClosingScan
  <1>c. AutoSalesScan["inHours"] \in Seq(Names) /\ AutoSalesScan["offHours"] \in Seq(Names)
    BY DEF AutoSalesScan
  <1>d. HealthScan["inHours"] \in Seq(Names) /\ HealthScan["offHours"] \in Seq(Names)
    BY DEF HealthScan
  <1>e. DelayScan["inHours"] \in Seq(Names) /\ DelayScan["offHours"] \in Seq(Names)
    BY DEF DelayScan
  <1>f. AutopilotScan["inHours"] \in Seq(Names) /\ AutopilotScan["offHours"] \in Seq(Names)
    BY DEF AutopilotScan
  <1>g. ChatEscalation["inHours"] \in Seq(Names) /\ ChatEscalation["offHours"] \in Seq(Names)
    BY DEF ChatEscalation
  <1>4. list \in Seq(Names)
    BY <1>2, <1>3, <1>a, <1>b, <1>c, <1>d, <1>e, <1>f, <1>g
  <1>6. ASSUME NEW i \in DOMAIN list PROVE list[i] \in AlertKeys
    <2>1. list[i] \in {Alerts[s][hours][j] : j \in DOMAIN Alerts[s][hours]}
      OBVIOUS
    <2> DEFINE F(r, w) == {Alerts[r][w][j] : j \in DOMAIN Alerts[r][w]}
    <2>2. list[i] \in F(s, hours)
      BY <2>1
    <2>3. AlertKeys = UNION {F(r, w) : r \in Scans, w \in {"inHours", "offHours"}}
      BY DEF AlertKeys
    <2> HIDE DEF F
    <2> QED BY <2>2, <2>3
  <1> HIDE DEF list
  <1>5. list \in Seq(AlertKeys)
    BY <1>4, <1>6
  <1> QED BY <1>1, <1>5 DEF list

LEMMA RestOfAlerts ==
    ASSUME NEW s \in Seq(AlertKeys), s # <<>>
    PROVE  Head(s) \in AlertKeys /\ Tail(s) \in Seq(AlertKeys)
  OBVIOUS

LEMMA TellingInit == AlertInit => TellingInv
  <1> SUFFICES ASSUME AlertInit PROVE TellingInv
    OBVIOUS
  <1> USE AlertsAssumption DEF AlertInit, TasksIdle
  <1>1. rest \in [Handlers -> Seq(AlertKeys)] /\ scan \in [Handlers -> DOMAIN Alerts \union {NoOne}]
    OBVIOUS
  <1>2. told \in [AlertKeys -> SUBSET [by : Handlers, took : Nat]]
    OBVIOUS
  <1>3. keyUntil \in [AlertKeys -> Nat] /\ took \in [Handlers -> Nat]
    OBVIOUS
  <1>4. AlertTypeOK
    BY <1>1, <1>2, <1>3 DEF AlertTypeOK
  <1> QED BY <1>4 DEF TellingInv

\* A task that is not about to tell leaves the others' keys alone.
LEMMA QuietTask ==
    ASSUME TellingInv, AlertTypeOK', NEW h \in Handlers, pc'[h] # "tell",
           UNCHANGED <<keyUntil, told>>,
           \A g \in Handlers \ {h} : pc'[g] = pc[g] /\ rest'[g] = rest[g] /\ took'[g] = took[g]
    PROVE  TellingInv'
  <1>1. ASSUME NEW g \in Handlers, pc'[g] = "tell"
        PROVE  /\ g # h /\ pc[g] = "tell" /\ rest'[g] = rest[g] /\ took'[g] = took[g]
    BY <1>1
  <1>2. ASSUME NEW g \in Handlers, pc'[g] = "tell"
        PROVE  /\ took'[g] + KeyTtl <= keyUntil'[Head(rest'[g])]
               /\ \A t \in told'[Head(rest'[g])] :
                     t = [by |-> g, took |-> took'[g]] \/ Spaced(took'[g], t.took)
    BY <1>1, <1>2 DEF TellingInv
  <1>3. ASSUME NEW g \in Handlers, pc'[g] = "tell", NEW o \in Handlers \ {g}, pc'[o] = "tell",
               Head(rest'[o]) = Head(rest'[g])
        PROVE  Spaced(took'[g], took'[o])
    BY <1>1, <1>3 DEF TellingInv
  <1>4. \A a \in AlertKeys : \A t \in told'[a] : t.took + KeyTtl <= keyUntil'[a]
    BY DEF TellingInv
  <1> QED BY <1>2, <1>3, <1>4 DEF TellingInv, Spaced

LEMMA TellingStep == TellingInv /\ [AlertNext]_alertVars => TellingInv'
  <1> SUFFICES ASSUME TellingInv, [AlertNext]_alertVars PROVE TellingInv'
    OBVIOUS
  <1>t. AlertTypeOK
    BY DEF TellingInv
  <1>k. KeyTtl \in Nat \ {0}
    BY AlertsAssumption
  <1>1. CASE UNCHANGED alertVars
    BY <1>1 DEF alertVars, TellingInv, AlertTypeOK, Spaced
  <1>2. CASE Tick
    BY <1>2 DEF Tick, TellingInv, AlertTypeOK, Spaced
  <1>3. ASSUME NEW h \in Handlers, StartScan(h) PROVE TellingInv'
    <2>1. PICK s \in Scans, hours \in {"inHours", "offHours"} :
             scan' = [scan EXCEPT ![h] = s] /\ rest' = [rest EXCEPT ![h] = Alerts[s][hours]]
      BY <1>3 DEF StartScan
    <2>2. pc' = [pc EXCEPT ![h] = "scan"] /\ UNCHANGED <<tick, keyUntil, took, told, rowLock>>
      BY <1>3 DEF StartScan
    <2>3. Alerts[s][hours] \in Seq(AlertKeys) /\ s \in DOMAIN Alerts
      BY ListsOfAlerts
    <2>4. AlertTypeOK'
      BY <1>t, <2>1, <2>2, <2>3 DEF AlertTypeOK
    <2> QED BY <1>t, <2>1, <2>2, <2>4, QuietTask DEF AlertTypeOK
  <1>4. ASSUME NEW h \in Handlers, PassBy(h) PROVE TellingInv'
    <2>1. AlertTypeOK'
      BY <1>4, <1>t, RestOfAlerts DEF PassBy, NextAlert, AlertTypeOK
    <2> QED BY <1>4, <1>t, <2>1, QuietTask DEF PassBy, NextAlert, AlertTypeOK
  <1>5. ASSUME NEW h \in Handlers, TakeKey(h) PROVE TellingInv'
    <2> DEFINE a == Head(rest[h])
    <2>1. a \in AlertKeys /\ tick \in Nat \ {0} /\ keyUntil[a] \in Nat /\ keyUntil[a] <= tick
      BY <1>5, <1>t, RestOfAlerts DEF TakeKey, KeyIsFree, AlertTypeOK
    <2>2. AlertTypeOK'
      BY <1>5, <1>t, <1>k, <2>1 DEF TakeKey, AlertTypeOK
    <2>3. /\ took' = [took EXCEPT ![h] = tick] /\ pc' = [pc EXCEPT ![h] = "tell"]
          /\ keyUntil' = [keyUntil EXCEPT ![a] = tick + KeyTtl] /\ UNCHANGED <<rest, told>>
      BY <1>5 DEF TakeKey
    <2> HIDE DEF a
    <2>4. \A b \in AlertKeys : keyUntil'[b] >= keyUntil[b]
      BY <1>k, <1>t, <2>1, <2>3 DEF AlertTypeOK
    <2>5. \A b \in AlertKeys : \A t \in told'[b] : t.took + KeyTtl <= keyUntil'[b]
      <3> SUFFICES ASSUME NEW b \in AlertKeys, NEW t \in told[b]
                   PROVE  t.took + KeyTtl <= keyUntil'[b]
        BY <2>3
      <3>1. t.took \in Nat /\ t.took + KeyTtl <= keyUntil[b] /\ keyUntil[b] \in Nat /\ keyUntil'[b] \in Nat
        BY <1>t, <2>2 DEF TellingInv, AlertTypeOK
      <3> QED BY <1>k, <2>4, <3>1
    <2>6. \A t \in told[a] : t.took \in Nat /\ Spaced(tick, t.took)
      BY <1>k, <1>t, <2>1 DEF TellingInv, AlertTypeOK, Spaced
    <2>7. ASSUME NEW g \in Handlers \ {h}, pc[g] = "tell"
          PROVE  /\ Head(rest[g]) \in AlertKeys /\ took[g] \in Nat /\ keyUntil[Head(rest[g])] \in Nat
                 /\ took[g] + KeyTtl <= keyUntil[Head(rest[g])]
                 /\ Head(rest[g]) = a => Spaced(tick, took[g]) /\ Spaced(took[g], tick)
      <3>1. rest[g] # <<>> /\ rest[g] \in Seq(AlertKeys) /\ took[g] \in Nat
        BY <1>t, <2>7 DEF AlertTypeOK
      <3>2. Head(rest[g]) \in AlertKeys
        BY <3>1, RestOfAlerts
      <3>3. took[g] + KeyTtl <= keyUntil[Head(rest[g])] /\ keyUntil[Head(rest[g])] \in Nat
        BY <1>t, <2>7, <3>2 DEF TellingInv, AlertTypeOK
      <3> QED BY <1>k, <2>1, <3>1, <3>2, <3>3 DEF Spaced
    <2>8. ASSUME NEW g \in Handlers, pc'[g] = "tell"
          PROVE  /\ took'[g] + KeyTtl <= keyUntil'[Head(rest'[g])]
                 /\ \A t \in told'[Head(rest'[g])] :
                       t = [by |-> g, took |-> took'[g]] \/ Spaced(took'[g], t.took)
      <3>1. CASE g = h
        <4>1. took'[g] = tick /\ Head(rest'[g]) = a /\ keyUntil'[a] = tick + KeyTtl
          BY <1>t, <2>1, <2>3, <3>1 DEF AlertTypeOK, a
        <4> QED BY <1>k, <2>1, <2>3, <2>6, <4>1
      <3>2. CASE g # h
        <4>1. pc[g] = "tell" /\ took'[g] = took[g] /\ rest'[g] = rest[g] /\ told' = told
          BY <1>t, <2>3, <2>8, <3>2 DEF AlertTypeOK
        <4>2. \A t \in told[Head(rest[g])] : t = [by |-> g, took |-> took[g]] \/ Spaced(took[g], t.took)
          BY <4>1 DEF TellingInv
        <4>3. keyUntil'[Head(rest[g])] >= keyUntil[Head(rest[g])] /\ keyUntil'[Head(rest[g])] \in Nat
          BY <2>2, <2>4, <2>7, <3>2, <4>1 DEF AlertTypeOK
        <4> QED BY <1>k, <2>7, <3>2, <4>1, <4>2, <4>3
      <3> QED BY <3>1, <3>2
    <2>9. ASSUME NEW g \in Handlers, pc'[g] = "tell", NEW o \in Handlers \ {g}, pc'[o] = "tell",
                 Head(rest'[o]) = Head(rest'[g])
          PROVE  Spaced(took'[g], took'[o])
      <3>1. CASE g = h
        BY <1>t, <2>3, <2>7, <2>9, <3>1 DEF AlertTypeOK, a
      <3>2. CASE o = h
        BY <1>t, <2>3, <2>7, <2>9, <3>2 DEF AlertTypeOK, a
      <3>3. CASE g # h /\ o # h
        BY <1>t, <2>3, <2>9, <3>3 DEF AlertTypeOK, TellingInv
      <3> QED BY <3>1, <3>2, <3>3
    <2> QED BY <2>2, <2>5, <2>8, <2>9 DEF TellingInv, Spaced
  <1>6. ASSUME NEW h \in Handlers, Tell(h) PROVE TellingInv'
    <2> DEFINE a == Head(rest[h])  me == [by |-> h, took |-> took[h]]
    <2>1. pc[h] = "tell" /\ a \in AlertKeys /\ me \in [by : Handlers, took : Nat] /\ me.took = took[h]
      BY <1>6, <1>t, RestOfAlerts DEF Tell, AlertTypeOK
    <2>2. told' = [told EXCEPT ![a] = @ \union {me}] /\ UNCHANGED <<tick, keyUntil, scan, rest, took, pc, rowLock>>
      BY <1>6 DEF Tell
    <2> HIDE DEF a, me
    <2>3. AlertTypeOK'
      BY <1>t, <2>1, <2>2 DEF AlertTypeOK
    <2>4. \A b \in AlertKeys : \A t \in told'[b] : t \in told[b] \/ (b = a /\ t = me)
      BY <1>t, <2>2 DEF AlertTypeOK
    <2>5. took[h] + KeyTtl <= keyUntil[a]
      BY <2>1 DEF TellingInv, a
    <2>6. \A b \in AlertKeys : \A t \in told'[b] : t.took + KeyTtl <= keyUntil'[b]
      BY <2>1, <2>2, <2>4, <2>5 DEF TellingInv
    <2>7. ASSUME NEW g \in Handlers, pc'[g] = "tell", NEW t \in told'[Head(rest'[g])]
          PROVE  t = [by |-> g, took |-> took'[g]] \/ Spaced(took'[g], t.took)
      <3>1. pc[g] = "tell" /\ rest'[g] = rest[g] /\ took'[g] = took[g] /\ Head(rest[g]) \in AlertKeys
        BY <1>t, <2>2, <2>7, RestOfAlerts DEF AlertTypeOK
      <3>2. CASE t \in told[Head(rest[g])]
        BY <3>1, <3>2 DEF TellingInv
      <3>3. CASE Head(rest[g]) = a /\ t = me /\ g # h
        BY <2>1, <3>1, <3>3 DEF TellingInv, a
      <3>4. CASE t = me /\ g = h
        BY <3>1, <3>4 DEF me
      <3> QED BY <2>2, <2>4, <2>7, <3>1, <3>2, <3>3, <3>4
    <2> QED BY <2>2, <2>3, <2>6, <2>7 DEF TellingInv, Spaced
  <1>7. ASSUME NEW h \in Handlers, TellEnds(h) PROVE TellingInv'
    <2>1. AlertTypeOK'
      BY <1>7, <1>t, RestOfAlerts DEF TellEnds, NextAlert, AlertTypeOK
    <2> QED BY <1>7, <1>t, <2>1, QuietTask DEF TellEnds, NextAlert, AlertTypeOK
  <1>8. ASSUME NEW h \in Handlers, ScanEnds(h) PROVE TellingInv'
    <2>1. <<>> \in Seq(AlertKeys)
      OBVIOUS
    <2>2. AlertTypeOK'
      BY <1>8, <1>t, <2>1 DEF ScanEnds, AlertTypeOK
    <2> QED BY <1>8, <1>t, <2>2, QuietTask DEF ScanEnds, AlertTypeOK
  <1> QED BY <1>1, <1>2, <1>3, <1>4, <1>5, <1>6, <1>7, <1>8 DEF AlertNext

\* A scan looks only at alerts of its own, whatever the hours.
THEOREM AlertTypes == AlertSpec => []AlertTypeOK
  <1>1. TellingInv => AlertTypeOK
    BY DEF TellingInv
  <1> QED BY TellingInit, TellingStep, <1>1, PTL DEF AlertSpec

\* For any scans, time to live and number of tasks, of which any may die between
\* taking the key and telling, two alerts of a kind are a time to live apart.
THEOREM AlertsApart == AlertSpec => AlertsSpaced
  <1>1. TellingInv => [\A h \in Handlers, a \in AlertKeys : Tell(h) /\ Head(rest[h]) = a =>
                          \A t \in told[a] \ {[by |-> h, took |-> took[h]]} :
                              took[h] >= t.took + KeyTtl \/ t.took >= took[h] + KeyTtl]_alertVars
    BY DEF TellingInv, Tell, Spaced
  <1> QED BY TellingInit, TellingStep, <1>1, PTL DEF AlertSpec, AlertsSpaced

-----------------------------------------------------------------------------
(* Cards about a customer. What keeps two of them apart is the stamp in the  *)
(* row, or one that the batch at work is still to write; both are as late as *)
(* the last card unless it is excused, and a batch begins only when the      *)
(* stamp is old enough.                                                      *)

\* The stamp that a batch has read the time for.
Stamping(h) == task[h] = "cards" /\ stampAt[h] # 0

CardInv ==
    /\ EscalationTypeOK
    /\ \A g, h \in Handlers : task[g] = "cards" /\ task[h] = "cards" => g = h
    /\ \A h \in Handlers :
          /\ task[h] = "cards" <=> pc[h] \in {"card", "stamp", "others"}
          /\ pc[h] \in {"idle", "card"} => stampAt[h] = 0
          /\ pc[h] = "stamp" => stampAt[h] # 0
          /\ rowLock = h => pc[h] \in {"others", "commit"} /\ stampAt[h] # 0
          /\ pc[h] = "commit" => stampAt[h] # 0
          /\ pc[h] = "update" => stampAt[h] # 0
          /\ Stamping(h) => stampAt[h] = card
          /\ pc[h] = "card" => card = 0 \/ excused \/ minute - card > Cooldown
    /\ card = 0 \/ excused \/ stamp >= card \/ \E h \in Handlers : Stamping(h)

LEMMA CardInit == EscalationInit => CardInv
  <1> SUFFICES ASSUME EscalationInit PROVE CardInv
    OBVIOUS
  <1> USE DEF EscalationInit, TasksIdle
  <1>1. EscalationTypeOK
    <2>1. minute \in Nat \ {0} /\ stamp \in Nat /\ card \in Nat /\ rowLock \in Handlers \union {NoOne}
      OBVIOUS
    <2>2. optedOut \in BOOLEAN /\ excused \in BOOLEAN /\ broken \in [Handlers -> BOOLEAN]
      BY Zenon
    <2>3. /\ pc \in [Handlers -> {"idle", "card", "stamp", "others", "update", "commit"}]
          /\ task \in [Handlers -> {"cards", "contacted", "stop", "none"}]
          /\ stampAt \in [Handlers -> Nat]
      OBVIOUS
    <2> QED BY <2>1, <2>2, <2>3, Zenon DEF EscalationTypeOK
  <1>2. \A h \in Handlers : pc[h] = "idle" /\ task[h] = "none" /\ stampAt[h] = 0 /\ rowLock # h
    BY NoOneAssumption
  <1> QED BY <1>1, <1>2 DEF CardInv, Stamping

LEMMA CardStep == CardInv /\ [EscalationNext]_escalationVars => CardInv'
  <1> SUFFICES ASSUME CardInv, [EscalationNext]_escalationVars PROVE CardInv'
    OBVIOUS
  <1> USE NoOneAssumption, CooldownAssumption DEF CardInv, EscalationTypeOK, Stamping
  <1>1. CASE MinutePasses
    BY <1>1 DEF MinutePasses
  <1>2. ASSUME NEW h \in Handlers, StartBatch(h) PROVE CardInv'
    BY <1>2 DEF StartBatch, CoolEnough
  <1>3. ASSUME NEW h \in Handlers, StatementFails(h) PROVE CardInv'
    BY <1>3 DEF StatementFails
  <1>4. ASSUME NEW h \in Handlers, SendCard(h) PROVE CardInv'
    BY <1>4, ZenonT(60) DEF SendCard
  <1>5. ASSUME NEW h \in Handlers, SendFails(h) PROVE CardInv'
    BY <1>5 DEF SendFails
  <1>6. ASSUME NEW h \in Handlers, StampCard(h) PROVE CardInv'
    BY <1>6 DEF StampCard
  <1>7. ASSUME NEW h \in Handlers, PressButton(h) PROVE CardInv'
    BY <1>7 DEF PressButton
  <1>8. ASSUME NEW h \in Handlers, UpdateMemory(h) PROVE CardInv'
    BY <1>8 DEF UpdateMemory
  <1>9. ASSUME NEW h \in Handlers, CommitBatch(h) PROVE CardInv'
    BY <1>9 DEF CommitBatch, IsOver, Unlocked
  <1>10. ASSUME NEW h \in Handlers, CommitContacted(h) PROVE CardInv'
    <2>1. /\ task[h] = "contacted" /\ stamp' = stampAt[h] /\ card' = card
          /\ excused' = (excused \/ stampAt[h] < card)
          /\ stampAt' = [stampAt EXCEPT ![h] = 0] /\ task' = [task EXCEPT ![h] = "none"]
          /\ pc' = [pc EXCEPT ![h] = "idle"] /\ rowLock' = Unlocked(h) /\ UNCHANGED <<minute, optedOut>>
          /\ broken' = [broken EXCEPT ![h] = FALSE]
      BY <1>10 DEF CommitContacted, IsOver
    <2>2. excused' \/ stamp' >= card'
      <3>1. CASE stampAt[h] < card
        BY <2>1, <3>1, Zenon
      <3>2. CASE ~(stampAt[h] < card)
        <4>1. stampAt[h] >= card
          BY <3>2
        <4> QED BY <2>1, <4>1
      <3> QED BY <3>1, <3>2
    <2>3. EscalationTypeOK'
      BY <2>1 DEF Unlocked
    <2>4. \A g \in Handlers \ {h} :
              task'[g] = task[g] /\ stampAt'[g] = stampAt[g] /\ pc'[g] = pc[g] /\ (rowLock' = g => rowLock = g)
      BY <2>1 DEF Unlocked
    <2>5. task'[h] = "none" /\ stampAt'[h] = 0 /\ pc'[h] = "idle" /\ rowLock' # h
      BY <2>1 DEF Unlocked
    <2>6. excused => excused'
      BY <2>1
    <2> QED BY <2>1, <2>2, <2>3, <2>4, <2>5, <2>6
  <1>11. ASSUME NEW h \in Handlers, CommitStop(h) PROVE CardInv'
    BY <1>11 DEF CommitStop, IsOver, Unlocked
  <1>12. ASSUME NEW h \in Handlers, RollBackMemory(h) PROVE CardInv'
    BY <1>12 DEF RollBackMemory, Lost, IsOver, Unlocked
  <1>13. CASE UNCHANGED escalationVars
    BY <1>13 DEF escalationVars
  <1> QED
    BY <1>1, <1>2, <1>3, <1>4, <1>5, <1>6, <1>7, <1>8, <1>9, <1>10, <1>11, <1>12, <1>13
       DEF EscalationNext

\* Every variable of the cards keeps its type.
THEOREM EscalationTypes == EscalationSpec => []EscalationTypeOK
  <1>1. CardInv => EscalationTypeOK
    BY DEF CardInv
  <1> QED BY <1>1, CardInit, CardStep, PTL DEF EscalationSpec

\* Two cards about a customer are more than the cooldown apart, unless the stamp
\* of the first was lost with its batch or overwritten by a button that had read
\* the time before it (should_escalate, mark_escalated and the card's buttons).
THEOREM CardsApart == EscalationSpec => CardsSpaced
  <1>1. CardInv /\ [EscalationNext]_escalationVars =>
          [\A h \in Handlers : SendCard(h) => card = 0 \/ excused \/ minute - card > Cooldown]_escalationVars
    BY DEF CardInv, SendCard
  <1> QED BY <1>1, CardInit, CardStep, PTL DEF EscalationSpec, CardsSpaced

-----------------------------------------------------------------------------
(* Links. Whatever counts a first link, the key or the dictionary, does not   *)
(* outlive the window of the last link that was counted; but for a key whose  *)
(* time to live is still to be set, or was lost.                              *)

\* The key counts a link, and is going to expire.
KeyInWindow ==
    /\ lastLink # 0 /\ countUntil # 0
    /\ second < countUntil /\ countUntil <= lastLink + LinkWindow

MuteInv ==
    /\ LinkTypeOK
    /\ lastLink <= second
    /\ counter # 0 => immortal \/ KeyInWindow \/ \E g \in Handlers : pc[g] = "expire"
    /\ memory # 0 => lastLink # 0 /\ since <= lastLink

LEMMA MuteInit == LinkInit => MuteInv
  <1> SUFFICES ASSUME LinkInit PROVE MuteInv
    OBVIOUS
  <1> USE DEF LinkInit, TasksIdle
  <1>1. immortal \in BOOLEAN
    BY Zenon
  <1> QED BY <1>1 DEF MuteInv, LinkTypeOK

LEMMA MuteStep == MuteInv /\ [LinkNext]_linkVars => MuteInv'
  <1> SUFFICES ASSUME MuteInv, [LinkNext]_linkVars PROVE MuteInv'
    OBVIOUS
  <1> USE LinksAssumption DEF MuteInv, LinkTypeOK, KeyInWindow
  <1>1. CASE SecondPasses
    BY <1>1 DEF SecondPasses
  <1>2. CASE RestartBot
    <2>1. /\ pc' = [h \in Handlers |-> "idle"] /\ memory' = 0 /\ since' = 0
          /\ immortal' = (immortal \/ \E h \in Handlers : pc[h] = "expire")
          /\ UNCHANGED <<second, counter, countUntil, lastLink, rowLock>>
      BY <1>2 DEF RestartBot
    <2>2. immortal' \in BOOLEAN /\ (immortal => immortal')
          /\ ((\E h \in Handlers : pc[h] = "expire") => immortal')
      BY <2>1, Zenon
    <2>3. LinkTypeOK'
      BY <2>1, <2>2
    <2>4. KeyInWindow => KeyInWindow'
      BY <2>1
    <2>5. counter' # 0 => immortal' \/ KeyInWindow'
      <3>1. CASE KeyInWindow
        BY <2>4, <3>1
      <3>2. CASE counter = 0
        BY <2>1, <3>2
      <3>3. CASE immortal \/ \E h \in Handlers : pc[h] = "expire"
        BY <2>2, <3>3
      <3> QED BY <3>1, <3>2, <3>3
    <2> QED BY <2>1, <2>3, <2>5
  <1>3. ASSUME NEW h \in Handlers, PostLink(h) PROVE MuteInv'
    BY <1>3 DEF PostLink
  <1>4. ASSUME NEW h \in Handlers, Increment(h) PROVE MuteInv'
    BY <1>4 DEF Increment, Counted, OneMore
  <1>5. ASSUME NEW h \in Handlers, Expire(h) PROVE MuteInv'
    BY <1>5 DEF Expire, Counted
  <1>6. ASSUME NEW h \in Handlers, RedisFailsLink(h) PROVE MuteInv'
    <2>1. /\ pc[h] \in {"incr", "expire"} /\ pc' = [pc EXCEPT ![h] = "memory"]
          /\ UNCHANGED <<second, memory, since, lastLink, rowLock, countUntil>>
      BY <1>6 DEF RedisFailsLink
    <2>2. CASE pc[h] = "incr" /\ UNCHANGED <<counter, countUntil, immortal>>
      <3>1. \A g \in Handlers : pc[g] = "expire" => pc'[g] = "expire"
        BY <2>1, <2>2
      <3>2. KeyInWindow => KeyInWindow'
        BY <2>1
      <3>3. LinkTypeOK'
        BY <2>1, <2>2
      <3> QED BY <2>1, <2>2, <3>1, <3>2, <3>3
    <2>3. CASE /\ pc[h] = "incr" /\ counter' = OneMore(counter)
               /\ immortal' = (immortal \/ counter = 0)
      <3>1. immortal' \in BOOLEAN /\ (immortal => immortal') /\ (counter = 0 => immortal')
        BY <2>3, Zenon
      <3>2. \A g \in Handlers : pc[g] = "expire" => pc'[g] = "expire"
        BY <2>1, <2>3
      <3>3. KeyInWindow => KeyInWindow'
        BY <2>1
      <3>4. LinkTypeOK'
        BY <2>1, <2>3, <3>1 DEF OneMore
      <3>5. CASE counter = 0
        BY <2>1, <3>1, <3>4, <3>5
      <3>6. CASE counter # 0
        BY <2>1, <3>1, <3>2, <3>3, <3>4, <3>6
      <3> QED BY <3>5, <3>6
    <2>4. CASE pc[h] = "expire" /\ immortal' = TRUE /\ UNCHANGED <<counter, countUntil>>
      BY <2>1, <2>4
    <2> QED BY <1>6, <2>2, <2>3, <2>4 DEF RedisFailsLink
  <1>7. ASSUME NEW h \in Handlers, CountInMemory(h) PROVE MuteInv'
    BY <1>7 DEF CountInMemory, Counted, OneMore
  <1>8. ASSUME NEW h \in Handlers, Mute(h) PROVE MuteInv'
    BY <1>8 DEF Mute
  <1>9. CASE UNCHANGED linkVars
    BY <1>9 DEF linkVars
  <1> QED BY <1>1, <1>2, <1>3, <1>4, <1>5, <1>6, <1>7, <1>8, <1>9 DEF LinkNext

LEMMA MuteAction ==
  ASSUME MuteInv, [LinkNext]_linkVars, NEW h \in Handlers, pc[h] # "mute", pc'[h] = "mute"
  PROVE  \/ immortal \/ \E g \in Handlers \ {h} : pc[g] = "expire"
         \/ lastLink # 0 /\ second - lastLink <= LinkWindow
  <1> USE LinksAssumption DEF MuteInv, LinkTypeOK
  <1>1. ASSUME NEW g \in Handlers, Increment(g)
        PROVE  \/ immortal \/ \E f \in Handlers \ {h} : pc[f] = "expire"
               \/ lastLink # 0 /\ second - lastLink <= LinkWindow
    <2>1. g = h /\ pc[h] = "incr" /\ counter # 0
      BY <1>1 DEF Increment, Counted
    <2> QED BY <2>1 DEF KeyInWindow
  <1>2. ASSUME NEW g \in Handlers, CountInMemory(g)
        PROVE  lastLink # 0 /\ second - lastLink <= LinkWindow
    <2>1. g = h /\ memory # 0 /\ second - since <= LinkWindow
      BY <1>2 DEF CountInMemory, Counted, OneMore
    <2> QED BY <2>1
  <1>3. ASSUME NEW g \in Handlers, PostLink(g) \/ Expire(g) \/ RedisFailsLink(g) \/ Mute(g)
        PROVE  FALSE
    BY <1>3 DEF PostLink, Expire, Counted, RedisFailsLink, Mute
  <1>4. SecondPasses \/ RestartBot \/ UNCHANGED linkVars => FALSE
    BY DEF SecondPasses, RestartBot, linkVars
  <1> QED BY <1>1, <1>2, <1>3, <1>4 DEF LinkNext

\* Every variable of the links keeps its type.
THEOREM LinkTypes == LinkSpec => []LinkTypeOK
  <1>1. MuteInv => LinkTypeOK
    BY DEF MuteInv
  <1> QED BY <1>1, MuteInit, MuteStep, PTL DEF LinkSpec

\* A member is muted only within the window after another link was counted, or
\* while one is being counted, unless the key has lost its time to live
\* (register_link_violation with its fallback to the dictionary).
THEOREM MuteIsEarned == LinkSpec => LinkMuteEarned
  <1>1. MuteInv /\ [LinkNext]_linkVars =>
          [\A h \in Handlers :
              pc[h] # "mute" /\ pc'[h] = "mute" =>
                  \/ immortal \/ \E g \in Handlers \ {h} : pc[g] = "expire"
                  \/ lastLink # 0 /\ second - lastLink <= LinkWindow]_linkVars
    BY MuteAction
  <1> QED BY <1>1, MuteInit, MuteStep, PTL DEF LinkSpec, LinkMuteEarned

-----------------------------------------------------------------------------
(* Settings. A request that has the table to itself has read it as it is; of   *)
(* any other it is known at least that the rows it has read are still there.  *)
Pairs == Keys \X Values
SettingRecords == [value : Values, active : BOOLEAN] \union {NoRow}
SettingsOf(op) == IF op = "preset" THEN {Off, DryRun, ApprovalRequired, ApprovedLiveSend} ELSE Seq(Pairs)

AloneInv ==
    /\ SettingTypeOK
    /\ request \in [Handlers -> [op : {"none", "apply", "rollback", "preset"}, settings : Seq(Pairs)]]
    /\ loaded \in [Handlers -> Seq(SettingRecords)]
    /\ \A h \in Handlers :
          /\ request[h].settings \in SettingsOf(request[h].op)
          /\ pc[h] = "idle" => loaded[h] = <<>>
          /\ pc[h] = "load" => request[h].op # "none"
          /\ \A i \in 1 .. Len(loaded[h]) :
                loaded[h][i] # NoRow => settingRows[Key(h, i)] # NoRow
          /\ pc[h] = "load" /\ h \notin disturbed =>
                /\ \A g \in Handlers \ {h} : pc[g] = "idle"
                /\ \A i \in 1 .. Len(loaded[h]) : loaded[h][i] = settingRows[Key(h, i)]

\* A preset names no key twice.
LEMMA PresetPairs ==
    ASSUME NEW s \in {Off, DryRun, ApprovalRequired, ApprovedLiveSend}
    PROVE  /\ s \in Seq(Pairs)
           /\ \A i, j \in DOMAIN s : s[i][1] = s[j][1] => i = j
  <1>1. s = Off => s \in Seq(Pairs) /\ \A i, j \in DOMAIN s : s[i][1] = s[j][1] => i = j
    BY DEF Off, Pairs, Keys, Values
  <1>2. s = DryRun => s \in Seq(Pairs) /\ \A i, j \in DOMAIN s : s[i][1] = s[j][1] => i = j
    BY DEF DryRun, Pairs, Keys, Values
  <1>3. s = ApprovalRequired => s \in Seq(Pairs) /\ \A i, j \in DOMAIN s : s[i][1] = s[j][1] => i = j
    BY DEF ApprovalRequired, Pairs, Keys, Values
  <1>4. s = ApprovedLiveSend => s \in Seq(Pairs) /\ \A i, j \in DOMAIN s : s[i][1] = s[j][1] => i = j
    BY DEF ApprovedLiveSend, Pairs, Keys, Values
  <1> QED BY <1>1, <1>2, <1>3, <1>4

LEMMA RequestTypes ==
    ASSUME NEW r \in Changes \union Rollbacks \union Presets
    PROVE  /\ r \in [op : {"none", "apply", "rollback", "preset"}, settings : Seq(Pairs)]
           /\ r.settings \in SettingsOf(r.op) /\ r.op # "none"
  <1>1. CASE r \in Changes \union Rollbacks
    <2>1. PICK k \in Keys, v \in Values : r.settings = << <<k, v>> >>
      BY <1>1 DEF Changes, Rollbacks, Values
    <2>2. r \in [op : {"apply", "rollback"}, settings : {r.settings}]
      BY <1>1 DEF Changes, Rollbacks
    <2>3. r.settings \in Seq(Pairs)
      BY <2>1 DEF Pairs
    <2> QED BY <2>2, <2>3 DEF SettingsOf
  <1>2. CASE r \in Presets
    <2>1. r.op = "preset" /\ r.settings \in {Off, DryRun, ApprovalRequired, ApprovedLiveSend}
          /\ r \in [op : {"preset"}, settings : {Off, DryRun, ApprovalRequired, ApprovedLiveSend}]
      BY <1>2 DEF Presets
    <2> QED BY <2>1, PresetPairs DEF SettingsOf
  <1> QED BY <1>1, <1>2

\* What a commit writes is a row, if what it overwrites is one.
LEMMA RowsWritten ==
    ASSUME NEW op \in {"apply", "rollback", "preset"}, NEW row \in SettingRecords, NEW read \in SettingRecords,
           NEW v \in Values, read # NoRow => row # NoRow
    PROVE  Written(op, row, read, v) \in SettingRecords /\ Written(op, row, read, v) # NoRow
  <1>n. "none" \notin Values
    BY DEF Values
  <1>1. CASE read = NoRow
    <2>1. Written(op, row, read, v) = [value |-> v, active |-> TRUE]
      BY <1>1 DEF Written
    <2> QED BY <1>n, <2>1 DEF SettingRecords, NoRow
  <1>2. CASE read # NoRow
    <2>1. row \in [value : Values, active : BOOLEAN] /\ read \in [value : Values, active : BOOLEAN]
      BY <1>2 DEF SettingRecords
    <2>2. CASE op = "rollback"
      <3> DEFINE b == IF read.active THEN FALSE ELSE row.active
      <3>1. Written(op, row, read, v) = [row EXCEPT !.active = b]
        BY <1>2, <2>2 DEF Written
      <3>2. b \in BOOLEAN
        BY <2>1
      <3> HIDE DEF b
      <3>3. /\ [row EXCEPT !.active = b] \in [value : Values, active : BOOLEAN]
            /\ [row EXCEPT !.active = b].value = row.value
        BY <2>1, <3>2
      <3> QED BY <1>n, <2>1, <3>1, <3>3 DEF SettingRecords, NoRow
    <2>3. CASE op = "apply"
      <3> DEFINE w == IF read.value = v THEN row.value ELSE v
      <3>1. Written(op, row, read, v) = [row EXCEPT !.value = w]
        BY <1>2, <2>3 DEF Written
      <3>2. w \in Values
        BY <2>1
      <3> HIDE DEF w
      <3> QED BY <1>n, <2>1, <3>1, <3>2 DEF SettingRecords, NoRow
    <2>4. CASE op = "preset"
      <3> DEFINE w == IF read.value = v THEN row.value ELSE v
                 b == IF read.active THEN row.active ELSE TRUE
      <3>1. Written(op, row, read, v) = [value |-> w, active |-> b]
        BY <1>2, <2>4 DEF Written
      <3>2. w \in Values /\ b \in BOOLEAN
        BY <2>1
      <3> HIDE DEF w, b
      <3> QED BY <1>n, <3>1, <3>2 DEF SettingRecords, NoRow
    <2> QED BY <2>2, <2>3, <2>4
  <1> QED BY <1>1, <1>2

LEMMA ReadKeys ==
    ASSUME AloneInv, NEW h \in Handlers, NEW i \in 1 .. Len(loaded[h])
    PROVE  request[h].settings[i][1] \in Keys /\ Key(h, i) \in Keys
  <1>1. request[h].settings \in Seq(Pairs) /\ loaded[h] \in Seq(SettingRecords) /\ Len(loaded[h]) <= Len(request[h].settings)
    BY DEF AloneInv, SettingTypeOK
  <1>2. i \in DOMAIN request[h].settings
    BY <1>1
  <1>3. request[h].settings[i] \in Keys \X Values
    BY <1>1, <1>2 DEF Pairs
  <1> QED BY <1>3 DEF Key

LEMMA AloneInit == SettingInit => AloneInv
  <1> SUFFICES ASSUME SettingInit PROVE AloneInv
    OBVIOUS
  <1> USE DEF SettingRecords
  <1>1. NoRequest \in [op : {"none", "apply", "rollback", "preset"}, settings : Seq(Pairs)]
        /\ NoRequest.op = "none" /\ NoRequest.settings = <<>> /\ <<>> \in Seq(Pairs)
        /\ NoRequest.settings \in SettingsOf(NoRequest.op)
    BY DEF NoRequest, SettingsOf
  <1>2. <<>> \in Seq(SettingRecords) /\ Len(<<>>) <= Len(<<>>)
    OBVIOUS
  <1>3. allowLive \in BOOLEAN /\ runtimeEnabled \in BOOLEAN
    BY DEF SettingInit
  <1> QED BY <1>1, <1>2, <1>3 DEF SettingInit, TasksIdle, AloneInv, SettingTypeOK

\* A request ends, and leaves the others as they are.
LEMMA EndsAlone ==
    ASSUME AloneInv, NEW h \in Handlers, pc[h] = "load", RequestEnds(h),
           settingRows' \in [Keys -> SettingRecords],
           \A k \in Keys : settingRows[k] # NoRow => settingRows'[k] # NoRow,
           settingRows' = settingRows \/ \A g \in Handlers \ {h} : pc[g] = "load" => g \in disturbed
    PROVE  AloneInv'
  <1>1. NoRequest \in [op : {"none", "apply", "rollback", "preset"}, settings : Seq(Pairs)]
        /\ NoRequest.op = "none" /\ NoRequest.settings = <<>> /\ <<>> \in Seq(Pairs)
        /\ NoRequest.settings \in SettingsOf(NoRequest.op)
    BY DEF NoRequest, SettingsOf
  <1>2. <<>> \in Seq(SettingRecords) /\ Len(<<>>) <= Len(<<>>)
    OBVIOUS
  <1>3. /\ pc' = [pc EXCEPT ![h] = "idle"] /\ request' = [request EXCEPT ![h] = NoRequest]
        /\ loaded' = [loaded EXCEPT ![h] = <<>>] /\ disturbed' = disturbed \ {h}
        /\ UNCHANGED <<allowLive, runtimeEnabled, requests, rowLock>>
    BY DEF RequestEnds
  <1>4. /\ request' \in [Handlers -> [op : {"none", "apply", "rollback", "preset"}, settings : Seq(Pairs)]]
        /\ loaded' \in [Handlers -> Seq(SettingRecords)]
    BY <1>1, <1>2, <1>3 DEF AloneInv
  <1>5. SettingTypeOK'
    BY <1>1, <1>2, <1>3 DEF AloneInv, SettingTypeOK, SettingRecords
  <1>6. ASSUME NEW g \in Handlers
        PROVE  /\ request'[g].settings \in SettingsOf(request'[g].op)
               /\ pc'[g] = "idle" => loaded'[g] = <<>>
               /\ pc'[g] = "load" => request'[g].op # "none"
               /\ \A i \in 1 .. Len(loaded'[g]) :
                     loaded'[g][i] # NoRow => settingRows'[request'[g].settings[i][1]] # NoRow
    <2>1. CASE g = h
      BY <1>1, <1>3, <2>1 DEF AloneInv, SettingTypeOK
    <2>2. CASE g # h
      <3>1. ASSUME NEW i \in 1 .. Len(loaded[g]) PROVE request[g].settings[i][1] \in Keys
        BY <3>1, ReadKeys
      <3> QED BY <1>3, <2>2, <3>1 DEF AloneInv, SettingTypeOK, Key
    <2> QED BY <2>1, <2>2
  <1>7. ASSUME NEW g \in Handlers, pc'[g] = "load", g \notin disturbed'
        PROVE  /\ \A o \in Handlers \ {g} : pc'[o] = "idle"
               /\ \A i \in 1 .. Len(loaded'[g]) : loaded'[g][i] = settingRows'[request'[g].settings[i][1]]
    <2>1. g # h /\ pc[g] = "load" /\ g \notin disturbed
      BY <1>3, <1>7 DEF AloneInv, SettingTypeOK
    <2> QED BY <2>1 DEF AloneInv
  <1> QED BY <1>4, <1>5, <1>6, <1>7 DEF AloneInv, Key

LEMMA AloneStep == AloneInv /\ [SettingNext]_settingVars => AloneInv'
  <1> SUFFICES ASSUME AloneInv, [SettingNext]_settingVars PROVE AloneInv'
    OBVIOUS
  <1>t. SettingTypeOK
    BY DEF AloneInv
  <1>1. CASE UNCHANGED settingVars
    BY <1>1 DEF settingVars, AloneInv, SettingTypeOK, Key
  <1>2. ASSUME NEW h \in Handlers, SubmitRequest(h) PROVE AloneInv'
    <2>1. PICK r \in Changes \union Rollbacks \union Presets : request' = [request EXCEPT ![h] = r]
      BY <1>2 DEF SubmitRequest
    <2>2. /\ pc[h] = "idle" /\ requests' = requests + 1 /\ pc' = [pc EXCEPT ![h] = "load"]
          /\ disturbed' = (IF Alone(h) THEN disturbed \ {h}
                           ELSE disturbed \union {h} \union {g \in Handlers : Active(g)})
          /\ UNCHANGED <<settingRows, allowLive, runtimeEnabled, loaded, rowLock>>
      BY <1>2, <1>t DEF SubmitRequest, Active, SettingTypeOK
    <2>3. /\ r \in [op : {"none", "apply", "rollback", "preset"}, settings : Seq(Pairs)]
          /\ r.settings \in SettingsOf(r.op) /\ r.op # "none"
      BY RequestTypes
    <2>4. r.settings \in Seq(Pairs) /\ Len(r.settings) \in Nat
      BY <2>3
    <2>5. loaded[h] = <<>> /\ Len(loaded[h]) = 0
      BY <2>2 DEF AloneInv
    <2>6. request' \in [Handlers -> [op : {"none", "apply", "rollback", "preset"}, settings : Seq(Pairs)]]
      BY <2>1, <2>3 DEF AloneInv
    <2>7. SettingTypeOK'
      <3>1. ASSUME NEW g \in Handlers
            PROVE  /\ request'[g].op \in {"none", "apply", "rollback", "preset"}
                   /\ Len(loaded'[g]) <= Len(request'[g].settings)
        <4>1. CASE g = h
          BY <2>1, <2>2, <2>3, <2>4, <2>5, <4>1 DEF AloneInv
        <4>2. CASE g # h
          BY <1>t, <2>1, <2>2, <4>2 DEF AloneInv, SettingTypeOK
        <4> QED BY <4>1, <4>2
      <3>2. disturbed' \subseteq Handlers
        BY <1>t, <2>2 DEF SettingTypeOK
      <3> QED BY <1>t, <2>2, <3>1, <3>2 DEF SettingTypeOK
    <2>8. ASSUME NEW g \in Handlers
          PROVE  /\ request'[g].settings \in SettingsOf(request'[g].op)
                 /\ pc'[g] = "idle" => loaded'[g] = <<>>
                 /\ pc'[g] = "load" => request'[g].op # "none"
                 /\ \A i \in 1 .. Len(loaded'[g]) :
                       loaded'[g][i] # NoRow => settingRows'[request'[g].settings[i][1]] # NoRow
      <3>1. CASE g = h
        BY <1>t, <2>1, <2>2, <2>3, <2>5, <3>1 DEF AloneInv, SettingTypeOK
      <3>2. CASE g # h
        BY <1>t, <2>1, <2>2, <3>2 DEF AloneInv, SettingTypeOK, Key
      <3> QED BY <3>1, <3>2
    <2>9. ASSUME NEW g \in Handlers, pc'[g] = "load", g \notin disturbed'
          PROVE  /\ \A o \in Handlers \ {g} : pc'[o] = "idle"
                 /\ \A i \in 1 .. Len(loaded'[g]) : loaded'[g][i] = settingRows'[request'[g].settings[i][1]]
      <3>1. CASE g = h
        <4>1. Alone(h)
          BY <2>2, <2>9, <3>1
        <4>2. \A o \in Handlers \ {h} : pc[o] = "idle" /\ pc'[o] = pc[o]
          BY <1>t, <2>2, <4>1 DEF Alone, Active, SettingTypeOK
        <4> QED BY <2>2, <2>5, <3>1, <4>2
      <3>2. CASE g # h
        <4>1. pc[g] = "load" /\ Active(g)
          BY <1>t, <2>2, <2>9, <3>2 DEF SettingTypeOK, Active
        <4>2. ~Alone(h)
          BY <3>2, <4>1 DEF Alone
        <4> QED BY <2>2, <2>9, <4>1, <4>2
      <3> QED BY <3>1, <3>2
    <2> QED BY <2>2, <2>6, <2>7, <2>8, <2>9 DEF AloneInv, Key
  <1>3. ASSUME NEW h \in Handlers, LoadSetting(h) PROVE AloneInv'
    <2> DEFINE list == loaded[h]  row == settingRows[Key(h, Len(loaded[h]) + 1)]
    <2>1. /\ pc[h] = "load" /\ Len(list) < Len(request[h].settings)
          /\ loaded' = [loaded EXCEPT ![h] = Append(list, row)]
          /\ UNCHANGED <<settingRows, allowLive, runtimeEnabled, request, requests, disturbed, pc, rowLock>>
      BY <1>3 DEF LoadSetting
    <2>2. list \in Seq(SettingRecords) /\ Len(list) \in Nat
          /\ request[h].settings \in Seq(Pairs)
      BY DEF AloneInv
    <2>3. Key(h, Len(list) + 1) \in Keys
      BY <2>1, <2>2 DEF Key, Pairs
    <2>4. row \in SettingRecords
      BY <1>t, <2>3 DEF SettingTypeOK, SettingRecords
    <2> HIDE DEF row, list
    <2>5. /\ Append(list, row) \in Seq(SettingRecords)
          /\ Len(Append(list, row)) = Len(list) + 1
          /\ \A i \in 1 .. Len(list) + 1 : Append(list, row)[i] = IF i <= Len(list) THEN list[i] ELSE row
      BY <2>2, <2>4
    <2>6. loaded' \in [Handlers -> Seq(SettingRecords)]
      BY <2>1, <2>5 DEF AloneInv
    <2>7. \A g \in Handlers : Len(loaded'[g]) <= Len(request'[g].settings)
      <3>1. Len(list) + 1 <= Len(request[h].settings)
        BY <2>1, <2>2
      <3> QED BY <1>t, <2>1, <2>5, <3>1 DEF AloneInv, SettingTypeOK
    <2>8. SettingTypeOK'
      BY <1>t, <2>1, <2>7 DEF SettingTypeOK
    <2>9. ASSUME NEW g \in Handlers, pc[g] = "load", g \notin disturbed
          PROVE  \A i \in 1 .. Len(loaded'[g]) : loaded'[g][i] = settingRows[request[g].settings[i][1]]
      <3>1. CASE g # h
        BY <2>1, <2>9, <3>1 DEF AloneInv, Key
      <3>2. CASE g = h
        <4>1. loaded'[g] = Append(list, row)
          BY <2>1, <3>2 DEF AloneInv
        <4>2. \A i \in 1 .. Len(list) : list[i] = settingRows[request[h].settings[i][1]]
          BY <2>9, <3>2 DEF AloneInv, Key, list
        <4>3. row = settingRows[request[h].settings[Len(list) + 1][1]]
          BY DEF row, list, Key
        <4> QED BY <2>2, <2>5, <3>2, <4>1, <4>2, <4>3
      <3> QED BY <3>1, <3>2
    <2>10. \A g \in Handlers : pc'[g] = "idle" => loaded'[g] = <<>>
      BY <2>1 DEF AloneInv
    <2>11. ASSUME NEW g \in Handlers, NEW i \in 1 .. Len(loaded'[g]), loaded'[g][i] # NoRow
           PROVE  settingRows[request[g].settings[i][1]] # NoRow
      <3>1. CASE g # h
        BY <2>1, <2>11, <3>1 DEF AloneInv, Key
      <3>2. CASE g = h
        <4>1. loaded'[g] = Append(list, row)
          BY <2>1, <3>2 DEF AloneInv
        <4>2. \A j \in 1 .. Len(list) : list[j] # NoRow => settingRows[request[h].settings[j][1]] # NoRow
          BY DEF AloneInv, Key, list
        <4>3. row = settingRows[request[h].settings[Len(list) + 1][1]]
          BY DEF row, list, Key
        <4> QED BY <2>2, <2>5, <2>11, <3>2, <4>1, <4>2, <4>3
      <3> QED BY <3>1, <3>2
    <2> QED BY <2>1, <2>6, <2>8, <2>9, <2>10, <2>11 DEF AloneInv, Key
  <1>4. ASSUME NEW h \in Handlers, CommitSettings(h) PROVE AloneInv'
    <2> DEFINE settings == request[h].settings
               Index(k) == CHOOSE i \in DOMAIN settings : settings[i][1] = k
    <2>1. /\ pc[h] = "load" /\ Len(loaded[h]) = Len(settings) /\ RequestEnds(h)
          /\ settingRows' = [k \in Keys |->
                IF \A i \in DOMAIN settings : settings[i][1] # k THEN settingRows[k]
                ELSE Written(request[h].op, settingRows[k], loaded[h][Index(k)], settings[Index(k)][2])]
      BY <1>4 DEF CommitSettings
    <2>2. settings \in Seq(Pairs) /\ loaded[h] \in Seq(SettingRecords)
          /\ request[h].op \in {"none", "apply", "rollback", "preset"}
      BY DEF AloneInv
    <2>3. request[h].op \in {"apply", "rollback", "preset"}
      BY <2>1, <2>2 DEF AloneInv
    <2>4. ASSUME NEW k \in Keys
          PROVE  settingRows'[k] \in SettingRecords /\ (settingRows[k] # NoRow => settingRows'[k] # NoRow)
      <3>1. CASE \A i \in DOMAIN settings : settings[i][1] # k
        BY <1>t, <2>1, <3>1 DEF SettingTypeOK, SettingRecords
      <3>2. CASE \E i \in DOMAIN settings : settings[i][1] = k
        <4>1. Index(k) \in DOMAIN settings /\ settings[Index(k)][1] = k
          BY <3>2
        <4> HIDE DEF Index
        <4>2. settings[Index(k)] \in Keys \X Values /\ Index(k) \in 1 .. Len(loaded[h])
          BY <2>1, <2>2, <4>1 DEF Pairs
        <4>3. settings[Index(k)][2] \in Values /\ loaded[h][Index(k)] \in SettingRecords
          BY <2>2, <4>2
        <4>4. loaded[h][Index(k)] # NoRow => settingRows[k] # NoRow
          BY <4>1, <4>2 DEF AloneInv, Key
        <4>5. settingRows'[k] = Written(request[h].op, settingRows[k], loaded[h][Index(k)], settings[Index(k)][2])
          BY <2>1, <3>2
        <4>6. settingRows[k] \in SettingRecords
          BY <1>t DEF SettingTypeOK, SettingRecords
        <4> QED BY <2>3, <4>3, <4>4, <4>5, <4>6, RowsWritten
      <3> QED BY <3>1, <3>2
    <2>6. settingRows' \in [Keys -> SettingRecords]
      BY <2>1, <2>4
    <2>5. ASSUME NEW g \in Handlers \ {h}, pc[g] = "load"
          PROVE  g \in disturbed
      BY <2>1, <2>5 DEF AloneInv
    <2> QED BY <2>1, <2>4, <2>5, <2>6, EndsAlone
  <1>5. ASSUME NEW h \in Handlers, RequestFails(h) PROVE AloneInv'
    BY <1>5, <1>t, EndsAlone DEF RequestFails, Active, SettingTypeOK, SettingRecords
  <1> QED BY <1>1, <1>2, <1>3, <1>4, <1>5 DEF SettingNext

\* No request leaves a row without a value, and each reads no more rows than it
\* has settings.
THEOREM SettingTypes == SettingSpec => []SettingTypeOK
  <1>1. AloneInv => SettingTypeOK
    BY DEF AloneInv
  <1> QED BY AloneInit, AloneStep, <1>1, PTL DEF SettingSpec

LEMMA PresetWritten ==
    ASSUME NEW row \in SettingRecords, NEW v \in Values
    PROVE  Written("preset", row, row, v) = [value |-> v, active |-> TRUE]
  <1>1. CASE row = NoRow
    BY <1>1 DEF Written
  <1>2. CASE row # NoRow
    <2>1. row \in [value : Values, active : BOOLEAN]
      BY <1>2 DEF SettingRecords
    <2>2. Written("preset", row, row, v) =
             [value |-> IF row.value = v THEN row.value ELSE v, active |-> IF row.active THEN row.active ELSE TRUE]
      BY <1>2 DEF Written
    <2>3. (IF row.value = v THEN row.value ELSE v) = v
      OBVIOUS
    <2>4. (IF row.active THEN row.active ELSE TRUE) = TRUE
      BY <2>1
    <2> QED BY <2>2, <2>3, <2>4
  <1> QED BY <1>1, <1>2

\* For any environment, any number of requests and tasks: a preset that is
\* answered "applied" and had the table to itself is in force where the overlay
\* is enabled, and where it is not the environment is.
THEOREM PresetTakesForce == SettingSpec => PresetInForce
  <1>1. ASSUME AloneInv, NEW h \in Handlers, CommitSettings(h), request[h].op = "preset", h \notin disturbed,
               NEW i \in DOMAIN request[h].settings
        PROVE  Effective(settingRows', Key(h, i)) =
                  IF runtimeEnabled THEN request[h].settings[i][2] ELSE Env[Key(h, i)]
    <2> DEFINE settings == request[h].settings
               Index(k) == CHOOSE j \in DOMAIN settings : settings[j][1] = k
               k == settings[i][1]
    <2>1. /\ pc[h] = "load" /\ Len(loaded[h]) = Len(settings)
          /\ settingRows' = [l \in Keys |->
                IF \A j \in DOMAIN settings : settings[j][1] # l THEN settingRows[l]
                ELSE Written(request[h].op, settingRows[l], loaded[h][Index(l)], settings[Index(l)][2])]
      BY <1>1 DEF CommitSettings
    <2>2. settings \in {Off, DryRun, ApprovalRequired, ApprovedLiveSend}
      BY <1>1 DEF AloneInv, SettingsOf
    <2>3. settings \in Seq(Pairs) /\ \A j, l \in DOMAIN settings : settings[j][1] = settings[l][1] => j = l
      BY <2>2, PresetPairs
    <2>4. settings[i] \in Keys \X Values /\ i \in 1 .. Len(settings)
      BY <1>1, <2>3 DEF Pairs
    <2>5. k \in Keys /\ settings[i][2] \in Values /\ Key(h, i) = k
      BY <2>4 DEF Key
    <2>6. Index(k) \in DOMAIN settings /\ settings[Index(k)][1] = k
      BY <1>1
    <2>7. Index(k) = i
      BY <1>1, <2>3, <2>6, SMTT(30)
    <2>8. settingRows'[k] = Written("preset", settingRows[k], loaded[h][i], settings[i][2])
      BY <1>1, <2>1, <2>5, <2>7
    <2>9. loaded[h][i] = settingRows[k] /\ settingRows[k] \in SettingRecords
      BY <1>1, <2>1, <2>4, <2>5 DEF AloneInv, SettingTypeOK, SettingRecords
    <2>10. settingRows'[k] = [value |-> settings[i][2], active |-> TRUE]
      BY <2>5, <2>8, <2>9, PresetWritten
    <2> QED BY <2>5, <2>10 DEF Effective
  <1>2. AloneInv => [\A h \in Handlers :
                        CommitSettings(h) /\ request[h].op = "preset" /\ h \notin disturbed =>
                           \A i \in DOMAIN request[h].settings :
                              Effective(settingRows', Key(h, i)) =
                                 IF runtimeEnabled THEN request[h].settings[i][2] ELSE Env[Key(h, i)]]_settingVars
    BY <1>1
  <1> QED BY AloneInit, AloneStep, <1>2, PTL DEF SettingSpec, PresetInForce

-----------------------------------------------------------------------------
(* Forms. The fields that may be there beyond those that the answers up to a   *)
(* state have left: an answer whose handler died before it set the next state, *)
(* the lead of an order, a stage chosen before the way back to the segment.    *)
Slack ==
    [name |-> {"lead_id", "name"}, phone |-> {"lead_id", "phone"}, district |-> {"lead_id", "district"},
     category |-> {"lead_id", "category"}, area |-> {"lead_id", "area"}, location |-> {"lead_id", "location"},
     ml_name |-> {"name"}, ml_phone |-> {"phone"}, ml_location |-> {"location"}, ml_time |-> {},
     amount |-> {"amount"}, proof |-> {},
     segment |-> {"segment", "stage"}, stage |-> {"stage"}, payload |-> {"stage", "payload"},
     content |-> {"stage", "content"}, confirming |-> {"stage"}]

Fits(s, data) == Filled[s] \subseteq data /\ data \subseteq Filled[s] \union Slack[s]

Middle == States \ {"location", "ml_time", "proof", "confirming", "content"}

LEMMA StatesAre ==
    States = {"name", "phone", "district", "category", "area", "location", "ml_name", "ml_phone",
              "ml_location", "ml_time", "amount", "proof", "segment", "stage", "payload", "content",
              "confirming"}
  BY DEF States, Follows

\* The next state asks for no more than the answer has added, and allows for all
\* that is there.
LEMMA NextFits ==
    ASSUME NEW s \in States, NEW data, Fits(s, data), Field(s) \in data, NEW n \in Follows[s]
    PROVE  n \in States /\ Fits(n, data)
  <1>1. CASE s \in {"name", "phone", "district", "category", "area", "location"}
    BY <1>1, StatesAre DEF Follows, Field, Fits, Filled, Slack
  <1>2. CASE s \in {"ml_name", "ml_phone", "ml_location", "ml_time", "amount", "proof"}
    BY <1>2, StatesAre DEF Follows, Field, Fits, Filled, Slack
  <1>3. CASE s \in {"segment", "stage", "payload", "content", "confirming"}
    BY <1>3, StatesAre DEF Follows, Field, Fits, Filled, Slack
  <1> QED BY <1>1, <1>2, <1>3, StatesAre

LEMMA AnswerFits ==
    ASSUME NEW s \in Middle \union {"content", "location"}, NEW data, Fits(s, data)
    PROVE  Fits(s, data \union {Field(s)}) /\ Field(s) \in Fields
  <1>1. CASE s \in {"name", "phone", "district", "category", "area", "location"}
    BY <1>1, StatesAre DEF Field, Fields, Fits, Filled, Slack
  <1>2. CASE s \in {"ml_name", "ml_phone", "ml_location", "amount"}
    BY <1>2, StatesAre DEF Field, Fields, Fits, Filled, Slack
  <1>3. CASE s \in {"segment", "stage", "payload", "content"}
    BY <1>3, StatesAre DEF Field, Fields, Fits, Filled, Slack
  <1> QED BY <1>1, <1>2, <1>3, StatesAre DEF Middle

LEMMA FirstFits ==
    /\ Fits("name", {}) /\ Fits("name", {"lead_id"}) /\ Fits("amount", {"lead_id"})
    /\ Fits("ml_name", {}) /\ Fits("segment", {})
    /\ \A data : Fits("stage", data) => Fits("segment", data)
    /\ First["order"] = "name" /\ First["payment"] = "amount"
    /\ First["measurement"] = "ml_name" /\ First["broadcast"] = "segment"
    /\ First["order"] \in States /\ First["payment"] \in States
    /\ First["measurement"] \in States /\ First["broadcast"] \in States
  BY StatesAre DEF Fits, Filled, Slack, First

LEMMA SubmittedFits ==
    ASSUME NEW s \in {"location", "ml_time", "proof", "confirming"}, NEW data, Fits(s, data)
    PROVE  Filled[s] \subseteq data /\ data \subseteq Filled[s] \union Extra(s)
  BY DEF Fits, Slack, Extra

\* What is left of a handler's calls, by what it does.
Gp == <<"get", "put", "goto">>
Gp1 == <<"put", "goto">>
Gp2 == <<"goto">>
Ct == <<"get", "put", "get", "goto">>
Ct1 == <<"put", "get", "goto">>
Ct2 == <<"get", "goto">>
Lo == <<"get", "put", "get", "submit", "forget", "wipe">>
Lo1 == <<"put", "get", "submit", "forget", "wipe">>
Su == <<"get", "submit", "forget", "wipe">>
Su1 == <<"submit", "forget", "wipe">>
Su2 == <<"forget", "wipe">>
Su3 == <<"wipe">>
Ti == <<"get", "forget", "wipe", "submit">>
Ti1 == <<"forget", "wipe", "submit">>
Ti2 == <<"wipe", "submit">>
Ti3 == <<"submit">>
Or == <<"forget", "wipe", "get", "put", "goto">>
Or1 == <<"wipe", "get", "put", "goto">>
Pa == <<"forget", "wipe", "assign", "goto">>
Pa1 == <<"wipe", "assign", "goto">>
Pa2 == <<"assign", "goto">>
Be == <<"forget", "wipe", "goto">>
Be1 == <<"wipe", "goto">>

\* Which calls may be left in which step, and which state is going to be next.
Shape(s, T, n) ==
    \/ s = "none" /\ n = "none" /\ T \in {<<>>, Su2, Su3}
    \/ s \in Middle /\ n \in Follows[s] /\ T \in {Gp, Gp1, Gp2}
    \/ s = "stage" /\ n = "segment" /\ T = Gp2
    \/ s = "content" /\ n \in Follows[s] /\ T \in {Ct, Ct1, Ct2, Gp2}
    \/ s = "location" /\ n = "none" /\ T \in {Lo, Lo1, Su, Su1, Su2, Su3}
    \/ s = "ml_time" /\ n = "none" /\ T \in {Ti, Ti1, Ti2, Ti3}
    \/ s \in {"proof", "confirming"} /\ n = "none" /\ T \in {Su, Su1, Su2, Su3}
    \/ s = "order" /\ n = "name" /\ T \in {Or, Or1, Gp, Gp1, Gp2, Be, Be1}
    \/ s = "payment" /\ n = "amount" /\ T \in {Pa, Pa1, Pa2, Gp2}
    \/ s \in {"measurement", "broadcast"} /\ n = First[s] /\ T \in {Be, Be1, Gp2}

\* The place in the calls, by the next of them; only an announcement's text has a
\* get before and after the put.
Late(T) == Len(T) = 2

LEMMA ListTable ==
    /\ Head(Gp) = "get" /\ Tail(Gp) = Gp1 /\ Gp # <<>> /\ ~Late(Gp)
    /\ Head(Gp1) = "put" /\ Tail(Gp1) = Gp2 /\ Gp1 # <<>>
    /\ Head(Gp2) = "goto" /\ Tail(Gp2) = <<>> /\ Gp2 # <<>> /\ ~Late(Gp2)
    /\ Head(Ct) = "get" /\ Tail(Ct) = Ct1 /\ Ct # <<>> /\ ~Late(Ct)
    /\ Head(Ct1) = "put" /\ Tail(Ct1) = Ct2 /\ Ct1 # <<>> /\ ~Late(Ct1)
    /\ Head(Ct2) = "get" /\ Tail(Ct2) = Gp2 /\ Ct2 # <<>> /\ Late(Ct2)
    /\ Head(Lo) = "get" /\ Tail(Lo) = Lo1 /\ Lo # <<>>
    /\ Head(Lo1) = "put" /\ Tail(Lo1) = Su /\ Lo1 # <<>>
    /\ Head(Su) = "get" /\ Tail(Su) = Su1 /\ Su # <<>>
    /\ Head(Su1) = "submit" /\ Tail(Su1) = Su2 /\ Su1 # <<>>
    /\ Head(Su2) = "forget" /\ Tail(Su2) = Su3 /\ Su2 # <<>>
    /\ Head(Su3) = "wipe" /\ Tail(Su3) = <<>> /\ Su3 # <<>>
    /\ Head(Ti) = "get" /\ Tail(Ti) = Ti1 /\ Ti # <<>>
    /\ Head(Ti1) = "forget" /\ Tail(Ti1) = Ti2 /\ Ti1 # <<>>
    /\ Head(Ti2) = "wipe" /\ Tail(Ti2) = Ti3 /\ Ti2 # <<>>
    /\ Head(Ti3) = "submit" /\ Tail(Ti3) = <<>> /\ Ti3 # <<>>
    /\ Head(Or) = "forget" /\ Tail(Or) = Or1 /\ Or # <<>>
    /\ Head(Or1) = "wipe" /\ Tail(Or1) = Gp /\ Or1 # <<>>
    /\ Head(Pa) = "forget" /\ Tail(Pa) = Pa1 /\ Pa # <<>>
    /\ Head(Pa1) = "wipe" /\ Tail(Pa1) = Pa2 /\ Pa1 # <<>>
    /\ Head(Pa2) = "assign" /\ Tail(Pa2) = Gp2 /\ Pa2 # <<>>
    /\ Head(Be) = "forget" /\ Tail(Be) = Be1 /\ Be # <<>>
    /\ Head(Be1) = "wipe" /\ Tail(Be1) = Gp2 /\ Be1 # <<>>
  <1>1. /\ Head(Gp) = "get" /\ Tail(Gp) = Gp1 /\ Gp # <<>> /\ ~Late(Gp)
        /\ Head(Gp1) = "put" /\ Tail(Gp1) = Gp2 /\ Gp1 # <<>>
        /\ Head(Gp2) = "goto" /\ Tail(Gp2) = <<>> /\ Gp2 # <<>> /\ ~Late(Gp2)
    BY DEF Gp, Gp1, Gp2, Late
  <1>2. /\ Head(Ct) = "get" /\ Tail(Ct) = Ct1 /\ Ct # <<>> /\ ~Late(Ct)
        /\ Head(Ct1) = "put" /\ Tail(Ct1) = Ct2 /\ Ct1 # <<>> /\ ~Late(Ct1)
        /\ Head(Ct2) = "get" /\ Tail(Ct2) = Gp2 /\ Ct2 # <<>> /\ Late(Ct2)
    BY DEF Ct, Ct1, Ct2, Gp2, Late
  <1>3. /\ Head(Lo) = "get" /\ Tail(Lo) = Lo1 /\ Lo # <<>>
        /\ Head(Lo1) = "put" /\ Tail(Lo1) = Su /\ Lo1 # <<>>
    BY DEF Lo, Lo1, Su
  <1>4. /\ Head(Su) = "get" /\ Tail(Su) = Su1 /\ Su # <<>>
        /\ Head(Su1) = "submit" /\ Tail(Su1) = Su2 /\ Su1 # <<>>
        /\ Head(Su2) = "forget" /\ Tail(Su2) = Su3 /\ Su2 # <<>>
        /\ Head(Su3) = "wipe" /\ Tail(Su3) = <<>> /\ Su3 # <<>>
    BY DEF Su, Su1, Su2, Su3
  <1>5. /\ Head(Ti) = "get" /\ Tail(Ti) = Ti1 /\ Ti # <<>>
        /\ Head(Ti1) = "forget" /\ Tail(Ti1) = Ti2 /\ Ti1 # <<>>
        /\ Head(Ti2) = "wipe" /\ Tail(Ti2) = Ti3 /\ Ti2 # <<>>
        /\ Head(Ti3) = "submit" /\ Tail(Ti3) = <<>> /\ Ti3 # <<>>
    BY DEF Ti, Ti1, Ti2, Ti3
  <1>6. /\ Head(Or) = "forget" /\ Tail(Or) = Or1 /\ Or # <<>>
        /\ Head(Or1) = "wipe" /\ Tail(Or1) = Gp /\ Or1 # <<>>
    BY DEF Or, Or1, Gp
  <1>7. /\ Head(Pa) = "forget" /\ Tail(Pa) = Pa1 /\ Pa # <<>>
        /\ Head(Pa1) = "wipe" /\ Tail(Pa1) = Pa2 /\ Pa1 # <<>>
        /\ Head(Pa2) = "assign" /\ Tail(Pa2) = Gp2 /\ Pa2 # <<>>
    BY DEF Pa, Pa1, Pa2, Gp2
  <1>8. /\ Head(Be) = "forget" /\ Tail(Be) = Be1 /\ Be # <<>>
        /\ Head(Be1) = "wipe" /\ Tail(Be1) = Gp2 /\ Be1 # <<>>
    BY DEF Be, Be1, Gp2
  <1> QED BY <1>1, <1>2, <1>3, <1>4, <1>5, <1>6, <1>7, <1>8

LEMMA ListTypes ==
    ASSUME NEW s, NEW T, NEW n, Shape(s, T, n)
    PROVE  T \in Seq(Calls)
  <1>1. Gp \in Seq(Calls) /\ Gp1 \in Seq(Calls) /\ Gp2 \in Seq(Calls)
    BY DEF Gp, Gp1, Gp2, Calls
  <1>2. Ct \in Seq(Calls) /\ Ct1 \in Seq(Calls) /\ Ct2 \in Seq(Calls)
    BY DEF Ct, Ct1, Ct2, Calls
  <1>3. Lo \in Seq(Calls) /\ Lo1 \in Seq(Calls)
    BY DEF Lo, Lo1, Calls
  <1>4. Su \in Seq(Calls) /\ Su1 \in Seq(Calls) /\ Su2 \in Seq(Calls) /\ Su3 \in Seq(Calls)
    BY DEF Su, Su1, Su2, Su3, Calls
  <1>5. Ti \in Seq(Calls) /\ Ti1 \in Seq(Calls) /\ Ti2 \in Seq(Calls) /\ Ti3 \in Seq(Calls)
    BY DEF Ti, Ti1, Ti2, Ti3, Calls
  <1>6. Or \in Seq(Calls) /\ Or1 \in Seq(Calls) /\ Pa \in Seq(Calls) /\ Pa1 \in Seq(Calls) /\ Pa2 \in Seq(Calls)
    BY DEF Or, Or1, Pa, Pa1, Pa2, Calls
  <1>7. Be \in Seq(Calls) /\ Be1 \in Seq(Calls) /\ <<>> \in Seq(Calls)
    BY DEF Be, Be1, Calls
  <1> QED BY <1>1, <1>2, <1>3, <1>4, <1>5, <1>6, <1>7 DEF Shape

\* The calls go on as they began, until the handler is done.
LEMMA ShapeGoesOn ==
    ASSUME NEW s, NEW T, NEW n, Shape(s, T, n), T # <<>>, Tail(T) # <<>>
    PROVE  Shape(s, Tail(T), n)
  BY ListTable, ZenonT(60) DEF Shape

LEMMA ShapeBegins ==
    /\ \A s \in States : IF Follows[s] = {} THEN Shape(s, Answer(s), "none")
                         ELSE \A n \in Follows[s] : Shape(s, Answer(s), n)
    /\ Shape("stage", <<"goto">>, "segment") /\ Shape("none", <<"forget", "wipe">>, "none")
    /\ \A f \in Forms : \A calls \in Start(f) : Shape(f, calls, First[f])
  <1>1. ASSUME NEW s \in States
        PROVE  IF Follows[s] = {} THEN Shape(s, Answer(s), "none")
               ELSE \A n \in Follows[s] : Shape(s, Answer(s), n)
    <2>1. CASE s \in {"location", "ml_time", "proof", "confirming"}
      <3>1. Follows[s] = {}
        BY <2>1 DEF Follows
      <3> QED BY <2>1, <3>1 DEF Shape, Answer, Lo, Ti, Su
    <2>2. CASE s = "content"
      <3>1. Follows[s] # {}
        BY <2>2 DEF Follows
      <3> QED BY <2>2, <3>1 DEF Shape, Answer, Ct
    <2>3. CASE s \in Middle
      <3>1. Follows[s] # {}
        BY <2>3, StatesAre DEF Follows, Middle
      <3>2. Answer(s) = Gp
        BY <2>3 DEF Answer, Gp, Middle
      <3> QED BY <2>3, <3>1, <3>2 DEF Shape
    <2> QED BY <2>1, <2>2, <2>3 DEF Middle
  <1>2. Shape("stage", <<"goto">>, "segment") /\ Shape("none", <<"forget", "wipe">>, "none")
    BY DEF Shape, Gp2, Su2
  <1>3. ASSUME NEW f \in Forms, NEW calls \in Start(f)
        PROVE  Shape(f, calls, First[f])
    BY <1>3, FirstFits DEF Forms, Start, Shape, Or, Be, Pa
  <1> QED BY <1>1, <1>2, <1>3

\* What a handler that has the chat to itself can rely on. After its "forget" no
\* state is set; after its "wipe" nothing is in the data but what it puts there.
Begins(s, T, n, state, data, got) ==
    /\ Head(T) = "wipe" \/ (s \in Forms /\ Head(T) # "forget") \/ (s = "ml_time" /\ Head(T) = "submit")
          => state = "none"
    /\ s = "order" /\ Head(T) \in {"get", "put"} => data = {}
    /\ s = "order" /\ Head(T) = "put" => got = {}
    /\ s \in Forms /\ Head(T) = "goto" => Fits(n, data)

\* And if nobody crossed the form before, what it finds is of the form.
Continues(s, T, n, state, data, got) ==
    s \in States =>
        /\ state \in {s, "none"}
        /\ ~(s = "ml_time" /\ Head(T) = "submit") => Fits(s, data)
        /\ Head(T) \in {"put", "submit"} \/ (s = "ml_time" /\ Head(T) # "get") => Fits(s, got)
        /\ Head(T) = "goto" \/ (s = "content" /\ Late(T)) => Fits(n, data)

FormInv ==
    /\ ConversationTypeOK
    /\ todo \in [Handlers -> Seq(Calls)]
    /\ \A h \in Handlers :
          /\ Shape(step[h], todo[h], next[h])
          /\ solo[h] => pc[h] = "busy" /\ \A g \in Handlers \ {h} : pc[g] = "idle"
          /\ pc[h] = "busy" /\ ~crossed => solo[h]
          /\ solo[h] => Begins(step[h], todo[h], next[h], fsmState, fields, copy[h])
          /\ solo[h] /\ ~crossed => Continues(step[h], todo[h], next[h], fsmState, fields, copy[h])
    /\ ~crossed /\ fsmState # "none" => Fits(fsmState, fields)

LEMMA FormInit == ConversationInit => FormInv
  <1> SUFFICES ASSUME ConversationInit PROVE FormInv
    OBVIOUS
  <1>1. crossed \in BOOLEAN /\ solo \in [Handlers -> BOOLEAN] /\ \A h \in Handlers : ~solo[h]
    BY Zenon DEF ConversationInit
  <1>2. /\ pc = [h \in Handlers |-> "idle"] /\ rowLock = NoOne
        /\ fsmState = "none" /\ fields = {} /\ crossings = 0
        /\ step = [h \in Handlers |-> "none"] /\ next = [h \in Handlers |-> "none"]
        /\ todo = [h \in Handlers |-> <<>>] /\ copy = [h \in Handlers |-> {}]
    BY DEF ConversationInit, TasksIdle
  <1>3. <<>> \in Seq(Calls) /\ Shape("none", <<>>, "none")
    BY DEF Shape
  <1>4. ConversationTypeOK
    BY <1>1, <1>2, <1>3, MaxCrossingsAssumption DEF ConversationTypeOK, Active
  <1> QED BY <1>1, <1>2, <1>3, <1>4 DEF FormInv

\* A handler takes one of its calls, or ends; it remains to show that what comes
\* next holds of what the call has left.
LEMMA OwnCall ==
    ASSUME FormInv, NEW h \in Handlers, todo[h] # <<>>, NEW after, NEW got \in SUBSET Fields,
           after = <<>> \/ after = Tail(todo[h]), GoesOn(h, after, got),
           fsmState' \in States \union {"none"}, fields' \subseteq Fields, crossed' \in BOOLEAN,
           ~crossed' => ~crossed \/ (after = <<>> /\ solo[h]),
           after # <<>> /\ solo[h] =>
              Begins(step[h], after, next[h], fsmState', fields', got),
           after # <<>> /\ solo[h] /\ ~crossed' =>
              Continues(step[h], after, next[h], fsmState', fields', got),
           solo[h] /\ ~crossed' /\ fsmState' # "none" => Fits(fsmState', fields')
    PROVE  FormInv'
  <1>1. /\ todo' = [todo EXCEPT ![h] = after]
        /\ pc' = [pc EXCEPT ![h] = IF after = <<>> THEN "idle" ELSE "busy"]
        /\ step' = [step EXCEPT ![h] = IF after = <<>> THEN "none" ELSE step[h]]
        /\ next' = [next EXCEPT ![h] = IF after = <<>> THEN "none" ELSE next[h]]
        /\ copy' = [copy EXCEPT ![h] = IF after = <<>> THEN {} ELSE got]
        /\ solo' = [solo EXCEPT ![h] = after # <<>> /\ solo[h]]
        /\ UNCHANGED <<crossings, rowLock>>
    BY DEF GoesOn
  <1>2. solo' \in [Handlers -> BOOLEAN] /\ (solo'[h] => after # <<>> /\ solo[h])
        /\ (after # <<>> /\ solo[h] => solo'[h]) /\ \A g \in Handlers \ {h} : solo'[g] = solo[g]
    <2>1. solo \in [Handlers -> BOOLEAN]
      BY DEF FormInv, ConversationTypeOK
    <2> QED BY <1>1, <2>1, Zenon
  <1>3. Shape(step[h], todo[h], next[h]) /\ pc[h] = "busy"
    BY DEF FormInv, ConversationTypeOK, Active
  <1>4. Shape(step'[h], after, next'[h]) /\ after \in Seq(Calls)
        /\ (after # <<>> => step'[h] = step[h] /\ next'[h] = next[h])
    <2>1. CASE after = <<>>
      BY <1>1, <2>1 DEF FormInv, ConversationTypeOK, Shape
    <2>2. CASE after # <<>>
      <3>1. step'[h] = step[h] /\ next'[h] = next[h]
        BY <1>1, <2>2 DEF FormInv, ConversationTypeOK
      <3>2. after = Tail(todo[h])
        BY <2>2
      <3>3. Shape(step[h], after, next[h])
        BY <1>3, <2>2, <3>2, ShapeGoesOn
      <3>4. after \in Seq(Calls)
        BY <3>3, ListTypes
      <3> QED BY <3>1, <3>3, <3>4
    <2> QED BY <2>1, <2>2
  <1>5. todo' \in [Handlers -> Seq(Calls)]
    BY <1>1, <1>4 DEF FormInv
  <1>6. ConversationTypeOK'
    <2>1. /\ pc' \in [Handlers -> {"idle", "busy"}] /\ rowLock' = NoOne
          /\ step' \in [Handlers -> States \union Forms \union {"none"}]
          /\ copy' \in [Handlers -> SUBSET Fields] /\ next' \in [Handlers -> States \union {"none"}]
          /\ crossings' \in 0 .. MaxCrossings
      BY <1>1 DEF FormInv, ConversationTypeOK
    <2>2. ASSUME NEW g \in Handlers PROVE todo'[g] \in Seq(Calls) /\ (pc'[g] \notin {"idle", "done"} <=> todo'[g] # <<>>)
      <3>1. CASE g = h
        BY <1>1, <1>4, <3>1 DEF FormInv, ConversationTypeOK
      <3>2. CASE g # h
        BY <1>1, <3>2 DEF FormInv, ConversationTypeOK, Active
      <3> QED BY <3>1, <3>2
    <2> QED BY <1>2, <2>1, <2>2 DEF ConversationTypeOK, Active
  <1>7. \A g \in Handlers \ {h} : ~solo'[g] /\ ~solo[g]
    BY <1>2, <1>3 DEF FormInv
  <1>8. ~crossed' => solo[h] /\ \A g \in Handlers \ {h} : pc[g] = "idle" /\ pc'[g] = "idle"
    BY <1>1, <1>3 DEF FormInv, ConversationTypeOK
  <1>9. \A g \in Handlers : Shape(step'[g], todo'[g], next'[g])
    BY <1>1, <1>4 DEF FormInv, ConversationTypeOK
  <1>10. solo'[h] => /\ pc'[h] = "busy" /\ \A g \in Handlers \ {h} : pc'[g] = "idle"
                     /\ todo'[h] = after /\ copy'[h] = got /\ after # <<>> /\ solo[h]
    BY <1>1, <1>2 DEF FormInv, ConversationTypeOK
  <1>11. pc'[h] = "busy" => after # <<>>
    BY <1>1 DEF FormInv, ConversationTypeOK
  <1>12. ~crossed' /\ fsmState' # "none" => Fits(fsmState', fields')
    BY <1>8
  <1>13. ASSUME NEW g \in Handlers
         PROVE  /\ solo'[g] => pc'[g] = "busy" /\ \A o \in Handlers \ {g} : pc'[o] = "idle"
                /\ pc'[g] = "busy" /\ ~crossed' => solo'[g]
                /\ solo'[g] => Begins(step'[g], todo'[g], next'[g], fsmState', fields', copy'[g])
                /\ solo'[g] /\ ~crossed' => Continues(step'[g], todo'[g], next'[g], fsmState', fields', copy'[g])
    <2>1. CASE g = h
      BY <1>2, <1>4, <1>8, <1>10, <1>11, <2>1
    <2>2. CASE g # h
      BY <1>7, <1>8, <2>2
    <2> QED BY <2>1, <2>2
  <1> QED BY <1>5, <1>6, <1>9, <1>12, <1>13 DEF FormInv, Begins, Continues, Fits, Shape, Late

\* Nothing of what a handler relies on is about the other handlers; a handler
\* that arrives finds the state that it was picked for.
LEMMA ArrivesForm ==
    ASSUME FormInv, NEW h \in Handlers, NEW s \in States \union Forms \union {"none"}, NEW calls,
           NEW n \in States \union {"none"}, Arrives(h, s, calls, n), Shape(s, calls, n), calls # <<>>,
           Begins(s, calls, n, fsmState, fields, copy[h]),
           ~crossed => Continues(s, calls, n, fsmState, fields, copy[h])
    PROVE  FormInv'
  <1>1. /\ pc[h] = "idle" /\ (~Alone(h) => crossings < MaxCrossings)
        /\ pc' = [pc EXCEPT ![h] = "busy"] /\ step' = [step EXCEPT ![h] = s]
        /\ todo' = [todo EXCEPT ![h] = calls] /\ next' = [next EXCEPT ![h] = n]
        /\ crossings' = (IF Alone(h) THEN crossings ELSE crossings + 1)
        /\ UNCHANGED <<fsmState, fields, copy, rowLock>>
    BY DEF Arrives, chatVars
  <1>2. /\ solo' \in [Handlers -> BOOLEAN] /\ (solo'[h] <=> Alone(h))
        /\ \A g \in Handlers \ {h} : ~solo'[g]
    <2>1. solo' = [g \in Handlers |-> g = h /\ Alone(h)]
      BY DEF Arrives
    <2> QED BY <2>1, Zenon
  <1>3. crossed' \in BOOLEAN /\ (~crossed' => ~crossed /\ Alone(h))
    <2>1. crossed' = (crossed \/ ~Alone(h))
      BY DEF Arrives
    <2> QED BY <2>1, Zenon
  <1>4. calls \in Seq(Calls)
    BY ListTypes
  <1>5. crossings' \in 0 .. MaxCrossings
    BY <1>1, MaxCrossingsAssumption DEF FormInv, ConversationTypeOK
  <1>6. ConversationTypeOK' /\ todo' \in [Handlers -> Seq(Calls)]
    BY <1>1, <1>2, <1>3, <1>4, <1>5 DEF FormInv, ConversationTypeOK, Active
  <1>7. \A g \in Handlers : Shape(step'[g], todo'[g], next'[g])
    BY <1>1 DEF FormInv, ConversationTypeOK
  <1>8. Alone(h) => \A g \in Handlers \ {h} : pc'[g] = "idle"
    BY <1>1 DEF FormInv, ConversationTypeOK, Alone, Active
  <1>9. pc'[h] = "busy" /\ step'[h] = s /\ todo'[h] = calls /\ next'[h] = n /\ copy'[h] = copy[h]
        /\ fsmState' = fsmState /\ fields' = fields
    BY <1>1 DEF FormInv, ConversationTypeOK
  <1>10. ASSUME NEW g \in Handlers
         PROVE  /\ solo'[g] => pc'[g] = "busy" /\ \A o \in Handlers \ {g} : pc'[o] = "idle"
                /\ pc'[g] = "busy" /\ ~crossed' => solo'[g]
                /\ solo'[g] => Begins(step'[g], todo'[g], next'[g], fsmState', fields', copy'[g])
                /\ solo'[g] /\ ~crossed' => Continues(step'[g], todo'[g], next'[g], fsmState', fields', copy'[g])
    <2>1. CASE g = h
      BY <1>2, <1>3, <1>8, <1>9, <2>1
    <2>2. CASE g # h
      BY <1>2, <1>3, <1>8, <2>2
    <2> QED BY <2>1, <2>2
  <1>11. ~crossed' /\ fsmState' # "none" => Fits(fsmState', fields')
    BY <1>3, <1>9 DEF FormInv
  <1> QED BY <1>6, <1>7, <1>10, <1>11 DEF FormInv, Begins, Continues, Fits, Shape, Late

\* Where a handler may start: with a state that is not to be "none" yet.
LEMMA FirstCall ==
    /\ \A s \in States : Head(Answer(s)) = "get" /\ Answer(s) # <<>> /\ ~(s = "content" /\ Late(Answer(s)))
    /\ \A f \in Forms : \A calls \in Start(f) : Head(calls) = "forget" /\ calls # <<>>
  <1>1. ASSUME NEW s \in States
        PROVE  Head(Answer(s)) = "get" /\ Answer(s) # <<>> /\ ~(s = "content" /\ Late(Answer(s)))
    BY DEF Answer, Late
  <1>2. ASSUME NEW f \in Forms, NEW calls \in Start(f)
        PROVE  Head(calls) = "forget" /\ calls # <<>>
    <2>1. CASE f = "order"
      BY <1>2, <2>1 DEF Start
    <2>2. CASE f = "payment"
      BY <1>2, <2>2 DEF Start
    <2>3. CASE f \in {"measurement", "broadcast"}
      BY <1>2, <2>3 DEF Start
    <2> QED BY <2>1, <2>2, <2>3 DEF Forms
  <1> QED BY <1>1, <1>2

LEMMA FormsAreNoStates == /\ "none" \notin States /\ \A f \in Forms : f \notin States /\ f # "none" /\ f # "ml_time"
                          /\ \A s \in States : s \notin Forms /\ s # "none"
                          /\ {"order", "payment", "measurement", "broadcast"} = Forms
  BY StatesAre DEF Forms

LEMMA FormArrivals ==
    ASSUME FormInv, NEW h \in Handlers,
           TakeAnswer(h) \/ BackToSegment(h) \/ StartForm(h) \/ Leave(h)
    PROVE  FormInv'
  <1>1. CASE TakeAnswer(h)
    <2> DEFINE s == fsmState
    <2>1. s \in States
      BY <1>1 DEF TakeAnswer, FormInv, ConversationTypeOK
    <2>2. PICK n \in IF Follows[s] = {} THEN {"none"} ELSE Follows[s] : Arrives(h, s, Answer(s), n)
      BY <1>1 DEF TakeAnswer
    <2>3. Shape(s, Answer(s), n)
      BY <2>1, <2>2, ShapeBegins
    <2>4. n \in States \union {"none"}
      BY <2>1, <2>2, StatesAre DEF Follows
    <2>5. Head(Answer(s)) = "get" /\ Answer(s) # <<>> /\ ~(s = "content" /\ Late(Answer(s)))
      BY <2>1, FirstCall
    <2>6. Begins(s, Answer(s), n, fsmState, fields, copy[h])
      BY <2>1, <2>5, FormsAreNoStates DEF Begins
    <2>7. ~crossed => Continues(s, Answer(s), n, fsmState, fields, copy[h])
      BY <2>1, <2>5, FormsAreNoStates DEF Continues, FormInv
    <2> QED BY <2>1, <2>2, <2>3, <2>4, <2>5, <2>6, <2>7, ArrivesForm
  <1>2. CASE BackToSegment(h)
    <2>1. fsmState = "stage" /\ Arrives(h, "stage", <<"goto">>, "segment") /\ "stage" \in States /\ "segment" \in States
      BY <1>2, StatesAre DEF BackToSegment
    <2>2. Head(<<"goto">>) = "goto" /\ <<"goto">> # <<>>
      OBVIOUS
    <2>3. Begins("stage", <<"goto">>, "segment", fsmState, fields, copy[h])
      BY <2>1, <2>2, FormsAreNoStates DEF Begins
    <2>4. ~crossed => Continues("stage", <<"goto">>, "segment", fsmState, fields, copy[h])
      BY <2>1, <2>2, FirstFits, FormsAreNoStates DEF Continues, FormInv
    <2> QED BY <2>1, <2>2, <2>3, <2>4, ShapeBegins, ArrivesForm
  <1>3. CASE StartForm(h)
    <2>f. PICK f \in Forms : \E calls \in Start(f) : Arrives(h, f, calls, First[f])
      BY <1>3 DEF StartForm
    <2>1. PICK calls \in Start(f) : Arrives(h, f, calls, First[f])
      BY <2>f
    <2>2. Shape(f, calls, First[f]) /\ Head(calls) = "forget" /\ calls # <<>>
      BY ShapeBegins, FirstCall
    <2>3. Begins(f, calls, First[f], fsmState, fields, copy[h])
          /\ Continues(f, calls, First[f], fsmState, fields, copy[h])
      BY <2>2, FormsAreNoStates DEF Begins, Continues
    <2>4. First[f] \in States
      BY FirstFits, FormsAreNoStates
    <2> QED BY <2>1, <2>2, <2>3, <2>4, ArrivesForm
  <1>4. CASE Leave(h)
    <2>1. Arrives(h, "none", <<"forget", "wipe">>, "none") /\ "none" \notin States /\ "none" \notin Forms
      BY <1>4, FormsAreNoStates DEF Leave
    <2>2. Head(<<"forget", "wipe">>) = "forget" /\ <<"forget", "wipe">> # <<>>
      OBVIOUS
    <2>3. Begins("none", <<"forget", "wipe">>, "none", fsmState, fields, copy[h])
          /\ Continues("none", <<"forget", "wipe">>, "none", fsmState, fields, copy[h])
      BY <2>1, <2>2 DEF Begins, Continues
    <2> QED BY <2>1, <2>2, <2>3, ShapeBegins, ArrivesForm
  <1> QED BY <1>1, <1>2, <1>3, <1>4

\* The calls in turn. What can be said of the place after a call follows from
\* what calls may be left (Shape) and what was said of the place before it.
LEMMA Here ==
    ASSUME FormInv, NEW h \in Handlers, todo[h] # <<>>
    PROVE  /\ Shape(step[h], todo[h], next[h]) /\ copy[h] \in SUBSET Fields
           /\ fsmState \in States \union {"none"} /\ fields \subseteq Fields
           /\ solo[h] => Begins(step[h], todo[h], next[h], fsmState, fields, copy[h])
           /\ solo[h] /\ ~crossed => Continues(step[h], todo[h], next[h], fsmState, fields, copy[h])
           /\ ~crossed => solo[h]
           /\ crossed \in BOOLEAN
           /\ ~crossed /\ fsmState # "none" => Fits(fsmState, fields)
  <1>1. pc[h] = "busy"
    BY DEF FormInv, ConversationTypeOK, Active
  <1> QED BY <1>1 DEF FormInv, ConversationTypeOK

LEMMA GetForm ==
    ASSUME FormInv, NEW h \in Handlers, Get(h)
    PROVE  FormInv'
  <1> DEFINE s == step[h]  T == todo[h]  n == next[h]
  <1>1. T # <<>> /\ Head(T) = "get" /\ GoesOn(h, Tail(T), fields) /\ UNCHANGED <<fsmState, fields, crossed>>
    BY DEF Get, Calling, chatVars
  <1>2. Shape(s, T, n)
    BY <1>1, Here
  <1> HIDE DEF s, T, n
  <1>3. \/ s \in Middle /\ T = Gp /\ Head(Tail(T)) = "put"
        \/ s = "content" /\ T = Ct /\ Head(Tail(T)) = "put"
        \/ s = "content" /\ T = Ct2 /\ Tail(T) = Gp2 /\ Head(Tail(T)) = "goto" /\ Late(T)
        \/ s = "location" /\ T = Lo /\ Head(Tail(T)) = "put"
        \/ s \in {"location", "proof", "confirming"} /\ T = Su /\ Head(Tail(T)) = "submit"
        \/ s = "ml_time" /\ T = Ti /\ Head(Tail(T)) = "forget"
        \/ s = "order" /\ T = Gp /\ Head(Tail(T)) = "put"
    BY <1>1, <1>2, ListTable, ZenonT(60) DEF Shape
  <1>4. ~Late(Tail(T)) \/ s # "content"
    BY <1>3, ListTable DEF Middle
  <1>5. solo[h] => Begins(s, Tail(T), n, fsmState, fields, fields)
    BY <1>1, <1>3, Here, FormsAreNoStates DEF Begins, Middle, s, T, n
  <1>6. solo[h] /\ ~crossed => Continues(s, Tail(T), n, fsmState, fields, fields)
    BY <1>1, <1>3, <1>4, Here, FormsAreNoStates DEF Continues, Middle, s, T, n
  <1>7. fields \in SUBSET Fields
    BY <1>1, Here DEF T
  <1> QED BY <1>1, <1>5, <1>6, <1>7, Here, OwnCall DEF s, T, n

LEMMA PutForm ==
    ASSUME FormInv, NEW h \in Handlers, Put(h)
    PROVE  FormInv'
  <1> DEFINE s == step[h]  T == todo[h]  n == next[h]
             data == copy[h] \union {IF s = "order" THEN "lead_id" ELSE Field(s)}
  <1>1. T # <<>> /\ Head(T) = "put" /\ GoesOn(h, Tail(T), copy[h]) /\ fields' = data
        /\ UNCHANGED <<fsmState, crossed>>
    BY DEF Put, Calling
  <1>2. Shape(s, T, n)
    BY <1>1, Here
  <1> HIDE DEF s, T, n
  <1>3. \/ s \in Middle /\ T = Gp1 /\ Tail(T) = Gp2 /\ Head(Tail(T)) = "goto" /\ n \in Follows[s]
        \/ s = "content" /\ T = Ct1 /\ Tail(T) = Ct2 /\ Head(Tail(T)) = "get" /\ n \in Follows[s]
        \/ s = "location" /\ T = Lo1 /\ Tail(T) = Su /\ Head(Tail(T)) = "get"
        \/ s = "order" /\ T = Gp1 /\ Tail(T) = Gp2 /\ Head(Tail(T)) = "goto" /\ n = "name"
    BY <1>1, <1>2, ListTable, ZenonT(60) DEF Shape
  <1>4. s \in Middle \union {"content", "location"} => s \in States /\ s \notin Forms /\ s # "ml_time" /\ s # "order"
    BY StatesAre, FormsAreNoStates DEF Middle
  <1>5. data \subseteq Fields
    <2>1. CASE s = "order"
      <3>1. "lead_id" \in Fields
        BY DEF Fields
      <3> QED BY <1>1, <2>1, <3>1, Here DEF T
    <2>2. CASE s \in Middle \union {"content", "location"}
      <3>1. Field(s) \in Fields
        BY <1>4, <2>2, StatesAre DEF Field, Fields, Middle
      <3> QED BY <1>1, <1>4, <2>2, <3>1, Here DEF T
    <2> QED BY <1>3, <2>1, <2>2
  <1>6. solo[h] => Begins(s, Tail(T), n, fsmState, data, copy[h])
    <2>1. CASE s = "order"
      <3>1. solo[h] => copy[h] = {} /\ fsmState = "none" /\ data = {"lead_id"}
        BY <1>1, <2>1, Here, FormsAreNoStates DEF Begins, s, T
      <3> QED BY <1>1, <1>3, <2>1, <3>1, FirstFits, FormsAreNoStates DEF Begins, Middle
    <2>2. CASE s \in Middle \union {"content", "location"}
      BY <1>3, <1>4, <2>2 DEF Begins
    <2> QED BY <1>3, <2>1, <2>2
  <1>7. solo[h] /\ ~crossed =>
           Continues(s, Tail(T), n, fsmState, data, copy[h]) /\ (fsmState # "none" => Fits(fsmState, data))
    <2>1. CASE s = "order"
      <3>1. solo[h] => fsmState = "none"
        BY <1>1, <2>1, Here, FormsAreNoStates DEF Begins, s, T
      <3> QED BY <2>1, <3>1, FormsAreNoStates DEF Continues
    <2>2. CASE s \in Middle \union {"content", "location"}
      <3> SUFFICES ASSUME solo[h], ~crossed
                   PROVE  Continues(s, Tail(T), n, fsmState, data, copy[h]) /\ (fsmState # "none" => Fits(fsmState, data))
        OBVIOUS
      <3>1. fsmState \in {s, "none"} /\ Fits(s, copy[h])
        BY <1>1, <1>4, <2>2, Here DEF Continues, s, T, n
      <3>2. data = copy[h] \union {Field(s)}
        BY <1>4, <2>2
      <3>3. Fits(s, data) /\ Field(s) \in data
        BY <2>2, <3>1, <3>2, AnswerFits
      <3>4. n \in Follows[s] => Fits(n, data)
        BY <1>4, <2>2, <3>3, NextFits
      <3>5. Tail(T) = Su => s = "location" /\ ~(Head(Tail(T)) = "goto")
        BY <1>3, ListTable
      <3> HIDE DEF data
      <3> QED BY <1>3, <1>4, <2>2, <3>1, <3>3, <3>4, <3>5 DEF Continues, Middle
    <2> QED BY <1>3, <2>1, <2>2
  <1> HIDE DEF data
  <1> QED BY <1>1, <1>5, <1>6, <1>7, Here, OwnCall DEF s, T, n

LEMMA AssignForm ==
    ASSUME FormInv, NEW h \in Handlers, Assign(h)
    PROVE  FormInv'
  <1> DEFINE s == step[h]  T == todo[h]  n == next[h]
  <1>1. T # <<>> /\ Head(T) = "assign" /\ GoesOn(h, Tail(T), copy[h]) /\ fields' = {"lead_id"}
        /\ UNCHANGED <<fsmState, crossed>>
    BY DEF Assign, Calling
  <1>2. Shape(s, T, n)
    BY <1>1, Here
  <1> HIDE DEF s, T, n
  <1>3. s = "payment" /\ n = "amount" /\ T = Pa2 /\ Tail(T) = Gp2 /\ Head(Tail(T)) = "goto"
    BY <1>1, <1>2, ListTable, ZenonT(60) DEF Shape
  <1>4. solo[h] => fsmState = "none"
    BY <1>1, <1>3, Here, FormsAreNoStates DEF Begins, s, T
  <1>5. solo[h] => Begins(s, Tail(T), n, fsmState, {"lead_id"}, copy[h])
    BY <1>3, <1>4, FirstFits DEF Begins
  <1>6. Continues(s, Tail(T), n, fsmState, {"lead_id"}, copy[h])
    BY <1>3, FormsAreNoStates DEF Continues
  <1>7. {"lead_id"} \subseteq Fields
    BY DEF Fields
  <1> QED BY <1>1, <1>4, <1>5, <1>6, <1>7, Here, OwnCall DEF s, T, n

LEMMA GotoForm ==
    ASSUME FormInv, NEW h \in Handlers, Goto(h)
    PROVE  FormInv'
  <1> DEFINE s == step[h]  T == todo[h]  n == next[h]
  <1>1. /\ T # <<>> /\ Head(T) = "goto" /\ GoesOn(h, Tail(T), copy[h]) /\ fsmState' = n /\ fields' = fields
        /\ crossed' = (crossed /\ ~(s \in Forms /\ solo[h]))
    BY DEF Goto, Calling
  <1>2. Shape(s, T, n)
    BY <1>1, Here
  <1>3. crossed' \in BOOLEAN /\ (~crossed' => ~crossed \/ (s \in Forms /\ solo[h]))
    BY <1>1, Zenon
  <1> HIDE DEF s, T, n
  <1>4. /\ T = Gp2 /\ Tail(T) = <<>>
        /\ \/ s \in Middle /\ n \in Follows[s]
           \/ s = "stage" /\ n = "segment"
           \/ s = "content" /\ n \in Follows[s]
           \/ s \in Forms /\ n = First[s]
    BY <1>1, <1>2, ListTable, FirstFits, ZenonT(60) DEF Shape, Forms
  <1>5. n \in States /\ (s \in States \/ s \in Forms)
    BY <1>4, StatesAre, FirstFits, FormsAreNoStates DEF Follows, Middle
  <1>6. solo[h] /\ ~crossed' => Fits(n, fields)
    <2>1. CASE s \in Forms
      BY <1>1, <2>1, Here DEF Begins, s, T, n
    <2>2. CASE s \in States
      BY <1>1, <1>3, <2>2, Here, FormsAreNoStates DEF Continues, s, T, n
    <2> QED BY <1>5, <2>1, <2>2
  <1>7. ~crossed' => ~crossed \/ (Tail(T) = <<>> /\ solo[h])
    BY <1>3, <1>4
  <1>8. fields \subseteq Fields /\ copy[h] \in SUBSET Fields
    BY <1>1, Here DEF T
  <1> QED BY <1>1, <1>3, <1>4, <1>5, <1>6, <1>7, <1>8, OwnCall DEF T, n

LEMMA SubmitForm ==
    ASSUME FormInv, NEW h \in Handlers, Submit(h)
    PROVE  FormInv'
  <1> DEFINE s == step[h]  T == todo[h]  n == next[h]
             after == IF Demanded(s) \subseteq copy[h] THEN Tail(T) ELSE <<>>
  <1>1. T # <<>> /\ Head(T) = "submit" /\ GoesOn(h, after, copy[h]) /\ UNCHANGED <<fsmState, fields, crossed>>
    BY DEF Submit, Calling, chatVars
  <1>2. Shape(s, T, n)
    BY <1>1, Here
  <1>3. after = <<>> \/ after = Tail(T)
    OBVIOUS
  <1> HIDE DEF s, T, n, after
  <1>4. \/ s \in {"location", "proof", "confirming"} /\ Head(Tail(T)) = "forget"
        \/ s = "ml_time" /\ Tail(T) = <<>>
    BY <1>1, <1>2, ListTable, ZenonT(60) DEF Shape
  <1>5. after # <<>> => s \in {"location", "proof", "confirming"} /\ after = Tail(T) /\ Head(after) = "forget"
    BY <1>3, <1>4
  <1>6. after # <<>> => Begins(s, after, n, fsmState, fields, copy[h])
    BY <1>5, FormsAreNoStates, StatesAre DEF Begins
  <1>7. after # <<>> /\ solo[h] /\ ~crossed => Continues(s, after, n, fsmState, fields, copy[h])
    BY <1>1, <1>5, Here DEF Continues, s, T, n
  <1> QED BY <1>1, <1>3, <1>6, <1>7, Here, OwnCall DEF s, T, n

LEMMA ForgetForm ==
    ASSUME FormInv, NEW h \in Handlers, Forget(h)
    PROVE  FormInv'
  <1> DEFINE s == step[h]  T == todo[h]  n == next[h]
  <1>1. T # <<>> /\ Head(T) = "forget" /\ GoesOn(h, Tail(T), copy[h]) /\ fsmState' = "none"
        /\ UNCHANGED <<fields, crossed>>
    BY DEF Forget, Calling
  <1>2. Shape(s, T, n)
    BY <1>1, Here
  <1> HIDE DEF s, T, n
  <1>3. Head(Tail(T)) = "wipe" /\ s # "content"
    BY <1>1, <1>2, ListTable, ZenonT(60) DEF Shape, Middle
  <1>4. Begins(s, Tail(T), n, "none", fields, copy[h])
    BY <1>3 DEF Begins
  <1>5. solo[h] /\ ~crossed => Continues(s, Tail(T), n, "none", fields, copy[h])
    BY <1>1, <1>3, Here DEF Continues, s, T, n
  <1> QED BY <1>1, <1>4, <1>5, Here, OwnCall DEF s, T, n

LEMMA WipeForm ==
    ASSUME FormInv, NEW h \in Handlers, Wipe(h)
    PROVE  FormInv'
  <1> DEFINE s == step[h]  T == todo[h]  n == next[h]
  <1>1. T # <<>> /\ Head(T) = "wipe" /\ GoesOn(h, Tail(T), copy[h]) /\ fields' = {}
        /\ UNCHANGED <<fsmState, crossed>>
    BY DEF Wipe, Calling
  <1>2. Shape(s, T, n)
    BY <1>1, Here
  <1> HIDE DEF s, T, n
  <1>3. \/ Tail(T) = <<>>
        \/ s = "ml_time" /\ Head(Tail(T)) = "submit"
        \/ s = "order" /\ Head(Tail(T)) = "get"
        \/ s = "payment" /\ Head(Tail(T)) = "assign"
        \/ s \in {"order", "measurement", "broadcast"} /\ n = First[s] /\ Head(Tail(T)) = "goto"
    <2>1. CASE s \notin Forms
      <3>1. T \in {Su3, Ti2} /\ (T = Ti2 => s = "ml_time")
        BY <1>1, <1>2, <2>1, ListTable, FormsAreNoStates, ZenonT(60) DEF Shape
      <3> QED BY <3>1, ListTable
    <2>2. CASE s \in Forms
      <3>1. \/ s = "order" /\ n = First[s] /\ T \in {Or1, Be1}
            \/ s = "payment" /\ T = Pa1
            \/ s \in {"measurement", "broadcast"} /\ n = First[s] /\ T = Be1
        BY <1>1, <1>2, <2>2, ListTable, FirstFits, FormsAreNoStates, ZenonT(60) DEF Shape, Middle
      <3> QED BY <3>1, ListTable, ZenonT(60)
    <2> QED BY <2>1, <2>2
  <1>4. solo[h] => fsmState = "none"
    BY <1>1, Here DEF Begins, s, T
  <1>5. Tail(T) # <<>> /\ solo[h] => Begins(s, Tail(T), n, fsmState, {}, copy[h])
    BY <1>3, <1>4, FirstFits, FormsAreNoStates DEF Begins
  <1>6. Tail(T) # <<>> /\ solo[h] /\ ~crossed => Continues(s, Tail(T), n, fsmState, {}, copy[h])
    BY <1>1, <1>3, <1>4, Here, FormsAreNoStates DEF Continues, s, T, n
  <1> QED BY <1>1, <1>4, <1>5, <1>6, Here, OwnCall DEF s, T, n

LEMMA DiesForm ==
    ASSUME FormInv, NEW h \in Handlers, Dies(h)
    PROVE  FormInv'
  <1>1. todo[h] # <<>> /\ GoesOn(h, <<>>, {}) /\ UNCHANGED <<fsmState, fields, crossed>>
    BY DEF Dies, chatVars, FormInv, ConversationTypeOK
  <1> QED BY <1>1, Here, OwnCall

LEMMA FormStep == FormInv /\ [ConversationNext]_conversationVars => FormInv'
  <1> SUFFICES ASSUME FormInv, [ConversationNext]_conversationVars PROVE FormInv'
    OBVIOUS
  <1>1. CASE UNCHANGED conversationVars
    BY <1>1 DEF conversationVars, chatVars, FormInv, ConversationTypeOK, Begins, Continues, Fits, Shape, Late, Active
  <1>2. CASE Intrude
    <2>1. fsmState' = "none" /\ UNCHANGED <<fields, step, todo, copy, next, solo, crossed, crossings, pc, rowLock>>
      BY <1>2 DEF Intrude
    <2>2. ConversationTypeOK'
      BY <2>1 DEF FormInv, ConversationTypeOK, Active
    <2>3. ASSUME NEW h \in Handlers
          PROVE  /\ solo[h] => Begins(step[h], todo[h], next[h], "none", fields, copy[h])
                 /\ solo[h] /\ ~crossed => Continues(step[h], todo[h], next[h], "none", fields, copy[h])
      BY DEF FormInv, Begins, Continues
    <2> QED BY <2>1, <2>2, <2>3 DEF FormInv, Begins, Continues, Fits, Shape, Late
  <1>3. ASSUME NEW h \in Handlers,
               \/ TakeAnswer(h) \/ BackToSegment(h) \/ StartForm(h) \/ Leave(h)
               \/ Get(h) \/ Put(h) \/ Assign(h) \/ Goto(h) \/ Submit(h) \/ Forget(h) \/ Wipe(h) \/ Dies(h)
        PROVE  FormInv'
    BY <1>3, FormArrivals, GetForm, PutForm, AssignForm, GotoForm, SubmitForm, ForgetForm, WipeForm, DiesForm
  <1> QED BY <1>1, <1>2, <1>3 DEF ConversationNext

\* The chat's state and data and the calls of every handler keep their types,
\* however many messages cross.
THEOREM ConversationTypes == ConversationSpec => []ConversationTypeOK
  <1>1. FormInv => ConversationTypeOK
    BY DEF FormInv
  <1> QED BY FormInit, FormStep, <1>1, PTL DEF ConversationSpec

\* For any number of messages, of which any may die between two calls: what is
\* submitted is all and only what was answered in this form, unless two messages
\* crossed since its start.
THEOREM SubmitsComplete == ConversationSpec => []SubmissionComplete
  <1>1. ASSUME FormInv, NEW h \in Handlers, Calling(h, "submit"), ~crossed
        PROVE  /\ Filled[step[h]] \subseteq copy[h]
               /\ copy[h] \subseteq Filled[step[h]] \union Extra(step[h])
    <2>1. todo[h] # <<>> /\ Head(todo[h]) = "submit"
      BY <1>1 DEF Calling
    <2>2. Shape(step[h], todo[h], next[h]) /\ solo[h]
      BY <1>1, <2>1, Here
    <2>3. step[h] \in {"location", "ml_time", "proof", "confirming"}
      BY <2>1, <2>2, ListTable DEF Shape
    <2>4. Fits(step[h], copy[h])
      BY <1>1, <2>1, <2>2, <2>3, Here, StatesAre DEF Continues
    <2> QED BY <2>3, <2>4, SubmittedFits
  <1>2. FormInv => SubmissionComplete
    BY <1>1 DEF SubmissionComplete
  <1> QED BY FormInit, FormStep, <1>2, PTL DEF ConversationSpec
=============================================================================
