------------------------- MODULE AgentPipelineProofs --------------------------
(***************************************************************************)
(* What the agent promises a customer, for any number of tasks and messages: *)
(* its variables keep their types, and an opt-out, a request for the         *)
(* operator and every proposed reply are treated as AgentHeeds says.         *)
(***************************************************************************)
EXTENDS AgentPipeline, FiniteSetTheorems, TLAPS

-----------------------------------------------------------------------------
(* Lists of rules                                                          *)

\* The reply is that of the first rule whose condition holds.
LEMMA FirstRuleIs ==
    ASSUME NEW rules, DOMAIN rules \subseteq Nat \ {0}, NEW i \in DOMAIN rules, rules[i][1],
           \A j \in 1 .. i - 1 : j \in DOMAIN rules /\ ~rules[j][1]
    PROVE  FirstRule(rules) = rules[i][2]
<1> DEFINE first == CHOOSE k \in DOMAIN rules : rules[k][1] /\ \A j \in 1 .. k - 1 : ~rules[j][1]
<1>1. first \in DOMAIN rules /\ rules[first][1] /\ \A j \in 1 .. first - 1 : ~rules[j][1]
  OBVIOUS
<1>2. first \in Nat \ {0} /\ i \in Nat \ {0}
  BY <1>1
<1> HIDE DEF first
<1>3. ~(first < i)
  <2> SUFFICES ASSUME first < i PROVE FALSE OBVIOUS
  <2>1. first \in 1 .. i - 1 BY <1>2
  <2> QED BY <2>1, <1>1
<1>4. ~(i < first)
  <2> SUFFICES ASSUME i < first PROVE FALSE OBVIOUS
  <2>1. i \in 1 .. first - 1 BY <1>2
  <2> QED BY <2>1, <1>1
<1>5. first = i BY <1>2, <1>3, <1>4
<1> QED BY <1>5 DEF FirstRule, first

\* Of eleven rules, the last of which always holds, one is the first.
LEMMA OneRuleIsFirst ==
    ASSUME NEW rules, DOMAIN rules = 1 .. 11, rules[11][1]
    PROVE  \E i \in 1 .. 11 : FirstRule(rules) = rules[i][2]
<1>1. \A i \in 1 .. 11 : rules[i][1] /\ (\A j \in 1 .. i - 1 : ~rules[j][1]) => FirstRule(rules) = rules[i][2]
  <2> SUFFICES ASSUME NEW i \in 1 .. 11, rules[i][1], \A j \in 1 .. i - 1 : ~rules[j][1]
               PROVE  FirstRule(rules) = rules[i][2]
    OBVIOUS
  <2>1. \A j \in 1 .. i - 1 : j \in DOMAIN rules /\ ~rules[j][1] OBVIOUS
  <2> QED BY FirstRuleIs, <2>1
<1>2. SUFFICES ASSUME \A i \in 1 .. 11 : ~(FirstRule(rules) = rules[i][2]) PROVE FALSE
  OBVIOUS
<1>3. \A i \in 1 .. 11 : rules[i][1] => \E j \in 1 .. i - 1 : rules[j][1]
  BY <1>1, <1>2
<1> QED BY SMT, <1>3

\* The policy's rules that matter below: who has opted out, who is silenced,
\* who asks for the operator, and whom the agent answers.
LEMMA PolicyOptsOut ==
    ASSUME NEW c, c.intent = "stop_request" \/ ~c.enabled
    PROVE  Policy(c) = "disable_agent"
<1> DEFINE rules == PolicyRules(c)
<1>1. DOMAIN rules = 1 .. 11 BY DEF PolicyRules
<1>2. rules[1][1] BY DEF PolicyRules
<1>3. rules[1][2] = "disable_agent" BY DEF PolicyRules
<1> HIDE DEF rules
<1>4. FirstRule(rules) = rules[1][2] BY FirstRuleIs, <1>1, <1>2
<1> QED BY <1>3, <1>4 DEF Policy, rules

LEMMA PolicyHandsOver ==
    ASSUME NEW c, c.intent = "wants_operator", c.enabled, c.state # "stopped", ~(c.count >= 3)
    PROVE  Policy(c) = "handoff_operator"
<1> DEFINE rules == PolicyRules(c)
<1>1. DOMAIN rules = 1 .. 11 BY DEF PolicyRules
<1>2. ~rules[1][1] BY DEF PolicyRules
<1>3. ~rules[2][1] BY DEF PolicyRules
<1>4. ~rules[3][1] BY DEF PolicyRules
<1>5. rules[4][1] BY DEF PolicyRules
<1>6. rules[4][2] = "handoff_operator" BY DEF PolicyRules
<1> HIDE DEF rules
<1>7. FirstRule(rules) = rules[4][2]
  <2>1. \A j \in 1 .. 4 - 1 : j \in DOMAIN rules /\ ~rules[j][1]
    BY SMT, <1>1, <1>2, <1>3, <1>4
  <2> QED BY FirstRuleIs, <2>1, <1>1, <1>5
<1> QED BY <1>6, <1>7 DEF Policy, rules

\* The agent answers only who wants something or doubts the price or the firm.
LEMMA PolicyReplies ==
    ASSUME NEW c, Policy(c) = "reply_now"
    PROVE  /\ c.enabled /\ c.intent # "stop_request"
           /\ c.intent \in Sells \/ c.objection \in {"price", "trust"}
<1>1. c.enabled /\ c.intent # "stop_request" BY PolicyOptsOut
<1> DEFINE rules == PolicyRules(c)
<1>2. DOMAIN rules = 1 .. 11 BY DEF PolicyRules
<1>3. rules[6][1] => c.intent \in Sells \/ c.objection \in {"price", "trust"} BY DEF PolicyRules
<1>4. rules[11][1] BY DEF PolicyRules
<1>5. \A i \in 1 .. 11 : rules[i][2] = "reply_now" => i = 6
  <2>1. rules[1][2] # "reply_now" BY DEF PolicyRules
  <2>2. rules[2][2] # "reply_now" BY DEF PolicyRules
  <2>3. rules[3][2] # "reply_now" BY DEF PolicyRules
  <2>4. rules[4][2] # "reply_now" BY DEF PolicyRules
  <2>5. rules[5][2] # "reply_now" BY DEF PolicyRules
  <2>6. rules[7][2] # "reply_now" BY DEF PolicyRules
  <2>7. rules[8][2] # "reply_now" BY DEF PolicyRules
  <2>8. rules[9][2] # "reply_now" BY DEF PolicyRules
  <2>9. rules[10][2] # "reply_now" BY DEF PolicyRules
  <2>10. rules[11][2] # "reply_now" BY DEF PolicyRules
  <2> HIDE DEF rules
  <2> QED BY SMT, <2>1, <2>2, <2>3, <2>4, <2>5, <2>6, <2>7, <2>8, <2>9, <2>10
<1> HIDE DEF rules
<1>6. \A i \in 1 .. 11 : rules[i][1] /\ (\A j \in 1 .. i - 1 : ~rules[j][1]) => i = 6
  <2> SUFFICES ASSUME NEW i \in 1 .. 11, rules[i][1], \A j \in 1 .. i - 1 : ~rules[j][1]
               PROVE  i = 6
    OBVIOUS
  <2>1. \A j \in 1 .. i - 1 : j \in DOMAIN rules /\ ~rules[j][1] BY <1>2
  <2>2. FirstRule(rules) = rules[i][2] BY FirstRuleIs, <1>2, <2>1
  <2> QED BY <2>2, <1>5 DEF Policy, rules
<1>7. rules[6][1] BY SMT, <1>4, <1>6
<1> QED BY <1>1, <1>3, <1>7

\* Wherever the agent answers, the offer has a text.
LEMMA OfferHasText ==
    ASSUME NEW c, c.enabled, c.intent # "stop_request",
           c.intent \in Sells \/ c.objection \in {"price", "trust"}
    PROVE  OfferText(c) # "none"
<1> DEFINE rules == OfferRules(c)
<1>1. DOMAIN rules = 1 .. 13 BY DEF OfferRules
<1>2. ~rules[1][1] BY DEF OfferRules
<1>3. \A i \in 2 .. 11 : rules[i][2] # "none"
  <2>1. rules[2][2] # "none" BY DEF OfferRules
  <2>2. rules[3][2] # "none" BY DEF OfferRules
  <2>3. rules[4][2] # "none" BY DEF OfferRules
  <2>4. rules[5][2] # "none" BY DEF OfferRules
  <2>5. rules[6][2] # "none" BY DEF OfferRules
  <2>6. rules[7][2] # "none" BY DEF OfferRules
  <2>7. rules[8][2] # "none" BY DEF OfferRules
  <2>8. rules[9][2] # "none" BY DEF OfferRules
  <2>9. rules[10][2] # "none" BY DEF OfferRules
  <2>10. rules[11][2] # "none" BY DEF OfferRules
  <2> HIDE DEF rules
  <2> QED BY SMT, <2>1, <2>2, <2>3, <2>4, <2>5, <2>6, <2>7, <2>8, <2>9, <2>10
<1>4. \E i \in 2 .. 11 : rules[i][1]
  <2>1. c.objection = "price" => rules[3][1] BY DEF OfferRules
  <2>2. c.objection = "trust" => rules[4][1] BY DEF OfferRules
  <2>3. c.intent = "wants_order" => rules[7][1] BY DEF OfferRules
  <2>4. c.intent = "wants_measurement" => rules[8][1] BY DEF OfferRules
  <2>5. c.intent = "wants_price" => rules[9][1] BY DEF OfferRules
  <2>6. c.intent = "wants_catalog" => rules[10][1] BY DEF OfferRules
  <2>7. c.intent = "wants_discount" => rules[11][1] BY DEF OfferRules
  <2> HIDE DEF rules
  <2>8. \/ rules[3][1] \/ rules[4][1] \/ rules[7][1] \/ rules[8][1] \/ rules[9][1]
        \/ rules[10][1] \/ rules[11][1]
    BY <2>1, <2>2, <2>3, <2>4, <2>5, <2>6, <2>7 DEF Sells
  <2> QED BY SMT, <2>8
<1> HIDE DEF rules
<1>5. \A i \in 2 .. 11 : rules[i][1] /\ (\A j \in 1 .. i - 1 : ~rules[j][1]) => FirstRule(rules) # "none"
  <2> SUFFICES ASSUME NEW i \in 2 .. 11, rules[i][1], \A j \in 1 .. i - 1 : ~rules[j][1]
               PROVE  FirstRule(rules) # "none"
    OBVIOUS
  <2>1. \A j \in 1 .. i - 1 : j \in DOMAIN rules /\ ~rules[j][1] BY <1>1
  <2>2. FirstRule(rules) = rules[i][2] BY FirstRuleIs, <1>1, <2>1
  <2> QED BY <2>2, <1>3
<1> QED BY SMT, <1>2, <1>4, <1>5 DEF OfferText, rules

\* What the policy may say, and what the pipeline makes of it.
LEMMA PolicyKnown ==
    ASSUME NEW c
    PROVE  Policy(c) \in {"disable_agent", "no_action", "handoff_operator", "escalate_admin",
                          "reply_now", "wait_and_observe", "schedule_followup"}
<1> DEFINE rules == PolicyRules(c)
           known == {"disable_agent", "no_action", "handoff_operator", "escalate_admin",
                     "reply_now", "wait_and_observe", "schedule_followup"}
<1>1. DOMAIN rules = 1 .. 11 BY DEF PolicyRules
<1>2. rules[11][1] BY DEF PolicyRules
<1>3. rules[1][2] \in known BY DEF PolicyRules
<1>4. rules[2][2] \in known BY DEF PolicyRules
<1>5. rules[3][2] \in known BY DEF PolicyRules
<1>6. rules[4][2] \in known BY DEF PolicyRules
<1>7. rules[5][2] \in known BY DEF PolicyRules
<1>8. rules[6][2] \in known BY DEF PolicyRules
<1>9. rules[7][2] \in known BY DEF PolicyRules
<1>10. rules[8][2] \in known BY DEF PolicyRules
<1>11. rules[9][2] \in known BY DEF PolicyRules
<1>12. rules[10][2] \in known BY DEF PolicyRules
<1>13. rules[11][2] \in known BY DEF PolicyRules
<1> HIDE DEF rules
<1>14. PICK i \in 1 .. 11 : FirstRule(rules) = rules[i][2] BY OneRuleIsFirst, <1>1, <1>2
<1> HIDE DEF known
<1>15. \A k \in 1 .. 11 : rules[k][2] \in known
  BY SMT, <1>3, <1>4, <1>5, <1>6, <1>7, <1>8, <1>9, <1>10, <1>11, <1>12, <1>13
<1>16. FirstRule(rules) \in known BY <1>14, <1>15
<1> QED BY <1>16 DEF Policy, rules, known

LEMMA PayloadKnown ==
    ASSUME NEW c
    PROVE  PayloadAction(c) \in Actions
  BY PolicyKnown DEF PayloadAction, Actions

\* Whoever has said stop, or whose agent is off, gets the agent disabled.
LEMMA PayloadOptsOut ==
    ASSUME NEW c, c.intent = "stop_request" \/ ~c.enabled
    PROVE  PayloadAction(c) = "disable_agent"
  BY PolicyOptsOut DEF PayloadAction

LEMMA PayloadHandsOver ==
    ASSUME NEW c, c.intent = "wants_operator", c.enabled, c.state # "stopped", ~(c.count >= 3)
    PROVE  PayloadAction(c) = "handoff_operator"
  BY PolicyHandsOver DEF PayloadAction

\* A proposed reply has a text.
LEMMA PayloadHasText ==
    ASSUME NEW c, PayloadAction(c) = "send_user_reply"
    PROVE  PayloadText(c) # "none"
<1>1. Policy(c) = "reply_now"
  BY PolicyKnown DEF PayloadAction
<1>2. OfferText(c) # "none"
  BY <1>1, PolicyReplies, OfferHasText
<1> QED BY <1>2 DEF PayloadText

-----------------------------------------------------------------------------
(* Types                                                                   *)

\* What the first group that a text hits may be: one of at most seven, or none.
LEMMA FirstHitType ==
    ASSUME NEW order, NEW t, NEW none, NEW n \in 1 .. 7, DOMAIN order = 1 .. n
    PROVE  FirstHit(order, t, none) \in {order[i] : i \in DOMAIN order} \union {none}
<1>1. CASE \A i \in DOMAIN order : order[i] \notin t
  BY <1>1 DEF FirstHit
<1>2. CASE \E i \in DOMAIN order : order[i] \in t
  <2>1. \E i \in 1 .. n : order[i] \in t /\ \A j \in 1 .. i - 1 : order[j] \notin t
    <3>1. SUFFICES ASSUME \A i \in 1 .. n : order[i] \in t => \E j \in 1 .. i - 1 : order[j] \in t
                   PROVE  FALSE
      OBVIOUS
    <3> DEFINE in(i) == i <= n /\ order[i] \in t
    <3>2. \A i \in 1 .. 7 : in(i) => \E j \in 1 .. i - 1 : in(j)
      BY <3>1
    <3>3. \E i \in 1 .. 7 : in(i)
      BY <1>2
    <3> HIDE DEF in
    <3> QED BY SMT, <3>2, <3>3
  <2>2. (CHOOSE i \in DOMAIN order : order[i] \in t /\ \A j \in 1 .. i - 1 : order[j] \notin t)
           \in DOMAIN order
    BY <2>1
  <2> QED BY <1>2, <2>2 DEF FirstHit
<1> QED BY <1>1, <1>2

LEMMA ObjectionType ==
    ASSUME NEW t
    PROVE  Objection(t) \in ObjectionGroups \union {"none"}
<1>1. DOMAIN ObjectionOrder = 1 .. 4 BY DEF ObjectionOrder
<1> QED BY <1>1, FirstHitType DEF Objection, ObjectionGroups

LEMMA IntentType ==
    ASSUME NEW t
    PROVE  Intent(t) \in IntentGroups \union {"sends_objection", "unclear"}
<1>1. DOMAIN IntentOrder = 1 .. 7 BY DEF IntentOrder
<1> QED BY <1>1, FirstHitType DEF Intent, IntentGroups

\* A message is a finite set of groups.
LEMMA MessageType ==
    ASSUME NEW t \in Messages
    PROVE  t \subseteq Hits /\ Cardinality(t) \in Nat
<1>1. CASE t = {}
  BY <1>1, FS_EmptySet
<1>2. CASE t \in {{f[i] : i \in 1 .. MaxHits} : f \in [1 .. MaxHits -> Hits]}
  <2>1. PICK f \in [1 .. MaxHits -> Hits] : t = {f[i] : i \in 1 .. MaxHits}
    BY <1>2
  <2>2. f \in Surjection(1 .. MaxHits, t)
    BY <2>1 DEF Surjection
  <2>3. IsFiniteSet(1 .. MaxHits)
    BY PipelineAssumption, FS_Interval DEF PipelineAssumption
  <2>4. IsFiniteSet(t)
    BY <2>2, <2>3, FS_Surjection
  <2> QED BY <2>1, <2>4, FS_CardinalityType
<1> QED BY <1>1, <1>2 DEF Messages

LEMMA UpdatedType ==
    ASSUME NEW data \in Data, NEW t
    PROVE  Updated(data, t) \in Data
  BY IntentType, ObjectionType DEF Updated, Data, Urgency

LEMMA FreshType == Fresh \in Data
  BY DEF Fresh, Data

\* The row of agent_memory.
RowTypes == [enabled : BOOLEAN, temp : {"cold", "warm", "hot"}, count : Nat,
             area : BOOLEAN, data : Data]

LEMMA AgentTypesInit == AgentInit => AgentTypeOK
<1> SUFFICES ASSUME AgentInit PROVE AgentTypeOK
  OBVIOUS
<1>1. PICK r \in [enabled : {TRUE}, temp : {"cold", "warm", "hot"}, count : {0, 3},
                  area : {FALSE}, data : {Fresh}] : agentRow = r
  BY DEF AgentInit
<1>2. r \in RowTypes
  <2>1. r.enabled \in BOOLEAN /\ r.temp \in {"cold", "warm", "hot"} OBVIOUS
  <2>2. r.count \in Nat OBVIOUS
  <2>3. r.area \in BOOLEAN /\ r.data \in Data BY FreshType
  <2>4. r = [enabled |-> r.enabled, temp |-> r.temp, count |-> r.count, area |-> r.area,
             data |-> r.data]
    OBVIOUS
  <2> QED BY <2>1, <2>2, <2>3, <2>4 DEF RowTypes
<1>3. payload.action \in Actions \union {"none"}
  BY DEF AgentInit, NoPayload
<1> QED BY <1>1, <1>2, <1>3, FreshType DEF AgentInit, AgentTypeOK, TasksIdle, RowTypes

LEMMA AgentTypesStep ==
    ASSUME AgentTypeOK, [AgentNext]_agentVars
    PROVE  AgentTypeOK'
<1>0. NoPayload.action \in Actions \union {"none"}
  BY DEF NoPayload
<1>u. CASE UNCHANGED agentVars
  BY <1>u DEF agentVars, AgentTypeOK
<1>o. CASE OptOut
  BY <1>o, <1>0 DEF OptOut, AgentTypeOK
<1>r. CASE Receive
  <2>1. PICK t \in Messages, g \in Handlers, h \in Handlers :
           /\ hits' = hits + Cardinality(t)
           /\ said' = [said EXCEPT ![g] = IF Confidence(t) >= MinConfidence THEN t ELSE {}, ![h] = t]
           /\ pc' = [pc EXCEPT ![g] = IF Confidence(t) >= MinConfidence THEN "signal" ELSE "idle",
                               ![h] = "decide"]
    BY <1>r DEF Receive
  <2>2. t \subseteq Hits /\ Cardinality(t) \in Nat
    BY MessageType
  <2>3. hits' \in Nat
    BY <2>1, <2>2 DEF AgentTypeOK
  <2>4. said' \in [Handlers -> SUBSET Hits]
    BY <2>1, <2>2 DEF AgentTypeOK
  <2>5. pc' \in [Handlers -> {"idle", "signal", "store", "decide", "trace", "keep"}]
    BY <2>1 DEF AgentTypeOK
  <2>6. texts' \in Nat
    BY <1>r DEF Receive, AgentTypeOK
  <2> QED BY <1>r, <1>0, <2>3, <2>4, <2>5, <2>6 DEF Receive, AgentTypeOK
<1>h. ASSUME NEW h \in Handlers,
             \/ LoadForSignal(h) \/ StoreSignal(h) \/ RunPipeline(h) \/ RunPipelineUnread(h)
             \/ LoadForTrace(h) \/ KeepTrace(h) \/ AgentTaskDies(h)
      PROVE  AgentTypeOK'
  <2>1. CASE LoadForSignal(h) \/ LoadForTrace(h)
    BY <2>1, <1>0 DEF LoadForSignal, LoadForTrace, AgentGoes, AgentTypeOK
  <2>2. CASE StoreSignal(h)
    <3>1. Updated(dataRead[h], said[h]) \in Data
      BY UpdatedType DEF AgentTypeOK
    <3>2. agentRow' \in RowTypes
      BY <2>2, <3>1 DEF StoreSignal, AgentTypeOK, RowTypes
    <3>3. declined' \in BOOLEAN
      BY <2>2 DEF StoreSignal, AgentTypeOK
    <3> QED BY <2>2, <1>0, <3>2, <3>3, FreshType
            DEF StoreSignal, AgentTaskEnds, AgentGoes, AgentTypeOK, RowTypes
  <2>3. CASE RunPipeline(h) \/ RunPipelineUnread(h)
    <3>1. payload'.action \in Actions
      BY <2>3, PayloadKnown DEF RunPipeline, RunPipelineUnread, Payload
    <3> QED BY <2>3, <3>1 DEF RunPipeline, RunPipelineUnread, AgentGoes, AgentTypeOK
  <2>4. CASE KeepTrace(h)
    <3>1. agentRow' \in RowTypes
      BY <2>4 DEF KeepTrace, AgentTypeOK, RowTypes
    <3> QED BY <2>4, <1>0, <3>1, FreshType
            DEF KeepTrace, AgentTaskEnds, AgentGoes, AgentTypeOK, RowTypes
  <2>5. CASE AgentTaskDies(h)
    BY <2>5, <1>0, FreshType DEF AgentTaskDies, AgentTaskEnds, AgentGoes, AgentTypeOK
  <2> QED BY <1>h, <2>1, <2>2, <2>3, <2>4, <2>5
<1> QED BY <1>u, <1>o, <1>r, <1>h DEF AgentNext

\* The rows, copies and payloads of the agent keep their types, and no message
\* or task is lost count of, for any number of tasks and messages.
THEOREM AgentTypes == AgentSpec => []AgentTypeOK
<1>1. AgentInit => AgentTypeOK BY AgentTypesInit
<1>2. AgentTypeOK /\ [AgentNext]_agentVars => AgentTypeOK' BY AgentTypesStep
<1> QED BY <1>1, <1>2, PTL DEF AgentSpec

-----------------------------------------------------------------------------
(* Opting out                                                              *)

\* The agent is off exactly when an opt-out has been committed, and wherever the
\* data says that the customer has declined, in the row or in a task's copy of
\* it, one has: without the copies a trace could bring the row out of step.
DeclinedIsKept ==
    /\ declined <=> ~agentRow.enabled
    /\ agentRow.data.intent = "stop_request" => declined
    /\ \A h \in Handlers : dataRead[h].intent = "stop_request" => declined

AgentInv == AgentTypeOK /\ DeclinedIsKept

LEMMA AgentInvInit == AgentInit => AgentInv
<1> SUFFICES ASSUME AgentInit PROVE DeclinedIsKept
  BY AgentTypesInit DEF AgentInv
<1>1. agentRow.enabled /\ agentRow.data = Fresh /\ ~declined
  BY DEF AgentInit
<1>2. \A h \in Handlers : dataRead[h] = Fresh
  BY DEF AgentInit
<1>3. Fresh.intent # "stop_request"
  BY DEF Fresh
<1> QED BY <1>1, <1>2, <1>3 DEF DeclinedIsKept

LEMMA AgentInvStep ==
    ASSUME AgentInv, [AgentNext]_agentVars
    PROVE  AgentInv'
<1>t. AgentTypeOK /\ DeclinedIsKept
  BY DEF AgentInv
<1> SUFFICES DeclinedIsKept'
  BY <1>t, AgentTypesStep DEF AgentInv
<1>u. UNCHANGED <<agentRow, dataRead, declined>> => DeclinedIsKept'
  BY <1>t DEF DeclinedIsKept
<1>o. CASE OptOut
  <2>1. ~agentRow'.enabled /\ declined'
    BY <1>o, <1>t DEF OptOut, AgentTypeOK
  <2> QED BY <2>1 DEF DeclinedIsKept
<1>h. ASSUME NEW h \in Handlers,
             \/ LoadForSignal(h) \/ StoreSignal(h) \/ RunPipeline(h) \/ RunPipelineUnread(h)
             \/ LoadForTrace(h) \/ KeepTrace(h) \/ AgentTaskDies(h)
      PROVE  DeclinedIsKept'
  <2>1. CASE LoadForSignal(h) \/ LoadForTrace(h)
    BY <2>1, <1>t DEF LoadForSignal, LoadForTrace, DeclinedIsKept, AgentTypeOK
  <2>2. CASE RunPipeline(h) \/ RunPipelineUnread(h)
    BY <2>2, <1>u DEF RunPipeline, RunPipelineUnread
  <2>3. CASE StoreSignal(h) \/ KeepTrace(h) \/ AgentTaskDies(h)
    <3>1. \A o \in Handlers : dataRead'[o].intent = "stop_request" => dataRead[o].intent = "stop_request"
      BY <2>3, <1>t DEF StoreSignal, KeepTrace, AgentTaskDies, AgentTaskEnds, AgentTypeOK, Fresh
    <3>2. CASE StoreSignal(h)
      <4>1. declined' <=> (declined \/ Intent(said[h]) = "stop_request")
        BY <3>2 DEF StoreSignal
      <4>2. agentRow'.enabled <=> (agentRow.enabled /\ Intent(said[h]) # "stop_request")
        BY <3>2, <1>t DEF StoreSignal, AgentTypeOK
      <4>3. agentRow'.data.intent = Intent(said[h])
        BY <3>2, <1>t DEF StoreSignal, AgentTypeOK, Updated
      <4> QED BY <4>1, <4>2, <4>3, <3>1, <1>t DEF DeclinedIsKept
    <3>3. CASE KeepTrace(h)
      <4>1. declined' = declined
        BY <3>3 DEF KeepTrace
      <4>2. agentRow'.enabled = agentRow.enabled
        BY <3>3, <1>t DEF KeepTrace, AgentTypeOK
      <4>3. agentRow'.data = dataRead[h]
        BY <3>3, <1>t DEF KeepTrace, AgentTypeOK
      <4> QED BY <4>1, <4>2, <4>3, <3>1, <1>t DEF DeclinedIsKept
    <3>4. CASE AgentTaskDies(h)
      BY <3>4, <3>1, <1>t DEF AgentTaskDies, DeclinedIsKept
    <3> QED BY <2>3, <3>2, <3>3, <3>4
  <2> QED BY <1>h, <2>1, <2>2, <2>3
<1>r. CASE Receive
  BY <1>r, <1>u DEF Receive
<1>n. CASE UNCHANGED agentVars
  BY <1>n, <1>u DEF agentVars
<1> QED BY <1>n, <1>o, <1>r, <1>h DEF AgentNext

LEMMA AgentInvAlways == AgentSpec => []AgentInv
<1>1. AgentInit => AgentInv BY AgentInvInit
<1>2. AgentInv /\ [AgentNext]_agentVars => AgentInv' BY AgentInvStep
<1> QED BY <1>1, <1>2, PTL DEF AgentSpec

\* What one run of the pipeline on the row ends with.
LEMMA PipelineHeeds ==
    ASSUME AgentInv, NEW h \in Handlers, RunPipeline(h)
    PROVE  /\ declined \/ Intent(said[h]) = "stop_request" => payload'.action = "disable_agent"
           /\ Intent(said[h]) = "wants_operator" /\ ~declined /\ agentRow.count < 3 =>
                 payload'.action = "handoff_operator"
           /\ payload'.action = "send_user_reply" => payload'.text # "none"
<1> DEFINE c == Context(agentRow, said[h])
<1>1. /\ c.intent = Intent(said[h]) /\ c.enabled = agentRow.enabled
      /\ c.count = agentRow.count /\ c.state = CustomerState(agentRow)
  BY DEF Context
<1>2. payload'.action = PayloadAction(c) /\ payload'.text = PayloadText(c)
  BY DEF RunPipeline, Payload
<1>3. declined <=> ~agentRow.enabled
  BY DEF AgentInv, DeclinedIsKept
<1>4. ~declined => CustomerState(agentRow) # "stopped"
  BY DEF AgentInv, DeclinedIsKept, CustomerState
<1>5. agentRow.count < 3 => ~(agentRow.count >= 3)
  BY DEF AgentInv, AgentTypeOK
<1> HIDE DEF c
<1>6. declined \/ Intent(said[h]) = "stop_request" => payload'.action = "disable_agent"
  BY <1>1, <1>2, <1>3, PayloadOptsOut
<1>7. Intent(said[h]) = "wants_operator" /\ ~declined /\ agentRow.count < 3 =>
         payload'.action = "handoff_operator"
  BY <1>1, <1>2, <1>3, <1>4, <1>5, PayloadHandsOver
<1>8. payload'.action = "send_user_reply" => payload'.text # "none"
  BY <1>2, PayloadHasText
<1> QED BY <1>6, <1>7, <1>8

\* An opt-out, a request for the operator and every proposed reply are treated
\* as AgentHeeds says, however tasks and messages cross.
THEOREM AgentHeedsAlways == AgentSpec => AgentHeeds
<1>1. AgentInv => [\A h \in Handlers : RunPipeline(h) =>
          /\ declined \/ Intent(said[h]) = "stop_request" => payload'.action = "disable_agent"
          /\ Intent(said[h]) = "wants_operator" /\ ~declined /\ agentRow.count < 3 =>
                payload'.action = "handoff_operator"
          /\ payload'.action = "send_user_reply" => payload'.text # "none"]_agentVars
  BY PipelineHeeds
<1> QED BY <1>1, AgentInvAlways, PTL DEF AgentHeeds
=============================================================================
