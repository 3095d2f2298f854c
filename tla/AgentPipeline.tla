---------------------------- MODULE AgentPipeline -----------------------------
(***************************************************************************)
(* What the agent makes of a customer's message beside the reply: one task   *)
(* keeps the message's signals in the row of agent_memory, another runs the  *)
(* pipeline (signals, decision, offer, policy, payload) on that row and      *)
(* keeps a trace. Both rewrite the JSON column memory_data from a copy; the  *)
(* other columns are written one by one. A text is modelled by the groups of *)
(* keywords that it hits.                                                    *)
(***************************************************************************)
EXTENDS HandlerTasks, Sequences, FiniteSets

CONSTANTS
    MinConfidence,  \* agent_lead_signal_min_confidence
    MaxTexts,       \* bound: messages
    MaxHits         \* bound: groups that all texts hit

ASSUME PipelineAssumption == MinConfidence \in Nat /\ MaxTexts \in Nat /\ MaxHits \in Nat

\* detect_intent and detect_objection try their groups in these orders.
IntentOrder == <<"stop_request", "wants_order", "wants_operator", "wants_measurement",
                 "wants_price", "wants_catalog", "wants_discount">>
ObjectionOrder == <<"price", "trust", "not_ready", "comparing">>
IntentGroups == {IntentOrder[i] : i \in DOMAIN IntentOrder}
ObjectionGroups == {ObjectionOrder[i] : i \in DOMAIN ObjectionOrder}
Hits == IntentGroups \union ObjectionGroups \union {"urgent", "area", "two words"}
Messages == {{}} \union {{f[i] : i \in 1 .. MaxHits} : f \in [1 .. MaxHits -> Hits]}

VARIABLES
    agentRow,   \* the row: followup_enabled, lead_temperature, followup_count,
                \* area_m2, and of memory_data the last intent, objection, urgency
    texts,      \* messages so far
    hits,       \* groups that they have hit
    said,       \* the message a task is about
    dataRead,   \* memory_data as a task has loaded it
    payload,    \* action and text, in the step in which a pipeline has run
    declined    \* history: an opt-out has been committed

agentVars == <<agentRow, texts, hits, said, dataRead, payload, declined, pc, rowLock>>

Fresh == [intent |-> "unclear", objection |-> "none", urgency |-> "low"]
Data == [intent : IntentGroups \union {"sends_objection", "unclear"},
         objection : ObjectionGroups \union {"none"}, urgency : {"low", "high"}]
Actions == {"disable_agent", "no_action", "handoff_operator", "send_admin_alert",
            "send_user_reply", "schedule_followup", "store_memory_only"}

NoPayload == [action |-> "none", text |-> "none"]

AgentTypeOK ==
    /\ agentRow \in [enabled : BOOLEAN, temp : {"cold", "warm", "hot"}, count : Nat,
                     area : BOOLEAN, data : Data]
    /\ texts \in Nat /\ hits \in Nat
    /\ said \in [Handlers -> SUBSET Hits] /\ dataRead \in [Handlers -> Data]
    /\ payload.action \in Actions \union {"none"} /\ declined \in BOOLEAN /\ rowLock = NoOne
    /\ pc \in [Handlers -> {"idle", "signal", "store", "decide", "trace", "keep"}]

AgentInit ==
    /\ TasksIdle
    /\ agentRow \in [enabled : {TRUE}, temp : {"cold", "warm", "hot"}, count : {0, 3},
                     area : {FALSE}, data : {Fresh}]
    /\ texts = 0 /\ hits = 0
    /\ said = [h \in Handlers |-> {}] /\ dataRead = [h \in Handlers |-> Fresh]
    /\ payload = NoPayload /\ declined = FALSE

-----------------------------------------------------------------------------
\* The first member of the list that the text hits.
FirstHit(order, t, none) ==
    IF \A i \in DOMAIN order : order[i] \notin t THEN none
    ELSE order[CHOOSE i \in DOMAIN order : order[i] \in t /\ \A j \in 1 .. i - 1 : order[j] \notin t]

Objection(t) == FirstHit(ObjectionOrder, t, "none")
Intent(t) == FirstHit(IntentOrder, t, IF Objection(t) = "none" THEN "unclear" ELSE "sends_objection")
Urgency(t) == IF "urgent" \in t THEN "high" ELSE "low"

\* _compute_confidence; a budget is one of the two words.
Confidence(t) ==
    (IF Intent(t) # "unclear" THEN 40 ELSE 0) + (IF Objection(t) # "none" THEN 20 ELSE 0)
    + (IF "urgent" \in t THEN 15 ELSE 0) + (IF "area" \in t THEN 15 ELSE 0)
    + (IF "two words" \in t \/ Cardinality(t \ {"area"}) >= 2 THEN 10 ELSE 0)

\* update_memory_from_signal: an objection stays until another takes its place.
Updated(data, t) ==
    [intent |-> Intent(t), urgency |-> Urgency(t),
     objection |-> IF Objection(t) = "none" THEN data.objection ELSE Objection(t)]

-----------------------------------------------------------------------------
(* The pipeline                                                            *)

\* classify_customer_state, which is given no events here.
CustomerState(row) ==
    CASE ~row.enabled                       -> "stopped"
      [] row.data.objection = "price"       -> "negotiating_price"
      [] row.data.intent = "stop_request"   -> "stopped"
      [] row.data.intent = "wants_operator" -> "operator_handoff"
      [] row.data.intent = "wants_order"    -> "order_intent"
      [] row.data.intent = "wants_price"    -> IF row.area THEN "price_considering" ELSE "price_checking"
      [] OTHER                              -> "new_visitor"

\* What the offer and the policy look at: the message first, then the memory.
Context(row, t) ==
    [intent |-> Intent(t), urgency |-> Urgency(t), state |-> CustomerState(row),
     objection |-> IF Objection(t) = "none" THEN row.data.objection ELSE Objection(t),
     temp |-> row.temp, enabled |-> row.enabled, count |-> row.count, area |-> row.area]

\* The reply of a list of rules is that of the first whose condition holds.
FirstRule(rules) ==
    rules[CHOOSE i \in DOMAIN rules : rules[i][1] /\ \A j \in 1 .. i - 1 : ~rules[j][1]][2]

\* choose_offer: which text a reply would have, by _OFFER_REPLY_MAP.
OfferRules(c) ==
    << <<~c.enabled \/ c.intent = "stop_request", "none">>,
       <<c.urgency = "high", "fast_install">>,
       <<c.objection = "price", "cheaper_option">>,
       <<c.objection \in {"trust", "comparing"}, "warranty_trust">>,
       <<c.objection = "not_ready", "design_help">>,
       <<c.intent = "wants_operator", "operator">>,
       <<c.intent = "wants_order", "order_continue">>,
       <<c.intent = "wants_measurement", "measurement">>,
       <<c.intent = "wants_price", "price_ask">>,
       <<c.intent = "wants_catalog", "design_help">>,
       <<c.intent = "wants_discount", "discount_discuss">>,
       <<c.temp = "warm", IF c.area THEN "price_ask" ELSE "design_help">>,
       <<TRUE, "none">> >>
OfferText(c) == FirstRule(OfferRules(c))

\* ConversationPolicyService.evaluate with choose_policy_action. The daily limit
\* is compared with the lifetime counter, so the lifetime limit is never met.
Sells == {"wants_price", "wants_catalog", "wants_order", "wants_measurement", "wants_discount"}
PolicyRules(c) ==
    << <<c.intent = "stop_request" \/ ~c.enabled, "disable_agent">>,
       <<c.state = "stopped", "no_action">>,
       <<c.count >= 3, "no_action">>,
       <<c.state = "operator_handoff" \/ c.intent = "wants_operator", "handoff_operator">>,
       <<c.urgency = "high" /\ c.temp \in {"warm", "hot"}, "escalate_admin">>,
       <<c.intent \in Sells \/ c.objection \in {"price", "trust"}, "reply_now">>,
       <<c.objection = "not_ready", "wait_and_observe">>,
       <<c.state = "price_considering", "schedule_followup">>,
       <<c.temp = "cold" /\ c.intent = "unclear", "wait_and_observe">>,
       <<c.temp = "warm", "schedule_followup">>,
       <<TRUE, "wait_and_observe">> >>
Policy(c) == FirstRule(PolicyRules(c))

\* _map_action and apply_safety: a stop request disables the agent in any case.
PayloadAction(c) ==
    IF c.intent = "stop_request" THEN "disable_agent"
    ELSE CASE Policy(c) = "reply_now"        -> "send_user_reply"
           [] Policy(c) = "escalate_admin"   -> "send_admin_alert"
           [] Policy(c) = "wait_and_observe" -> "store_memory_only"
           [] OTHER                          -> Policy(c)

\* _build_reply_text.
PayloadText(c) ==
    CASE PayloadAction(c) = "disable_agent"    -> "stop"
      [] PayloadAction(c) = "handoff_operator" -> "operator"
      [] PayloadAction(c) \in {"send_user_reply", "schedule_followup"} -> OfferText(c)
      [] OTHER -> "none"

Payload(c) == [action |-> PayloadAction(c), text |-> PayloadText(c)]

-----------------------------------------------------------------------------
AgentGoes(h, place) == pc' = [pc EXCEPT ![h] = place] /\ UNCHANGED <<texts, hits, rowLock>>

\* A message starts a task for its signals, unless their confidence is too low,
\* and one for the pipeline.
Receive ==
    /\ texts < MaxTexts /\ texts' = texts + 1
    /\ \E t \in Messages, g, h \in Handlers :
          /\ g # h /\ ~Active(g) /\ ~Active(h)
          /\ hits + Cardinality(t) <= MaxHits /\ hits' = hits + Cardinality(t)
          /\ said' = [said EXCEPT ![g] = IF Confidence(t) >= MinConfidence THEN t ELSE {}, ![h] = t]
          /\ pc' = [pc EXCEPT ![g] = IF Confidence(t) >= MinConfidence THEN "signal" ELSE "idle",
                              ![h] = "decide"]
    /\ payload' = NoPayload /\ UNCHANGED <<agentRow, dataRead, declined, rowLock>>

LoadForSignal(h) ==
    /\ pc[h] = "signal" /\ AgentGoes(h, "store")
    /\ dataRead' = [dataRead EXCEPT ![h] = agentRow.data]
    /\ payload' = NoPayload /\ UNCHANGED <<agentRow, said, declined>>

AgentTaskEnds(h) ==
    /\ AgentGoes(h, "idle")
    /\ said' = [said EXCEPT ![h] = {}] /\ dataRead' = [dataRead EXCEPT ![h] = Fresh]
    /\ payload' = NoPayload

\* One UPDATE of the columns that have changed, and the commit. A stop request
\* also cancels the follow-ups that AgentFollowups has pending.
StoreSignal(h) ==
    LET stop == Intent(said[h]) = "stop_request" IN
    /\ pc[h] = "store"
    /\ agentRow' = [agentRow EXCEPT !.data = Updated(dataRead[h], said[h]),
                                    !.area = @ \/ "area" \in said[h],
                                    !.enabled = @ /\ ~stop]
    /\ declined' = (declined \/ stop)
    /\ AgentTaskEnds(h)

\* run_pipeline on the row it has loaded.
RunPipeline(h) ==
    /\ pc[h] = "decide" /\ AgentGoes(h, "trace")
    /\ payload' = Payload(Context(agentRow, said[h]))
    /\ said' = [said EXCEPT ![h] = {}] /\ UNCHANGED <<agentRow, dataRead, declined>>

\* The row cannot be read: the pipeline runs as for a new customer.
RunPipelineUnread(h) ==
    /\ pc[h] = "decide" /\ AgentGoes(h, "trace")
    /\ payload' = Payload(Context([enabled |-> TRUE, temp |-> "cold", count |-> 0,
                                   area |-> FALSE, data |-> Fresh], said[h]))
    /\ said' = [said EXCEPT ![h] = {}] /\ UNCHANGED <<agentRow, dataRead, declined>>

LoadForTrace(h) ==
    /\ pc[h] = "trace" /\ AgentGoes(h, "keep")
    /\ dataRead' = [dataRead EXCEPT ![h] = agentRow.data]
    /\ payload' = NoPayload /\ UNCHANGED <<agentRow, said, declined>>

\* persist_trace: the signals of another message stored meanwhile are lost.
KeepTraceOfRow(h) ==
    /\ pc[h] = "keep"
    /\ agentRow' = [agentRow EXCEPT !.data = dataRead[h],
                                    !.enabled = dataRead[h].intent # "stop_request"]
    /\ UNCHANGED declined /\ AgentTaskEnds(h)

KeepTrace(h) ==
    /\ pc[h] = "keep"
    /\ agentRow' = [agentRow EXCEPT !.data = dataRead[h]]
    /\ UNCHANGED declined /\ AgentTaskEnds(h)

\* A database error, which is swallowed, or a restart.
AgentTaskDies(h) == Active(h) /\ AgentTaskEnds(h) /\ UNCHANGED <<agentRow, declined>>

\* A button, an operator's or a closed lead's event: another transaction.
OptOut ==
    /\ agentRow' = [agentRow EXCEPT !.enabled = FALSE] /\ declined' = TRUE
    /\ payload' = NoPayload /\ UNCHANGED <<texts, hits, said, dataRead, pc, rowLock>>

-----------------------------------------------------------------------------
AgentNext ==
    \/ OptOut
    \/ Receive
    \/ \E h \in Handlers :
          \/ LoadForSignal(h) \/ StoreSignal(h) \/ RunPipeline(h) \/ RunPipelineUnread(h)
          \/ LoadForTrace(h) \/ KeepTrace(h) \/ AgentTaskDies(h)

AgentSpec == AgentInit /\ [][AgentNext]_agentVars

-----------------------------------------------------------------------------
(* Properties                                                              *)

\* "Opt-out" and "stop" hold for good although memory_data is rewritten from
\* copies: once one has been committed, every pipeline that reads the row ends
\* with the agent disabled; a customer who asks for the operator is handed over,
\* whatever he has said before, unless the limit of follow-ups silences the
\* agent; and no reply is proposed for which the offer has no text.
AgentHeeds ==
    [][\A h \in Handlers : RunPipeline(h) =>
          /\ declined \/ Intent(said[h]) = "stop_request" => payload'.action = "disable_agent"
          /\ Intent(said[h]) = "wants_operator" /\ ~declined /\ agentRow.count < 3 =>
                payload'.action = "handoff_operator"
          /\ payload'.action = "send_user_reply" => payload'.text # "none"]_agentVars
=============================================================================
