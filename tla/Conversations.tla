--------------------------- MODULE Conversations ----------------------------
(***************************************************************************)
(* The forms a person fills in with the bot: an order, a measurement, a      *)
(* payment and, for the administrator, a broadcast. All of them share the    *)
(* chat's one state and one data dictionary in Redis (aiogram's FSMContext). *)
(* The state filter picks the handler when a message arrives; the handler    *)
(* then works in calls of its own: update_data is a get_data and a set_data, *)
(* clear is a set_state and a set_data. Nothing holds back a second message  *)
(* meanwhile. Of the data, only which fields are there is modelled; an       *)
(* answer that is refused and asked for again changes nothing.               *)
(***************************************************************************)
EXTENDS HandlerTasks, Sequences

CONSTANT MaxCrossings   \* bound: messages that come while another is in work

ASSUME MaxCrossingsAssumption == MaxCrossings \in Nat

Forms == {"order", "measurement", "payment", "broadcast"}

\* States in which an answer is awaited, the states that may follow, and the
\* fields that the answers up to there have left.
Follows ==
    [name |-> {"phone"}, phone |-> {"district"}, district |-> {"category"}, category |-> {"area"},
     area |-> {"location"}, location |-> {},
     ml_name |-> {"ml_phone"}, ml_phone |-> {"ml_location"}, ml_location |-> {"ml_time"}, ml_time |-> {},
     amount |-> {"proof"}, proof |-> {},
     segment |-> {"stage", "payload"}, stage |-> {"payload"}, payload |-> {"content"},
     content |-> {"confirming"}, confirming |-> {}]
States == DOMAIN Follows

First == [order |-> "name", measurement |-> "ml_name", payment |-> "amount", broadcast |-> "segment"]

\* The field under which an answer is kept.
Field(s) == CASE s = "ml_name" -> "name" [] s = "ml_phone" -> "phone" [] s = "ml_location" -> "location"
              [] OTHER -> s
Fields == {"lead_id"} \union {Field(s) : s \in States \ {"ml_time", "proof", "confirming"}}

Filled ==
    [name |-> {}, phone |-> {"name"}, district |-> {"name", "phone"},
     category |-> {"name", "phone", "district"}, area |-> {"name", "phone", "district", "category"},
     location |-> {"name", "phone", "district", "category", "area"},
     ml_name |-> {}, ml_phone |-> {"name"}, ml_location |-> {"name", "phone"},
     ml_time |-> {"name", "phone", "location"},
     amount |-> {"lead_id"}, proof |-> {"lead_id", "amount"},
     segment |-> {}, stage |-> {"segment"}, payload |-> {"segment"}, content |-> {"segment", "payload"},
     confirming |-> {"segment", "payload", "content"}]

\* Fields read as fsm["..."]: without one of them the handler dies.
Demanded(s) ==
    CASE s = "location" -> {"name", "phone", "district"} [] s = "proof" -> {"lead_id", "amount"} [] OTHER -> {}

VARIABLES
    fsmState,   \* the chat's state, or "none"
    fields,     \* fields in the chat's data
    step,       \* the state a handler was picked for, or the form it starts
    todo,       \* the calls it has still to make
    copy,       \* what its last get_data has returned
    next,       \* the state it is going to set
    solo,       \* history: no other message has been in work with the handler's
    crossed,    \* history: two messages have been in work at once since the last
                \* start of a form with nobody else at work
    crossings   \* messages that came while another was in work

chatVars == <<fsmState, fields>>
conversationVars == <<chatVars, step, todo, copy, next, solo, crossed, crossings, pc, rowLock>>

Calls == {"get", "put", "assign", "goto", "submit", "forget", "wipe"}

\* The calls of a handler that takes an answer, in their order.
AnswerGotoFirst(s) ==
    IF Follows[s] # {} THEN <<"get", "goto", "put">> ELSE <<"get", "submit", "forget", "wipe">>
Answer(s) ==
    CASE s = "location" -> <<"get", "put", "get", "submit", "forget", "wipe">>
      [] s = "ml_time"  -> <<"get", "forget", "wipe", "submit">>
      [] s \in {"proof", "confirming"} -> <<"get", "submit", "forget", "wipe">>
      [] s = "content"  -> <<"get", "put", "get", "goto">>
      [] OTHER          -> <<"get", "put", "goto">>

\* An order may start without a lead, if the database fails; payments put the
\* lead into the data that clear() has emptied.
Start(f) ==
    CASE f = "order"   -> {<<"forget", "wipe", "get", "put", "goto">>, <<"forget", "wipe", "goto">>}
      [] f = "payment" -> {<<"forget", "wipe", "assign", "goto">>}
      [] OTHER         -> {<<"forget", "wipe", "goto">>}

ConversationTypeOK ==
    /\ fsmState \in States \union {"none"} /\ fields \subseteq Fields /\ crossed \in BOOLEAN
    /\ crossings \in 0 .. MaxCrossings
    /\ pc \in [Handlers -> {"idle", "busy"}] /\ rowLock = NoOne
    /\ step \in [Handlers -> States \union Forms \union {"none"}]
    /\ \A h \in Handlers : todo[h] \in Seq(Calls) /\ (Active(h) <=> todo[h] # <<>>)
    /\ copy \in [Handlers -> SUBSET Fields] /\ next \in [Handlers -> States \union {"none"}]
    /\ solo \in [Handlers -> BOOLEAN]

ConversationInit ==
    /\ TasksIdle
    /\ fsmState = "none" /\ fields = {} /\ crossed = FALSE /\ crossings = 0
    /\ step = [h \in Handlers |-> "none"] /\ next = [h \in Handlers |-> "none"]
    /\ todo = [h \in Handlers |-> <<>>] /\ copy = [h \in Handlers |-> {}]
    /\ solo = [h \in Handlers |-> FALSE]

-----------------------------------------------------------------------------
\* A message arrives, and a handler is picked for it.
Arrives(h, s, calls, then) ==
    /\ pc[h] = "idle" /\ (~Alone(h) => crossings < MaxCrossings)
    /\ pc' = [pc EXCEPT ![h] = "busy"] /\ step' = [step EXCEPT ![h] = s]
    /\ todo' = [todo EXCEPT ![h] = calls] /\ next' = [next EXCEPT ![h] = then]
    /\ solo' = [g \in Handlers |-> g = h /\ Alone(h)] /\ crossed' = (crossed \/ ~Alone(h))
    /\ crossings' = IF Alone(h) THEN crossings ELSE crossings + 1
    /\ UNCHANGED <<chatVars, copy, rowLock>>

TakeAnswer(h) ==
    /\ fsmState # "none"
    /\ \E t \in IF Follows[fsmState] = {} THEN {"none"} ELSE Follows[fsmState] :
          Arrives(h, fsmState, Answer(fsmState), t)

\* The button from the choice of a stage back to that of the segment.
BackToSegment(h) == fsmState = "stage" /\ Arrives(h, "stage", <<"goto">>, "segment")

\* A form's button or command; cancel, the menu, /start and other commands.
StartForm(h) == \E f \in Forms : \E calls \in Start(f) : Arrives(h, f, calls, First[f])
Leave(h) == Arrives(h, "none", <<"forget", "wipe">>, "none")

Calling(h, call) == todo[h] # <<>> /\ Head(todo[h]) = call

\* The handler goes on with its other calls; at the end nothing is left of it.
GoesOn(h, rest, seen) ==
    /\ todo' = [todo EXCEPT ![h] = rest]
    /\ pc' = [pc EXCEPT ![h] = IF rest = <<>> THEN "idle" ELSE "busy"]
    /\ step' = [step EXCEPT ![h] = IF rest = <<>> THEN "none" ELSE step[h]]
    /\ next' = [next EXCEPT ![h] = IF rest = <<>> THEN "none" ELSE next[h]]
    /\ copy' = [copy EXCEPT ![h] = IF rest = <<>> THEN {} ELSE seen]
    /\ solo' = [solo EXCEPT ![h] = rest # <<>> /\ solo[h]]
    /\ UNCHANGED <<crossings, rowLock>>

Get(h) == Calling(h, "get") /\ GoesOn(h, Tail(todo[h]), fields) /\ UNCHANGED <<chatVars, crossed>>

Put(h) ==
    /\ Calling(h, "put")
    /\ fields' = copy[h] \union {IF step[h] = "order" THEN "lead_id" ELSE Field(step[h])}
    /\ GoesOn(h, Tail(todo[h]), copy[h]) /\ UNCHANGED <<fsmState, crossed>>

Assign(h) ==
    /\ Calling(h, "assign")
    /\ fields' = {"lead_id"} /\ GoesOn(h, Tail(todo[h]), copy[h]) /\ UNCHANGED <<fsmState, crossed>>

Goto(h) ==
    /\ Calling(h, "goto")
    /\ fsmState' = next[h] /\ crossed' = (crossed /\ ~(step[h] \in Forms /\ solo[h]))
    /\ GoesOn(h, Tail(todo[h]), copy[h]) /\ UNCHANGED fields

\* The order, lead, payment or broadcast is recorded, or an error is logged; the
\* handler goes on either way, unless a field it demands is not there.
Submit(h) ==
    /\ Calling(h, "submit")
    /\ GoesOn(h, IF Demanded(step[h]) \subseteq copy[h] THEN Tail(todo[h]) ELSE <<>>, copy[h])
    /\ UNCHANGED <<chatVars, crossed>>

Forget(h) ==
    /\ Calling(h, "forget")
    /\ fsmState' = "none" /\ GoesOn(h, Tail(todo[h]), copy[h]) /\ UNCHANGED <<fields, crossed>>

Wipe(h) ==
    /\ Calling(h, "wipe")
    /\ fields' = {} /\ GoesOn(h, Tail(todo[h]), copy[h]) /\ UNCHANGED <<fsmState, crossed>>

\* Redis does not answer, or the process is restarted: Redis keeps what it has.
Dies(h) == Active(h) /\ GoesOn(h, <<>>, {}) /\ UNCHANGED <<chatVars, crossed>>

\* The assistant's follow-up about the catalog, minutes later, sets a state of
\* its own, which is none of a form. Orders and payments are not among those it
\* looks out for; the others may begin between its look and its write.
Intrude ==
    /\ fsmState # "none" /\ fsmState' = "none"
    /\ UNCHANGED <<fields, step, todo, copy, next, solo, crossed, crossings, pc, rowLock>>

-----------------------------------------------------------------------------
ConversationNext ==
    \/ Intrude
    \/ \E h \in Handlers :
        \/ TakeAnswer(h) \/ BackToSegment(h) \/ StartForm(h) \/ Leave(h)
        \/ Get(h) \/ Put(h) \/ Assign(h) \/ Goto(h) \/ Submit(h) \/ Forget(h) \/ Wipe(h) \/ Dies(h)

ConversationSpec == ConversationInit /\ [][ConversationNext]_conversationVars

-----------------------------------------------------------------------------
(* Properties                                                              *)

Extra(s) == CASE s = "location" -> {"lead_id", "location"} [] s = "confirming" -> {"stage"} [] OTHER -> {}

\* What is submitted is all and only what the person has answered in this form:
\* with handlers dying between any two calls, forms left and begun again, and
\* answers given twice, no field is missing and none is left from another form,
\* unless two messages were in work at once since the form was started.
SubmissionComplete ==
    \A h \in Handlers :
        Calling(h, "submit") /\ ~crossed =>
            /\ Filled[step[h]] \subseteq copy[h]
            /\ copy[h] \subseteq Filled[step[h]] \union Extra(step[h])
=============================================================================
