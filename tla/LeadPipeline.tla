---------------------------- MODULE LeadPipeline ----------------------------
(***************************************************************************)
(* The sales pipeline of one lead. Its stages are rows of pipeline_stages,   *)
(* which are only ever added; the current stage is the row with the latest   *)
(* created_at, and that is the start of the transaction which inserted it.   *)
(* Stage buttons go through CRMService.advance_stage, which compares the     *)
(* current stage with ALLOWED_TRANSITIONS; the kanban board, the package     *)
(* buttons and the order conversation insert their stage directly. A         *)
(* handler is a READ COMMITTED transaction, each read sees what is committed *)
(* by then, and only an UPDATE of the lead's row makes it wait for another.  *)
(* Different leads share no row.                                             *)
(***************************************************************************)
EXTENDS HandlerTasks

CONSTANT
    FirstStages   \* stages the lead of this instance may be in

Linear == <<"NEW", "CONTACTED", "MEASUREMENT", "QUOTE", "DEAL", "INSTALLATION", "COMPLETED">>
Stages == {"NEW", "PACKAGE_SELECTED", "CONTACTED", "MEASUREMENT", "QUOTE", "DEAL",
           "INSTALLATION", "COMPLETED", "LOST"}

\* ALLOWED_TRANSITIONS.
Allowed ==
    [NEW              |-> {"PACKAGE_SELECTED", "CONTACTED", "LOST"},
     PACKAGE_SELECTED |-> {"CONTACTED", "LOST"},
     CONTACTED        |-> {"MEASUREMENT", "NEW", "LOST"},
     MEASUREMENT      |-> {"QUOTE", "CONTACTED", "LOST"},
     QUOTE            |-> {"DEAL", "MEASUREMENT", "LOST"},
     DEAL             |-> {"INSTALLATION", "QUOTE", "LOST"},
     INSTALLATION     |-> {"COMPLETED", "DEAL", "LOST"},
     COMPLETED        |-> {"INSTALLATION"},
     LOST             |-> {"NEW"}]

QuoteOrBeyond == {"QUOTE", "DEAL", "INSTALLATION", "COMPLETED", "LOST"}
MoveTarget == {"NEW", "CONTACTED", "MEASUREMENT", "COMPLETED", "LOST"}

Buttons == {"advance", "next", "prev", "lost"}
Kinds == Buttons \union {"kanban", "card", "package", "schedule", "order_start", "order_save"}

ASSUME StagesAssumption == FirstStages \subseteq Stages /\ NoOne \notin Stages

VARIABLES
    rows,     \* committed rows: stage, created_at, kind of the handler that
              \* added it, and whether it was the only one at work meanwhile
    status,   \* leads.lead_status: "open" for all that close nothing
    form,     \* the customer's order conversation holds this lead's id
    clock,    \* transactions started so far
    kind,     \* what the handler does
    at,       \* start of the handler's transaction
    to,       \* stage it is going to insert
    mark,     \* lead_status it writes, or "keep"
    alone     \* history: nobody else was at work since it started

pipelineTx   == <<pc, kind, at, to, mark, alone, clock>>
pipelineVars == <<rows, status, form, rowLock, pipelineTx>>

Rows == [stage : Stages, at : Nat, kind : Kinds \union {"first"}, alone : BOOLEAN]
Places == {"idle", "choose", "validate", "look", "update", "decide", "commit", "done"}

PipelineTypeOK ==
    /\ rows \subseteq Rows /\ status \in {"open", "won", "lost"} /\ form \in BOOLEAN
    /\ rowLock \in Handlers \union {NoOne} /\ clock \in Nat
    /\ pc \in [Handlers -> Places] /\ kind \in [Handlers -> Kinds \union {NoOne}]
    /\ at \in [Handlers -> Nat] /\ to \in [Handlers -> Stages \union {NoOne}]
    /\ mark \in [Handlers -> {"keep", "open", "won", "lost"}]
    /\ alone \in [Handlers -> BOOLEAN]
    /\ \A h \in Handlers : pc[h] \notin {"idle", "done"} => kind[h] \in Kinds
    /\ \A h \in Handlers : pc[h] = "validate" => to[h] \in Stages

\* A lead without a row, or in a stage that its status agrees with.
PipelineInit ==
    /\ rows \in {{}} \union {{[stage |-> s, at |-> 0, kind |-> "first", alone |-> FALSE]} :
                                s \in FirstStages}
    /\ status = "open" /\ form \in BOOLEAN /\ clock = 0
    /\ TasksIdle /\ kind = [h \in Handlers |-> NoOne]
    /\ at = [h \in Handlers |-> 0] /\ to = [h \in Handlers |-> NoOne]
    /\ mark = [h \in Handlers |-> "keep"] /\ alone = [h \in Handlers |-> FALSE]

-----------------------------------------------------------------------------
\* get_current_stage. A lead without rows counts as NEW.
IsCurrentByInsertion(s) ==
    \/ rows = {} /\ s = "NEW"
    \/ \E r \in rows : r.stage = s /\ \A q \in rows : q.at >= r.at

IsCurrent(s) ==
    \/ rows = {} /\ s = "NEW"
    \/ \E r \in rows : r.stage = s /\ \A q \in rows : q.at <= r.at

\* The first statement of a transaction, which fixes now().
Begin(h, k, s, m, place) ==
    /\ pc[h] = "idle"
    /\ pc' = [pc EXCEPT ![h] = place] /\ kind' = [kind EXCEPT ![h] = k]
    /\ to' = [to EXCEPT ![h] = s] /\ mark' = [mark EXCEPT ![h] = m]
    /\ clock' = clock + 1 /\ at' = [at EXCEPT ![h] = clock']
    /\ alone' = [g \in Handlers |-> g = h /\ Alone(h)]
    /\ UNCHANGED <<rows, status, form, rowLock>>

\* The stage menu (any stage but LOST, and the message may be old), the next
\* and previous buttons, and the lost dialogue with its two ways to a reason.
PressAdvance(h) == \E s \in Stages \ {"LOST"} : Begin(h, "advance", s, "keep", "validate")
PressNext(h) == Begin(h, "next", NoOne, "keep", "choose")
PressPrev(h) == Begin(h, "prev", NoOne, "keep", "choose")
PressLost(h) == Begin(h, "lost", "LOST", "keep", "validate")

\* A column of the board, with the status of its name; a quick action of the
\* lead's card, which writes no stage; a package chosen by the customer; the
\* measurement button under it.
PressKanban(h) ==
    \E s \in MoveTarget :
        Begin(h, "kanban", s, IF s = "COMPLETED" THEN "won" ELSE IF s = "LOST" THEN "lost" ELSE "open",
              "update")
PressCard(h) == \E m \in {"open", "lost"} : Begin(h, "card", NoOne, m, "update")
SelectPackage(h) == Begin(h, "package", "PACKAGE_SELECTED", "open", "update")
PressSchedule(h) == Begin(h, "schedule", "MEASUREMENT", "keep", "commit")

\* The order conversation: its beginning picks a lead that is not closed, its
\* last message saves the form. Before its clear() a second message can follow.
StartOrder(h) == Begin(h, "order_start", NoOne, "keep", "look")
SaveOrderReading(h) == form /\ Begin(h, "order_save", NoOne, "open", "decide")
SaveOrder(h) == form /\ Begin(h, "order_save", NoOne, "open", "update")

Goes(h, place) ==
    /\ pc' = [pc EXCEPT ![h] = place]
    /\ UNCHANGED <<rows, status, form, kind, at, mark, alone, clock>>

\* The end of a transaction, with its lock and its handler's variables.
Ends(h) ==
    /\ pc' = [pc EXCEPT ![h] = "done"] /\ kind' = [kind EXCEPT ![h] = NoOne]
    /\ at' = [at EXCEPT ![h] = 0] /\ to' = [to EXCEPT ![h] = NoOne]
    /\ mark' = [mark EXCEPT ![h] = "keep"] /\ alone' = [alone EXCEPT ![h] = FALSE]
    /\ rowLock' = Unlocked(h)
    /\ UNCHANGED clock

Refused(h) == Ends(h) /\ UNCHANGED <<rows, status, form>>

Index(s) == IF s \in {"PACKAGE_SELECTED", "LOST"} THEN 1 ELSE CHOOSE i \in DOMAIN Linear : Linear[i] = s

\* The next and previous buttons read the stage once to find their target.
Choose(h) ==
    /\ pc[h] = "choose"
    /\ \E s \in Stages : IsCurrent(s) /\
          \/ /\ kind[h] = "next" /\ s # "COMPLETED"
             /\ to' = [to EXCEPT ![h] = Linear[Index(s) + 1]]
             /\ Goes(h, "validate") /\ UNCHANGED rowLock
          \/ /\ kind[h] = "prev" /\ s # "LOST" /\ Index(s) > 1
             /\ to' = [to EXCEPT ![h] = Linear[Index(s) - 1]]
             /\ Goes(h, "validate") /\ UNCHANGED rowLock
          \/ kind[h] = "next" /\ s = "COMPLETED" /\ Refused(h)
          \/ kind[h] = "prev" /\ (s = "LOST" \/ Index(s) = 1) /\ Refused(h)

ValidateUnchecked(h) ==
    /\ pc[h] = "validate"
    /\ Goes(h, IF kind[h] = "lost" THEN "update" ELSE "commit") /\ UNCHANGED <<to, rowLock>>

\* advance_stage reads the stage again and inserts the row, or raises. After
\* LOST the handler writes the reason on the lead's row.
Validate(h) ==
    /\ pc[h] = "validate"
    /\ \E s \in Stages : IsCurrent(s) /\
          \/ /\ to[h] \in Allowed[s]
             /\ Goes(h, IF kind[h] = "lost" THEN "update" ELSE "commit") /\ UNCHANGED <<to, rowLock>>
          \/ to[h] \notin Allowed[s] /\ Refused(h)

\* cmd_order_start: a closed lead is left for a new one.
Closed == status \in {"won", "lost"} \/ IsCurrent("LOST") \/ IsCurrent("COMPLETED")

Look(h) ==
    /\ pc[h] = "look"
    /\ \/ ~Closed /\ Goes(h, "update") /\ UNCHANGED <<to, rowLock>>
       \/ Closed /\ Refused(h)

\* An UPDATE of the lead's row, which waits for a transaction that has updated it.
UpdateLead(h) ==
    /\ pc[h] = "update" /\ rowLock = NoOne
    /\ rowLock' = h
    /\ Goes(h, IF kind[h] = "order_save" THEN "decide" ELSE "commit")
    /\ UNCHANGED to

\* _save_and_confirm: QUOTE, unless the lead is there or further.
Decide(h) ==
    /\ pc[h] = "decide"
    /\ \E s \in Stages : /\ IsCurrent(s)
                         /\ to' = [to EXCEPT ![h] = IF s \in QuoteOrBeyond THEN NoOne ELSE "QUOTE"]
    /\ Goes(h, "commit") /\ UNCHANGED rowLock

\* COMMIT; then the order conversation remembers the lead, or is cleared.
CommitStage(h) ==
    /\ pc[h] = "commit"
    /\ rows' = rows \union {[stage |-> s, at |-> at[h], kind |-> kind[h], alone |-> alone[h]] :
                               s \in {to[h]} \ {NoOne}}
    /\ status' = IF mark[h] = "keep" THEN status ELSE mark[h]
    /\ form' = CASE kind[h] = "order_start" -> TRUE
                 [] kind[h] = "order_save"  -> FALSE
                 [] OTHER                   -> form
    /\ Ends(h)

\* An error anywhere: rollback. The order conversation is cleared all the same.
RollBack(h) ==
    /\ Active(h)
    /\ form' = (form /\ kind[h] # "order_save")
    /\ Ends(h) /\ UNCHANGED <<rows, status>>

-----------------------------------------------------------------------------
PipelineNext ==
    \E h \in Handlers :
        \/ PressAdvance(h) \/ PressNext(h) \/ PressPrev(h) \/ PressLost(h)
        \/ PressKanban(h) \/ PressCard(h) \/ SelectPackage(h) \/ PressSchedule(h)
        \/ StartOrder(h) \/ SaveOrder(h)
        \/ Choose(h) \/ Validate(h) \/ Look(h) \/ UpdateLead(h) \/ Decide(h)
        \/ CommitStage(h) \/ RollBack(h)

PipelineSpec == PipelineInit /\ [][PipelineNext]_pipelineVars

-----------------------------------------------------------------------------
(* Properties                                                              *)

\* "Raises InvalidStageTransitionError if transition is not allowed": in the
\* history, ordered as the code orders it, a stage set by a button follows its
\* predecessor by an allowed transition, unless another transaction on
\* the lead was open at the same time. Rows that others have inserted late,
\* with an older date, do not come between.
ButtonsFollowTransitions ==
    \A r \in rows :
        r.kind \in Buttons /\ r.alone =>
            \/ \E p \in rows : /\ p.at < r.at /\ r.stage \in Allowed[p.stage]
                               /\ \A q \in rows : q.at <= p.at \/ q.at >= r.at
            \/ (\A q \in rows : q.at >= r.at) /\ r.stage \in Allowed["NEW"]

\* "Advance to QUOTE (idempotent)": an order adds a QUOTE row to one by
\* another order only if a stage from elsewhere had come after that; two last
\* messages at once leave a single row.
QuoteOnce ==
    [][\A n \in rows' \ rows, q \in rows :
          n.kind = "order_save" /\ q.kind = "order_save" =>
              \E r \in rows : r.kind # "order_save" /\ r.at > q.at]_pipelineVars
=============================================================================
