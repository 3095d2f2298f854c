------------------------- MODULE LeadPipelineProofs -------------------------
(***************************************************************************)
(* Proofs about LeadPipeline, for any handlers and first stages: types, the  *)
(* transitions of the stage buttons, and one QUOTE row per order.            *)
(***************************************************************************)
EXTENDS LeadPipeline, TLAPS

\* A step of the positions stays in the list of stages.
LEMMA IndexRange ==
    ASSUME NEW s \in Stages
    PROVE  /\ Index(s) \in 1 .. 7 /\ (s # "COMPLETED" => Index(s) \in 1 .. 6)
           /\ \A i \in 1 .. 7 : Linear[i] \in Stages
  <1>1. DOMAIN Linear = 1 .. 7
    BY DEF Linear
  <1>2. \A i \in 1 .. 7 : Linear[i] \in Stages
    BY DEF Linear, Stages
  <1>3. CASE s \in {"PACKAGE_SELECTED", "LOST"}
    BY <1>2, <1>3 DEF Index
  <1>4. CASE s \notin {"PACKAGE_SELECTED", "LOST"}
    <2>1. \E i \in DOMAIN Linear : Linear[i] = s
      <3>1. /\ Linear[1] = "NEW" /\ Linear[2] = "CONTACTED" /\ Linear[3] = "MEASUREMENT" /\ Linear[4] = "QUOTE"
            /\ Linear[5] = "DEAL" /\ Linear[6] = "INSTALLATION" /\ Linear[7] = "COMPLETED"
        BY DEF Linear
      <3>2. s \in {"NEW", "CONTACTED", "MEASUREMENT", "QUOTE", "DEAL", "INSTALLATION", "COMPLETED"}
        BY <1>4 DEF Stages
      <3> QED BY <1>1, <3>1, <3>2
    <2>2. Index(s) = CHOOSE i \in DOMAIN Linear : Linear[i] = s
      BY <1>4 DEF Index
    <2>3. Index(s) \in DOMAIN Linear /\ Linear[Index(s)] = s
      BY <2>1, <2>2
    <2>4. Linear[7] = "COMPLETED"
      BY DEF Linear
    <2> QED BY <1>1, <1>2, <2>3, <2>4
  <1> QED BY <1>3, <1>4

-----------------------------------------------------------------------------
(* Types                                                                   *)

LEMMA BeginTypes ==
    ASSUME PipelineTypeOK, NEW h \in Handlers, NEW k \in Kinds, NEW s \in Stages \union {NoOne},
           NEW m \in {"keep", "open", "won", "lost"}, NEW place \in Places,
           place = "validate" => s \in Stages, Begin(h, k, s, m, place)
    PROVE  PipelineTypeOK'
  BY DEF PipelineTypeOK, Begin, Places

LEMMA EndsTypes ==
    ASSUME PipelineTypeOK, NEW h \in Handlers, Ends(h), rows' \subseteq Rows,
           status' \in {"open", "won", "lost"}, form' \in BOOLEAN
    PROVE  PipelineTypeOK'
  BY DEF PipelineTypeOK, Ends, Places, Unlocked

LEMMA GoesTypes ==
    ASSUME PipelineTypeOK, NEW h \in Handlers, NEW place \in Places, Goes(h, place),
           pc[h] \notin {"idle", "done"}, rowLock' \in Handlers \union {NoOne},
           \/ to' = to /\ place # "validate"
           \/ \E s \in Stages : to' = [to EXCEPT ![h] = s]
           \/ place # "validate" /\ to' = [to EXCEPT ![h] = NoOne]
    PROVE  PipelineTypeOK'
  BY DEF PipelineTypeOK, Goes, Places

LEMMA PipelineTypesInit == PipelineInit => PipelineTypeOK
  <1> SUFFICES ASSUME PipelineInit PROVE PipelineTypeOK
    OBVIOUS
  <1>1. rows \subseteq Rows
    <2> SUFFICES ASSUME NEW r \in rows PROVE r \in Rows
      OBVIOUS
    <2> PICK s \in FirstStages : r = [stage |-> s, at |-> 0, kind |-> "first", alone |-> FALSE]
      BY DEF PipelineInit
    <2> QED BY StagesAssumption DEF Rows
  <1> QED BY <1>1 DEF PipelineInit, PipelineTypeOK, TasksIdle, Places

LEMMA PipelineTypesStep ==
    ASSUME PipelineTypeOK, [PipelineNext]_pipelineVars
    PROVE  PipelineTypeOK'
  <1>u. CASE UNCHANGED pipelineVars
    BY <1>u DEF pipelineVars, pipelineTx, PipelineTypeOK
  <1>n. CASE PipelineNext
    <2> PICK h \in Handlers :
          \/ PressAdvance(h) \/ PressNext(h) \/ PressPrev(h) \/ PressLost(h)
          \/ PressKanban(h) \/ PressCard(h) \/ SelectPackage(h) \/ PressSchedule(h)
          \/ StartOrder(h) \/ SaveOrder(h)
          \/ Choose(h) \/ Validate(h) \/ Look(h) \/ UpdateLead(h) \/ Decide(h)
          \/ CommitStage(h) \/ RollBack(h)
      BY <1>n DEF PipelineNext
    <2>1. CASE PressAdvance(h) \/ PressNext(h) \/ PressPrev(h) \/ PressLost(h)
      BY <2>1, BeginTypes DEF PressAdvance, PressNext, PressPrev, PressLost, Kinds, Buttons, Stages, Places
    <2>2. CASE PressKanban(h)
      <3> PICK s \in MoveTarget :
            Begin(h, "kanban", s, IF s = "COMPLETED" THEN "won" ELSE IF s = "LOST" THEN "lost" ELSE "open", "update")
        BY <2>2 DEF PressKanban
      <3> QED BY BeginTypes DEF Kinds, Buttons, Stages, Places, MoveTarget
    <2>3. CASE PressCard(h) \/ SelectPackage(h) \/ PressSchedule(h) \/ StartOrder(h) \/ SaveOrder(h)
      BY <2>3, BeginTypes
         DEF PressCard, SelectPackage, PressSchedule, StartOrder, SaveOrder, Kinds, Buttons, Stages, Places
    <2>4. CASE Choose(h)
      <3>0. pc[h] = "choose" BY <2>4 DEF Choose
      <3>1. CASE Refused(h)
        BY <3>1, EndsTypes DEF Refused, PipelineTypeOK
      <3>2. ASSUME NEW s \in Stages, s # "COMPLETED", to' = [to EXCEPT ![h] = Linear[Index(s) + 1]],
                   Goes(h, "validate"), UNCHANGED rowLock
            PROVE  PipelineTypeOK'
        <4>1. Linear[Index(s) + 1] \in Stages BY <3>2, IndexRange
        <4> QED BY <3>0, <3>2, <4>1, GoesTypes DEF PipelineTypeOK, Places
      <3>3. ASSUME NEW s \in Stages, Index(s) > 1, to' = [to EXCEPT ![h] = Linear[Index(s) - 1]],
                   Goes(h, "validate"), UNCHANGED rowLock
            PROVE  PipelineTypeOK'
        <4>1. Linear[Index(s) - 1] \in Stages BY <3>3, IndexRange
        <4> QED BY <3>0, <3>3, <4>1, GoesTypes DEF PipelineTypeOK, Places
      <3> QED BY <2>4, <3>1, <3>2, <3>3 DEF Choose
    <2>5. CASE Validate(h)
      <3>1. CASE Refused(h)
        BY <3>1, EndsTypes DEF Refused, PipelineTypeOK
      <3>2. CASE Goes(h, IF kind[h] = "lost" THEN "update" ELSE "commit") /\ UNCHANGED <<to, rowLock>>
        BY <2>5, <3>2, GoesTypes DEF Validate, PipelineTypeOK, Places
      <3> QED BY <2>5, <3>1, <3>2 DEF Validate
    <2>6. CASE Look(h)
      <3>1. CASE Refused(h)
        BY <3>1, EndsTypes DEF Refused, PipelineTypeOK
      <3>2. CASE Goes(h, "update") /\ UNCHANGED <<to, rowLock>>
        BY <2>6, <3>2, GoesTypes DEF Look, PipelineTypeOK, Places
      <3> QED BY <2>6, <3>1, <3>2 DEF Look
    <2>7. CASE UpdateLead(h)
      BY <2>7, GoesTypes DEF UpdateLead, PipelineTypeOK, Places
    <2>8. CASE Decide(h)
      <3> PICK s \in Stages : to' = [to EXCEPT ![h] = IF s \in QuoteOrBeyond THEN NoOne ELSE "QUOTE"]
        BY <2>8 DEF Decide
      <3>1. to' = [to EXCEPT ![h] = NoOne] \/ to' = [to EXCEPT ![h] = "QUOTE"]
        OBVIOUS
      <3> QED BY <2>8, <3>1, GoesTypes DEF Decide, PipelineTypeOK, Places, Stages
    <2>9. CASE CommitStage(h)
      <3>1. rows' \subseteq Rows
        <4>1. Active(h) /\ kind[h] \in Kinds /\ at[h] \in Nat /\ alone[h] \in BOOLEAN /\ to[h] \in Stages \union {NoOne}
          BY <2>9 DEF CommitStage, Active, PipelineTypeOK
        <4> QED BY <2>9, <4>1 DEF CommitStage, PipelineTypeOK, Rows
      <3>2. status' \in {"open", "won", "lost"} /\ form' \in BOOLEAN
        BY <2>9 DEF CommitStage, PipelineTypeOK
      <3> QED BY <2>9, <3>1, <3>2, EndsTypes DEF CommitStage
    <2>10. CASE RollBack(h)
      BY <2>10, EndsTypes DEF RollBack, PipelineTypeOK
    <2> QED BY <2>1, <2>2, <2>3, <2>4, <2>5, <2>6, <2>7, <2>8, <2>9, <2>10
  <1> QED BY <1>u, <1>n

\* Every variable keeps its type, and a handler at work knows what it does.
THEOREM PipelineTypes == PipelineSpec => []PipelineTypeOK
  BY PipelineTypesInit, PipelineTypesStep, PTL DEF PipelineSpec

-----------------------------------------------------------------------------
(* The invariant                                                           *)

\* Transactions that insert a row have distinct starts, so rows have too.
StartsDistinct ==
    /\ \A r \in rows : r.at <= clock
    /\ \A r, q \in rows : r.at = q.at => r = q
    /\ \A h \in Handlers : Active(h) => at[h] <= clock /\ \A r \in rows : r.at # at[h]
    /\ \A g, h \in Handlers : Active(g) /\ Active(h) /\ at[g] = at[h] => g = h

\* A handler that has been alone is the last to have begun; what it has
\* inserted is older than anything still open.
AloneIsLast ==
    /\ \A h \in Handlers : alone[h] => Active(h) /\ at[h] = clock /\ Alone(h)
    /\ \A r \in rows, h \in Handlers : r.alone /\ Active(h) => r.at < at[h]

\* Nothing has come between its check and its insert.
AloneIsValid ==
    \A h \in Handlers :
        alone[h] /\ kind[h] \in Buttons /\ pc[h] \in {"update", "commit"} =>
            to[h] \in Stages /\ \E s \in Stages : IsCurrent(s) /\ to[h] \in Allowed[s]

\* Who decides on QUOTE has the lead's row; a stage from elsewhere has come since
\* the last order.
DeciderHoldsRow ==
    /\ \A h \in Handlers : /\ pc[h] = "look" => kind[h] = "order_start"
                           /\ pc[h] = "decide" => kind[h] = "order_save"
    /\ \A q \in rows : q.kind = "order_save" => q.stage = "QUOTE"
    /\ \A h \in Handlers :
          kind[h] = "order_save" =>
             /\ pc[h] \in {"idle", "done", "update", "decide", "commit"}
             /\ pc[h] \in {"decide", "commit"} => rowLock = h
             /\ pc[h] = "commit" /\ to[h] # NoOne =>
                   /\ to[h] = "QUOTE"
                   /\ \A q \in rows : q.kind = "order_save" =>
                         \E r \in rows : r.kind # "order_save" /\ r.at > q.at

PipelineInv ==
    PipelineTypeOK /\ StartsDistinct /\ AloneIsLast /\ AloneIsValid /\ DeciderHoldsRow
    /\ ButtonsFollowTransitions

LEMMA PipelineInvInit == PipelineInit => PipelineInv
  <1> SUFFICES ASSUME PipelineInit PROVE PipelineInv
    OBVIOUS
  <1>1. \A r \in rows : r.at = 0 /\ r.kind = "first" /\ ~r.alone
    BY DEF PipelineInit
  <1>2. \A r, q \in rows : r = q
    BY DEF PipelineInit
  <1>3. /\ \A h \in Handlers : pc[h] = "idle" /\ ~alone[h] /\ ~Active(h)
        /\ clock = 0
    BY DEF PipelineInit, TasksIdle, Active
  <1>4. "first" \notin Buttons
    BY DEF Buttons
  <1>5. StartsDistinct
    BY <1>1, <1>2, <1>3 DEF StartsDistinct
  <1>6. AloneIsLast /\ AloneIsValid /\ DeciderHoldsRow /\ ButtonsFollowTransitions
    BY <1>1, <1>3, <1>4 DEF AloneIsLast, AloneIsValid, DeciderHoldsRow, ButtonsFollowTransitions
  <1> QED BY <1>5, <1>6, PipelineTypesInit DEF PipelineInv

\* A transaction begins: its start is later than all there is.
LEMMA BeginKeeps ==
    ASSUME PipelineInv, PipelineTypeOK', NEW h \in Handlers, NEW k \in Kinds, NEW s, NEW m,
           NEW place \in Places \ {"idle", "done", "decide"}, Begin(h, k, s, m, place),
           k \in Buttons => place \notin {"update", "commit"},
           k = "order_save" => place = "update", place = "look" => k = "order_start"
    PROVE  PipelineInv'
  <1> USE DEF PipelineInv
  <1>1. /\ rows' = rows /\ rowLock' = rowLock /\ clock' = clock + 1 /\ clock \in Nat
        /\ ~Active(h) /\ Active(h)' /\ at'[h] = clock + 1 /\ kind'[h] = k /\ pc'[h] = place
        /\ \A g \in Handlers \ {h} : /\ Active(g)' <=> Active(g)
                                     /\ at'[g] = at[g] /\ kind'[g] = kind[g]
                                     /\ pc'[g] = pc[g] /\ to'[g] = to[g]
    BY DEF Begin, PipelineTypeOK, Active, Places
  <1>a. \A g \in Handlers : alone'[g] <=> g = h /\ Alone(h)
    BY DEF Begin
  <1>2. \A r \in rows : r.at \in Nat
    BY DEF PipelineTypeOK, Rows
  <1>3. \A g \in Handlers : at[g] \in Nat
    BY DEF PipelineTypeOK
  <1>4. StartsDistinct'
    BY <1>1, <1>2, <1>3 DEF StartsDistinct
  <1>5. AloneIsLast'
    <2>1. ASSUME NEW g \in Handlers, alone'[g] PROVE Active(g)' /\ at'[g] = clock' /\ Alone(g)'
      BY <2>1, <1>1, <1>a DEF Alone
    <2>2. ASSUME NEW r \in rows, NEW g \in Handlers, r.alone, Active(g)' PROVE r.at < at'[g]
      BY <2>2, <1>1, <1>2, <1>3 DEF AloneIsLast, StartsDistinct
    <2> QED BY <1>1, <2>1, <2>2 DEF AloneIsLast
  <1>6. AloneIsValid'
    BY <1>1, <1>a DEF AloneIsValid, IsCurrent
  <1>7. DeciderHoldsRow'
    BY <1>1 DEF DeciderHoldsRow
  <1>8. ButtonsFollowTransitions'
    BY <1>1 DEF ButtonsFollowTransitions
  <1> QED BY <1>4, <1>5, <1>6, <1>7, <1>8

\* A step inside a transaction.
LEMMA GoesKeeps ==
    ASSUME PipelineInv, PipelineTypeOK', NEW h \in Handlers, NEW place \in Places \ {"idle", "done"},
           Goes(h, place), Active(h),
           \A g \in Handlers \ {h} : to'[g] = to[g],
           rowLock' = rowLock \/ (rowLock = NoOne /\ rowLock' = h),
           place # "look", place = "decide" => kind[h] = "order_save",
           alone[h] /\ kind[h] \in Buttons /\ place \in {"update", "commit"} =>
               to'[h] \in Stages /\ \E s \in Stages : IsCurrent(s) /\ to'[h] \in Allowed[s],
           kind[h] = "order_save" =>
               /\ place \in {"decide", "commit"} /\ rowLock' = h
               /\ place = "commit" /\ to'[h] # NoOne =>
                   /\ to'[h] = "QUOTE"
                   /\ \A q \in rows : q.kind = "order_save" =>
                         \E r \in rows : r.kind # "order_save" /\ r.at > q.at
    PROVE  PipelineInv'
  <1> USE DEF PipelineInv
  <1>1. /\ rows' = rows /\ clock' = clock /\ at' = at /\ kind' = kind /\ alone' = alone
        /\ pc'[h] = place /\ Active(h)'
        /\ \A g \in Handlers \ {h} : Active(g)' = Active(g) /\ pc'[g] = pc[g]
    BY DEF Goes, PipelineTypeOK, Active
  <1>2. StartsDistinct' /\ AloneIsLast' /\ ButtonsFollowTransitions'
    BY <1>1 DEF StartsDistinct, AloneIsLast, ButtonsFollowTransitions, Alone
  <1>3. AloneIsValid'
    BY <1>1 DEF AloneIsValid, IsCurrent
  <1>4. DeciderHoldsRow'
    <2>1. \A g \in Handlers : rowLock = g => rowLock' = g
      BY NoOneAssumption
    <2> QED BY <1>1, <2>1 DEF DeciderHoldsRow
  <1> QED BY <1>2, <1>3, <1>4

\* A transaction ends without a row.
LEMMA EndsKeeps ==
    ASSUME PipelineInv, PipelineTypeOK', NEW h \in Handlers, Ends(h), rows' = rows
    PROVE  PipelineInv'
  <1> USE DEF PipelineInv
  <1>1. /\ clock' = clock /\ pc'[h] = "done" /\ ~Active(h)' /\ ~alone'[h]
        /\ \A g \in Handlers \ {h} : /\ Active(g)' = Active(g) /\ pc'[g] = pc[g] /\ at'[g] = at[g]
                                     /\ kind'[g] = kind[g] /\ to'[g] = to[g] /\ alone'[g] = alone[g]
                                     /\ (rowLock = g => rowLock' = g)
    BY DEF Ends, PipelineTypeOK, Active, Unlocked
  <1>2. StartsDistinct' /\ AloneIsLast' /\ ButtonsFollowTransitions'
    BY <1>1 DEF StartsDistinct, AloneIsLast, ButtonsFollowTransitions, Alone
  <1>3. AloneIsValid'
    BY <1>1 DEF AloneIsValid, IsCurrent
  <1>4. DeciderHoldsRow'
    BY <1>1 DEF DeciderHoldsRow
  <1> QED BY <1>2, <1>3, <1>4

\* A transaction ends with a row: its place in the history is where the two
\* properties are decided.
LEMMA CommitKeeps ==
    ASSUME PipelineInv, PipelineTypeOK', NEW h \in Handlers, CommitStage(h), to[h] # NoOne
    PROVE  PipelineInv'
  <1> USE DEF PipelineInv
  <1> DEFINE n == [stage |-> to[h], at |-> at[h], kind |-> kind[h], alone |-> alone[h]]
  <1>1. /\ rows' = rows \union {n} /\ Active(h)
        /\ clock' = clock /\ pc'[h] = "done" /\ ~Active(h)' /\ ~alone'[h]
        /\ \A g \in Handlers \ {h} : /\ Active(g)' <=> Active(g)
                                     /\ pc'[g] = pc[g] /\ at'[g] = at[g]
                                     /\ kind'[g] = kind[g] /\ to'[g] = to[g] /\ (alone'[g] <=> alone[g])
                                     /\ (rowLock = g => rowLock' = g)
    BY DEF CommitStage, Ends, PipelineTypeOK, Active, Unlocked
  <1>2. n.at = at[h] /\ n.stage = to[h] /\ n.kind = kind[h] /\ (n.alone <=> alone[h])
    BY DEF PipelineTypeOK
  <1>3. at[h] \in Nat /\ clock \in Nat /\ (\A r \in rows : r.at \in Nat) /\ \A g \in Handlers : at[g] \in Nat
    BY DEF PipelineTypeOK, Rows
  <1> HIDE DEF n
  <1>4. StartsDistinct'
    BY <1>1, <1>2, <1>3 DEF StartsDistinct
  <1>5. AloneIsLast'
    BY <1>1, <1>2, <1>3 DEF AloneIsLast, Alone
  <1>6. AloneIsValid'
    BY <1>1 DEF AloneIsValid, AloneIsLast, Alone
  <1>7. DeciderHoldsRow'
    <2>1. kind[h] = "order_save" => rowLock = h /\ to[h] = "QUOTE"
      BY <1>1 DEF DeciderHoldsRow, CommitStage
    <2>2. \A q \in rows' : q.kind = "order_save" => q.stage = "QUOTE"
      BY <1>1, <1>2, <2>1 DEF DeciderHoldsRow
    <2>3. ASSUME NEW g \in Handlers, kind'[g] = "order_save", g # h
          PROVE  /\ pc'[g] \in {"idle", "done", "update", "decide", "commit"}
                 /\ pc'[g] \in {"decide", "commit"} => rowLock' = g
                 /\ pc'[g] = "commit" /\ to'[g] # NoOne =>
                       /\ to'[g] = "QUOTE"
                       /\ \A q \in rows' : q.kind = "order_save" =>
                             \E r \in rows' : r.kind # "order_save" /\ r.at > q.at
      <3>1. pc[g] = "commit" => kind[h] # "order_save"
        BY <1>1, <2>1, <2>3 DEF DeciderHoldsRow
      <3> QED BY <1>1, <1>2, <2>3, <3>1 DEF DeciderHoldsRow
    <2>4. pc'[h] = "done"
      BY <1>1
    <2>5. \A g \in Handlers : /\ pc'[g] = "look" => kind'[g] = "order_start"
                              /\ pc'[g] = "decide" => kind'[g] = "order_save"
      BY <1>1 DEF DeciderHoldsRow
    <2> QED BY <2>2, <2>3, <2>4, <2>5 DEF DeciderHoldsRow
  <1>8. ButtonsFollowTransitions'
    <2>1. ASSUME NEW r \in rows, r.kind \in Buttons, r.alone
          PROVE  \/ \E p \in rows' : /\ p.at < r.at /\ r.stage \in Allowed[p.stage]
                                     /\ \A q \in rows' : q.at <= p.at \/ q.at >= r.at
                 \/ (\A q \in rows' : q.at >= r.at) /\ r.stage \in Allowed["NEW"]
      <3>1. n.at >= r.at
        BY <1>1, <1>2, <1>3, <2>1 DEF AloneIsLast
      <3> QED BY <1>1, <2>1, <3>1 DEF ButtonsFollowTransitions
    <2>2. ASSUME kind[h] \in Buttons, alone[h]
          PROVE  \/ \E p \in rows' : /\ p.at < n.at /\ n.stage \in Allowed[p.stage]
                                     /\ \A q \in rows' : q.at <= p.at \/ q.at >= n.at
                 \/ (\A q \in rows' : q.at >= n.at) /\ n.stage \in Allowed["NEW"]
      <3>1. PICK s \in Stages : IsCurrent(s) /\ to[h] \in Allowed[s]
        BY <2>2 DEF AloneIsValid, CommitStage
      <3>2. \A r \in rows : r.at < at[h]
        BY <1>1, <1>3, <2>2 DEF AloneIsLast, StartsDistinct
      <3>3. CASE rows = {} /\ s = "NEW"
        BY <1>1, <1>2, <1>3, <3>1, <3>3
      <3>4. CASE \E r \in rows : r.stage = s /\ \A q \in rows : q.at <= r.at
        BY <1>1, <1>2, <1>3, <3>1, <3>2, <3>4
      <3> QED BY <3>1, <3>3, <3>4 DEF IsCurrent
    <2> QED BY <1>1, <1>2, <2>1, <2>2 DEF ButtonsFollowTransitions
  <1> QED BY <1>4, <1>5, <1>6, <1>7, <1>8

LEMMA PipelineInvStep ==
    ASSUME PipelineInv, [PipelineNext]_pipelineVars
    PROVE  PipelineInv'
  <1>t. PipelineTypeOK'
    BY PipelineTypesStep DEF PipelineInv
  <1>u. CASE UNCHANGED pipelineVars
    BY <1>u, <1>t DEF pipelineVars, pipelineTx, PipelineInv, StartsDistinct, AloneIsLast, AloneIsValid,
          DeciderHoldsRow, ButtonsFollowTransitions, Active, Alone, IsCurrent
  <1>n. CASE PipelineNext
    <2> PICK h \in Handlers :
          \/ PressAdvance(h) \/ PressNext(h) \/ PressPrev(h) \/ PressLost(h)
          \/ PressKanban(h) \/ PressCard(h) \/ SelectPackage(h) \/ PressSchedule(h)
          \/ StartOrder(h) \/ SaveOrder(h)
          \/ Choose(h) \/ Validate(h) \/ Look(h) \/ UpdateLead(h) \/ Decide(h)
          \/ CommitStage(h) \/ RollBack(h)
      BY <1>n DEF PipelineNext
    <2>k. kind[h] = "order_save" => pc[h] \in {"idle", "done", "update", "decide", "commit"}
      BY DEF PipelineInv, DeciderHoldsRow
    <2>1. CASE PressAdvance(h) \/ PressNext(h) \/ PressPrev(h) \/ PressLost(h)
      BY <2>1, <1>t, BeginKeeps DEF PressAdvance, PressNext, PressPrev, PressLost, Kinds, Buttons, Places
    <2>2. CASE PressKanban(h)
      <3> PICK s \in MoveTarget :
            Begin(h, "kanban", s, IF s = "COMPLETED" THEN "won" ELSE IF s = "LOST" THEN "lost" ELSE "open", "update")
        BY <2>2 DEF PressKanban
      <3> QED BY <1>t, BeginKeeps DEF Kinds, Buttons, Places
    <2>3. CASE PressCard(h) \/ SelectPackage(h) \/ PressSchedule(h) \/ StartOrder(h) \/ SaveOrder(h)
      BY <2>3, <1>t, BeginKeeps
         DEF PressCard, SelectPackage, PressSchedule, StartOrder, SaveOrder, Kinds, Buttons, Places
    <2>r. CASE Refused(h)
      BY <2>r, <1>t, EndsKeeps DEF Refused
    <2>4. CASE Choose(h) /\ ~Refused(h)
      <3>1. pc[h] = "choose" /\ Active(h) /\ Goes(h, "validate") /\ rowLock' = rowLock
        BY <2>4 DEF Choose, Active
      <3>2. \A g \in Handlers \ {h} : to'[g] = to[g]
        BY <2>4 DEF Choose, PipelineInv, PipelineTypeOK
      <3>3. kind[h] # "order_save"
        BY <2>k, <3>1
      <3>4. "validate" \in Places \ {"idle", "done", "look", "decide"}
        BY DEF Places
      <3> QED BY <1>t, <3>1, <3>2, <3>3, <3>4, GoesKeeps
    <2>5. CASE Validate(h) /\ ~Refused(h)
      <3>1. /\ pc[h] = "validate" /\ Active(h) /\ to' = to /\ rowLock' = rowLock
            /\ Goes(h, IF kind[h] = "lost" THEN "update" ELSE "commit")
            /\ \E s \in Stages : IsCurrent(s) /\ to[h] \in Allowed[s]
        BY <2>5 DEF Validate, Active
      <3>2. to[h] \in Stages
        BY <3>1 DEF PipelineInv, PipelineTypeOK
      <3>3. kind[h] # "order_save"
        BY <2>k, <3>1
      <3>4. (IF kind[h] = "lost" THEN "update" ELSE "commit") \in Places \ {"idle", "done", "look", "decide"}
        BY DEF Places
      <3> QED BY <1>t, <3>1, <3>2, <3>3, <3>4, GoesKeeps
    <2>6. CASE Look(h) /\ ~Refused(h)
      <3>1. pc[h] = "look" /\ Active(h) /\ to' = to /\ rowLock' = rowLock /\ Goes(h, "update")
        BY <2>6 DEF Look, Active
      <3>2. kind[h] \notin Buttons
        BY <3>1 DEF PipelineInv, DeciderHoldsRow, Buttons
      <3>3. kind[h] # "order_save"
        BY <2>k, <3>1
      <3>4. "update" \in Places \ {"idle", "done", "look", "decide"}
        BY DEF Places
      <3> QED BY <1>t, <3>1, <3>2, <3>3, <3>4, GoesKeeps
    <2>7. CASE UpdateLead(h)
      <3>1. /\ pc[h] = "update" /\ Active(h) /\ to' = to /\ rowLock = NoOne /\ rowLock' = h
            /\ Goes(h, IF kind[h] = "order_save" THEN "decide" ELSE "commit")
        BY <2>7 DEF UpdateLead, Active
      <3>2. alone[h] /\ kind[h] \in Buttons => to[h] \in Stages /\ \E s \in Stages : IsCurrent(s) /\ to[h] \in Allowed[s]
        BY <3>1 DEF PipelineInv, AloneIsValid
      <3>3. CASE kind[h] = "order_save"
        BY <1>t, <3>1, <3>2, <3>3, GoesKeeps DEF Places
      <3>4. CASE kind[h] # "order_save"
        BY <1>t, <3>1, <3>2, <3>4, GoesKeeps DEF Places
      <3> QED BY <3>3, <3>4
    <2>8. CASE Decide(h)
      <3>1. /\ pc[h] = "decide" /\ Active(h) /\ rowLock' = rowLock /\ Goes(h, "commit")
            /\ kind[h] = "order_save" /\ rowLock = h
            /\ kind[h] \notin Buttons
        BY <2>8 DEF Decide, Active, PipelineInv, DeciderHoldsRow, Buttons
      <3>2. PICK s \in Stages : /\ IsCurrent(s)
                                /\ to' = [to EXCEPT ![h] = IF s \in QuoteOrBeyond THEN NoOne ELSE "QUOTE"]
        BY <2>8 DEF Decide
      <3>3. \A g \in Handlers \ {h} : to'[g] = to[g]
        BY <3>2 DEF PipelineInv, PipelineTypeOK
      <3>4. to'[h] = IF s \in QuoteOrBeyond THEN NoOne ELSE "QUOTE"
        BY <3>2 DEF PipelineInv, PipelineTypeOK
      <3>5. s \notin QuoteOrBeyond =>
              \A q \in rows : q.kind = "order_save" => \E r \in rows : r.kind # "order_save" /\ r.at > q.at
        <4> SUFFICES ASSUME s \notin QuoteOrBeyond, NEW q \in rows, q.kind = "order_save"
                     PROVE  \E r \in rows : r.kind # "order_save" /\ r.at > q.at
          OBVIOUS
        <4>1. PICK r \in rows : r.stage = s /\ q.at <= r.at
          BY <3>2 DEF IsCurrent
        <4>2. r.stage # "QUOTE" /\ q.stage = "QUOTE" /\ r.kind # "order_save"
          BY <4>1 DEF QuoteOrBeyond, PipelineInv, DeciderHoldsRow
        <4>3. r.at # q.at /\ r.at \in Nat /\ q.at \in Nat
          BY <4>2 DEF PipelineInv, PipelineTypeOK, StartsDistinct, Rows
        <4> QED BY <4>1, <4>2, <4>3
      <3> QED BY <1>t, <3>1, <3>3, <3>4, <3>5, GoesKeeps DEF Places
    <2>9. CASE CommitStage(h)
      <3>1. CASE to[h] = NoOne
        <4>1. rows' = rows BY <2>9, <3>1 DEF CommitStage
        <4> QED BY <2>9, <1>t, <4>1, EndsKeeps DEF CommitStage
      <3> QED BY <2>9, <1>t, <3>1, CommitKeeps
    <2>10. CASE RollBack(h)
      BY <2>10, <1>t, EndsKeeps DEF RollBack
    <2> QED BY <2>1, <2>2, <2>3, <2>4, <2>5, <2>6, <2>7, <2>8, <2>9, <2>10, <2>r
  <1> QED BY <1>u, <1>n

\* Two orders at once leave one QUOTE row: the lead's row is updated first, and
\* the stage is read under its lock.
LEMMA QuoteOnceStep ==
    ASSUME PipelineInv, [PipelineNext]_pipelineVars,
           NEW n \in rows' \ rows, NEW q \in rows, n.kind = "order_save", q.kind = "order_save"
    PROVE  \E r \in rows : r.kind # "order_save" /\ r.at > q.at
  <1>1. \E h \in Handlers : CommitStage(h)
    BY DEF PipelineNext, pipelineVars, PressAdvance, PressNext, PressPrev, PressLost, PressKanban, PressCard,
           SelectPackage, PressSchedule, StartOrder, SaveOrder, Choose, Validate, Look, UpdateLead, Decide,
           RollBack, Begin, Goes, Refused
  <1>2. PICK h \in Handlers : CommitStage(h)
    BY <1>1
  <1>3. to[h] # NoOne /\ n.kind = kind[h] /\ pc[h] = "commit"
    BY <1>2 DEF CommitStage
  <1> QED BY <1>3 DEF PipelineInv, DeciderHoldsRow

\* A stage set with the stage buttons follows its predecessor by an allowed
\* transition, for any number of handlers, if nobody else was at work on the lead.
THEOREM TransitionsAllowed == PipelineSpec => []ButtonsFollowTransitions
  <1>1. PipelineInv => ButtonsFollowTransitions
    BY DEF PipelineInv
  <1> QED BY <1>1, PipelineInvInit, PipelineInvStep, PTL DEF PipelineSpec

\* An order adds no QUOTE row to another order's, for any number of handlers.
THEOREM OneQuotePerOrder == PipelineSpec => QuoteOnce
  <1>1. PipelineInv /\ [PipelineNext]_pipelineVars =>
          [\A n \in rows' \ rows, q \in rows :
              n.kind = "order_save" /\ q.kind = "order_save" =>
                  \E r \in rows : r.kind # "order_save" /\ r.at > q.at]_pipelineVars
    BY QuoteOnceStep
  <1> QED BY <1>1, PipelineInvInit, PipelineInvStep, PTL DEF PipelineSpec, QuoteOnce
=============================================================================
