------------------------------ MODULE CrmProofs ------------------------------
(***************************************************************************)
(* Proofs about what serves a single customer: the assistant's thread, its *)
(* reminders, the choice of a branch for a message, the dialogue of a sale,*)
(* the prices and the readiness of a lead; and about all the components    *)
(* together, that their variables keep their types in the instance MCCrm.  *)
(***************************************************************************)
EXTENDS MCCrm, LeadPipelineProofs, AgentPipelineProofs, OperationsProofs

-----------------------------------------------------------------------------
(* The thread. What a handler of the time since the last reset has in hand is *)
(* of that time, and so is what is stored, unless an older handler has written *)
(* it since.                                                                  *)
ForgetInv ==
    /\ ThreadTypeOK
    /\ \A h \in Handlers : asked[h] <= resets
    /\ ~revived => Texts(messages) \subseteq {resets} /\ summary \subseteq {resets}
    /\ \A h \in Handlers :
          pc[h] \in {"call", "summarise", "persist", "store"} /\ asked[h] = resets /\ ~revived =>
              Texts(history[h]) \subseteq {resets} /\ gist[h] \subseteq {resets}

\* The window is a part of the list, and fits the row.
LEMMA WindowPart ==
    ASSUME NEW s \in Seq(Nat)
    PROVE  /\ Window(s) \in Seq(Nat) /\ Len(Window(s)) <= MaxMessages
           /\ Texts(Window(s)) \subseteq Texts(s)
  <1>1. CASE Len(s) <= MaxMessages
    BY <1>1 DEF Window
  <1>2. CASE ~(Len(s) <= MaxMessages)
    <2> DEFINE m == Len(s) - MaxMessages + 1
    <2>1. MaxMessages \in Nat /\ Len(s) \in Nat /\ m \in 1 .. Len(s) /\ Len(s) - m + 1 = MaxMessages
      BY <1>2, ThreadAssumption
    <2>2. Window(s) = SubSeq(s, m, Len(s))
      BY <1>2 DEF Window
    <2> HIDE DEF m
    <2>3. /\ Window(s) \in Seq(Nat) /\ Len(Window(s)) = MaxMessages
          /\ \A i \in 1 .. MaxMessages : Window(s)[i] = s[m + i - 1] /\ m + i - 1 \in 1 .. Len(s)
      BY <2>1, <2>2
    <2>4. ASSUME NEW x \in Texts(Window(s)) PROVE x \in Texts(s)
      <3>1. PICK i \in DOMAIN Window(s) : x = Window(s)[i]
        BY DEF Texts
      <3>2. DOMAIN Window(s) = 1 .. MaxMessages
        BY <2>3
      <3>3. x = s[m + i - 1] /\ m + i - 1 \in DOMAIN s
        BY <2>3, <3>1, <3>2
      <3> QED BY <3>3 DEF Texts
    <2> QED BY <2>1, <2>3, <2>4
  <1> QED BY <1>1, <1>2

\* The lists that a handler writes hold what it has read and what it was asked.
LEMMA ListsWritten ==
    ASSUME NEW s \in Seq(Nat), NEW a \in Nat
    PROVE  /\ s \o <<a, a>> \in Seq(Nat) /\ Texts(s \o <<a, a>>) \subseteq Texts(s) \union {a}
           /\ Append(s, a) \in Seq(Nat) /\ Texts(Append(s, a)) \subseteq Texts(s) \union {a}
  <1>1. /\ s \o <<a, a>> \in Seq(Nat) /\ Len(s \o <<a, a>>) = Len(s) + 2
        /\ \A i \in 1 .. Len(s) + 2 : (s \o <<a, a>>)[i] = IF i <= Len(s) THEN s[i] ELSE a
    OBVIOUS
  <1>2. /\ Append(s, a) \in Seq(Nat) /\ Len(Append(s, a)) = Len(s) + 1
        /\ \A i \in 1 .. Len(s) + 1 : Append(s, a)[i] = IF i <= Len(s) THEN s[i] ELSE a
    OBVIOUS
  <1>3. Texts(s \o <<a, a>>) \subseteq Texts(s) \union {a}
    BY <1>1 DEF Texts
  <1>4. Texts(Append(s, a)) \subseteq Texts(s) \union {a}
    BY <1>2 DEF Texts
  <1> QED BY <1>1, <1>2, <1>3, <1>4

LEMMA ExchangePart ==
    ASSUME ThreadTypeOK, NEW h \in Handlers
    PROVE  /\ WithExchange(h) \in Seq(Nat) /\ Len(WithExchange(h)) <= MaxMessages
           /\ Texts(WithExchange(h)) \subseteq Texts(history[h]) \union {asked[h]}
           /\ Texts(WithExchange(h)) \subseteq Nat
  <1>1. history[h] \in Seq(Nat) /\ asked[h] \in Nat
    BY DEF ThreadTypeOK
  <1> DEFINE s == history[h] \o <<asked[h], asked[h]>>
  <1>2. s \in Seq(Nat) /\ Texts(s) \subseteq Texts(history[h]) \union {asked[h]}
    BY <1>1, ListsWritten
  <1>3. WithExchange(h) = Window(s)
    BY DEF WithExchange
  <1> HIDE DEF s
  <1>4. /\ Window(s) \in Seq(Nat) /\ Len(Window(s)) <= MaxMessages
        /\ Texts(Window(s)) \subseteq Texts(s)
    BY <1>2, WindowPart
  <1>5. Texts(s) \subseteq Nat
    <2>1. \A i \in DOMAIN s : s[i] \in Nat
      BY <1>2
    <2> QED BY <2>1 DEF Texts
  <1>6. Texts(WithExchange(h)) = Texts(Window(s))
    BY <1>3
  <1> QED BY <1>2, <1>3, <1>4, <1>5, <1>6

LEMMA ForgetInit == ThreadInit => ForgetInv
  <1> SUFFICES ASSUME ThreadInit PROVE ForgetInv
    OBVIOUS
  <1>1. revived \in BOOLEAN
    BY Zenon DEF ThreadInit
  <1>2. 0 \in 0 .. SummaryEvery - 1 /\ MaxMessages \in Nat
    BY ThreadAssumption
  <1>3. Texts(messages) = {} /\ Len(messages) = 0 /\ messages \in Seq(Nat)
    BY DEF ThreadInit, Texts
  <1>4. history \in [Handlers -> Seq(Nat)]
    BY DEF ThreadInit
  <1>5. asked \in [Handlers -> Nat] /\ turn \in [Handlers -> 0 .. SummaryEvery - 1]
    BY <1>2 DEF ThreadInit
  <1> QED BY <1>1, <1>2, <1>3, <1>4, <1>5 DEF ThreadInit, TasksIdle, ForgetInv, ThreadTypeOK

LEMMA TurnTypes ==
    ASSUME ThreadTypeOK, NEW h \in Handlers
    PROVE  NextTurn(h) \in 0 .. SummaryEvery - 1 /\ 0 \in 0 .. SummaryEvery - 1
  <1>1. turn[h] + 1 \in Nat /\ SummaryEvery \in Nat \ {0}
    BY ThreadAssumption DEF ThreadTypeOK
  <1> QED BY <1>1 DEF NextTurn

\* A handler that leaves with the thread written: what it leaves is of now, or
\* it is itself from before the reset.
LEMMA WritesForget ==
    ASSUME ForgetInv, NEW h \in Handlers, NEW list \in Seq(Nat), Writes(h, list),
           Len(list) <= MaxMessages, Texts(list) \subseteq Texts(history[h]) \union {asked[h]},
           pc[h] \in {"persist", "store"},
           summary' \in SUBSET Nat, turns' \in 0 .. SummaryEvery - 1,
           summary' \subseteq summary \union gist[h]
    PROVE  ForgetInv'
  <1>1. revived' = (revived \/ asked[h] < resets) /\ revived' \in BOOLEAN
    BY Zenon DEF Writes
  <1>2. asked[h] \in Nat /\ resets \in Nat /\ asked[h] <= resets
    BY DEF ForgetInv, ThreadTypeOK
  <1>3. ~revived' => ~revived /\ asked[h] = resets
    <2>1. ~revived' => ~revived /\ ~(asked[h] < resets)
      BY <1>1, Zenon
    <2> QED BY <1>2, <2>1
  <1>4. ThreadTypeOK'
    <2>1. /\ history' = [history EXCEPT ![h] = <<>>] /\ gist' = [gist EXCEPT ![h] = {}]
          /\ turn' = [turn EXCEPT ![h] = 0] /\ messages' = list
          /\ pc' = [pc EXCEPT ![h] = "idle"] /\ asked' = [asked EXCEPT ![h] = 0]
          /\ resets' = resets /\ rowLock' = rowLock
      BY DEF Writes
    <2>2. <<>> \in Seq(Nat) /\ 0 \in 0 .. SummaryEvery - 1
      BY TurnTypes DEF ForgetInv
    <2> QED BY <1>1, <2>1, <2>2 DEF ThreadTypeOK, ForgetInv
  <1>5. ~revived' => Texts(messages') \subseteq {resets'} /\ summary' \subseteq {resets'}
    BY <1>3 DEF Writes, ForgetInv
  <1>6. \A g \in Handlers : asked'[g] <= resets'
    BY <1>2 DEF Writes, ForgetInv, ThreadTypeOK
  <1>7. ASSUME NEW g \in Handlers, pc'[g] \in {"call", "summarise", "persist", "store"},
               asked'[g] = resets', ~revived'
        PROVE  Texts(history'[g]) \subseteq {resets'} /\ gist'[g] \subseteq {resets'}
    <2>1. g # h
      BY <1>7 DEF Writes, ForgetInv, ThreadTypeOK
    <2>2. pc'[g] = pc[g] /\ asked'[g] = asked[g] /\ history'[g] = history[g] /\ gist'[g] = gist[g]
          /\ resets' = resets
      BY <2>1 DEF Writes, ForgetInv, ThreadTypeOK
    <2> QED BY <1>3, <1>7, <2>2 DEF ForgetInv
  <1>8. Texts(messages)' = Texts(messages') /\ \A g \in Handlers : Texts(history[g])' = Texts(history'[g])
    BY DEF Texts
  <1> QED BY <1>4, <1>5, <1>6, <1>7, <1>8 DEF ForgetInv

\* A handler that goes on with what it has in hand, or drops it.
LEMMA HandsForget ==
    ASSUME ForgetInv, NEW h \in Handlers, ThreadTypeOK', asked'[h] <= resets,
           UNCHANGED <<messages, summary, resets, revived>>,
           \A g \in Handlers \ {h} : /\ pc'[g] = pc[g] /\ asked'[g] = asked[g]
                                     /\ history'[g] = history[g] /\ gist'[g] = gist[g],
           pc'[h] \in {"call", "summarise", "persist", "store"} /\ asked'[h] = resets /\ ~revived =>
              Texts(history'[h]) \subseteq {resets} /\ gist'[h] \subseteq {resets}
    PROVE  ForgetInv'
  <1>1. Texts(messages)' = Texts(messages) /\ \A g \in Handlers : Texts(history[g])' = Texts(history'[g])
    BY DEF Texts
  <1>2. ASSUME NEW g \in Handlers
        PROVE  /\ asked'[g] <= resets'
               /\ pc'[g] \in {"call", "summarise", "persist", "store"} /\ asked'[g] = resets' /\ ~revived' =>
                     Texts(history'[g]) \subseteq {resets'} /\ gist'[g] \subseteq {resets'}
    <2>1. CASE g = h
      BY <2>1
    <2>2. CASE g # h
      BY <2>2 DEF ForgetInv
    <2> QED BY <2>1, <2>2
  <1> QED BY <1>1, <1>2 DEF ForgetInv

LEMMA ForgetStep == ForgetInv /\ [ThreadNext]_threadVars => ForgetInv'
  <1> SUFFICES ASSUME ForgetInv, [ThreadNext]_threadVars PROVE ForgetInv'
    OBVIOUS
  <1>t. ThreadTypeOK
    BY DEF ForgetInv
  <1>1. CASE UNCHANGED threadVars
    BY <1>1 DEF threadVars, threadRows, ForgetInv, ThreadTypeOK, Texts
  <1>2. CASE Reset
    <2>1. /\ resets \in Nat /\ resets' = resets + 1 /\ messages' = <<>> /\ summary' = {}
          /\ revived' = FALSE /\ UNCHANGED <<turns, asked, history, gist, turn, pc, rowLock>>
      BY <1>2 DEF Reset, ForgetInv, ThreadTypeOK
    <2>2. revived' \in BOOLEAN
      BY <2>1, Zenon
    <2>3. messages' \in Seq(Nat) /\ Len(messages') <= MaxMessages /\ Texts(messages)' = {}
      BY <2>1, ThreadAssumption DEF Texts
    <2>4. ThreadTypeOK'
      BY <1>t, <2>1, <2>2, <2>3 DEF ThreadTypeOK
    <2>5. \A h \in Handlers : asked'[h] <= resets' /\ asked'[h] # resets'
      BY <2>1 DEF ForgetInv, ThreadTypeOK
    <2> QED BY <2>1, <2>3, <2>4, <2>5 DEF ForgetInv
  <1>3. ASSUME NEW h \in Handlers, Ask(h) PROVE ForgetInv'
    <2>1. ThreadTypeOK'
      BY <1>3, <1>t DEF Ask, ThreadTypeOK, threadRows
    <2>2. asked'[h] <= resets
      BY <1>3, <1>t DEF Ask, ThreadTypeOK
    <2>3. pc'[h] = "load"
      BY <1>3, <1>t DEF Ask, ThreadTypeOK
    <2> QED BY <1>3, <1>t, <2>1, <2>2, <2>3, HandsForget DEF Ask, ThreadTypeOK, threadRows
  <1>4. ASSUME NEW h \in Handlers, Load(h) PROVE ForgetInv'
    <2>1. 0 \in 0 .. SummaryEvery - 1 /\ <<>> \in Seq(Nat) /\ Texts(<<>>) = {}
      BY <1>t, TurnTypes DEF Texts
    <2>2. /\ UNCHANGED <<messages, summary, turns, revived, resets, asked, rowLock>>
          /\ pc' = [pc EXCEPT ![h] = "call"]
      BY <1>4 DEF Load, ThreadGoes, threadRows
    <2>3. PICK s \in {messages, <<>>}, g \in {summary, {}}, n \in {turns, 0} :
             /\ history' = [history EXCEPT ![h] = s] /\ gist' = [gist EXCEPT ![h] = g]
             /\ turn' = [turn EXCEPT ![h] = n]
      BY <1>4 DEF Load
    <2>s. s \in Seq(Nat) /\ g \in SUBSET Nat /\ n \in 0 .. SummaryEvery - 1
      BY <1>t, <2>1 DEF ThreadTypeOK
    <2>r. ~revived => Texts(s) \subseteq {resets} /\ g \subseteq {resets}
      BY <2>1 DEF ForgetInv
    <2>v. history'[h] = s /\ gist'[h] = g
      BY <1>t, <2>3 DEF ThreadTypeOK
    <2>4. ThreadTypeOK'
      BY <1>t, <2>1, <2>2, <2>3, <2>s DEF ThreadTypeOK
    <2>5. ~revived => Texts(history'[h]) \subseteq {resets} /\ gist'[h] \subseteq {resets}
      BY <2>r, <2>v
    <2>6. asked'[h] <= resets
      BY <2>2 DEF ForgetInv
    <2>7. \A o \in Handlers \ {h} : /\ pc'[o] = pc[o] /\ asked'[o] = asked[o]
                                    /\ history'[o] = history[o] /\ gist'[o] = gist[o]
      BY <1>t, <2>2, <2>3 DEF ThreadTypeOK
    <2> QED BY <2>2, <2>4, <2>5, <2>6, <2>7, HandsForget
  <1>5. ASSUME NEW h \in Handlers, CallModel(h) PROVE ForgetInv'
    <2>1. /\ UNCHANGED <<messages, summary, turns, revived, resets, asked, rowLock, history>>
          /\ pc[h] = "call" /\ gist' = [gist EXCEPT ![h] = {}]
          /\ \E p \in {"summarise", "persist", "store"} : pc' = [pc EXCEPT ![h] = p]
          /\ turn' = turn \/ turn' = [turn EXCEPT ![h] = 0]
      BY <1>5 DEF CallModel, ThreadGoes, threadRows
    <2>2. ThreadTypeOK'
      BY <1>t, <2>1, TurnTypes DEF ThreadTypeOK
    <2>3. asked'[h] <= resets
      BY <2>1 DEF ForgetInv
    <2>4. \A g \in Handlers \ {h} : /\ pc'[g] = pc[g] /\ asked'[g] = asked[g]
                                    /\ history'[g] = history[g] /\ gist'[g] = gist[g]
      BY <1>t, <2>1 DEF ThreadTypeOK
    <2>5. asked[h] = resets /\ ~revived => Texts(history'[h]) \subseteq {resets} /\ gist'[h] \subseteq {resets}
      BY <1>t, <2>1 DEF ThreadTypeOK, ForgetInv
    <2> QED BY <2>1, <2>2, <2>3, <2>4, <2>5, HandsForget
  <1>6. ASSUME NEW h \in Handlers, Summarise(h) PROVE ForgetInv'
    <2>1. /\ UNCHANGED <<messages, summary, turns, revived, resets, asked, rowLock, history, turn>>
          /\ pc[h] = "summarise" /\ pc' = [pc EXCEPT ![h] = "persist"]
          /\ \E g \in {gist[h], Texts(WithExchange(h))} : gist' = [gist EXCEPT ![h] = g]
      BY <1>6, <1>t DEF Summarise, ThreadGoes, threadRows, ThreadTypeOK
    <2>2. ThreadTypeOK'
      BY <1>t, <2>1, ExchangePart DEF ThreadTypeOK
    <2>3. asked'[h] <= resets
      BY <2>1 DEF ForgetInv
    <2>4. \A g \in Handlers \ {h} : /\ pc'[g] = pc[g] /\ asked'[g] = asked[g]
                                    /\ history'[g] = history[g] /\ gist'[g] = gist[g]
      BY <1>t, <2>1 DEF ThreadTypeOK
    <2>5. asked[h] = resets /\ ~revived => Texts(history'[h]) \subseteq {resets} /\ gist'[h] \subseteq {resets}
      <3>1. asked[h] = resets /\ ~revived => Texts(history[h]) \subseteq {resets} /\ gist[h] \subseteq {resets}
        BY <2>1 DEF ForgetInv
      <3>2. gist'[h] \subseteq gist[h] \union Texts(history[h]) \union {asked[h]} /\ history'[h] = history[h]
        BY <1>t, <2>1, ExchangePart DEF ThreadTypeOK
      <3> QED BY <3>1, <3>2
    <2> QED BY <2>1, <2>2, <2>3, <2>4, <2>5, HandsForget
  <1>7. ASSUME NEW h \in Handlers, Persist(h) PROVE ForgetInv'
    <2>1. summary' \in SUBSET Nat /\ summary' \subseteq summary \union gist[h]
          /\ turns' \in 0 .. SummaryEvery - 1 /\ Writes(h, WithExchange(h)) /\ pc[h] = "persist"
      BY <1>7, <1>t, TurnTypes DEF Persist, ThreadTypeOK
    <2>2. gist[h] = {} => summary' = summary
      BY <1>7 DEF Persist
    <2>3. gist[h] # {} => summary' = gist[h]
      BY <1>7 DEF Persist
    <2> QED BY <1>t, <2>1, ExchangePart, WritesForget
  <1>8. ASSUME NEW h \in Handlers, Store(h) PROVE ForgetInv'
    <2> DEFINE s == Append(history[h], asked[h])
    <2>1. s \in Seq(Nat) /\ Texts(s) \subseteq Texts(history[h]) \union {asked[h]}
      BY <1>t, ListsWritten DEF ThreadTypeOK
    <2>2. /\ Writes(h, Window(s)) /\ UNCHANGED <<summary, turns>> /\ pc[h] = "store"
      BY <1>8 DEF Store
    <2> HIDE DEF s
    <2>3. Window(s) \in Seq(Nat) /\ Len(Window(s)) <= MaxMessages /\ Texts(Window(s)) \subseteq Texts(s)
      BY <2>1, WindowPart
    <2>4. Texts(Window(s)) \subseteq Texts(history[h]) \union {asked[h]}
      BY <2>1, <2>3
    <2>5. summary' \in SUBSET Nat /\ turns' \in 0 .. SummaryEvery - 1 /\ summary' \subseteq summary \union gist[h]
      BY <1>t, <2>2 DEF ThreadTypeOK
    <2> QED BY <2>2, <2>3, <2>4, <2>5, WritesForget
  <1>9. ASSUME NEW h \in Handlers, ThreadDies(h) PROVE ForgetInv'
    <2>1. 0 \in 0 .. SummaryEvery - 1 /\ <<>> \in Seq(Nat)
      BY <1>t, TurnTypes
    <2>2. ThreadTypeOK'
      BY <1>9, <1>t, <2>1 DEF ThreadDies, ThreadTypeOK, threadRows
    <2>3. asked'[h] = 0 /\ pc'[h] = "idle" /\ 0 <= resets
      BY <1>9, <1>t DEF ThreadDies, ThreadTypeOK
    <2> QED BY <1>9, <1>t, <2>2, <2>3, HandsForget DEF ThreadDies, ThreadTypeOK, threadRows
  <1> QED BY <1>1, <1>2, <1>3, <1>4, <1>5, <1>6, <1>7, <1>8, <1>9 DEF ThreadNext

\* The row of the conversation never outgrows its list, and everything keeps its
\* type.
THEOREM ThreadTypes == ThreadSpec => []ThreadTypeOK
  <1>1. ForgetInv => ThreadTypeOK
    BY DEF ForgetInv
  <1> QED BY ForgetInit, ForgetStep, <1>1, PTL DEF ThreadSpec

\* For any window, any period of the summary and any number of handlers and
\* resets: after /ai_reset the model is told nothing from before it.
THEOREM ForgetsAll == ThreadSpec => []ResetForgets
  <1>1. ForgetInv => ResetForgets
    BY DEF ForgetInv, ResetForgets
  <1> QED BY ForgetInit, ForgetStep, <1>1, PTL DEF ThreadSpec

-----------------------------------------------------------------------------
(* Reminders. The mark that counts is in the stored value.                   *)
PhoneInv == ReminderTypeOK /\ (captured => leadKnown)

LEMMA PhoneInit == ReminderInit => PhoneInv
  <1> SUFFICES ASSUME ReminderInit PROVE PhoneInv
    OBVIOUS
  <1>1. captured \in BOOLEAN /\ leadKnown \in BOOLEAN /\ (captured => leadKnown)
    BY Zenon DEF ReminderInit
  <1>2. seen \in [Handlers -> BOOLEAN] /\ view \in [Nonces -> BOOLEAN]
    BY Zenon DEF ReminderInit
  <1> QED BY <1>1, <1>2, NoncesAssumption DEF ReminderInit, TasksIdle, PhoneInv, ReminderTypeOK

LEMMA SchedulesTypes ==
    ASSUME ReminderTypeOK, NEW h \in Handlers, Schedules(h),
           leadKnown' \in BOOLEAN, captured' \in BOOLEAN
    PROVE  ReminderTypeOK'
  <1>1. \A n \in Nonces : [reminder[n] EXCEPT !.step = "sleep"]
                             \in [step : {"none", "sleep", "check", "send", "sent", "mark"}, no : 1 .. 2]
    BY DEF ReminderTypeOK
  <1>2. mine[h] # 0 => mine[h] \in Nonces
    BY NoncesAssumption DEF ReminderTypeOK, Nonces
  <1>3. reminder' \in [Nonces -> [step : {"none", "sleep", "check", "send", "sent", "mark"}, no : 1 .. 2]]
    BY <1>1, <1>2 DEF ReminderTypeOK, Schedules
  <1> QED BY <1>3, NoncesAssumption DEF ReminderTypeOK, Schedules

LEMMA TaskTypes ==
    ASSUME ReminderTypeOK, NEW n \in Nonces,
           leadKnown' \in BOOLEAN, captured' \in BOOLEAN, view' \in [Nonces -> BOOLEAN],
           \/ \E s \in {"none", "sleep", "check", "send", "sent", "mark"} : Steps(n, s)
           \/ GoesToSleep(n)
    PROVE  ReminderTypeOK'
  BY DEF ReminderTypeOK, Steps, GoesToSleep

LEMMA PhoneStep == PhoneInv /\ [ReminderNext]_reminderVars => PhoneInv'
  <1> SUFFICES ASSUME PhoneInv, [ReminderNext]_reminderVars PROVE PhoneInv'
    OBVIOUS
  <1> USE DEF PhoneInv
  <1>1. CASE UNCHANGED reminderVars
    BY <1>1 DEF reminderVars, redisKeys, ReminderTypeOK
  <1>2. CASE StateExpires
    BY <1>2 DEF StateExpires, ReminderTypeOK
  <1>3. ASSUME NEW h \in Handlers, Message(h) PROVE PhoneInv'
    <2>1. issued' \in 0 .. MaxNonces
      BY <1>3, NoncesAssumption DEF Message, ReminderTypeOK
    <2> QED BY <1>3, <2>1 DEF Message, redisKeys, ReminderTypeOK
  <1>4. ASSUME NEW h \in Handlers, Phone(h) \/ StoreNonce(h) \/ ReadState(h) PROVE PhoneInv'
    BY <1>4, NoncesAssumption DEF Phone, StoreNonce, ReadState, redisKeys, ReminderTypeOK
  <1>5. ASSUME NEW h \in Handlers, Refresh(h) PROVE PhoneInv'
    <2>1. seen[h] \in BOOLEAN /\ leadKnown' = seen[h] /\ captured' = (captured /\ seen[h])
      BY <1>5 DEF Refresh, ReminderTypeOK
    <2>2. leadKnown' \in BOOLEAN /\ captured' \in BOOLEAN /\ (captured' => leadKnown')
      BY <2>1, Zenon
    <2> QED BY <1>5, <2>2, SchedulesTypes DEF Refresh
  <1>6. ASSUME NEW h \in Handlers, MarkPhone(h) \/ RedisFails(h) PROVE PhoneInv'
    <2>1. CASE MarkPhone(h)
      <3>1. leadKnown' \in BOOLEAN /\ captured' \in BOOLEAN /\ leadKnown' /\ Schedules(h)
        BY <2>1, Zenon DEF MarkPhone
      <3> QED BY <3>1, SchedulesTypes
    <2>2. CASE RedisFails(h)
      <3>1. leadKnown' = leadKnown /\ captured' = captured /\ Schedules(h)
        BY <2>2 DEF RedisFails
      <3>2. leadKnown' \in BOOLEAN /\ captured' \in BOOLEAN
        BY <3>1, Zenon DEF ReminderTypeOK
      <3> QED BY <3>1, <3>2, SchedulesTypes
    <2> QED BY <1>6, <2>1, <2>2
  <1>7. ASSUME NEW n \in Nonces,
               CheckNonce(n) \/ CheckLead(n) \/ Cancel(n) \/ Remind(n) \/ ReadMark(n) \/ MarkFails(n)
        PROVE  PhoneInv'
    <2>1. leadKnown' = leadKnown /\ captured' = captured
      BY <1>7 DEF CheckNonce, CheckLead, Cancel, Remind, ReadMark, MarkFails
    <2>2. view' \in [Nonces -> BOOLEAN]
      BY <1>7 DEF CheckNonce, CheckLead, Cancel, Remind, ReadMark, MarkFails, ReminderTypeOK
    <2>3. \/ \E s \in {"none", "sleep", "check", "send", "sent", "mark"} : Steps(n, s)
          \/ GoesToSleep(n)
      BY <1>7 DEF CheckNonce, CheckLead, Cancel, Remind, ReadMark, MarkFails
    <2>4. leadKnown' \in BOOLEAN /\ captured' \in BOOLEAN
      BY <2>1 DEF ReminderTypeOK
    <2> QED BY <2>1, <2>2, <2>3, <2>4, TaskTypes
  <1>8. ASSUME NEW n \in Nonces, WriteMark(n) PROVE PhoneInv'
    <2>1. view[n] \in BOOLEAN /\ leadKnown' = view[n] /\ captured' = (captured /\ view[n])
          /\ GoesToSleep(n) /\ view' \in [Nonces -> BOOLEAN]
      BY <1>8 DEF WriteMark, ReminderTypeOK
    <2>2. leadKnown' \in BOOLEAN /\ captured' \in BOOLEAN /\ (captured' => leadKnown')
      BY <2>1, Zenon
    <2> QED BY <2>1, <2>2, TaskTypes
  <1> QED BY <1>1, <1>2, <1>3, <1>4, <1>5, <1>6, <1>7, <1>8 DEF ReminderNext

\* The handlers of messages and of the phone, and the tasks they leave, keep
\* their variables in their types.
THEOREM ReminderTypes == ReminderSpec => []ReminderTypeOK
  <1>1. PhoneInv => ReminderTypeOK
    BY DEF PhoneInv
  <1> QED BY PhoneInit, PhoneStep, <1>1, PTL DEF ReminderSpec

\* For any number of messages, handlers and tasks at once: no task decides to
\* remind a customer whose phone is marked (CheckLead).
THEOREM SilentAfterPhone == ReminderSpec => QuietAfterPhone
  <1>1. PhoneInv => [\A n \in Nonces : CheckLead(n) => ~captured]_reminderVars
    BY DEF PhoneInv, CheckLead
  <1> QED BY PhoneInit, PhoneStep, <1>1, PTL DEF ReminderSpec, QuietAfterPhone

-----------------------------------------------------------------------------
(* Routing. The first branch that takes a text is the one before which none    *)
(* does; with that the three lists of branches become chains of conditions.    *)
LEMMA FirstIs ==
    ASSUME NEW list, NEW t, NEW known, NEW n \in DOMAIN list, DOMAIN list \subseteq Nat \ {0},
           Takes(list[n], t, known),
           \A j \in 1 .. n - 1 : ~Takes(list[j], t, known)
    PROVE  FirstTaking(list, t, known) = list[n]
  <1> DEFINE P(i) == Takes(list[i], t, known) /\ \A j \in 1 .. i - 1 : ~Takes(list[j], t, known)
             c == CHOOSE i \in DOMAIN list : P(i)
  <1>1. n \in DOMAIN list /\ P(n)
    OBVIOUS
  <1>2. c \in DOMAIN list /\ P(c)
    BY <1>1
  <1>3. c \in Nat \ {0} /\ ~(n \in 1 .. c - 1) /\ ~(c \in 1 .. n - 1)
    BY <1>1, <1>2
  <1>4. c = n
    BY <1>3
  <1> QED BY <1>4 DEF FirstTaking

LEMMA LabelOf ==
    ASSUME NEW t, NEW known
    PROVE  FirstTaking(LiveRoute, t, known) =
              IF "stop" \in t THEN "stop"
              ELSE IF "unsafe" \in t THEN "safety"
              ELSE IF "measurement" \in t THEN "measurement"
              ELSE IF "warranty" \in t /\ ~PriceIntent(t) THEN "warranty"
              ELSE IF "catalog" \in t /\ ~PriceIntent(t) /\ "operator" \notin t THEN "catalog"
              ELSE IF "objection" \in t THEN "objection"
              ELSE IF PriceIntent(t) THEN "price"
              ELSE IF "operator" \in t THEN "operator"
              ELSE "ai_fallback"
  <1> DEFINE T(i) == Takes(LiveRoute[i], t, known)
  <1>1. /\ DOMAIN LiveRoute = 1 .. 9
        /\ LiveRoute[1] = "stop" /\ LiveRoute[2] = "safety" /\ LiveRoute[3] = "measurement"
        /\ LiveRoute[4] = "warranty" /\ LiveRoute[5] = "catalog" /\ LiveRoute[6] = "objection"
        /\ LiveRoute[7] = "price" /\ LiveRoute[8] = "operator" /\ LiveRoute[9] = "ai_fallback"
    BY DEF LiveRoute
  <1>2. /\ T(1) <=> "stop" \in t
        /\ T(2) <=> "unsafe" \in t
        /\ T(3) <=> "measurement" \in t
        /\ T(4) <=> "warranty" \in t /\ ~PriceIntent(t)
        /\ T(5) <=> "catalog" \in t /\ ~PriceIntent(t) /\ "operator" \notin t
        /\ T(6) <=> "objection" \in t
        /\ T(7) <=> PriceIntent(t)
        /\ T(8) <=> "operator" \in t
        /\ T(9)
    BY <1>1 DEF Takes
  <1>3. ASSUME NEW n \in 1 .. 9, T(n), \A j \in 1 .. n - 1 : ~T(j)
        PROVE  FirstTaking(LiveRoute, t, known) = LiveRoute[n]
    <2>1. DOMAIN LiveRoute \subseteq Nat \ {0} /\ n \in DOMAIN LiveRoute
      BY <1>1
    <2>2. Takes(LiveRoute[n], t, known) /\ \A j \in 1 .. n - 1 : ~Takes(LiveRoute[j], t, known)
      BY <1>3
    <2> QED BY <2>1, <2>2, FirstIs
  <1> HIDE DEF T
  <1> QED BY <1>1, <1>2, <1>3

LEMMA QuestionBranch ==
    ASSUME NEW t, NEW known
    PROVE  FirstTaking(Question, t, known) =
              IF "stop" \in t THEN "stop"
              ELSE IF "unsafe" \in t THEN "safety"
              ELSE IF "greeting" \in t /\ known THEN "greeting"
              ELSE IF "measurement" \in t THEN "measurement"
              ELSE IF "warranty" \in t /\ ~PriceIntent(t) THEN "warranty"
              ELSE IF "catalog" \in t /\ ~PriceIntent(t) /\ "operator" \notin t THEN "catalog"
              ELSE IF "confirmation" \in t THEN "confirmation"
              ELSE IF "objection" \in t THEN "objection"
              ELSE IF PriceIntent(t) THEN "price"
              ELSE IF "operator" \in t THEN "operator"
              ELSE "ai_fallback"
  <1> DEFINE T(i) == Takes(Question[i], t, known)
  <1>1. /\ DOMAIN Question = 1 .. 11
        /\ Question[1] = "stop" /\ Question[2] = "safety" /\ Question[3] = "greeting"
        /\ Question[4] = "measurement" /\ Question[5] = "warranty" /\ Question[6] = "catalog"
        /\ Question[7] = "confirmation" /\ Question[8] = "objection" /\ Question[9] = "price"
        /\ Question[10] = "operator" /\ Question[11] = "ai_fallback"
    BY DEF Question
  <1>2. /\ T(1) <=> "stop" \in t
        /\ T(2) <=> "unsafe" \in t
        /\ T(3) <=> "greeting" \in t /\ known
        /\ T(4) <=> "measurement" \in t
        /\ T(5) <=> "warranty" \in t /\ ~PriceIntent(t)
        /\ T(6) <=> "catalog" \in t /\ ~PriceIntent(t) /\ "operator" \notin t
        /\ T(7) <=> "confirmation" \in t
        /\ T(8) <=> "objection" \in t
        /\ T(9) <=> PriceIntent(t)
        /\ T(10) <=> "operator" \in t
        /\ T(11)
    BY <1>1 DEF Takes
  <1>3. ASSUME NEW n \in 1 .. 11, T(n), \A j \in 1 .. n - 1 : ~T(j)
        PROVE  FirstTaking(Question, t, known) = Question[n]
    <2>1. DOMAIN Question \subseteq Nat \ {0} /\ n \in DOMAIN Question
      BY <1>1
    <2>2. Takes(Question[n], t, known) /\ \A j \in 1 .. n - 1 : ~Takes(Question[j], t, known)
      BY <1>3
    <2> QED BY <2>1, <2>2, FirstIs
  <1> HIDE DEF T
  <1> QED BY <1>1, <1>2, <1>3

LEMMA PrivateBranch ==
    ASSUME NEW t, NEW known
    PROVE  FirstTaking(Private, t, known) =
              IF "stop" \in t THEN "stop"
              ELSE IF "unsafe" \in t THEN "safety"
              ELSE IF "greeting" \in t /\ known THEN "greeting"
              ELSE IF "measurement" \in t THEN "measurement"
              ELSE IF "warranty" \in t /\ ~PriceIntent(t) THEN "warranty"
              ELSE IF "catalog" \in t /\ ~PriceIntent(t) /\ "operator" \notin t THEN "catalog"
              ELSE IF "confirmation" \in t THEN "confirmation"
              ELSE IF "warranty" \in t THEN "any_warranty"
              ELSE IF "objection" \in t THEN "objection"
              ELSE IF PriceIntent(t) THEN "price"
              ELSE IF "operator" \in t THEN "operator"
              ELSE "ai_fallback"
  <1> DEFINE T(i) == Takes(Private[i], t, known)
  <1>1. /\ DOMAIN Private = 1 .. 12
        /\ Private[1] = "stop" /\ Private[2] = "safety" /\ Private[3] = "greeting"
        /\ Private[4] = "measurement" /\ Private[5] = "warranty" /\ Private[6] = "catalog"
        /\ Private[7] = "confirmation" /\ Private[8] = "any_warranty" /\ Private[9] = "objection"
        /\ Private[10] = "price" /\ Private[11] = "operator" /\ Private[12] = "ai_fallback"
    BY DEF Private
  <1>2. /\ T(1) <=> "stop" \in t
        /\ T(2) <=> "unsafe" \in t
        /\ T(3) <=> "greeting" \in t /\ known
        /\ T(4) <=> "measurement" \in t
        /\ T(5) <=> "warranty" \in t /\ ~PriceIntent(t)
        /\ T(6) <=> "catalog" \in t /\ ~PriceIntent(t) /\ "operator" \notin t
        /\ T(7) <=> "confirmation" \in t
        /\ T(8) <=> "warranty" \in t
        /\ T(9) <=> "objection" \in t
        /\ T(10) <=> PriceIntent(t)
        /\ T(11) <=> "operator" \in t
        /\ T(12)
    BY <1>1 DEF Takes
  <1>3. ASSUME NEW n \in 1 .. 12, T(n), \A j \in 1 .. n - 1 : ~T(j)
        PROVE  FirstTaking(Private, t, known) = Private[n]
    <2>1. DOMAIN Private \subseteq Nat \ {0} /\ n \in DOMAIN Private
      BY <1>1
    <2>2. Takes(Private[n], t, known) /\ \A j \in 1 .. n - 1 : ~Takes(Private[j], t, known)
      BY <1>3
    <2> QED BY <2>1, <2>2, FirstIs
  <1> HIDE DEF T
  <1> QED BY <1>1, <1>2, <1>3

LEMMA RoutingTypesInit == RoutingInit => RoutingTypeOK /\ LabelTellsBranch
  BY DEF RoutingInit, RoutingTypeOK, LabelTellsBranch

LEMMA RoutingStep == RoutingTypeOK /\ LabelTellsBranch /\ [RoutingNext]_routingVars
                        => RoutingTypeOK' /\ LabelTellsBranch'
  <1> SUFFICES ASSUME RoutingTypeOK, LabelTellsBranch, [RoutingNext]_routingVars
               PROVE  RoutingTypeOK' /\ LabelTellsBranch'
    OBVIOUS
  <1>1. CASE UNCHANGED routingVars
    BY <1>1 DEF routingVars, RoutingTypeOK, LabelTellsBranch, PriceIntent
  <1>2. CASE Route
    <2>1. /\ label' = FirstTaking(LiveRoute, text, named)
          /\ branch' = FirstTaking(IF handler = "question" THEN Question ELSE Private, text, named)
          /\ UNCHANGED <<text, handler, named>>
      BY <1>2 DEF Route
    <2>2. label' \in {"stop", "safety", "measurement", "warranty", "catalog", "objection", "price",
                      "operator", "ai_fallback"}
      BY <2>1, LabelOf
    <2>3. \A i \in 1 .. 9 : LiveRoute[i] \in {LiveRoute[k] : k \in DOMAIN LiveRoute}
      BY DEF LiveRoute
    <2>4. label' \in {LiveRoute[i] : i \in DOMAIN LiveRoute}
      BY <2>2, <2>3 DEF LiveRoute
    <2>5. CASE handler = "question"
      <3>1. branch' = FirstTaking(Question, text, named)
        BY <2>1, <2>5
      <3>2. branch' \in {"stop", "safety", "greeting", "measurement", "warranty", "catalog", "confirmation",
                         "objection", "price", "operator", "ai_fallback"}
        BY <3>1, QuestionBranch
      <3>3. branch' \in {Question[i] : i \in DOMAIN Question}
        BY <3>2 DEF Question
      <3>4. RoutingTypeOK'
        BY <2>1, <2>4, <3>3 DEF RoutingTypeOK
      <3>5. label' = branch' \/ branch' \in {"greeting", "confirmation"}
        BY <2>1, <3>1, LabelOf, QuestionBranch
      <3> QED BY <3>4, <3>5 DEF LabelTellsBranch
    <2>6. CASE handler = "private"
      <3>1. branch' = FirstTaking(Private, text, named) /\ handler' = "private"
        BY <2>1, <2>6
      <3>2. branch' \in {"stop", "safety", "greeting", "measurement", "warranty", "catalog", "confirmation",
                         "any_warranty", "objection", "price", "operator", "ai_fallback"}
        BY <3>1, PrivateBranch
      <3>3. branch' \in {Private[i] : i \in DOMAIN Private}
        BY <3>2 DEF Private
      <3>4. RoutingTypeOK'
        BY <2>1, <2>4, <3>3 DEF RoutingTypeOK
      <3>5. \/ label' = branch' \/ branch' \in {"greeting", "confirmation"}
            \/ branch' = "any_warranty" /\ PriceIntent(text)
        BY <2>1, <3>1, LabelOf, PrivateBranch
      <3>6. PriceIntent(text)' <=> PriceIntent(text)
        BY <2>1 DEF PriceIntent
      <3> QED BY <3>1, <3>4, <3>5, <3>6 DEF LabelTellsBranch
    <2> QED BY <2>5, <2>6 DEF RoutingTypeOK
  <1> QED BY <1>1, <1>2 DEF RoutingNext

\* A branch and a label are always found, and are of their lists.
THEOREM RoutingTypes == RoutingSpec => []RoutingTypeOK
  <1> QED BY RoutingTypesInit, RoutingStep, PTL DEF RoutingSpec

\* For every text: the label names the branch that answers, but for the three
\* exceptions that the property lists.
THEOREM LabelIsBranch == RoutingSpec => []LabelTellsBranch
  <1> QED BY RoutingTypesInit, RoutingStep, PTL DEF RoutingSpec

-----------------------------------------------------------------------------
(* The dialogue. The rules of decide as a chain of conditions.               *)
LEMMA FirstMove ==
    ASSUME NEW t, NEW known, NEW n \in DOMAIN Rules(t, known), Rules(t, known)[n][1],
           DOMAIN Rules(t, known) \subseteq Nat \ {0},
           \A j \in 1 .. n - 1 : ~Rules(t, known)[j][1]
    PROVE  NextMove(t, known) = Rules(t, known)[n][2]
  <1> DEFINE P(i) == Rules(t, known)[i][1] /\ \A j \in 1 .. i - 1 : ~Rules(t, known)[j][1]
             c == CHOOSE i \in DOMAIN Rules(t, known) : P(i)
  <1>1. n \in DOMAIN Rules(t, known) /\ P(n)
    OBVIOUS
  <1>2. c \in DOMAIN Rules(t, known) /\ P(c)
    BY <1>1
  <1>3. c \in Nat \ {0} /\ ~(n \in 1 .. c - 1) /\ ~(c \in 1 .. n - 1)
    BY <1>1, <1>2
  <1>4. c = n
    BY <1>3
  <1> QED BY <1>4 DEF NextMove

LEMMA MoveOf ==
    ASSUME NEW t, NEW known
    PROVE  NextMove(t, known) =
              IF "stop" \in t THEN "polite_stop"
              ELSE IF "unsafe" \in t THEN "safety_block"
              ELSE IF "operator" \in t THEN "create_handoff"
              ELSE IF WantsMeasurement(t) /\ "phone" \notin known THEN "ask_phone"
              ELSE IF WantsMeasurement(t) /\ "district" \notin known THEN "ask_district"
              ELSE IF WantsMeasurement(t) THEN "offer_measurement"
              ELSE IF WantsPrice(t) /\ "area" \notin known THEN "ask_area"
              ELSE IF WantsPrice(t) /\ "design" \notin known THEN "ask_design"
              ELSE IF WantsPrice(t) THEN "answer_price"
              ELSE IF "warranty" \in t THEN "answer_warranty"
              ELSE IF "objection" \in t THEN "handle_objection"
              ELSE IF WantsCatalog(t) /\ "ambiguous" \in t THEN "clarify"
              ELSE IF WantsCatalog(t) /\ ("catalogWord" \in t \/ "design" \in known) THEN "send_catalog"
              ELSE IF "room" \in known THEN "ask_area"
              ELSE "clarify"
  <1> DEFINE R(i) == Rules(t, known)[i][1]
  <1>1. DOMAIN Rules(t, known) = 1 .. 15
    BY DEF Rules
  <1>2. /\ R(1) <=> "stop" \in t
        /\ R(2) <=> "unsafe" \in t
        /\ R(3) <=> "operator" \in t
        /\ R(4) <=> WantsMeasurement(t) /\ "phone" \notin known
        /\ R(5) <=> WantsMeasurement(t) /\ "district" \notin known
        /\ R(6) <=> WantsMeasurement(t)
        /\ R(7) <=> WantsPrice(t) /\ "area" \notin known
        /\ R(8) <=> WantsPrice(t) /\ "design" \notin known
        /\ R(9) <=> WantsPrice(t)
        /\ R(10) <=> "warranty" \in t
        /\ R(11) <=> "objection" \in t
        /\ R(12) <=> WantsCatalog(t) /\ "ambiguous" \in t
        /\ R(13) <=> WantsCatalog(t) /\ ("catalogWord" \in t \/ "design" \in known)
        /\ R(14) <=> "room" \in known
        /\ R(15)
    BY DEF Rules
  <1>3. /\ Rules(t, known)[1][2] = "polite_stop"
        /\ Rules(t, known)[2][2] = "safety_block"
        /\ Rules(t, known)[3][2] = "create_handoff"
        /\ Rules(t, known)[4][2] = "ask_phone"
        /\ Rules(t, known)[5][2] = "ask_district"
        /\ Rules(t, known)[6][2] = "offer_measurement"
        /\ Rules(t, known)[7][2] = "ask_area"
        /\ Rules(t, known)[8][2] = "ask_design"
        /\ Rules(t, known)[9][2] = "answer_price"
        /\ Rules(t, known)[10][2] = "answer_warranty"
        /\ Rules(t, known)[11][2] = "handle_objection"
        /\ Rules(t, known)[12][2] = "clarify"
        /\ Rules(t, known)[13][2] = "send_catalog"
        /\ Rules(t, known)[14][2] = "ask_area"
        /\ Rules(t, known)[15][2] = "clarify"
    BY DEF Rules
  <1>4. ASSUME NEW n \in 1 .. 15, R(n), \A j \in 1 .. n - 1 : ~R(j)
        PROVE  NextMove(t, known) = Rules(t, known)[n][2]
    BY <1>1, <1>4, FirstMove
  <1> HIDE DEF R
  <1> QED BY <1>2, <1>3, <1>4

\* What is known when a question is asked: a question of the measurement flow has
\* that flow on, and after the second one the first is answered; a question about
\* the design has the price flow on, and the area known.
FlowInv ==
    /\ DialogueTypeOK
    /\ move = "ask_phone" => "measurement" \in wants
    /\ move = "ask_district" => "measurement" \in wants /\ "phone" \in slots
    /\ move = "ask_design" => "price" \in wants /\ "measurement" \notin wants /\ "area" \in slots
    /\ answers = 1 => move \in Goals \union {"ask_design", "ask_district"}
    /\ answers = 2 => move \in Goals

LEMMA AskedIs ==
    /\ DOMAIN Asked = {"ask_area", "ask_design", "ask_phone", "ask_district"}
    /\ Asked["ask_area"] = "area" /\ Asked["ask_design"] = "design"
    /\ Asked["ask_phone"] = "phone" /\ Asked["ask_district"] = "district"
  BY DEF Asked

\* Of the flows, a text without intents of its own carries on what there was.
LEMMA FlowOfAnswer ==
    ASSUME FlowInv, NEW t, JustAnswers(t)
    PROVE  /\ move = "ask_phone" => WantsMeasurement(t) /\ "phone" \in t
           /\ move = "ask_district" => WantsMeasurement(t) /\ "district" \in t
           /\ move = "ask_area" => WantsPrice(t) /\ ~WantsMeasurement(t) /\ "area" \in t
           /\ move = "ask_design" => WantsPrice(t) /\ ~WantsMeasurement(t) /\ "design" \in t
           /\ move \in {"ask_phone", "ask_district", "ask_area", "ask_design"}
           /\ t \intersect Blocking = {}
  <1>1. /\ "measurement" \notin t /\ "catalogWord" \notin t /\ t \intersect Blocking = {}
        /\ move \in {"ask_phone", "ask_district", "ask_area", "ask_design"} /\ Asked[move] \in t
    BY AskedIs DEF JustAnswers, Blocking
  <1>2. CASE move \in {"ask_phone", "ask_district"}
    <2>1. "measurement" \in wants /\ "area" \notin t /\ "priceWord" \notin t /\ "catalog" \notin t
      BY <1>2 DEF FlowInv, JustAnswers
    <2>2. ~HasIntent(t)
      BY <1>1, <2>1 DEF HasIntent, OwnPrice, WantsCatalog
    <2> QED BY <1>1, <1>2, <2>1, <2>2, AskedIs DEF WantsMeasurement
  <1>3. CASE move = "ask_area"
    <2>1. "area" \in t
      BY <1>1, <1>3, AskedIs
    <2>2. OwnPrice(t) /\ HasIntent(t)
      BY <2>1 DEF OwnPrice, HasIntent
    <2> QED BY <1>1, <1>3, <2>1, <2>2 DEF WantsPrice, WantsMeasurement
  <1>4. CASE move = "ask_design"
    <2>1. "design" \in t /\ "price" \in wants /\ "measurement" \notin wants
      BY <1>1, <1>4, AskedIs DEF FlowInv
    <2> QED BY <1>1, <1>4, <2>1 DEF WantsPrice, WantsMeasurement
  <1> QED BY <1>1, <1>2, <1>3, <1>4

LEMMA FlowInit == DialogueInit => FlowInv
  BY DEF DialogueInit, FlowInv, DialogueTypeOK

LEMMA FlowTurn ==
    ASSUME FlowInv, NEW t \in Utterances, NEW learnt \in SUBSET Slots, PlanTurn(t, learnt)
    PROVE  FlowInv'
  <1> DEFINE known == slots \union learnt \union (t \intersect Slots)
  <1>1. /\ slots' = known /\ move' = NextMove(t, known)
        /\ wants' = {w \in {"price", "measurement"} :
                       IF w = "price" THEN WantsPrice(t) ELSE WantsMeasurement(t)}
        /\ answers' = IF JustAnswers(t) THEN answers + 1 ELSE 0
    BY DEF PlanTurn
  <1>2. /\ wants' \subseteq {"price", "measurement"}
        /\ "price" \in wants' <=> WantsPrice(t)
        /\ "measurement" \in wants' <=> WantsMeasurement(t)
    BY <1>1
  <1>3. known \subseteq Slots /\ t \intersect Slots \subseteq known /\ slots \subseteq known
    BY DEF FlowInv, DialogueTypeOK
  <1>s. \A x \in {"area", "phone", "district", "design"} : x \in Slots
    BY DEF Slots
  <1> HIDE DEF known
  <1>4. move' \in {"polite_stop", "safety_block", "create_handoff", "ask_phone", "ask_district",
                   "offer_measurement", "ask_area", "ask_design", "answer_price", "answer_warranty",
                   "handle_objection", "clarify", "send_catalog"}
    BY <1>1, MoveOf
  <1>5. move' \in Moves
    BY <1>4, AskedIs DEF Moves, Goals
  <1>6. /\ move' = "ask_phone" => WantsMeasurement(t)
        /\ move' = "ask_district" => WantsMeasurement(t) /\ "phone" \in known
        /\ move' = "ask_design" => WantsPrice(t) /\ ~WantsMeasurement(t) /\ "area" \in known
    BY <1>1, MoveOf
  <1>7. ASSUME JustAnswers(t)
        PROVE  /\ move \in {"ask_phone", "ask_area"} =>
                     move' \in Goals \union {"ask_design", "ask_district"}
               /\ move \in {"ask_design", "ask_district"} => move' \in Goals
               /\ move \in {"ask_phone", "ask_area", "ask_design", "ask_district"}
    <2>1. "stop" \notin t /\ "unsafe" \notin t /\ "operator" \notin t
      BY <1>7, FlowOfAnswer DEF Blocking
    <2>2. CASE move = "ask_phone"
      <3>1. WantsMeasurement(t) /\ "phone" \in known
        BY <1>3, <1>7, <1>s, <2>2, FlowOfAnswer
      <3>2. move' \in {"ask_district", "offer_measurement"}
        BY <1>1, <2>1, <3>1, MoveOf
      <3> QED BY <2>2, <3>2 DEF Goals
    <2>3. CASE move = "ask_district"
      <3>1. WantsMeasurement(t) /\ "phone" \in known /\ "district" \in known
        BY <1>3, <1>7, <1>s, <2>3, FlowOfAnswer DEF FlowInv
      <3>2. move' = "offer_measurement"
        BY <1>1, <2>1, <3>1, MoveOf
      <3> QED BY <2>3, <3>2 DEF Goals
    <2>4. CASE move = "ask_area"
      <3>1. WantsPrice(t) /\ ~WantsMeasurement(t) /\ "area" \in known
        BY <1>3, <1>7, <1>s, <2>4, FlowOfAnswer
      <3>2. move' \in {"ask_design", "answer_price"}
        BY <1>1, <2>1, <3>1, MoveOf
      <3> QED BY <2>4, <3>2 DEF Goals
    <2>5. CASE move = "ask_design"
      <3>1. WantsPrice(t) /\ ~WantsMeasurement(t) /\ "area" \in known /\ "design" \in known
        BY <1>3, <1>7, <1>s, <2>5, FlowOfAnswer DEF FlowInv
      <3>2. move' = "answer_price"
        BY <1>1, <2>1, <3>1, MoveOf
      <3> QED BY <2>5, <3>2 DEF Goals
    <2>6. move \in {"ask_phone", "ask_district", "ask_area", "ask_design"}
      BY <1>7, FlowOfAnswer
    <2> QED BY <2>2, <2>3, <2>4, <2>5, <2>6
  <1>8. /\ answers' \in 0 .. 2
        /\ answers' = 1 => move' \in Goals \union {"ask_design", "ask_district"}
        /\ answers' = 2 => move' \in Goals
    <2>1. CASE ~JustAnswers(t)
      BY <1>1, <2>1
    <2>2. CASE JustAnswers(t)
      <3>1. answers \in 0 .. 2 /\ answers' = answers + 1 /\ answers # 2
        BY <1>1, <1>7, <2>2 DEF FlowInv, DialogueTypeOK, Goals
      <3>2. CASE answers = 0
        BY <1>7, <2>2, <3>1, <3>2
      <3>3. CASE answers = 1
        <4>1. move \in {"ask_design", "ask_district"}
          BY <1>7, <2>2, <3>3 DEF FlowInv, Goals
        <4> QED BY <1>7, <2>2, <3>1, <3>3, <4>1
      <3> QED BY <3>1, <3>2, <3>3
    <2> QED BY <2>1, <2>2
  <1>9. DialogueTypeOK'
    BY <1>1, <1>2, <1>3, <1>5, <1>8 DEF DialogueTypeOK
  <1> QED BY <1>1, <1>2, <1>6, <1>8, <1>9 DEF FlowInv

LEMMA FlowStep == FlowInv /\ [DialogueNext]_dialogueVars => FlowInv'
  <1> SUFFICES ASSUME FlowInv, [DialogueNext]_dialogueVars PROVE FlowInv'
    OBVIOUS
  <1>1. CASE UNCHANGED dialogueVars
    BY <1>1 DEF dialogueVars, FlowInv, DialogueTypeOK
  <1>2. CASE DialogueNext
    <2>1. PICK t \in Utterances, learnt \in SUBSET Slots : PlanTurn(t, learnt)
      BY <1>2 DEF DialogueNext
    <2> QED BY <2>1, FlowTurn
  <1> QED BY <1>1, <1>2

\* The planner keeps its types: whatever is said, one of its rules decides, and
\* nobody is asked a third question in a row.
THEOREM DialogueTypes == DialogueSpec => []DialogueTypeOK
  <1>1. FlowInv => DialogueTypeOK
    BY DEF FlowInv
  <1> QED BY FlowInit, FlowStep, <1>1, PTL DEF DialogueSpec

\* For texts that set off any number of detectors, and whatever else the bot's
\* dialogue has learnt: who only answers gets to the price or the measurement
\* after two questions.
THEOREM AnswersGetThere == DialogueSpec => []AnswersLeadOn
  <1>1. FlowInv => AnswersLeadOn
    BY AskedIs DEF FlowInv, AnswersLeadOn
  <1> QED BY FlowInit, FlowStep, <1>1, PTL DEF DialogueSpec

-----------------------------------------------------------------------------
(* Prices.                                                                   *)

\* What makes the agreement inductive: the area kept is that of the sides kept,
\* and the total kept that of the sides and the design.
QuoteInv ==
    /\ QuoteTypeOK
    /\ asking \in {"design", "action", "name"} => sheet.area = sheet.length * sheet.width
    /\ asking \in {"action", "name"} =>
          /\ sheet.design \in Designs
          /\ sheet.total = FormTotal(sheet.length, sheet.width, DesignByKey[sheet.design])

-----------------------------------------------------------------------------
\* The two ways to the discount, a chain of thresholds and the first row of a
\* table, agree.
LEMMA SameDiscount == ASSUME NEW area \in Nat PROVE Discount(area) = FormDiscount(area)
<1> DEFINE tiers == {i \in DOMAIN DiscountTiers : area > DiscountTiers[i].above}
<1>1. DOMAIN DiscountTiers = {1, 2} /\ DiscountTiers[1] = [above |-> 4000, percent |-> 10]
      /\ DiscountTiers[2] = [above |-> 2000, percent |-> 5]
  BY SMT DEF DiscountTiers
<1>2. CASE area > 4000
  <2>1. tiers = {1, 2} BY SMT, <1>1, <1>2
  <2>2. (CHOOSE i \in tiers : \A j \in tiers : i <= j) = 1 BY <2>1
  <2> QED BY SMT, <1>1, <1>2, <2>1, <2>2 DEF Discount, FormDiscount
<1>3. CASE ~(area > 4000) /\ area > 2000
  <2>1. tiers = {2} BY SMT, <1>1, <1>3
  <2>2. (CHOOSE i \in tiers : \A j \in tiers : i <= j) = 2 BY <2>1
  <2> QED BY SMT, <1>1, <1>3, <2>1, <2>2 DEF Discount, FormDiscount
<1>4. CASE ~(area > 2000)
  <2>1. tiers = {} BY SMT, <1>1, <1>4
  <2> QED BY SMT, <1>4, <2>1 DEF Discount, FormDiscount
<1> QED BY <1>2, <1>3, <1>4

\* A discount is a part of the price.
LEMMA TotalIsWhole ==
    ASSUME NEW length \in Nat, NEW width \in Nat, NEW price \in Nat
    PROVE  FormTotal(length, width, price) \in Nat
<1> DEFINE gross == length * width * price
<1>1. gross \in Nat OBVIOUS
<1>2. FormDiscount(length * width) \in {0, 5, 10} BY SMT DEF FormDiscount
<1> HIDE DEF gross
<1>3. \A d \in {0, 5, 10} : gross - (gross * d) \div 100 \in Nat BY <1>1
<1> QED BY SMT, <1>1, <1>2, <1>3 DEF FormTotal, gross

-----------------------------------------------------------------------------
LEMMA QuoteInitially == QuoteInit => QuoteInv
  BY DEF QuoteInit, QuoteInv, QuoteTypeOK, Blank, Absent, NoDesign

\* What is kept of a side is a number.
LEMMA SidesAreNumbers == ASSUME QuoteInv PROVE sheet.length \in Nat /\ sheet.width \in Nat
<1>1. Plausible \union {Absent} \subseteq Nat
  <2>1. \A s \in Plausible : s \in Nat BY SidesAssumption DEF SidesAssumption, Plausible
  <2> QED BY <2>1 DEF Absent
<1>2. sheet.length \in Plausible \union {Absent} /\ sheet.width \in Plausible \union {Absent}
  BY DEF QuoteInv, QuoteTypeOK
<1> QED BY <1>1, <1>2

\* A size that is read is the product of the sides.
LEMMA AreaIsProduct ==
    ASSUME NEW sign \in {"x", "blank"}, NEW a \in Nat, NEW b \in Nat
    PROVE  ParseArea(sign, a, b) \in {a * b, Nothing}
  BY SMT DEF ParseArea

\* A side is kept, or asked for again with the rest of the sheet as it is.
LEMMA SideKept ==
    ASSUME QuoteInv, NEW question \in {"pair", "length", "width"}, NEW sides \in SUBSET Plausible,
           NEW answered, NEW after \in {"width", "design"},
           asking \in {"length", "width"},
           answered \in [length : Plausible \union {Absent}, width : Plausible \union {Absent},
                         area : Nat, warned : SUBSET {"pair", "length", "width"},
                         design : Designs \union {NoDesign}, total : Nat, saved : BOOLEAN],
           after = "design" => answered.area = answered.length * answered.width,
           AnswerSide(question, sides, answered, after)
    PROVE  QuoteInv'
<1>1. CASE sheet' = [sheet EXCEPT !.warned = @ \union {question}] /\ UNCHANGED asking
  BY <1>1 DEF QuoteInv, QuoteTypeOK
<1>2. CASE sheet' = answered /\ asking' = after
  BY <1>2 DEF QuoteInv, QuoteTypeOK
<1> QED BY <1>1, <1>2 DEF AnswerSide

LEMMA QuoteStep == QuoteInv /\ [QuoteNext]_quoteVars => QuoteInv'
<1> SUFFICES ASSUME QuoteInv, [QuoteNext]_quoteVars PROVE QuoteInv'
  OBVIOUS
<1>1. CASE StartPrice
  BY <1>1 DEF StartPrice, QuoteInv, QuoteTypeOK, Blank, Absent, NoDesign
<1>2. CASE TellPair
  <2>1. PICK a, b \in Plausible :
          AnswerSide("pair", {a, b}, [sheet EXCEPT !.length = a, !.width = b, !.area = a * b], "design")
    BY <1>2 DEF TellPair
  <2> DEFINE answered == [sheet EXCEPT !.length = a, !.width = b, !.area = a * b]
  <2>2. a \in Nat /\ b \in Nat BY SidesAssumption DEF SidesAssumption, Plausible
  <2>3. a * b \in Nat BY <2>2
  <2>4. answered.area = answered.length * answered.width BY DEF QuoteInv, QuoteTypeOK
  <2>5. answered \in [length : Plausible \union {Absent}, width : Plausible \union {Absent},
                      area : Nat, warned : SUBSET {"pair", "length", "width"},
                      design : Designs \union {NoDesign}, total : Nat, saved : BOOLEAN]
    BY <2>3 DEF QuoteInv, QuoteTypeOK
  <2>6. asking = "length" BY <1>2 DEF TellPair
  <2> HIDE DEF answered
  <2> QED BY <2>1, <2>4, <2>5, <2>6, SideKept DEF answered
<1>3. CASE TellLength
  <2>1. PICK a \in Plausible : AnswerSide("length", {a}, [sheet EXCEPT !.length = a], "width")
    BY <1>3 DEF TellLength
  <2>2. [sheet EXCEPT !.length = a] \in
          [length : Plausible \union {Absent}, width : Plausible \union {Absent},
           area : Nat, warned : SUBSET {"pair", "length", "width"},
           design : Designs \union {NoDesign}, total : Nat, saved : BOOLEAN]
    BY DEF QuoteInv, QuoteTypeOK
  <2>3. asking = "length" BY <1>3 DEF TellLength
  <2> QED BY <2>1, <2>2, <2>3, SideKept
<1>4. CASE TellWidth
  <2>1. PICK b \in Plausible :
          AnswerSide("width", {b}, [sheet EXCEPT !.width = b, !.area = sheet.length * b], "design")
    BY <1>4 DEF TellWidth
  <2> DEFINE answered == [sheet EXCEPT !.width = b, !.area = sheet.length * b]
  <2>2. b \in Nat /\ sheet.length \in Nat
    BY SidesAreNumbers, SidesAssumption DEF SidesAssumption, Plausible
  <2>3. sheet.length * b \in Nat BY <2>2
  <2>4. answered.area = answered.length * answered.width BY DEF QuoteInv, QuoteTypeOK
  <2>5. answered \in [length : Plausible \union {Absent}, width : Plausible \union {Absent},
                      area : Nat, warned : SUBSET {"pair", "length", "width"},
                      design : Designs \union {NoDesign}, total : Nat, saved : BOOLEAN]
    BY <2>3 DEF QuoteInv, QuoteTypeOK
  <2>6. asking = "width" BY <1>4 DEF TellWidth
  <2> HIDE DEF answered
  <2> QED BY <2>1, <2>4, <2>5, <2>6, SideKept DEF answered
<1>5. CASE EscapeToMenu
  BY <1>5 DEF EscapeToMenu, QuoteInv, QuoteTypeOK, Blank, Absent, NoDesign
<1>6. CASE ChooseDesign
  <2>1. PICK key \in Designs, saved \in BOOLEAN :
          sheet' = [sheet EXCEPT !.design = key, !.saved = saved,
                    !.total = FormTotal(sheet.length, sheet.width, DesignByKey[key])]
    BY <1>6 DEF ChooseDesign
  <2>2. sheet.length \in Nat /\ sheet.width \in Nat
    BY SidesAreNumbers
  <2>3. DesignByKey[key] \in Nat BY SMT DEF Designs, DesignByKey
  <2>4. FormTotal(sheet.length, sheet.width, DesignByKey[key]) \in Nat
    BY <2>2, <2>3, TotalIsWhole
  <2>5. asking = "design" /\ asking' = "action" BY <1>6 DEF ChooseDesign
  <2> QED BY <2>1, <2>4, <2>5 DEF QuoteInv, QuoteTypeOK
<1>7. CASE OrderRoom
  BY <1>7 DEF OrderRoom, QuoteInv, QuoteTypeOK
<1>8. CASE CallOperator
  BY <1>8 DEF CallOperator, QuoteInv, QuoteTypeOK, Blank, Absent, NoDesign
<1>9. CASE UNCHANGED quoteVars
  BY <1>9 DEF quoteVars, QuoteInv, QuoteTypeOK
<1> QED BY <1>1, <1>2, <1>3, <1>4, <1>5, <1>6, <1>7, <1>8, <1>9 DEF QuoteNext

LEMMA QuoteInvariant == QuoteSpec => []QuoteInv
  BY QuoteInitially, QuoteStep, PTL DEF QuoteSpec

-----------------------------------------------------------------------------
\* start_pricing_flow and its handlers: the form's state is one of its states,
\* and its data keep their types.
THEOREM QuoteTypes == QuoteSpec => []QuoteTypeOK
<1>1. QuoteInv => QuoteTypeOK BY DEF QuoteInv
<1> QED BY <1>1, QuoteInvariant, PTL

\* The design that the assistant or the card takes a label for costs what the
\* form takes for it.
LEMMA SameRate ==
    ASSUME NEW key \in Designs, key # "qora_naqsh_uf"
    PROVE  /\ Alias[key] # NoDesign => CustomerPrice[Alias[key]] = DesignByKey[key]
           /\ Alias[key] = NoDesign => CustomerPrice["adnatonniy"] = DesignByKey[key]
  BY SMT DEF Designs, DesignByKey, Alias, CustomerPrice, NoDesign

\* Whatever the sides: _calculate of the form, PriceCalculatorService behind the
\* assistant and the contact's card name one price, and the assistant's table the
\* one from which the form takes its discount.
THEOREM QuotesReconcile == QuoteSpec => []PricesReconcile
<1>1. QuoteInv => PricesReconcile
  <2> SUFFICES ASSUME QuoteInv, asking \in {"action", "name"}
               PROVE  /\ \A m \in SizeMessages :
                            LET answer == AssistantPrice(m, sheet.length, sheet.width, sheet.design) IN
                            /\ answer.by = "calculator" /\ sheet.design # "qora_naqsh_uf" =>
                                  answer.price = sheet.total
                            /\ answer.by = "table" =>
                                  answer.price - (answer.price * FormDiscount(sheet.area)) \div 100 = sheet.total
                      /\ sheet.design # "qora_naqsh_uf" =>
                            CardPrice(sheet.area, sheet.design) \in {sheet.total, Nothing}
    BY DEF PricesReconcile
  <2> DEFINE l == sheet.length
             w == sheet.width
             key == sheet.design
             price == DesignByKey[key]
  <2>1. l \in Nat /\ w \in Nat
    BY SidesAreNumbers
  <2>2. l * w \in Nat BY <2>1
  <2>3. key \in Designs /\ sheet.area = l * w /\ sheet.total = FormTotal(l, w, price)
    BY DEF QuoteInv
  <2>4. Discount(l * w) = FormDiscount(l * w) BY <2>2, SameDiscount
  <2>5. ASSUME NEW design, CustomerPrice[design] = price
        PROVE  Estimate(l * w, design) = sheet.total
    BY SMT, <2>3, <2>4, <2>5 DEF Estimate, FormTotal
  <2>6. Alias[key] # NoDesign /\ key # "qora_naqsh_uf" => CustomerPrice[Alias[key]] = price
    BY <2>3, SameRate
  <2>7. Alias[key] = NoDesign /\ key # "qora_naqsh_uf" => CustomerPrice["adnatonniy"] = price
    BY <2>3, SameRate
  <2>10. TablePrice(l * w, key) - (TablePrice(l * w, key) * FormDiscount(sheet.area)) \div 100 = sheet.total
    <3>1. TableRow[key] = price
      BY <2>3, SMT DEF Designs, DesignByKey, TableRow
    <3> QED BY <2>3, <3>1 DEF TablePrice, FormTotal
  <2> HIDE DEF l, w, key, price
  <2>8. ASSUME NEW m \in SizeMessages
        PROVE  LET answer == AssistantPrice(m, l, w, key) IN
               /\ answer.by = "calculator" /\ key # "qora_naqsh_uf" => answer.price = sheet.total
               /\ answer.by = "table" =>
                     answer.price - (answer.price * FormDiscount(sheet.area)) \div 100 = sheet.total
    <3> DEFINE area == ParseArea(m.sign, l, w)
               answer == AssistantPrice(m, l, w, key)
    <3>1. area \in {l * w, Nothing}
      BY <2>1, AreaIsProduct DEF SizeMessages
    <3>2. \/ answer = [by |-> "calculator", price |-> Estimate(area, Alias[key])]
             /\ area # Nothing /\ Alias[key] # NoDesign
          \/ answer = [by |-> "table", price |-> TablePrice(area, key)] /\ area # Nothing
          \/ answer = NoPrice
      BY DEF AssistantPrice
    <3> HIDE DEF area, answer
    <3>3. CASE answer = [by |-> "calculator", price |-> Estimate(area, Alias[key])]
               /\ area # Nothing /\ Alias[key] # NoDesign
      <4>1. key # "qora_naqsh_uf" => Estimate(l * w, Alias[key]) = sheet.total
        BY <2>5, <2>6, <3>3
      <4> QED BY <3>1, <3>3, <4>1 DEF answer
    <3>4. CASE answer = [by |-> "table", price |-> TablePrice(area, key)] /\ area # Nothing
      BY <2>10, <3>1, <3>4 DEF answer
    <3>5. CASE answer = NoPrice
      BY <3>5 DEF NoPrice, answer
    <3> QED BY <3>2, <3>3, <3>4, <3>5
  <2>9. key # "qora_naqsh_uf" => CardPrice(sheet.area, key) \in {sheet.total, Nothing}
    BY SMT, <2>3, <2>5, <2>6, <2>7 DEF CardPrice
  <2> QED BY <2>8, <2>9 DEF l, w, key
<1> QED BY <1>1, QuoteInvariant, PTL

-----------------------------------------------------------------------------
(* Readiness. The tables of conditions as chains of conditions.              *)
LEMMA WorthFirst ==
    ASSUME NEW cases, NEW n \in DOMAIN cases, DOMAIN cases \subseteq Nat, cases[n][1],
           \A j \in DOMAIN cases : j < n => ~cases[j][1]
    PROVE  Worth(cases) = cases[n][2]
  <1> DEFINE held == {i \in DOMAIN cases : cases[i][1]}
             c == CHOOSE i \in held : \A j \in held : i <= j
  <1>1. n \in held /\ \A j \in held : n <= j
    OBVIOUS
  <1>2. c \in held /\ \A j \in held : c <= j
    BY <1>1
  <1>3. c = n
    BY <1>1, <1>2
  <1>4. held # {} /\ Worth(cases) = cases[c][2]
    BY <1>1 DEF Worth
  <1> QED BY <1>3, <1>4

LEMMA WorthNone ==
    ASSUME NEW cases, \A j \in DOMAIN cases : ~cases[j][1]
    PROVE  Worth(cases) = 0
  BY DEF Worth

\* A table of conditions is a chain of them.
LEMMA Worth2 ==
    ASSUME NEW a \in BOOLEAN, NEW b \in BOOLEAN,
           NEW w, NEW x
    PROVE  Worth(<< <<a, w>>, <<b, x>> >>) =
              IF a THEN w ELSE IF b THEN x ELSE 0
  <1> DEFINE cases == << <<a, w>>, <<b, x>> >>
  <1>0. DOMAIN cases = 1 .. 2
        /\ cases[1][2] = w /\ (cases[1][1] <=> a)
        /\ cases[2][2] = x /\ (cases[2][1] <=> b)
    OBVIOUS
  <1> HIDE DEF cases
  <1>1. a => Worth(cases) = w
    BY <1>0, WorthFirst
  <1>2. ~a /\ b => Worth(cases) = x
    BY <1>0, WorthFirst
  <1>3. ~a /\ ~b => Worth(cases) = 0
    BY <1>0, WorthNone
  <1>4. Worth(cases) = IF a THEN w ELSE IF b THEN x ELSE 0
    BY <1>1, <1>2, <1>3
  <1> QED BY <1>4 DEF cases

LEMMA Worth3 ==
    ASSUME NEW a \in BOOLEAN, NEW b \in BOOLEAN, NEW c \in BOOLEAN,
           NEW w, NEW x, NEW y
    PROVE  Worth(<< <<a, w>>, <<b, x>>, <<c, y>> >>) =
              IF a THEN w ELSE IF b THEN x ELSE IF c THEN y ELSE 0
  <1> DEFINE cases == << <<a, w>>, <<b, x>>, <<c, y>> >>
  <1>0. DOMAIN cases = 1 .. 3
        /\ cases[1][2] = w /\ (cases[1][1] <=> a)
        /\ cases[2][2] = x /\ (cases[2][1] <=> b)
        /\ cases[3][2] = y /\ (cases[3][1] <=> c)
    OBVIOUS
  <1> HIDE DEF cases
  <1>1. a => Worth(cases) = w
    BY <1>0, WorthFirst
  <1>2. ~a /\ b => Worth(cases) = x
    BY <1>0, WorthFirst
  <1>3. ~a /\ ~b /\ c => Worth(cases) = y
    BY <1>0, WorthFirst
  <1>4. ~a /\ ~b /\ ~c => Worth(cases) = 0
    BY <1>0, WorthNone
  <1>5. Worth(cases) = IF a THEN w ELSE IF b THEN x ELSE IF c THEN y ELSE 0
    BY <1>1, <1>2, <1>3, <1>4
  <1> QED BY <1>5 DEF cases

LEMMA Worth4 ==
    ASSUME NEW a \in BOOLEAN, NEW b \in BOOLEAN, NEW c \in BOOLEAN, NEW d \in BOOLEAN,
           NEW w, NEW x, NEW y, NEW z
    PROVE  Worth(<< <<a, w>>, <<b, x>>, <<c, y>>, <<d, z>> >>) =
              IF a THEN w ELSE IF b THEN x ELSE IF c THEN y ELSE IF d THEN z ELSE 0
  <1> DEFINE cases == << <<a, w>>, <<b, x>>, <<c, y>>, <<d, z>> >>
  <1>0. DOMAIN cases = 1 .. 4
        /\ cases[1][2] = w /\ (cases[1][1] <=> a)
        /\ cases[2][2] = x /\ (cases[2][1] <=> b)
        /\ cases[3][2] = y /\ (cases[3][1] <=> c)
        /\ cases[4][2] = z /\ (cases[4][1] <=> d)
    OBVIOUS
  <1> HIDE DEF cases
  <1>1. a => Worth(cases) = w
    BY <1>0, WorthFirst
  <1>2. ~a /\ b => Worth(cases) = x
    BY <1>0, WorthFirst
  <1>3. ~a /\ ~b /\ c => Worth(cases) = y
    BY <1>0, WorthFirst
  <1>4. ~a /\ ~b /\ ~c /\ d => Worth(cases) = z
    BY <1>0, WorthFirst
  <1>5. ~a /\ ~b /\ ~c /\ ~d => Worth(cases) = 0
    BY <1>0, WorthNone
  <1>6. Worth(cases) = IF a THEN w ELSE IF b THEN x ELSE IF c THEN y ELSE IF d THEN z ELSE 0
    BY <1>1, <1>2, <1>3, <1>4, <1>5
  <1> QED BY <1>6 DEF cases

ScoreTerm(n) ==
    IF n >= 60 THEN 15
    ELSE IF n >= 40 THEN 8
    ELSE IF n < 15 THEN -10 ELSE 0

ConfidenceTerm(n) ==
    IF n >= 70 THEN 10
    ELSE IF n >= 40 THEN 5
    ELSE IF n \in 0 .. 19 THEN -5 ELSE 0

ReminderCost(n) ==
    IF n >= 4 THEN 10
    ELSE IF n >= 2 THEN 3 ELSE 0

ProbabilityTerm(n) ==
    IF n >= 70 THEN 1000
    ELSE IF n >= 50 THEN 500 ELSE 0

RecencyTerm(n) ==
    IF n <= 30 THEN 100
    ELSE IF n <= 120 THEN 80
    ELSE IF n <= 360 THEN 50
    ELSE IF n <= 1440 THEN 20 ELSE 0

ReminderLoss(n) ==
    IF n >= 5 THEN 800
    ELSE IF n >= 3 THEN 300 ELSE 0

WarmthTerm(w) ==
    IF w = "hot" THEN 500
    ELSE IF w = "warm" THEN 250 ELSE 0

QuietTerm(w, n, off) ==
    IF w = "hot" /\ n >= (IF off THEN 360 ELSE 120) THEN 15
    ELSE IF w = "warm" /\ n >= (IF off THEN 720 ELSE 360) THEN 10
    ELSE IF n >= (IF off THEN 2160 ELSE 1440) THEN 12
    ELSE IF n >= (IF off THEN 180 ELSE 60) THEN 3 ELSE 0

\* The tables of the model by these names.
LEMMA TablesAre ==
    /\ \A n \in Int : 
          Worth(<< <<n >= 60, 15>>,
                   <<n >= 40, 8>>,
                   <<n < 15, -10>> >>) = ScoreTerm(n)
    /\ \A n \in Int : 
          Worth(<< <<n >= 70, 10>>,
                   <<n >= 40, 5>>,
                   <<n \in 0 .. 19, -5>> >>) = ConfidenceTerm(n)
    /\ \A n \in Int : 
          Worth(<< <<n >= 4, 10>>,
                   <<n >= 2, 3>> >>) = ReminderCost(n)
    /\ \A n \in Int : 
          Worth(<< <<n >= 70, 1000>>,
                   <<n >= 50, 500>> >>) = ProbabilityTerm(n)
    /\ \A n \in Int : 
          Worth(<< <<n <= 30, 100>>,
                   <<n <= 120, 80>>,
                   <<n <= 360, 50>>,
                   <<n <= 1440, 20>> >>) = RecencyTerm(n)
    /\ \A n \in Int : 
          Worth(<< <<n >= 5, 800>>,
                   <<n >= 3, 300>> >>) = ReminderLoss(n)
    /\ \A w : 
          Worth(<< <<w = "hot", 500>>,
                   <<w = "warm", 250>> >>) = WarmthTerm(w)
  <1>1. ASSUME NEW n \in Int
        PROVE  Worth(<< <<n >= 60, 15>>,
                        <<n >= 40, 8>>,
                        <<n < 15, -10>> >>) = ScoreTerm(n)
    <2> DEFINE a == n >= 60
               b == n >= 40
               c == n < 15
    <2>1. a \in BOOLEAN /\ b \in BOOLEAN /\ c \in BOOLEAN
      OBVIOUS
    <2>2. Worth(<< <<a, 15>>, <<b, 8>>, <<c, -10>> >>) =
             IF a THEN 15 ELSE IF b THEN 8 ELSE IF c THEN -10 ELSE 0
      <3> HIDE DEF a, b, c
      <3> QED BY <2>1, Worth3
    <2> QED BY <2>2, Zenon DEF ScoreTerm
  <1>2. ASSUME NEW n \in Int
        PROVE  Worth(<< <<n >= 70, 10>>,
                        <<n >= 40, 5>>,
                        <<n \in 0 .. 19, -5>> >>) = ConfidenceTerm(n)
    <2> DEFINE a == n >= 70
               b == n >= 40
               c == n \in 0 .. 19
    <2>1. a \in BOOLEAN /\ b \in BOOLEAN /\ c \in BOOLEAN
      OBVIOUS
    <2>2. Worth(<< <<a, 10>>, <<b, 5>>, <<c, -5>> >>) =
             IF a THEN 10 ELSE IF b THEN 5 ELSE IF c THEN -5 ELSE 0
      <3> HIDE DEF a, b, c
      <3> QED BY <2>1, Worth3
    <2> QED BY <2>2, Zenon DEF ConfidenceTerm
  <1>3. ASSUME NEW n \in Int
        PROVE  Worth(<< <<n >= 4, 10>>,
                        <<n >= 2, 3>> >>) = ReminderCost(n)
    <2> DEFINE a == n >= 4
               b == n >= 2
    <2>1. a \in BOOLEAN /\ b \in BOOLEAN
      OBVIOUS
    <2>2. Worth(<< <<a, 10>>, <<b, 3>> >>) =
             IF a THEN 10 ELSE IF b THEN 3 ELSE 0
      <3> HIDE DEF a, b
      <3> QED BY <2>1, Worth2
    <2> QED BY <2>2, Zenon DEF ReminderCost
  <1>4. ASSUME NEW n \in Int
        PROVE  Worth(<< <<n >= 70, 1000>>,
                        <<n >= 50, 500>> >>) = ProbabilityTerm(n)
    <2> DEFINE a == n >= 70
               b == n >= 50
    <2>1. a \in BOOLEAN /\ b \in BOOLEAN
      OBVIOUS
    <2>2. Worth(<< <<a, 1000>>, <<b, 500>> >>) =
             IF a THEN 1000 ELSE IF b THEN 500 ELSE 0
      <3> HIDE DEF a, b
      <3> QED BY <2>1, Worth2
    <2> QED BY <2>2, Zenon DEF ProbabilityTerm
  <1>5. ASSUME NEW n \in Int
        PROVE  Worth(<< <<n <= 30, 100>>,
                        <<n <= 120, 80>>,
                        <<n <= 360, 50>>,
                        <<n <= 1440, 20>> >>) = RecencyTerm(n)
    <2> DEFINE a == n <= 30
               b == n <= 120
               c == n <= 360
               d == n <= 1440
    <2>1. a \in BOOLEAN /\ b \in BOOLEAN /\ c \in BOOLEAN /\ d \in BOOLEAN
      OBVIOUS
    <2>2. Worth(<< <<a, 100>>, <<b, 80>>, <<c, 50>>, <<d, 20>> >>) =
             IF a THEN 100 ELSE IF b THEN 80 ELSE IF c THEN 50 ELSE IF d THEN 20 ELSE 0
      <3> HIDE DEF a, b, c, d
      <3> QED BY <2>1, Worth4
    <2> QED BY <2>2, ZenonT(60) DEF RecencyTerm
  <1>6. ASSUME NEW n \in Int
        PROVE  Worth(<< <<n >= 5, 800>>,
                        <<n >= 3, 300>> >>) = ReminderLoss(n)
    <2> DEFINE a == n >= 5
               b == n >= 3
    <2>1. a \in BOOLEAN /\ b \in BOOLEAN
      OBVIOUS
    <2>2. Worth(<< <<a, 800>>, <<b, 300>> >>) =
             IF a THEN 800 ELSE IF b THEN 300 ELSE 0
      <3> HIDE DEF a, b
      <3> QED BY <2>1, Worth2
    <2> QED BY <2>2, Zenon DEF ReminderLoss
  <1>7. ASSUME NEW w
        PROVE  Worth(<< <<w = "hot", 500>>,
                        <<w = "warm", 250>> >>) = WarmthTerm(w)
    <2> DEFINE a == w = "hot"
               b == w = "warm"
    <2>1. a \in BOOLEAN /\ b \in BOOLEAN
      OBVIOUS
    <2>2. Worth(<< <<a, 500>>, <<b, 250>> >>) =
             IF a THEN 500 ELSE IF b THEN 250 ELSE 0
      <3> HIDE DEF a, b
      <3> QED BY <2>1, Worth2
    <2> QED BY <2>2, Zenon DEF WarmthTerm
  <1> QED BY <1>1, <1>2, <1>3, <1>4, <1>5, <1>6, <1>7, Zenon

LEMMA QuietIs ==
    ASSUME NEW l, NEW n \in Int, NEW off \in BOOLEAN
    PROVE  Quiet(l, n, off) = QuietTerm(l.temp, n, off)
  <1> DEFINE a == l.temp = "hot" /\ n >= (IF off THEN 360 ELSE 120)
             b == l.temp = "warm" /\ n >= (IF off THEN 720 ELSE 360)
             c == n >= (IF off THEN 2160 ELSE 1440)
             d == n >= (IF off THEN 180 ELSE 60)
  <1>1. a \in BOOLEAN /\ b \in BOOLEAN /\ c \in BOOLEAN /\ d \in BOOLEAN
    OBVIOUS
  <1>2. Worth(<< <<a, 15>>, <<b, 10>>, <<c, 12>>, <<d, 3>> >>) =
           IF a THEN 15 ELSE IF b THEN 10 ELSE IF c THEN 12 ELSE IF d THEN 3 ELSE 0
    <2> HIDE DEF a, b, c, d
    <2> QED BY <1>1, Worth4
  <1> QED BY <1>2, Zenon DEF QuietTerm, Quiet

-----------------------------------------------------------------------------
(* What the terms are, and that they grow.                                   *)
LeadRows ==
    [phone : BOOLEAN, area : BOOLEAN, district : BOOLEAN,
     stage : {Worths[i] : i \in DOMAIN Worths},
     temp : {"hot", "warm", "cold"}, conf : Confidences \union {Unknown},
     reminders : 0 .. 5]
TalkRows ==
    [objection : DOMAIN Deltas \union {"none"}, severity : Severities,
     tactic : BOOLEAN, offered : BOOLEAN]

LEMMA ClampGrows ==
    ASSUME NEW x \in Int, NEW y \in Int, x <= y
    PROVE  /\ Clamp(0, x, 100) \in 0 .. 100 /\ Clamp(0, y, 100) \in 0 .. 100
           /\ Clamp(0, x, 100) <= Clamp(0, y, 100)
  BY DEF Clamp

LEMMA RoundGrows ==
    ASSUME NEW x \in Int, NEW y \in Int, x <= y
    PROVE  Round(x) \in Int /\ Round(y) \in Int /\ Round(x) <= Round(y)
  <1> DEFINE q == x \div 10
             r == x % 10
             v == y \div 10
             w == y % 10
  <1>1. /\ q \in Int /\ r \in 0 .. 9 /\ v \in Int /\ w \in 0 .. 9
        /\ x = 10 * q + r /\ y = 10 * v + w
    OBVIOUS
  <1>2. /\ Round(x) = IF r > 5 \/ (r = 5 /\ q % 2 = 1) THEN q + 1 ELSE q
        /\ Round(y) = IF w > 5 \/ (w = 5 /\ v % 2 = 1) THEN v + 1 ELSE v
    BY DEF Round
  <1> HIDE DEF q, r, v, w
  <1>3. q < v \/ (q = v /\ r <= w)
    BY <1>1
  <1> QED BY <1>1, <1>2, <1>3

\* What a fact about the customer adds is never lost by learning the fact.
LEMMA IfGrows ==
    ASSUME NEW a \in BOOLEAN, NEW b \in BOOLEAN, a => b
    PROVE  \A n \in Nat : If(a, n) \in {0, n} /\ If(b, n) \in {0, n} /\ If(a, n) <= If(b, n)
  BY DEF If

\* A term and its growth.
LEMMA TermsGrow ==
    /\ \A n \in Int, p \in Int : n <= p =>
          /\ ScoreTerm(n) \in Int /\ ScoreTerm(p) \in Int /\ ScoreTerm(n) <= ScoreTerm(p)
          /\ ProbabilityTerm(n) \in Int /\ ProbabilityTerm(p) \in Int
          /\ ProbabilityTerm(n) <= ProbabilityTerm(p)
          /\ RecencyTerm(n) \in Int /\ RecencyTerm(p) \in Int /\ RecencyTerm(p) <= RecencyTerm(n)
    /\ \A n \in Int, p \in Int, off \in BOOLEAN : \A w : n <= p =>
          /\ QuietTerm(w, n, off) \in Int /\ QuietTerm(w, p, off) \in Int
          /\ w \in {"hot", "warm", "cold"} => QuietTerm(w, n, off) <= QuietTerm(w, p, off)
    /\ \A n \in Int : /\ ConfidenceTerm(n) \in Int /\ ReminderCost(n) \in Int
                      /\ ReminderLoss(n) \in Int
    /\ \A w : WarmthTerm(w) \in Int
  <1>1. ASSUME NEW n \in Int, NEW p \in Int, n <= p
        PROVE  /\ ScoreTerm(n) \in Int /\ ScoreTerm(p) \in Int /\ ScoreTerm(n) <= ScoreTerm(p)
               /\ ProbabilityTerm(n) \in Int /\ ProbabilityTerm(p) \in Int
               /\ ProbabilityTerm(n) <= ProbabilityTerm(p)
               /\ RecencyTerm(n) \in Int /\ RecencyTerm(p) \in Int /\ RecencyTerm(p) <= RecencyTerm(n)
    BY <1>1 DEF ScoreTerm, ProbabilityTerm, RecencyTerm
  <1>2. ASSUME NEW n \in Int, NEW p \in Int, NEW off \in BOOLEAN, NEW w, n <= p
        PROVE  /\ QuietTerm(w, n, off) \in Int /\ QuietTerm(w, p, off) \in Int
               /\ w \in {"hot", "warm", "cold"} => QuietTerm(w, n, off) <= QuietTerm(w, p, off)
    <2>1. CASE off = TRUE
      BY <1>2, <2>1 DEF QuietTerm
    <2>2. CASE off = FALSE
      BY <1>2, <2>2 DEF QuietTerm
    <2> QED BY <2>1, <2>2
  <1>3. \A n \in Int : ConfidenceTerm(n) \in Int /\ ReminderCost(n) \in Int /\ ReminderLoss(n) \in Int
    BY DEF ConfidenceTerm, ReminderCost, ReminderLoss
  <1>4. \A w : WarmthTerm(w) \in Int
    BY DEF WarmthTerm
  <1> QED BY <1>1, <1>2, <1>3, <1>4

-----------------------------------------------------------------------------
(* A lead k that is l, somewhat nearer to a deal.                            *)
Learned(l, k) ==
    /\ k.temp = l.temp /\ k.conf = l.conf /\ k.reminders = l.reminders
    /\ l.phone => k.phone
    /\ l.area => k.area
    /\ l.district => k.district
    /\ StageBonus[l.stage] <= StageBonus[k.stage] /\ Progress[l.stage] <= Progress[k.stage]

RawHealth(l, t, n, m, off) ==
    50 + ScoreTerm(n)
    - If(t.objection = "price", 3) - If(t.objection # "none" /\ ~t.tactic, 7)
    + If(l.phone, 12) + If(l.area, 8) + If(l.district, 5)
    + ConfidenceTerm(l.conf) - ReminderCost(l.reminders)
    - QuietTerm(l.temp, m, off) + StageBonus[l.stage]

LEMMA RowFacts ==
    ASSUME ReadinessAssumption, NEW l \in LeadRows
    PROVE  /\ l.phone \in BOOLEAN /\ l.area \in BOOLEAN /\ l.district \in BOOLEAN
           /\ l.conf \in Int /\ l.reminders \in 0 .. 5 /\ l.temp \in {"hot", "warm", "cold"}
           /\ Confidence0(l) \in 0 .. 100
           /\ StageBonus[l.stage] \in Int /\ Progress[l.stage] \in Int
  <1>1. l.stage \in {"LOST", "NEW", "PACKAGE_SELECTED", "CONTACTED", "MEASUREMENT", "QUOTE",
                     "DEAL", "INSTALLATION", "COMPLETED"}
    BY DEF LeadRows, Worths
  <1>2. StageBonus[l.stage] \in Int /\ Progress[l.stage] \in Int
    BY <1>1 DEF StageBonus, Progress
  <1>3. l.conf \in 0 .. 100 \/ l.conf = -1
    BY DEF LeadRows, Unknown, ReadinessAssumption
  <1> QED BY <1>2, <1>3 DEF LeadRows, Confidence0, Unknown

LEMMA HealthIs ==
    ASSUME ReadinessAssumption, NEW l \in LeadRows, NEW t, NEW n \in Int, NEW m \in Int, NEW off \in BOOLEAN
    PROVE  Health(l, t, n, m, off) = Clamp(0, RawHealth(l, t, n, m, off), 100)
  <1>1. l.conf \in Int /\ l.reminders \in Int
    BY RowFacts
  <1>2. /\ Worth(<< <<n >= 60, 15>>, <<n >= 40, 8>>, <<n < 15, -10>> >>) = ScoreTerm(n)
        /\ Worth(<< <<l.conf >= 70, 10>>, <<l.conf >= 40, 5>>, <<l.conf \in 0 .. 19, -5>> >>)
             = ConfidenceTerm(l.conf)
        /\ Worth(<< <<l.reminders >= 4, 10>>, <<l.reminders >= 2, 3>> >>) = ReminderCost(l.reminders)
    BY <1>1, TablesAre
  <1>3. Quiet(l, m, off) = QuietTerm(l.temp, m, off)
    BY QuietIs
  <1> QED BY <1>2, <1>3, ZenonT(60) DEF Health, RawHealth

LEMMA HealthGrows ==
    ASSUME ReadinessAssumption, NEW l \in LeadRows, NEW k \in LeadRows, Learned(l, k),
           NEW t, NEW u, u.objection = t.objection, u.tactic = t.tactic,
           NEW n \in Int, NEW p \in Int, n <= p, NEW m \in Int, NEW s \in Int, s <= m,
           NEW off \in BOOLEAN
    PROVE  /\ Health(l, t, n, m, off) \in 0 .. 100 /\ Health(k, u, p, s, off) \in 0 .. 100
           /\ Health(l, t, n, m, off) <= Health(k, u, p, s, off)
  <1> DEFINE x == If(t.objection = "price", 3)
             y == If(t.objection # "none" /\ ~t.tactic, 7)
             a == If(l.phone, 12)
             b == If(l.area, 8)
             c == If(l.district, 5)
             a1 == If(k.phone, 12)
             b1 == If(k.area, 8)
             c1 == If(k.district, 5)
             q == QuietTerm(l.temp, m, off)
             q1 == QuietTerm(l.temp, s, off)
             e == ConfidenceTerm(l.conf)
             f == ReminderCost(l.reminders)
             g == StageBonus[l.stage]
             g1 == StageBonus[k.stage]
             v == ScoreTerm(n)
             v1 == ScoreTerm(p)
  <1>1. x \in Int /\ y \in Int
    BY DEF If
  <1>2. /\ a \in Int /\ a1 \in Int /\ a <= a1
        /\ b \in Int /\ b1 \in Int /\ b <= b1
        /\ c \in Int /\ c1 \in Int /\ c <= c1
    <2>1. /\ l.phone \in BOOLEAN /\ k.phone \in BOOLEAN /\ (l.phone => k.phone)
          /\ l.area \in BOOLEAN /\ k.area \in BOOLEAN /\ (l.area => k.area)
          /\ l.district \in BOOLEAN /\ k.district \in BOOLEAN /\ (l.district => k.district)
      BY RowFacts, Zenon DEF Learned
    <2>2. a \in {0, 12} /\ a1 \in {0, 12} /\ a <= a1
      BY <2>1, IfGrows
    <2>3. b \in {0, 8} /\ b1 \in {0, 8} /\ b <= b1
      BY <2>1, IfGrows
    <2>4. c \in {0, 5} /\ c1 \in {0, 5} /\ c <= c1
      BY <2>1, IfGrows
    <2> QED BY <2>2, <2>3, <2>4
  <1>3. v \in Int /\ v1 \in Int /\ v <= v1
    BY TermsGrow
  <1>4. q \in Int /\ q1 \in Int /\ q1 <= q
    BY TermsGrow, RowFacts
  <1>5. e \in Int /\ f \in Int
    <2>1. l.conf \in Int /\ l.reminders \in Int
      BY RowFacts
    <2> QED BY <2>1, TermsGrow
  <1>6. g \in Int /\ g1 \in Int /\ g <= g1
    BY RowFacts DEF Learned
  <1>7. RawHealth(l, t, n, m, off) = 50 + v - x - y + a + b + c + e - f - q + g
    BY Zenon DEF RawHealth
  <1>8. RawHealth(k, u, p, s, off) = 50 + v1 - x - y + a1 + b1 + c1 + e - f - q1 + g1
    BY ZenonT(60) DEF RawHealth, Learned
  <1>9. /\ RawHealth(l, t, n, m, off) \in Int /\ RawHealth(k, u, p, s, off) \in Int
        /\ RawHealth(l, t, n, m, off) <= RawHealth(k, u, p, s, off)
    <2> HIDE DEF x, y, a, b, c, a1, b1, c1, q, q1, e, f, g, g1, v, v1
    <2> QED BY <1>1, <1>2, <1>3, <1>4, <1>5, <1>6, <1>7, <1>8
  <1> DEFINE x0 == RawHealth(l, t, n, m, off)
             y0 == RawHealth(k, u, p, s, off)
  <1>10. /\ Clamp(0, x0, 100) \in 0 .. 100 /\ Clamp(0, y0, 100) \in 0 .. 100
         /\ Clamp(0, x0, 100) <= Clamp(0, y0, 100)
    <2> HIDE DEF x, y, a, b, c, a1, b1, c1, q, q1, e, f, g, g1, v, v1
    <2> QED BY <1>9, ClampGrows
  <1>11. Health(l, t, n, m, off) = Clamp(0, x0, 100) /\ Health(k, u, p, s, off) = Clamp(0, y0, 100)
    BY HealthIs
  <1> QED BY <1>10, <1>11, Zenon

LEMMA ProbabilityGrows ==
    ASSUME ReadinessAssumption, NEW l \in LeadRows, NEW k \in LeadRows, Learned(l, k),
           NEW n \in Int, NEW p \in Int, n <= p
    PROVE  /\ DealProbability(l, n) \in Int /\ DealProbability(k, p) \in Int
           /\ DealProbability(l, n) <= DealProbability(k, p)
  <1> DEFINE a == If(l.phone, 100)
             b == If(l.area, 70)
             c == If(l.district, 40)
             a1 == If(k.phone, 100)
             b1 == If(k.area, 70)
             c1 == If(k.district, 40)
             e == Confidence0(l)
             r == Clamp(0, l.reminders, 3)
             x == 4 * n + 2 * e + a + b + c + 60 + 10 * r
             y == 4 * p + 2 * e + a1 + b1 + c1 + 60 + 10 * r
  <1>1. /\ a \in Int /\ a1 \in Int /\ a <= a1
        /\ b \in Int /\ b1 \in Int /\ b <= b1
        /\ c \in Int /\ c1 \in Int /\ c <= c1
    <2>1. /\ l.phone \in BOOLEAN /\ k.phone \in BOOLEAN /\ (l.phone => k.phone)
          /\ l.area \in BOOLEAN /\ k.area \in BOOLEAN /\ (l.area => k.area)
          /\ l.district \in BOOLEAN /\ k.district \in BOOLEAN /\ (l.district => k.district)
      BY RowFacts, Zenon DEF Learned
    <2>2. a \in {0, 100} /\ a1 \in {0, 100} /\ a <= a1
      BY <2>1, IfGrows
    <2>3. b \in {0, 70} /\ b1 \in {0, 70} /\ b <= b1
      BY <2>1, IfGrows
    <2>4. c \in {0, 40} /\ c1 \in {0, 40} /\ c <= c1
      BY <2>1, IfGrows
    <2> QED BY <2>2, <2>3, <2>4
  <1>2. e \in Int /\ r \in Int
    BY RowFacts DEF Clamp
  <1>3. DealProbability(l, n) = Clamp(0, Round(x), 100)
    BY Zenon DEF DealProbability
  <1>4. DealProbability(k, p) = Clamp(0, Round(y), 100)
    <2>1. Confidence0(k) = e /\ Clamp(0, k.reminders, 3) = r
      BY Zenon DEF Learned, Confidence0
    <2> QED BY <2>1, Zenon DEF DealProbability
  <1>5. x \in Int /\ y \in Int /\ x <= y
    <2> HIDE DEF a, b, c, a1, b1, c1, e, r
    <2> QED BY <1>1, <1>2
  <1>6. Round(x) \in Int /\ Round(y) \in Int /\ Round(x) <= Round(y)
    <2> HIDE DEF x, y
    <2> QED BY <1>5, RoundGrows
  <1>7. /\ Clamp(0, Round(x), 100) \in 0 .. 100 /\ Clamp(0, Round(y), 100) \in 0 .. 100
        /\ Clamp(0, Round(x), 100) <= Clamp(0, Round(y), 100)
    <2> HIDE DEF x, y, a, b, c, a1, b1, c1, e, r
    <2> QED BY <1>6, ClampGrows
  <1> HIDE DEF x, y, a, b, c, a1, b1, c1, e, r
  <1> QED BY <1>3, <1>4, <1>7

\* The score may already hold what the contact data are worth, or have lost it:
\* what they take from the engagement is less than they add of their own.
Marks(l) == If(l.phone, 10) + If(l.area, 5) + If(l.district, 3)

EngagementTerm(g, n, e) == Clamp(0, 100 * (n - g) - 8 * e, 10000)

LEMMA MarksGrow ==
    ASSUME ReadinessAssumption, NEW l \in LeadRows, NEW k \in LeadRows, Learned(l, k)
    PROVE  /\ Contact(l) \in Int /\ Contact(k) \in Int /\ Marks(l) \in Int /\ Marks(k) \in Int
           /\ Marks(l) <= Marks(k)
           /\ 28 * Contact(l) + 25 * (Marks(k) - Marks(l)) <= 28 * Contact(k)
  <1>0. /\ l.phone \in BOOLEAN /\ k.phone \in BOOLEAN /\ (l.phone => k.phone)
        /\ l.area \in BOOLEAN /\ k.area \in BOOLEAN /\ (l.area => k.area)
        /\ l.district \in BOOLEAN /\ k.district \in BOOLEAN /\ (l.district => k.district)
    BY RowFacts, Zenon DEF Learned
  <1> DEFINE a == If(l.phone, 10)
             b == If(l.area, 5)
             c == If(l.district, 3)
             a1 == If(k.phone, 10)
             b1 == If(k.area, 5)
             c1 == If(k.district, 3)
  <1>1. a \in {0, 10} /\ a1 \in {0, 10} /\ a <= a1
    BY <1>0, IfGrows
  <1>2. b \in {0, 5} /\ b1 \in {0, 5} /\ b <= b1
    BY <1>0, IfGrows
  <1>3. c \in {0, 3} /\ c1 \in {0, 3} /\ c <= c1
    BY <1>0, IfGrows
  <1>4. /\ If(l.phone, 50) = 5 * a /\ If(k.phone, 50) = 5 * a1
    BY DEF If
  <1>5. /\ If(l.area, 30) = 6 * b /\ If(k.area, 30) = 6 * b1
    BY DEF If
  <1>6. /\ If(l.district, 20) = (IF c = 3 THEN 20 ELSE 0)
        /\ If(k.district, 20) = (IF c1 = 3 THEN 20 ELSE 0)
    BY DEF If
  <1>7. /\ Contact(l) = 5 * a + 6 * b + (IF c = 3 THEN 20 ELSE 0)
        /\ Contact(k) = 5 * a1 + 6 * b1 + (IF c1 = 3 THEN 20 ELSE 0)
    BY <1>4, <1>5, <1>6 DEF Contact
  <1>8. Marks(l) = a + b + c /\ Marks(k) = a1 + b1 + c1
    BY Zenon DEF Marks
  <1> HIDE DEF a, b, c, a1, b1, c1
  <1> QED BY <1>1, <1>2, <1>3, <1>7, <1>8

LEMMA EngagementIs ==
    ASSUME ReadinessAssumption, NEW l \in LeadRows, NEW n \in Int
    PROVE  Engagement(l, n) = EngagementTerm(Marks(l), n, Confidence0(l))
  <1> DEFINE a == If(l.phone, 10)
             b == If(l.area, 5)
             c == If(l.district, 3)
  <1>1. a \in Int /\ b \in Int /\ c \in Int
    BY DEF If
  <1>2. n - a - b - c = n - (a + b + c)
    <2> HIDE DEF a, b, c
    <2> QED BY <1>1, SMTT(30)
  <1>3. Engagement(l, n) = Clamp(0, 100 * (n - a - b - c) - 8 * Confidence0(l), 10000)
    BY ZenonT(60) DEF Engagement
  <1>4. EngagementTerm(Marks(l), n, Confidence0(l))
          = Clamp(0, 100 * (n - (a + b + c)) - 8 * Confidence0(l), 10000)
    BY Zenon DEF EngagementTerm, Marks
  <1> HIDE DEF a, b, c
  <1> QED BY <1>2, <1>3, <1>4

LEMMA ContactPays ==
    ASSUME ReadinessAssumption, NEW l \in LeadRows, NEW k \in LeadRows, Learned(l, k),
           NEW n \in Int, NEW p \in Int, n <= p
    PROVE  /\ Contact(l) \in Int /\ Contact(k) \in Int
           /\ (25 * Engagement(l, n)) \div 100 \in Int /\ (25 * Engagement(k, p)) \div 100 \in Int
           /\ 28 * Contact(l) + (25 * Engagement(l, n)) \div 100
                <= 28 * Contact(k) + (25 * Engagement(k, p)) \div 100
  <1>1. Confidence0(k) = Confidence0(l) /\ Confidence0(l) \in Int
    <2>1. Confidence0(k) = Confidence0(l)
      BY Zenon DEF Learned, Confidence0
    <2> QED BY <2>1, RowFacts
  <1> DEFINE e == Confidence0(l)
             g == Marks(l)
             h == Marks(k)
             x == EngagementTerm(g, n, e)
             y == EngagementTerm(h, p, e)
             c == Contact(l)
             d == Contact(k)
  <1>2. Engagement(l, n) = x /\ Engagement(k, p) = y
    BY <1>1, EngagementIs, Zenon
  <1>3. /\ c \in Int /\ d \in Int /\ g \in Int /\ h \in Int
        /\ g <= h /\ 28 * c + 25 * (h - g) <= 28 * d
    BY MarksGrow, Zenon
  <1>4. x \in 0 .. 10000 /\ y \in 0 .. 10000 /\ x <= y + 100 * (h - g)
    <2>1. e \in Int
      BY <1>1
    <2> HIDE DEF g, h, c, d, e
    <2> DEFINE r == 100 * (n - g) - 8 * e
               s == 100 * (p - h) - 8 * e
               w == 100 * (h - g)
    <2>2. r \in Int /\ s \in Int /\ w \in Nat /\ r <= s + w
      BY <1>3, <2>1, SMTT(30)
    <2>3. x = Clamp(0, r, 10000) /\ y = Clamp(0, s, 10000)
      BY Zenon DEF EngagementTerm
    <2> HIDE DEF r, s
    <2>4. Clamp(0, r, 10000) \in 0 .. 10000 /\ Clamp(0, s, 10000) \in 0 .. 10000
          /\ Clamp(0, r, 10000) <= Clamp(0, s, 10000) + w
      <3> HIDE DEF w
      <3> QED BY <2>2, SMTT(30) DEF Clamp
    <2> HIDE DEF x, y
    <2>5. x \in 0 .. 10000 /\ y \in 0 .. 10000 /\ x <= y + w
      <3> HIDE DEF w
      <3> QED BY <2>3, <2>4
    <2> QED BY <2>5
  <1>5. /\ (25 * x) \div 100 \in Int /\ (25 * y) \div 100 \in Int
        /\ 28 * c + (25 * x) \div 100 <= 28 * d + (25 * y) \div 100
    <2> HIDE DEF e, g, h, c, d, x, y
    <2> QED BY <1>3, <1>4
  <1> QED BY <1>2, <1>3, <1>5, Zenon

-----------------------------------------------------------------------------
(* The closing score grows with what it is made from.                        *)
ObjectionTerm(t) ==
    IF t.objection = "none" THEN 500 ELSE IF t.tactic THEN 800 ELSE -Penalty[t.severity]

RawClosing(l, t, n, m, off) ==
    28 * Contact(l) + (25 * Engagement(l, n)) \div 100 + 15 * Confidence0(l)
    + 10 * Health(l, t, n, m, off) - If(Health(l, t, n, m, off) < 30, 500)
    + ProbabilityTerm(DealProbability(l, n)) + 8 * Progress[l.stage]
    + ObjectionTerm(t) + 8 * RecencyTerm(m) + If(t.offered, 300)
    - ReminderLoss(l.reminders) + WarmthTerm(l.temp)

LEMMA ClosingIs ==
    ASSUME ReadinessAssumption, NEW l \in LeadRows, NEW t, NEW n \in Int, NEW m \in Int,
           NEW off \in BOOLEAN, DealProbability(l, n) \in Int
    PROVE  ClosingScore(l, t, n, m, off) = Clamp(0, RawClosing(l, t, n, m, off) \div 100, 100)
  <1> DEFINE dp == DealProbability(l, n)
  <1>1. Worth(<< <<dp >= 70, 1000>>, <<dp >= 50, 500>> >>) = ProbabilityTerm(dp)
    BY TablesAre
  <1>2. Worth(<< <<l.reminders >= 5, 800>>, <<l.reminders >= 3, 300>> >>)
          = ReminderLoss(l.reminders)
    <2>1. l.reminders \in Int
      BY RowFacts
    <2> QED BY <2>1, TablesAre
  <1>3. Worth(<< <<l.temp = "hot", 500>>, <<l.temp = "warm", 250>> >>) = WarmthTerm(l.temp)
    BY TablesAre
  <1>4. Recency(m) = RecencyTerm(m)
    BY TablesAre DEF Recency
  <1> DEFINE health == Health(l, t, n, m, off)
             v == Worth(<< <<dp >= 70, 1000>>, <<dp >= 50, 500>> >>)
             w == Worth(<< <<l.reminders >= 5, 800>>, <<l.reminders >= 3, 300>> >>)
             z == Worth(<< <<l.temp = "hot", 500>>, <<l.temp = "warm", 250>> >>)
  <1>5. ClosingScore(l, t, n, m, off) =
          Clamp(0, (28 * Contact(l) + (25 * Engagement(l, n)) \div 100 + 15 * Confidence0(l)
                    + 10 * health - If(health < 30, 500) + v + 8 * Progress[l.stage]
                    + ObjectionTerm(t) + 8 * Recency(m) + If(t.offered, 300) - w + z) \div 100, 100)
    BY Zenon DEF ClosingScore, ObjectionTerm
  <1>6. RawClosing(l, t, n, m, off) =
          28 * Contact(l) + (25 * Engagement(l, n)) \div 100 + 15 * Confidence0(l)
          + 10 * health - If(health < 30, 500) + v + 8 * Progress[l.stage]
          + ObjectionTerm(t) + 8 * Recency(m) + If(t.offered, 300) - w + z
    <2>1. v = ProbabilityTerm(dp) /\ w = ReminderLoss(l.reminders) /\ z = WarmthTerm(l.temp)
      BY <1>1, <1>2, <1>3, ZenonT(60)
    <2> HIDE DEF v, w, z, health
    <2> QED BY <1>4, <2>1 DEF RawClosing, health
  <1> HIDE DEF v, w, z, health
  <1> QED BY <1>5, <1>6, ZenonT(60)

\* Nothing that brings a lead nearer lowers the score.
LEMMA NearerPays ==
    ASSUME ReadinessAssumption, NEW l \in LeadRows, NEW k \in LeadRows, Learned(l, k),
           NEW t \in TalkRows, NEW u \in TalkRows, u.objection = t.objection, u.severity = t.severity,
           u.tactic = t.tactic, t.offered => u.offered,
           NEW n \in Int, NEW p \in Int, n <= p, NEW m \in Int, NEW s \in Int, s <= m,
           NEW off \in BOOLEAN
    PROVE  /\ ClosingScore(l, t, n, m, off) \in 0 .. 100 /\ ClosingScore(k, u, p, s, off) \in 0 .. 100
           /\ ClosingScore(l, t, n, m, off) <= ClosingScore(k, u, p, s, off)
  <1> DEFINE a == 28 * Contact(l) + (25 * Engagement(l, n)) \div 100
             a1 == 28 * Contact(k) + (25 * Engagement(k, p)) \div 100
             b == Confidence0(l)
             c == Health(l, t, n, m, off)
             c1 == Health(k, u, p, s, off)
             d == ProbabilityTerm(DealProbability(l, n))
             d1 == ProbabilityTerm(DealProbability(k, p))
             e == Progress[l.stage]
             e1 == Progress[k.stage]
             f == ObjectionTerm(t)
             g == RecencyTerm(m)
             g1 == RecencyTerm(s)
             h == If(t.offered, 300)
             h1 == If(u.offered, 300)
             i == ReminderLoss(l.reminders)
             j == WarmthTerm(l.temp)
             x == RawClosing(l, t, n, m, off)
             y == RawClosing(k, u, p, s, off)
  <1>1. a \in Int /\ a1 \in Int /\ a <= a1
    <2> DEFINE v == (25 * Engagement(l, n)) \div 100
               w == (25 * Engagement(k, p)) \div 100
               v0 == Contact(l)
               w0 == Contact(k)
    <2>1. v \in Int /\ w \in Int /\ v0 \in Int /\ w0 \in Int /\ 28 * v0 + v <= 28 * w0 + w
      BY ContactPays, ZenonT(60)
    <2> HIDE DEF v, w, v0, w0
    <2>2. 28 * v0 + v \in Int /\ 28 * w0 + w \in Int /\ 28 * v0 + v <= 28 * w0 + w
      BY <2>1
    <2> QED BY <2>2, Zenon DEF v, w, v0, w0
  <1>2. b \in Int /\ Confidence0(k) = b
    <2>1. Confidence0(k) = b
      BY Zenon DEF Learned, Confidence0
    <2> QED BY <2>1, RowFacts
  <1>3. c \in 0 .. 100 /\ c1 \in 0 .. 100 /\ c <= c1
    <2> HIDE DEF a, a1, b, d, d1, e, e1, f, g, g1, h, h1, i, j, x, y
    <2> QED BY HealthGrows
  <1>4. DealProbability(l, n) \in Int /\ DealProbability(k, p) \in Int
        /\ DealProbability(l, n) <= DealProbability(k, p)
    BY ProbabilityGrows, Zenon
  <1>5. d \in Int /\ d1 \in Int /\ d <= d1
    BY <1>4, TermsGrow
  <1>6. e \in Int /\ e1 \in Int /\ e <= e1
    BY RowFacts, Zenon DEF Learned
  <1>7. f \in Int /\ ObjectionTerm(u) = f
    <2>1. ObjectionTerm(u) = f
      BY ZenonT(60) DEF ObjectionTerm
    <2>2. t.severity \in {"low", "medium", "high"}
      BY DEF TalkRows, Severities
    <2>3. Penalty[t.severity] \in Int
      BY <2>2 DEF Penalty
    <2> QED BY <2>1, <2>3 DEF ObjectionTerm
  <1>8. g \in Int /\ g1 \in Int /\ g <= g1
    BY TermsGrow
  <1>9. h \in {0, 300} /\ h1 \in {0, 300} /\ h <= h1
    <2>1. t.offered \in BOOLEAN /\ u.offered \in BOOLEAN
      BY DEF TalkRows
    <2> QED BY <2>1, IfGrows
  <1>10. i \in Int /\ j \in Int
    <2>1. l.reminders \in Int
      BY RowFacts
    <2> QED BY <2>1, TermsGrow
  <1>11. x = a + 15 * b + 10 * c - If(c < 30, 500) + d + 8 * e + f + 8 * g + h - i + j
    BY Zenon DEF RawClosing
  <1>12. y = a1 + 15 * b + 10 * c1 - If(c1 < 30, 500) + d1 + 8 * e1 + f + 8 * g1 + h1 - i + j
    <2>1. k.reminders = l.reminders /\ k.temp = l.temp
      BY Zenon DEF Learned
    <2>2. y = a1 + 15 * Confidence0(k) + 10 * c1 - If(c1 < 30, 500) + d1 + 8 * e1 + ObjectionTerm(u)
              + 8 * g1 + h1 - ReminderLoss(k.reminders) + WarmthTerm(k.temp)
      BY Zenon DEF RawClosing
    <2> QED BY <1>2, <1>7, <2>1, <2>2, ZenonT(60)
  <1>13. /\ x \in Int /\ y \in Int /\ x <= y
         /\ x \div 100 \in Int /\ y \div 100 \in Int /\ x \div 100 <= y \div 100
    <2> HIDE DEF a, a1, b, c, c1, d, d1, e, e1, f, g, g1, h, h1, i, j, x, y
    <2>1. /\ If(c < 30, 500) \in Int /\ If(c1 < 30, 500) \in Int
          /\ 10 * c - If(c < 30, 500) <= 10 * c1 - If(c1 < 30, 500)
      BY <1>3 DEF If
    <2>2. x \in Int /\ y \in Int /\ x <= y
      BY <1>1, <1>2, <1>3, <1>5, <1>6, <1>7, <1>8, <1>9, <1>10, <1>11, <1>12, <2>1
    <2> QED BY <2>2
  <1>14. /\ Clamp(0, x \div 100, 100) \in 0 .. 100 /\ Clamp(0, y \div 100, 100) \in 0 .. 100
         /\ Clamp(0, x \div 100, 100) <= Clamp(0, y \div 100, 100)
    <2> HIDE DEF x, y
    <2> QED BY <1>13, ClampGrows
  <1>15. ClosingScore(l, t, n, m, off) = Clamp(0, x \div 100, 100)
    <2> HIDE DEF a, a1, b, c, c1, d, d1, e, e1, f, g, g1, h, h1, i, j
    <2> QED BY <1>4, ClosingIs
  <1>16. ClosingScore(k, u, p, s, off) = Clamp(0, y \div 100, 100)
    <2> HIDE DEF a, a1, b, c, c1, d, d1, e, e1, f, g, g1, h, h1, i, j
    <2> QED BY <1>4, ClosingIs
  <1> HIDE DEF a, a1, b, c, c1, d, d1, e, e1, f, g, g1, h, h1, i, j, x, y
  <1> QED BY <1>14, <1>15, <1>16, Zenon

-----------------------------------------------------------------------------
LEMMA StageRange ==
    /\ DOMAIN Worths = 1 .. 9
    /\ {Worths[i] : i \in DOMAIN Worths} =
          {"LOST", "NEW", "PACKAGE_SELECTED", "CONTACTED", "MEASUREMENT", "QUOTE",
           "DEAL", "INSTALLATION", "COMPLETED"}
  BY DEF Worths

Silences == {Minutes[i] : i \in DOMAIN Minutes}

LEMMA MinuteRange ==
    /\ 0 \in Silences /\ Silences \subseteq Nat
    /\ \A i \in DOMAIN Minutes : i < Len(Minutes) =>
          /\ Minutes[i + 1] \in Silences
          /\ Minutes[i] \in Int /\ Minutes[i + 1] \in Int /\ Minutes[i] <= Minutes[i + 1]
  <1>1. DOMAIN Minutes = 1 .. 12 /\ Len(Minutes) = 12
    BY DEF Minutes
  <1>2. /\ Minutes[1] = 0 /\ Minutes[2] = 31 /\ Minutes[3] = 60 /\ Minutes[4] = 120
        /\ Minutes[5] = 121 /\ Minutes[6] = 180 /\ Minutes[7] = 360 /\ Minutes[8] = 361
        /\ Minutes[9] = 720 /\ Minutes[10] = 1440 /\ Minutes[11] = 1441 /\ Minutes[12] = 2160
    BY DEF Minutes
  <1>3. 0 \in Silences
    <2>1. 1 \in DOMAIN Minutes
      BY <1>1
    <2> QED BY <1>2, <2>1 DEF Silences
  <1>4. \A i \in 1 .. 12 : Minutes[i] \in Nat
    BY <1>2
  <1>5. Silences \subseteq Nat
    BY <1>1, <1>4 DEF Silences
  <1>6. ASSUME NEW i \in DOMAIN Minutes, i < Len(Minutes)
        PROVE  /\ Minutes[i + 1] \in Silences
               /\ Minutes[i] \in Int /\ Minutes[i + 1] \in Int /\ Minutes[i] <= Minutes[i + 1]
    <2>1. i \in 1 .. 11 /\ i + 1 \in DOMAIN Minutes
      BY <1>1, <1>6
    <2>2. Minutes[i + 1] \in Silences
      BY <2>1, Zenon DEF Silences
    <2>3. Minutes[i] \in Int /\ Minutes[i + 1] \in Int /\ Minutes[i] <= Minutes[i + 1]
      BY <1>2, <2>1
    <2> QED BY <2>2, <2>3
  <1> QED BY <1>3, <1>5, <1>6

\* A stage further on is worth no less.
LEMMA StagesGrow ==
    ASSUME NEW i \in 1 .. 9, NEW j \in 1 .. 9, i <= j
    PROVE  /\ StageBonus[Worths[i]] <= StageBonus[Worths[j]]
           /\ Progress[Worths[i]] <= Progress[Worths[j]]
  <1>1. /\ Worths[1] = "LOST" /\ Worths[2] = "NEW" /\ Worths[3] = "PACKAGE_SELECTED"
        /\ Worths[4] = "CONTACTED" /\ Worths[5] = "MEASUREMENT" /\ Worths[6] = "QUOTE"
        /\ Worths[7] = "DEAL" /\ Worths[8] = "INSTALLATION" /\ Worths[9] = "COMPLETED"
    BY DEF Worths
  <1>2. /\ StageBonus["LOST"] = 0 /\ StageBonus["NEW"] = 0 /\ StageBonus["PACKAGE_SELECTED"] = 0
        /\ StageBonus["CONTACTED"] = 5 /\ StageBonus["MEASUREMENT"] = 8 /\ StageBonus["QUOTE"] = 10
        /\ StageBonus["DEAL"] = 15 /\ StageBonus["INSTALLATION"] = 15 /\ StageBonus["COMPLETED"] = 20
    BY DEF StageBonus
  <1>3. /\ Progress["LOST"] = 0 /\ Progress["NEW"] = 10 /\ Progress["PACKAGE_SELECTED"] = 20
        /\ Progress["CONTACTED"] = 30 /\ Progress["MEASUREMENT"] = 50 /\ Progress["QUOTE"] = 60
        /\ Progress["DEAL"] = 80 /\ Progress["INSTALLATION"] = 90 /\ Progress["COMPLETED"] = 100
    BY DEF Progress
  <1> QED BY <1>1, <1>2, <1>3

LEMMA ReadinessStart == ReadinessAssumption /\ ReadinessInit => ReadinessTypeOK
  <1> SUFFICES ASSUME ReadinessAssumption, ReadinessInit PROVE ReadinessTypeOK
    OBVIOUS
  <1> USE DEF ReadinessInit
  <1>1. closedNow \in BOOLEAN
    BY Zenon
  <1>2. occurred \in 0 .. MaxOccurrences
    BY DEF ReadinessAssumption
  <1>3. silence \in Silences
    BY MinuteRange
  <1>4. lead \in LeadRows
    BY StageRange DEF LeadRows
  <1>5. talk \in TalkRows
    BY DEF TalkRows, Severities, Deltas
  <1>6. points \in 0 .. 100
    OBVIOUS
  <1> QED BY <1>1, <1>2, <1>3, <1>4, <1>5, <1>6, Zenon DEF ReadinessTypeOK, LeadRows, TalkRows, Silences

LEMMA ReadinessStep ==
    ReadinessAssumption /\ ReadinessTypeOK /\ [ReadinessNext]_readinessVars => ReadinessTypeOK'
  <1> SUFFICES ASSUME ReadinessAssumption, ReadinessTypeOK, [ReadinessNext]_readinessVars
               PROVE  ReadinessTypeOK'
    OBVIOUS
  <1>1. /\ lead \in LeadRows /\ talk \in TalkRows /\ points \in 0 .. 100 /\ silence \in Silences
        /\ closedNow \in BOOLEAN /\ occurred \in 0 .. MaxOccurrences
    BY Zenon DEF ReadinessTypeOK, LeadRows, TalkRows, Silences
  <1>2. 0 \in Silences /\ MaxOccurrences \in Nat
    BY MinuteRange DEF ReadinessAssumption
  <1>3. \A delta \in Int : Score(delta) => points' \in 0 .. 100
    BY <1>1 DEF Score, Clamp
  <1>4. Occurs => occurred' \in 0 .. MaxOccurrences
    BY <1>1, <1>2 DEF Occurs
  <1>5. SUFFICES /\ lead' \in LeadRows /\ talk' \in TalkRows /\ points' \in 0 .. 100
                 /\ silence' \in Silences /\ closedNow' \in BOOLEAN
                 /\ occurred' \in 0 .. MaxOccurrences
    BY Zenon DEF ReadinessTypeOK, LeadRows, TalkRows, Silences
  <1>6. CASE AskSomething
    BY <1>1, <1>2, <1>3, <1>4, <1>6 DEF AskSomething
  <1>7. CASE AskModel
    <2>1. PICK w \in {"hot", "warm", "cold"}, c \in Confidences :
            lead' = [lead EXCEPT !.temp = w, !.conf = c]
      BY <1>7 DEF AskModel
    <2>2. PICK closes \in BOOLEAN : talk' = [talk EXCEPT !.offered = talk.offered \/ closes]
      BY <1>7 DEF AskModel
    <2>3. lead' \in LeadRows
      BY <1>1, <2>1 DEF LeadRows
    <2>4. talk' \in TalkRows
      <3>1. (talk.offered \/ closes) \in BOOLEAN
        BY Zenon
      <3> DEFINE o == talk.offered \/ closes
      <3> HIDE DEF o
      <3> QED BY <1>1, <2>2, <3>1 DEF TalkRows, o
    <2> QED BY <1>1, <1>2, <1>4, <1>7, <2>3, <2>4 DEF AskModel
  <1>8. CASE GivePhone
    <2>1. lead' \in LeadRows
      BY <1>1, <1>8 DEF GivePhone, LeadRows
    <2> QED BY <1>1, <1>2, <1>3, <1>4, <1>8, <2>1 DEF GivePhone
  <1>9. CASE FillForm
    <2>1. PICK a \in BOOLEAN, d \in BOOLEAN :
            lead' = [lead EXCEPT !.area = lead.area \/ a, !.district = lead.district \/ d]
      BY <1>9 DEF FillForm
    <2> DEFINE x == lead.area \/ a
               y == lead.district \/ d
    <2>2. x \in BOOLEAN /\ y \in BOOLEAN
      BY Zenon
    <2>3. lead' = [lead EXCEPT !.area = x, !.district = y]
      BY <2>1, Zenon
    <2> HIDE DEF x, y
    <2>4. lead' \in LeadRows
      BY <1>1, <2>2, <2>3 DEF LeadRows
    <2> QED BY <1>1, <1>4, <1>9, <2>4 DEF FillForm
  <1>10. CASE Object
    <2>1. PICK o \in Objections, s \in Severities, found \in BOOLEAN :
             /\ Score(Delta(o, s))
             /\ talk' = [talk EXCEPT !.objection = o, !.severity = s, !.tactic = talk.tactic \/ found]
      BY <1>10 DEF Object
    <2>2. o \in DOMAIN Deltas /\ Delta(o, s) \in Int
      BY DEF ReadinessAssumption, Deltas, Delta
    <2> DEFINE x == talk.tactic \/ found
    <2>3. x \in BOOLEAN
      BY Zenon
    <2>4. talk' = [talk EXCEPT !.objection = o, !.severity = s, !.tactic = x]
      BY <2>1, Zenon
    <2> HIDE DEF x
    <2>5. talk' \in TalkRows
      BY <1>1, <2>2, <2>3, <2>4 DEF TalkRows
    <2> QED BY <1>1, <1>2, <1>3, <1>4, <1>10, <2>1, <2>2, <2>5 DEF Object
  <1>11. CASE PutOff
    BY <1>1, <1>3, <1>4, <1>11 DEF PutOff
  <1>12. CASE Reminded
    <2>1. lead' \in LeadRows
      BY <1>1, <1>12 DEF Reminded, LeadRows
    <2> QED BY <1>1, <1>4, <1>12, <2>1 DEF Reminded
  <1>13. CASE MoveStage
    <2>1. PICK i \in DOMAIN Worths : lead' = [lead EXCEPT !.stage = Worths[i]]
      BY <1>13 DEF MoveStage
    <2> DEFINE x == Worths[i]
    <2>2. x \in {Worths[n] : n \in DOMAIN Worths}
      OBVIOUS
    <2> HIDE DEF x
    <2>3. lead' \in LeadRows
      BY <1>1, <2>1, <2>2 DEF LeadRows, x
    <2> QED BY <1>1, <1>4, <1>13, <2>3 DEF MoveStage
  <1>14. CASE KeepSilent
    <2>1. PICK i \in DOMAIN Minutes : i < Len(Minutes) /\ silence' = Minutes[i + 1]
      BY <1>14, Zenon DEF KeepSilent
    <2>2. silence' \in Silences
      BY <2>1, MinuteRange
    <2> QED BY <1>1, <1>14, <2>2, Zenon DEF KeepSilent
  <1>15. CASE OfficeOpensOrCloses
    BY <1>1, <1>15, Zenon DEF OfficeOpensOrCloses
  <1>16. CASE UNCHANGED readinessVars
    BY <1>1, <1>16, Zenon DEF readinessVars
  <1> QED BY <1>6, <1>7, <1>8, <1>9, <1>10, <1>11, <1>12, <1>13, <1>14, <1>15, <1>16, Zenon
          DEF ReadinessNext

\* The lead's row, the memory of the talk, the score and the silence keep their
\* types, whatever the confidences and the objections.
THEOREM ReadinessTypes == ReadinessSpec => []ReadinessTypeOK
  BY ReadinessAssumption, ReadinessStart, ReadinessStep, PTL DEF ReadinessSpec

LEMMA ClosingRange ==
    ASSUME ReadinessAssumption, NEW l \in LeadRows, NEW t \in TalkRows, NEW n \in Int, NEW m \in Int,
           NEW off \in BOOLEAN
    PROVE  Learned(l, l) /\ ClosingScore(l, t, n, m, off) \in 0 .. 100
  <1>1. Learned(l, l)
    <2>1. StageBonus[l.stage] \in Int /\ Progress[l.stage] \in Int
      BY RowFacts
    <2> QED BY <2>1 DEF Learned
  <1>2. n <= n /\ m <= m /\ (t.offered => t.offered)
    OBVIOUS
  <1>3. ClosingScore(l, t, n, m, off) \in 0 .. 100
    BY <1>1, <1>2, NearerPays, ZenonT(30)
  <1> QED BY <1>1, <1>3

LEMMA EffortStep ==
    ASSUME ReadinessTypeOK, ReadinessTypeOK'
    PROVE  /\ GivePhone \/ FillForm \/ PutOff \/ AskSomething => Closing' >= Closing
           /\ MoveStage /\ StageWorth' >= StageWorth => Closing' >= Closing
           /\ KeepSilent => Closing' <= Closing
  <1>1. /\ lead \in LeadRows /\ talk \in TalkRows /\ points \in Int /\ silence \in Int
        /\ 0 <= silence /\ closedNow \in BOOLEAN
    <2>1. /\ lead \in LeadRows /\ talk \in TalkRows /\ closedNow \in BOOLEAN
          /\ points \in 0 .. 100 /\ silence \in Silences
      BY Zenon DEF ReadinessTypeOK, LeadRows, TalkRows, Silences
    <2> QED BY <2>1, MinuteRange
  <1>2. /\ lead' \in LeadRows /\ talk' \in TalkRows /\ points' \in Int /\ silence' \in Int
    <2>1. /\ lead' \in LeadRows /\ talk' \in TalkRows
          /\ points' \in 0 .. 100 /\ silence' \in Silences
      BY Zenon DEF ReadinessTypeOK, LeadRows, TalkRows, Silences
    <2> QED BY <2>1, MinuteRange
  \* The two kinds of step: the lead comes nearer, or waits.
  <1>3. ASSUME Learned(lead, lead'), talk' = talk, points <= points', silence' <= silence,
               closedNow' = closedNow
        PROVE  Closing' >= Closing
    <2>1. talk.offered => talk'.offered
      BY <1>3, Zenon
    <2> DEFINE x == ClosingScore(lead, talk, points, silence, closedNow)
               y == ClosingScore(lead', talk', points', silence', closedNow)
    <2>2. x \in 0 .. 100 /\ y \in 0 .. 100 /\ x <= y
      <3>1. x <= y
        BY <1>1, <1>2, <1>3, <2>1, ReadinessAssumption, NearerPays
      <3>2. x \in 0 .. 100 /\ y \in 0 .. 100
        BY <1>1, <1>2, ReadinessAssumption, ClosingRange
      <3> QED BY <3>1, <3>2
    <2>3. Closing = x /\ Closing' = y
      BY <1>3, Zenon DEF Closing
    <2> HIDE DEF x, y
    <2> QED BY <2>2, <2>3
  <1>4. Learned(lead, lead)
    BY <1>1, ReadinessAssumption, ClosingRange
  <1>5. ASSUME NEW delta \in Nat, Score(delta) PROVE points <= points'
    <2>1. points \in 0 .. 100
      BY Zenon DEF ReadinessTypeOK
    <2> QED BY <1>5, <2>1 DEF Score, Clamp
  <1>6. ASSUME GivePhone PROVE Closing' >= Closing
    <2>1. lead' = [lead EXCEPT !.phone = TRUE] /\ Score(40) /\ silence' = 0
          /\ talk' = talk /\ closedNow' = closedNow
      BY <1>6 DEF GivePhone
    <2>2. Learned(lead, lead')
      BY <1>1, <1>4, <2>1 DEF Learned, LeadRows
    <2>3. points <= points' /\ silence' <= silence
      BY <1>1, <1>5, <2>1
    <2> QED BY <1>3, <2>1, <2>2, <2>3
  <1>7. ASSUME FillForm PROVE Closing' >= Closing
    <2>1. PICK a \in BOOLEAN, d \in BOOLEAN :
            lead' = [lead EXCEPT !.area = lead.area \/ a, !.district = lead.district \/ d]
      BY <1>7 DEF FillForm
    <2>2. talk' = talk /\ closedNow' = closedNow /\ points' = points /\ silence' = silence
      BY <1>7 DEF FillForm
    <2> DEFINE x == lead.area \/ a
               y == lead.district \/ d
    <2>3. x \in BOOLEAN /\ y \in BOOLEAN /\ (lead.area => x) /\ (lead.district => y)
      BY Zenon
    <2>4. lead' = [lead EXCEPT !.area = x, !.district = y]
      BY <2>1, Zenon
    <2> HIDE DEF x, y
    <2>5. Learned(lead, lead')
      BY <1>1, <1>4, <2>3, <2>4 DEF Learned, LeadRows
    <2> QED BY <1>1, <1>3, <2>2, <2>5
  <1>8. ASSUME PutOff PROVE Closing' >= Closing
    BY <1>1, <1>3, <1>4, <1>5, <1>8 DEF PutOff
  <1>9. ASSUME AskSomething PROVE Closing' >= Closing
    <2>1. PICK delta \in {5, 10, 15, 25} : Score(delta)
      BY <1>9 DEF AskSomething
    <2>2. points <= points'
      BY <1>5, <2>1
    <2> QED BY <1>1, <1>3, <1>4, <1>9, <2>2 DEF AskSomething
  <1>10. ASSUME MoveStage /\ StageWorth' >= StageWorth PROVE Closing' >= Closing
    <2>1. PICK j \in DOMAIN Worths : lead' = [lead EXCEPT !.stage = Worths[j]]
      BY <1>10 DEF MoveStage
    <2>2. /\ talk' = talk /\ closedNow' = closedNow /\ points' = points /\ silence' = silence
      BY <1>10 DEF MoveStage
    <2>3. /\ StageWorth \in 1 .. 9 /\ Worths[StageWorth] = lead.stage
      <3>1. \E i \in DOMAIN Worths : Worths[i] = lead.stage
        BY <1>1 DEF LeadRows
      <3> QED BY <3>1, StageRange DEF StageWorth
    <2>4. /\ StageWorth' \in 1 .. 9 /\ Worths[StageWorth'] = lead'.stage
      <3>1. \E i \in DOMAIN Worths : Worths[i] = lead'.stage
        BY <1>2 DEF LeadRows
      <3> QED BY <3>1, StageRange DEF StageWorth
    <2>5. /\ StageBonus[lead.stage] <= StageBonus[lead'.stage]
          /\ Progress[lead.stage] <= Progress[lead'.stage]
      BY <1>10, <2>3, <2>4, StagesGrow
    <2> DEFINE x == Worths[j]
    <2>6. lead' = [lead EXCEPT !.stage = x]
      BY <2>1
    <2> HIDE DEF x
    <2>7. Learned(lead, lead')
      BY <1>1, <2>5, <2>6 DEF Learned, LeadRows
    <2> QED BY <1>1, <1>3, <2>2, <2>7
  <1>11. ASSUME KeepSilent PROVE Closing' <= Closing
    <2>1. PICK i \in DOMAIN Minutes : /\ i < Len(Minutes) /\ silence = Minutes[i]
                                     /\ silence' = Minutes[i + 1]
      BY <1>11, Zenon DEF KeepSilent
    <2>2. lead' = lead /\ talk' = talk /\ points' = points /\ closedNow' = closedNow
      BY <1>11 DEF KeepSilent
    <2>3. silence <= silence'
      BY <2>1, MinuteRange
    <2> DEFINE x == ClosingScore(lead, talk, points, silence', closedNow)
               y == ClosingScore(lead, talk, points, silence, closedNow)
    <2>4. x \in 0 .. 100 /\ y \in 0 .. 100 /\ x <= y
      BY <1>1, <1>2, <1>4, <2>3, ReadinessAssumption, NearerPays
    <2>5. Closing = y /\ Closing' = x
      BY <2>2, Zenon DEF Closing
    <2> HIDE DEF x, y
    <2> QED BY <2>4, <2>5
  <1> QED BY <1>6, <1>7, <1>8, <1>9, <1>10, <1>11

\* Through the three scoring services nothing that brings a lead nearer to a deal
\* makes it look further away, and silence never makes it look nearer, for any
\* confidences, objections, and however long the talk.
THEOREM EffortIsPaid == ReadinessSpec => EffortPays
  <1>1. ReadinessTypeOK /\ ReadinessTypeOK' =>
           [/\ GivePhone \/ FillForm \/ PutOff \/ AskSomething => Closing' >= Closing
            /\ MoveStage /\ StageWorth' >= StageWorth => Closing' >= Closing
            /\ KeepSilent => Closing' <= Closing]_readinessVars
    BY EffortStep, Zenon
  <1> QED BY <1>1, ReadinessTypes, PTL DEF ReadinessSpec, EffortPays

-----------------------------------------------------------------------------
(* The components side by side. The one at work keeps its invariant; of the   *)
(* others nothing need be known.                                              *)
CrmInv ==
    /\ part = "pipeline" => PipelineTypeOK
    /\ part = "queue" => QueueTypeOK
    /\ part = "conversation" => FormInv
    /\ part = "alerts" => TellingInv
    /\ part = "escalation" => CardInv
    /\ part = "thread" => ForgetInv
    /\ part = "reminders" => PhoneInv
    /\ part = "links" => MuteInv
    /\ part = "routing" => RoutingTypeOK /\ LabelTellsBranch
    /\ part = "dialogue" => FlowInv
    /\ part = "agent" => AgentTypeOK
    /\ part = "settings" => AloneInv
    /\ part = "readiness" => ReadinessTypeOK
    /\ part = "prices" => QuoteInv

LEMMA CrmStart == Init => CrmInv
  <1> SUFFICES ASSUME Init PROVE CrmInv
    OBVIOUS
  <1>1. /\ PipelineInit /\ QueueInit /\ RoutingInit /\ DialogueInit /\ ConversationInit
        /\ AlertInit /\ EscalationInit /\ ThreadInit /\ ReminderInit /\ LinkInit /\ AgentInit
        /\ SettingInit /\ QuoteInit /\ ReadinessInit
    BY Zenon DEF Init
  <1>2. PipelineTypeOK /\ QueueTypeOK /\ FormInv /\ TellingInv /\ CardInv /\ ForgetInv /\ PhoneInv
    BY <1>1, PipelineTypesInit, QueueTypesInit, FormInit, TellingInit, CardInit, ForgetInit,
       PhoneInit, Zenon
  <1>3. /\ MuteInv /\ RoutingTypeOK /\ LabelTellsBranch /\ FlowInv /\ AgentTypeOK /\ AloneInv
        /\ ReadinessTypeOK /\ QuoteInv
    BY <1>1, MuteInit, RoutingTypesInit, FlowInit, AgentTypesInit, AloneInit, ReadinessStart,
       ReadinessAssumption, QuoteInitially, Zenon
  <1> QED BY <1>2, <1>3, Zenon DEF CrmInv

crmVars == <<part, pc, rowLock, taskOwn, restVars>>

\* The step of the instance is one of the component at work.
LEMMA OneWorks ==
    ASSUME [Next]_crmVars
    PROVE  /\ part' = part
           /\ part = "pipeline" => [PipelineNext]_pipelineVars
           /\ part = "queue" => [QueueNext]_queueVars
           /\ part = "conversation" => [ConversationNext]_conversationVars
           /\ part = "alerts" => [AlertNext]_alertVars
           /\ part = "escalation" => [EscalationNext]_escalationVars
           /\ part = "thread" => [ThreadNext]_threadVars
           /\ part = "reminders" => [ReminderNext]_reminderVars
           /\ part = "links" => [LinkNext]_linkVars
           /\ part = "routing" => [RoutingNext]_routingVars
           /\ part = "dialogue" => [DialogueNext]_dialogueVars
           /\ part = "agent" => [AgentNext]_agentVars
           /\ part = "settings" => [SettingNext]_settingVars
           /\ part = "readiness" => [ReadinessNext]_readinessVars
           /\ part = "prices" => [QuoteNext]_quoteVars
  <1>1. CASE UNCHANGED crmVars
    <2>1. /\ UNCHANGED <<part, pc, rowLock>> /\ UNCHANGED restVars
          /\ UNCHANGED pipelineOwn /\ UNCHANGED queueOwn /\ UNCHANGED conversationOwn
          /\ UNCHANGED alertOwn /\ UNCHANGED escalationOwn /\ UNCHANGED threadOwn
          /\ UNCHANGED reminderOwn /\ UNCHANGED linkOwn /\ UNCHANGED agentOwn /\ UNCHANGED settingOwn
      BY <1>1 DEF crmVars, taskOwn
    <2>2. /\ UNCHANGED pipelineVars /\ UNCHANGED queueVars /\ UNCHANGED alertVars
          /\ UNCHANGED escalationVars
      BY <2>1 DEF pipelineOwn, pipelineVars, pipelineTx, queueOwn, queueVars, alertOwn, alertVars,
                  escalationOwn, escalationVars
    <2>3. /\ UNCHANGED conversationVars /\ UNCHANGED threadVars /\ UNCHANGED reminderVars
          /\ UNCHANGED linkVars
      BY <2>1 DEF conversationOwn, conversationVars, threadOwn, threadVars, reminderOwn, reminderVars,
                  linkOwn, linkVars
    <2>4. /\ UNCHANGED agentVars /\ UNCHANGED settingVars
      BY <2>1 DEF agentOwn, agentVars, settingOwn, settingVars
    <2>5. /\ UNCHANGED routingVars /\ UNCHANGED dialogueVars /\ UNCHANGED readinessVars
          /\ UNCHANGED quoteVars
      BY <2>1 DEF restVars
    <2> QED BY <2>1, <2>2, <2>3, <2>4, <2>5
  <1>2. CASE Next
    <2>1. part' = part
      BY <1>2, Zenon DEF Next
    <2>2. \/ part = "pipeline" /\ PipelineNext
          \/ part = "queue" /\ QueueNext
          \/ part = "conversation" /\ ConversationNext
          \/ part = "alerts" /\ AlertNext
          \/ part = "escalation" /\ EscalationNext
          \/ part = "thread" /\ ThreadNext
          \/ part = "reminders" /\ ReminderNext
          \/ part = "links" /\ LinkNext
          \/ part = "routing" /\ RoutingNext
          \/ part = "dialogue" /\ DialogueNext
          \/ part = "agent" /\ AgentNext
          \/ part = "settings" /\ SettingNext
          \/ part = "readiness" /\ ReadinessNext
          \/ part = "prices" /\ QuoteNext
      BY <1>2, SMTT(60) DEF Next
    <2> QED BY <2>1, <2>2
  <1> QED BY <1>1, <1>2

LEMMA CrmStep == CrmInv /\ [Next]_crmVars => CrmInv'
  <1> SUFFICES ASSUME CrmInv, [Next]_crmVars PROVE CrmInv'
    OBVIOUS
  <1> USE OneWorks
  <1>1. part = "pipeline" => PipelineTypeOK'
    BY PipelineTypesStep, Zenon DEF CrmInv
  <1>2. part = "queue" => QueueTypeOK'
    BY QueueTypesStep, Zenon DEF CrmInv
  <1>3. part = "conversation" => FormInv'
    BY FormStep, Zenon DEF CrmInv
  <1>4. part = "alerts" => TellingInv'
    BY TellingStep, Zenon DEF CrmInv
  <1>5. part = "escalation" => CardInv'
    BY CardStep, Zenon DEF CrmInv
  <1>6. part = "thread" => ForgetInv'
    BY ForgetStep, Zenon DEF CrmInv
  <1>7. part = "reminders" => PhoneInv'
    BY PhoneStep, Zenon DEF CrmInv
  <1>8. part = "links" => MuteInv'
    BY MuteStep, Zenon DEF CrmInv
  <1>9. part = "routing" => RoutingTypeOK' /\ LabelTellsBranch'
    BY RoutingStep, Zenon DEF CrmInv
  <1>10. part = "dialogue" => FlowInv'
    BY FlowStep, Zenon DEF CrmInv
  <1>11. part = "agent" => AgentTypeOK'
    BY AgentTypesStep, Zenon DEF CrmInv
  <1>12. part = "settings" => AloneInv'
    BY AloneStep, Zenon DEF CrmInv
  <1>13. part = "readiness" => ReadinessTypeOK'
    BY ReadinessStep, ReadinessAssumption, Zenon DEF CrmInv
  <1>14. part = "prices" => QuoteInv'
    BY QuoteStep, Zenon DEF CrmInv
  <1> QED BY <1>1, <1>2, <1>3, <1>4, <1>5, <1>6, <1>7, <1>8, <1>9, <1>10, <1>11, <1>12, <1>13, <1>14,
             ZenonT(60) DEF CrmInv

\* Whichever component is at work on the tasks they share, its variables keep
\* their types, for any constants of the fourteen.
THEOREM CrmTypes == Spec => []CrmTypeOK
  <1>1. CrmInv => CrmTypeOK
    BY Zenon DEF CrmInv, CrmTypeOK, FormInv, TellingInv, CardInv, ForgetInv, PhoneInv, MuteInv, FlowInv,
             AloneInv, QuoteInv
  <1> QED BY <1>1, CrmStart, CrmStep, PTL DEF Spec, crmVars
=============================================================================
