--------------------------- MODULE AssistantThread ---------------------------
(***************************************************************************)
(* The thread of one customer with the language model: the row of            *)
(* ai_conversations (the latest messages and a summary of older ones) and    *)
(* the number of turns in ai_user_memory. A handler reads them, waits for    *)
(* the model, and at the end writes what it has read together with the new   *)
(* exchange. /ai_reset empties the row meanwhile. A message is modelled by   *)
(* the number of resets that came before it.                                 *)
(***************************************************************************)
EXTENDS HandlerTasks, Sequences, FiniteSets

CONSTANTS
    MaxMessages,    \* _MAX_MESSAGES
    SummaryEvery,   \* _SUMMARY_EVERY_N_TURNS
    MaxResets,      \* bound: resets
    MaxAnswers      \* bound: handlers at work at once

ASSUME ThreadAssumption ==
    /\ MaxMessages \in Nat \ {0} /\ SummaryEvery \in Nat \ {0}
    /\ MaxResets \in Nat /\ MaxAnswers \in Nat

VARIABLES
    messages,   \* last_messages
    summary,    \* of which messages the summary is; {} for NULL
    turns,      \* turn_count, which matters modulo SummaryEvery
    resets,     \* resets so far
    asked,      \* the message a handler answers, by its number of resets
    history, gist, turn,   \* messages, summary and turns as it has read them;
                           \* from then on gist is a new summary, {} for none
    revived     \* history: since the last reset, a handler that is from before
                \* it has written the thread

threadRows == <<messages, summary, turns>>
threadVars == <<threadRows, resets, asked, history, gist, turn, revived, pc, rowLock>>

ThreadTypeOK ==
    /\ messages \in Seq(Nat) /\ Len(messages) <= MaxMessages /\ summary \in SUBSET Nat
    /\ turns \in 0 .. SummaryEvery - 1 /\ resets \in Nat /\ revived \in BOOLEAN /\ rowLock = NoOne
    /\ pc \in [Handlers -> {"idle", "load", "call", "summarise", "persist", "store"}]
    /\ asked \in [Handlers -> Nat] /\ history \in [Handlers -> Seq(Nat)]
    /\ gist \in [Handlers -> SUBSET Nat] /\ turn \in [Handlers -> 0 .. SummaryEvery - 1]

ThreadInit ==
    /\ TasksIdle
    /\ messages = <<>> /\ summary = {} /\ turns = 0 /\ resets = 0 /\ revived = FALSE
    /\ asked = [h \in Handlers |-> 0] /\ history = [h \in Handlers |-> <<>>]
    /\ gist = [h \in Handlers |-> {}] /\ turn = [h \in Handlers |-> 0]

-----------------------------------------------------------------------------
ThreadGoes(h, place) == pc' = [pc EXCEPT ![h] = place] /\ UNCHANGED <<resets, asked, rowLock>>

\* A message that no template, price, catalog or knowledge answer has taken.
Ask(h) ==
    /\ pc[h] = "idle" /\ Cardinality({g \in Handlers : Active(g)}) < MaxAnswers
    /\ pc' = [pc EXCEPT ![h] = "load"] /\ asked' = [asked EXCEPT ![h] = resets]
    /\ UNCHANGED <<threadRows, resets, history, gist, turn, revived, rowLock>>

\* _load_context; if the database fails, the thread counts as empty.
Load(h) ==
    /\ pc[h] = "load"
    /\ \/ history' = [history EXCEPT ![h] = messages] /\ gist' = [gist EXCEPT ![h] = summary]
          /\ turn' = [turn EXCEPT ![h] = turns]
       \/ history' = [history EXCEPT ![h] = <<>>] /\ gist' = [gist EXCEPT ![h] = {}]
          /\ turn' = [turn EXCEPT ![h] = 0]
    /\ ThreadGoes(h, "call") /\ UNCHANGED <<threadRows, revived>>

\* The model answers, and now and then is asked for a summary too; or it fails,
\* and the message is to be kept without an answer.
NextTurn(h) == (turn[h] + 1) % SummaryEvery
CallModel(h) ==
    /\ pc[h] = "call"
    /\ \/ ThreadGoes(h, IF NextTurn(h) = 0 THEN "summarise" ELSE "persist") /\ UNCHANGED turn
       \/ ThreadGoes(h, "store") /\ turn' = [turn EXCEPT ![h] = 0]
    /\ gist' = [gist EXCEPT ![h] = {}]
    /\ UNCHANGED <<threadRows, history, revived>>

\* The last MaxMessages elements of a list.
WindowEndless(s) == s
Window(s) == IF Len(s) <= MaxMessages THEN s ELSE SubSeq(s, Len(s) - MaxMessages + 1, Len(s))
WithExchange(h) == Window(history[h] \o <<asked[h], asked[h]>>)

\* _regenerate_summary; if it fails the summary is left as it is.
Texts(s) == {s[i] : i \in DOMAIN s}
Summarise(h) ==
    /\ pc[h] = "summarise"
    /\ \/ gist' = [gist EXCEPT ![h] = Texts(WithExchange(h))]
       \/ UNCHANGED gist
    /\ ThreadGoes(h, "persist") /\ UNCHANGED <<threadRows, history, turn, revived>>

Writes(h, list) ==
    /\ messages' = list /\ revived' = (revived \/ asked[h] < resets)
    /\ history' = [history EXCEPT ![h] = <<>>] /\ gist' = [gist EXCEPT ![h] = {}]
    /\ turn' = [turn EXCEPT ![h] = 0]
    /\ pc' = [pc EXCEPT ![h] = "idle"] /\ asked' = [asked EXCEPT ![h] = 0]
    /\ UNCHANGED <<resets, rowLock>>

\* _persist_exchange: one transaction. Only a new summary is written.
Persist(h) ==
    /\ pc[h] = "persist"
    /\ summary' = IF gist[h] = {} THEN summary ELSE gist[h]
    /\ turns' = NextTurn(h) /\ Writes(h, WithExchange(h))

\* _store_user_message_only.
Store(h) ==
    /\ pc[h] = "store"
    /\ Writes(h, Window(Append(history[h], asked[h]))) /\ UNCHANGED <<summary, turns>>

\* A database error, which is swallowed, or a restart.
ThreadDies(h) ==
    /\ Active(h)
    /\ pc' = [pc EXCEPT ![h] = "idle"] /\ asked' = [asked EXCEPT ![h] = 0]
    /\ history' = [history EXCEPT ![h] = <<>>] /\ gist' = [gist EXCEPT ![h] = {}]
    /\ turn' = [turn EXCEPT ![h] = 0]
    /\ UNCHANGED <<threadRows, resets, revived, rowLock>>

\* clear_ai_conversation: one statement. The turns are kept.
ResetKeepsSummary ==
    /\ resets < MaxResets /\ resets' = resets + 1
    /\ messages' = <<>> /\ revived' = FALSE
    /\ UNCHANGED <<summary, turns, asked, history, gist, turn, pc, rowLock>>
Reset ==
    /\ resets < MaxResets /\ resets' = resets + 1
    /\ messages' = <<>> /\ summary' = {} /\ revived' = FALSE
    /\ UNCHANGED <<turns, asked, history, gist, turn, pc, rowLock>>

-----------------------------------------------------------------------------
ThreadNext ==
    \/ Reset
    \/ \E h \in Handlers : \/ Ask(h) \/ Load(h) \/ CallModel(h) \/ Summarise(h)
                           \/ Persist(h) \/ Store(h) \/ ThreadDies(h)

ThreadSpec == ThreadInit /\ [][ThreadNext]_threadVars

-----------------------------------------------------------------------------
(* Properties                                                              *)

\* "Clear AI conversation memory": what the model is told of the customer after
\* a reset holds nothing from before it, neither as a message nor through a
\* summary, a failed answer or a handler that has read the old thread; unless a
\* handler that was at work at the reset has written the thread again since.
ResetForgets ==
    \A h \in Handlers :
        pc[h] = "call" /\ asked[h] = resets /\ ~revived =>
            Texts(history[h]) \union gist[h] \subseteq {resets}
=============================================================================
