----------------------------- MODULE SalesDialogue -----------------------------
(***************************************************************************)
(* The planner of the sales dialogue, turn by turn: what it knows of the     *)
(* customer, the flow he is in, and the move it decides on. A text is        *)
(* modelled by the facts it gives and the detectors it sets off. The shadow  *)
(* log plans each message without what was known before, which is the first  *)
(* turn here; the simulations of the tests carry the facts on, as the flag   *)
(* SALES_DIALOGUE_MANAGER_ENABLED is meant to.                               *)
(***************************************************************************)
EXTENDS Naturals, Sequences, FiniteSets

CONSTANT MaxDetected   \* bound: facts and detectors of one text

ASSUME DetectedAssumption == MaxDetected \in Nat

Slots == {"design", "area", "room", "district", "phone"}
Blocking == {"measurement", "operator", "objection", "warranty", "stop", "unsafe"}
Signals == Blocking \union {"priceWord", "catalog", "catalogWord", "ambiguous"}
Utterances == {t \in SUBSET (Slots \union Signals) : Cardinality(t) <= MaxDetected}

VARIABLES
    slots,     \* the facts known
    wants,     \* wants_price and wants_measurement of the last turn
    move,      \* next_action of the last turn, or "none"
    answers    \* history: how often in a row the customer has just answered

dialogueVars == <<slots, wants, move, answers>>

\* The question for a fact, and where a flow leads.
Asked == [ask_area |-> "area", ask_design |-> "design", ask_phone |-> "phone", ask_district |-> "district"]
Goals == {"answer_price", "offer_measurement"}
Moves == DOMAIN Asked \union Goals \union
         {"polite_stop", "safety_block", "create_handoff", "answer_warranty",
          "handle_objection", "send_catalog", "clarify"}

DialogueTypeOK ==
    /\ slots \subseteq Slots /\ wants \subseteq {"price", "measurement"}
    /\ move \in Moves \union {"none"} /\ answers \in 0 .. 2

DialogueInit == slots = {} /\ wants = {} /\ move = "none" /\ answers = 0

-----------------------------------------------------------------------------
\* extract_facts: intents are those of the text, but that an answer carries on
\* the flow of the turn before. A design's name sets off the catalog too, so it
\* carries on a price flow unless the catalog is asked for by a word of its own.
OwnPrice(t) == t \intersect {"priceWord", "area"} # {}
WantsCatalog(t) == "catalog" \in t /\ ~OwnPrice(t)
HasIntent(t) == OwnPrice(t) \/ WantsCatalog(t) \/ t \intersect Blocking # {}

WantsPriceBareOnly(t) == OwnPrice(t) \/ ("price" \in wants /\ ~HasIntent(t))
WantsPrice(t) ==
    \/ OwnPrice(t)
    \/ /\ "price" \in wants
       /\ \/ ~HasIntent(t)
          \/ "design" \in t /\ "catalogWord" \notin t /\ t \intersect Blocking = {}

WantsMeasurement(t) == "measurement" \in t \/ ("measurement" \in wants /\ ~HasIntent(t))

\* decide: its rules in their order, for a text and the facts known with it.
Rules(t, known) ==
    << <<"stop" \in t, "polite_stop">>,
       <<"unsafe" \in t, "safety_block">>,
       <<"operator" \in t, "create_handoff">>,
       <<WantsMeasurement(t) /\ "phone" \notin known, "ask_phone">>,
       <<WantsMeasurement(t) /\ "district" \notin known, "ask_district">>,
       <<WantsMeasurement(t), "offer_measurement">>,
       <<WantsPrice(t) /\ "area" \notin known, "ask_area">>,
       <<WantsPrice(t) /\ "design" \notin known, "ask_design">>,
       <<WantsPrice(t), "answer_price">>,
       <<"warranty" \in t, "answer_warranty">>,
       <<"objection" \in t, "handle_objection">>,
       <<WantsCatalog(t) /\ "ambiguous" \in t, "clarify">>,
       <<WantsCatalog(t) /\ ("catalogWord" \in t \/ "design" \in known), "send_catalog">>,
       <<"room" \in known, "ask_area">>,
       <<TRUE, "clarify">> >>

NextMove(t, known) ==
    LET rules == Rules(t, known) IN
    rules[CHOOSE i \in DOMAIN rules : rules[i][1] /\ \A j \in 1 .. i - 1 : ~rules[j][1]][2]

\* The customer gives the fact that was asked for and brings up nothing else;
\* an area, a price or a catalog is something else once a measurement is on.
JustAnswers(t) ==
    /\ move \in DOMAIN Asked /\ Asked[move] \in t
    /\ t \intersect (Blocking \union {"catalogWord"}) = {}
    /\ move \in {"ask_phone", "ask_district"} => t \intersect {"area", "priceWord", "catalog"} = {}

\* plan_turn: a text, and a fact that the bot's own dialogue may have learnt.
PlanTurn(t, learnt) ==
    LET known == slots \union learnt \union (t \intersect Slots) IN
    /\ slots' = known
    /\ move' = NextMove(t, known)
    /\ wants' = {w \in {"price", "measurement"} :
                    IF w = "price" THEN WantsPrice(t) ELSE WantsMeasurement(t)}
    /\ answers' = IF JustAnswers(t) THEN answers + 1 ELSE 0

-----------------------------------------------------------------------------
DialogueNext ==
    \E t \in Utterances :
       \E learnt \in {{}} \union {{s} : s \in Slots \ (slots \union t)} : PlanTurn(t, learnt)

DialogueSpec == DialogueInit /\ [][DialogueNext]_dialogueVars

-----------------------------------------------------------------------------
(* Properties                                                              *)

\* "Logical next question, no needless repetition, progress toward an order": a
\* customer who does no more than answer is asked two questions at most, and the
\* second answer brings the price or the offer of a measurement; whatever was
\* said before, and although the names of designs set off the catalog as well.
AnswersLeadOn ==
    /\ answers = 1 => move \in Goals \union DOMAIN Asked
    /\ answers = 2 => move \in Goals
=============================================================================
