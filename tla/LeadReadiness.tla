---------------------------- MODULE LeadReadiness -----------------------------
(***************************************************************************)
(* How near a lead is to a deal, as the closing scan works it out: the score *)
(* that the chat has gathered in Redis, the health of the conversation and   *)
(* the probability of a deal feed a vector of signals, and the vector a      *)
(* score from 0 to 100. Between two scans the customer tells more, objects   *)
(* or is silent. Fractions are whole numbers of hundredths, or of            *)
(* ten-thousandths where the vector is rounded to four places.               *)
(***************************************************************************)
EXTENDS Integers, Sequences

CONSTANTS
    Confidences,    \* bound: the model's closing confidences, in percent
    Objections,     \* bound: kinds of objection
    MaxOccurrences        \* bound: what happens to the lead

ASSUME ReadinessAssumption ==
    /\ Confidences \subseteq 0 .. 100 /\ MaxOccurrences \in Nat
    /\ Objections \subseteq {"price", "trust", "delay", "angry"}

\* The stages in the order of their worth for the vector.
Worths == <<"LOST", "NEW", "PACKAGE_SELECTED", "CONTACTED", "MEASUREMENT", "QUOTE",
            "DEAL", "INSTALLATION", "COMPLETED">>
\* What an objection does to the score; a penalty grows with the severity.
Deltas == [price |-> 5, trust |-> 5, delay |-> -10, angry |-> -5]
Severities == {"low", "medium", "high"}
Delta(o, severity) ==
    CASE Deltas[o] > 0 \/ severity = "low" -> Deltas[o]
      [] severity = "medium"               -> -((-3 * Deltas[o]) \div 2)
      [] OTHER                             -> 2 * Deltas[o]

Unknown == -1

VARIABLES
    lead,       \* the row: phone, area, district, stage, temperature, closing confidence
    talk,       \* the assistant's memory: last objection, tactic answered with, closing offer
    points,     \* the score in Redis
    silence,    \* minutes since the last message
    closedNow,   \* outside business hours
    occurred       \* what has happened so far

readinessVars == <<lead, talk, points, silence, closedNow, occurred>>

\* The minutes at which something begins for some lead.
Minutes == <<0, 31, 60, 120, 121, 180, 360, 361, 720, 1440, 1441, 2160>>

ReadinessTypeOK ==
    /\ lead \in [phone : BOOLEAN, area : BOOLEAN, district : BOOLEAN,
                 stage : {Worths[i] : i \in DOMAIN Worths},
                 temp : {"hot", "warm", "cold"}, conf : Confidences \union {Unknown},
                 reminders : 0 .. 5]
    /\ talk \in [objection : DOMAIN Deltas \union {"none"}, severity : Severities,
                 tactic : BOOLEAN, offered : BOOLEAN]
    /\ points \in 0 .. 100 /\ silence \in {Minutes[i] : i \in DOMAIN Minutes}
    /\ closedNow \in BOOLEAN /\ occurred \in 0 .. MaxOccurrences

ReadinessInit ==
    /\ lead = [phone |-> FALSE, area |-> FALSE, district |-> FALSE, stage |-> "NEW",
                temp |-> "cold", conf |-> Unknown, reminders |-> 2]
    /\ talk = [objection |-> "none", severity |-> "low", tactic |-> FALSE, offered |-> FALSE]
    /\ points = 45 /\ silence = 0 /\ closedNow \in BOOLEAN /\ occurred = 0

-----------------------------------------------------------------------------
Clamp(low, n, high) == IF n < low THEN low ELSE IF n > high THEN high ELSE n

\* The worth of the first of <<condition, worth>> whose condition holds, or 0.
Worth(cases) ==
    LET held == {i \in DOMAIN cases : cases[i][1]} IN
    IF held = {} THEN 0 ELSE cases[CHOOSE i \in held : \A j \in held : i <= j][2]

If(condition, n) == IF condition THEN n ELSE 0

\* analyze_conversation as the scan calls it: no severity and no text are passed.
Quiet(l, minutes, off) ==
    Worth(<< <<l.temp = "hot" /\ minutes >= (IF off THEN 360 ELSE 120), 15>>,
             <<l.temp = "warm" /\ minutes >= (IF off THEN 720 ELSE 360), 10>>,
             <<minutes >= (IF off THEN 2160 ELSE 1440), 12>>,
             <<minutes >= (IF off THEN 180 ELSE 60), 3>> >>)
StageBonus == [NEW |-> 0, LOST |-> 0, PACKAGE_SELECTED |-> 0, CONTACTED |-> 5, MEASUREMENT |-> 8,
               QUOTE |-> 10, DEAL |-> 15, INSTALLATION |-> 15, COMPLETED |-> 20]
Health(l, t, score, minutes, off) ==
    Clamp(0,
        50 + Worth(<< <<score >= 60, 15>>, <<score >= 40, 8>>, <<score < 15, -10>> >>)
        - If(t.objection = "price", 3) - If(t.objection # "none" /\ ~t.tactic, 7)
        + If(l.phone, 12) + If(l.area, 8) + If(l.district, 5)
        + Worth(<< <<l.conf >= 70, 10>>, <<l.conf >= 40, 5>>, <<l.conf \in 0 .. 19, -5>> >>)
        - Worth(<< <<l.reminders >= 4, 10>>, <<l.reminders >= 2, 3>> >>)
        - Quiet(l, minutes, off) + StageBonus[l.stage], 100)

\* Python's round of n tenths: halves go to the even neighbour.
Round(n) ==
    LET q == n \div 10 r == n % 10 IN IF r > 5 \/ (r = 5 /\ q % 2 = 1) THEN q + 1 ELSE q

\* evaluate_deal_probability as the scan calls it, in percent.
Confidence0(l) == IF l.conf = Unknown THEN 0 ELSE l.conf
DealProbability(l, score) ==
    Clamp(0, Round(4 * score + 2 * Confidence0(l) + If(l.phone, 100) + If(l.area, 70)
                   + If(l.district, 40) + 60 + 10 * Clamp(0, l.reminders, 3)), 100)

\* build_signal_vector. The engagement is the score without what the contact
\* data are meant to have added to it.
Engagement(l, score) ==
    Clamp(0, 100 * (score - If(l.phone, 10) - If(l.area, 5) - If(l.district, 3))
             - 8 * Confidence0(l), 10000)
Contact(l) == If(l.phone, 50) + If(l.area, 30) + If(l.district, 20)
\* Mutant: the days of a timedelta are left out.
RecencyOfDay(minutes) ==
    LET m == minutes % 1440 IN
    Worth(<< <<m <= 30, 100>>, <<m <= 120, 80>>, <<m <= 360, 50>>, <<TRUE, 20>> >>)
Recency(minutes) ==
    Worth(<< <<minutes <= 30, 100>>, <<minutes <= 120, 80>>, <<minutes <= 360, 50>>,
             <<minutes <= 1440, 20>> >>)
Progress == [NEW |-> 10, LOST |-> 0, PACKAGE_SELECTED |-> 20, CONTACTED |-> 30, MEASUREMENT |-> 50,
             QUOTE |-> 60, DEAL |-> 80, INSTALLATION |-> 90, COMPLETED |-> 100]

\* _evaluate_readiness_from_vector.
Penalty == [low |-> 300, medium |-> 800, high |-> 1500]
ClosingScore(l, t, score, minutes, off) ==
    LET health == Health(l, t, score, minutes, off)
        dp == DealProbability(l, score)
        hundredths ==
            28 * Contact(l) + (25 * Engagement(l, score)) \div 100 + 15 * Confidence0(l)
            + 10 * health - If(health < 30, 500)
            + Worth(<< <<dp >= 70, 1000>>, <<dp >= 50, 500>> >>)
            + 8 * Progress[l.stage]
            + (IF t.objection = "none" THEN 500 ELSE IF t.tactic THEN 800 ELSE -Penalty[t.severity])
            + 8 * Recency(minutes) + If(t.offered, 300)
            - Worth(<< <<l.reminders >= 5, 800>>, <<l.reminders >= 3, 300>> >>)
            + Worth(<< <<l.temp = "hot", 500>>, <<l.temp = "warm", 250>> >>)
    IN Clamp(0, hundredths \div 100, 100)

-----------------------------------------------------------------------------
StageWorth == CHOOSE i \in DOMAIN Worths : Worths[i] = lead.stage
Occurs == occurred < MaxOccurrences /\ occurred' = occurred + 1

\* _add_lead_score, by a task of its own: Redis may fail, or another task that
\* has read the same score may write after it.
Score(delta) == points' \in {points, Clamp(0, points + delta, 100)}

\* A question about a price, a catalog or a measurement, or a room's size.
AskSomething ==
    /\ Occurs /\ \E delta \in {5, 10, 15, 25} : Score(delta)
    /\ silence' = 0 /\ UNCHANGED <<lead, talk, closedNow>>

\* Any other message is answered by the model, which judges the customer
\* anew, and perhaps by an offer to close.
AskModel ==
    /\ Occurs /\ \E t \in {"hot", "warm", "cold"}, c \in Confidences :
          lead' = [lead EXCEPT !.temp = t, !.conf = c]
    /\ \E closes \in BOOLEAN : talk' = [talk EXCEPT !.offered = @ \/ closes]
    /\ silence' = 0 /\ UNCHANGED <<points, closedNow>>

GivePhone ==
    /\ Occurs /\ lead' = [lead EXCEPT !.phone = TRUE] /\ Score(40)
    /\ silence' = 0 /\ UNCHANGED <<talk, closedNow>>

\* The order form and the measurement form write the lead's row.
FillForm ==
    /\ Occurs /\ \E a, d \in BOOLEAN : lead' = [lead EXCEPT !.area = @ \/ a, !.district = @ \/ d]
    /\ UNCHANGED <<talk, points, silence, closedNow>>

\* _handle_objection; analyze_negotiation finds a tactic unless it fails.
Object ==
    /\ Occurs
    /\ \E o \in Objections, severity \in Severities, found \in BOOLEAN :
          /\ Score(Delta(o, severity))
          /\ talk' = [talk EXCEPT !.objection = o, !.severity = severity, !.tactic = @ \/ found]
    /\ silence' = 0 /\ UNCHANGED <<lead, closedNow>>

\* The offer's button "later".
PutOff == Occurs /\ Score(5) /\ UNCHANGED <<lead, talk, silence, closedNow>>

Reminded ==
    /\ Occurs /\ lead.reminders < 5 /\ lead' = [lead EXCEPT !.reminders = @ + 1]
    /\ UNCHANGED <<talk, points, silence, closedNow>>

\* A longer way is several steps.
MoveStage ==
    /\ Occurs /\ \E i \in DOMAIN Worths : /\ i \in StageWorth - 1 .. StageWorth + 1
                                     /\ lead' = [lead EXCEPT !.stage = Worths[i]]
    /\ UNCHANGED <<talk, points, silence, closedNow>>

KeepSilent ==
    /\ \E i \in DOMAIN Minutes : Minutes[i] = silence /\ i < Len(Minutes) /\ silence' = Minutes[i + 1]
    /\ UNCHANGED <<lead, talk, points, closedNow, occurred>>

OfficeOpensOrCloses == closedNow' = ~closedNow /\ UNCHANGED <<lead, talk, points, silence, occurred>>

-----------------------------------------------------------------------------
ReadinessNext ==
    \/ AskSomething \/ AskModel \/ GivePhone \/ FillForm \/ Object \/ PutOff
    \/ Reminded \/ MoveStage \/ KeepSilent \/ OfficeOpensOrCloses

ReadinessSpec == ReadinessInit /\ [][ReadinessNext]_readinessVars

-----------------------------------------------------------------------------
(* Properties                                                              *)

Closing == ClosingScore(lead, talk, points, silence, closedNow)

\* Through three scoring services with their deductions and thresholds, nothing
\* that brings a lead nearer to a deal makes it look further away: neither a
\* phone number, a room's size, a district, a question, an answered offer nor a
\* later stage lowers the closing score, even where Redis has lost the points;
\* and silence raises it at no minute, as long as the office stays open or closed.
EffortPays ==
    [][/\ GivePhone \/ FillForm \/ PutOff \/ AskSomething => Closing' >= Closing
       /\ MoveStage /\ StageWorth' >= StageWorth => Closing' >= Closing
       /\ KeepSilent => Closing' <= Closing]_readinessVars
=============================================================================
