------------------------------ MODULE LeadAlerts ------------------------------
(***************************************************************************)
(* What the scheduler's scans, and the chat when it gives up on a customer,  *)
(* tell the administrators' group about one lead. A Redis key with a time to *)
(* live keeps two alerts of a kind apart; it is set before the alert is      *)
(* sent. Leads share no key.                                                 *)
(***************************************************************************)
EXTENDS HandlerTasks, Sequences

CONSTANTS
    Scans,      \* those at work in this instance
    KeyTtl,     \* time to live of a key
    LastTick    \* bound of the clock

\* The alerts a scan may send about a lead, in their order. Some are skipped out
\* of business hours, which a scan looks up once, at its start.
HotScan       == [inHours |-> <<"hot_alert">>, offHours |-> <<"hot_alert">>]
ClosingScan   == [inHours |-> <<"closer_opp", "closer_risk">>, offHours |-> <<"closer_risk">>]
AutoSalesScan == [inHours |-> <<"escalation", "stalled">>, offHours |-> <<"escalation">>]
HealthScan    == [inHours |-> <<"cooling", "insight">>, offHours |-> <<"insight">>]
DelayScan     == [inHours |-> <<"delay">>, offHours |-> <<>>]

\* The urgency that would send a risk out of hours is never "critical".
AutopilotScan == [inHours |-> <<"autopilot_opp", "autopilot_risk", "autopilot_close">>, offHours |-> <<>>]

\* Its key has the customer's id, where the scan's "escalation" has the lead's.
ChatEscalation == [inHours |-> <<"chat_escalation">>, offHours |-> <<"chat_escalation">>]

Alerts == [hot |-> HotScan, closing |-> ClosingScan, auto_sales |-> AutoSalesScan,
           health |-> HealthScan, delay |-> DelayScan, autopilot |-> AutopilotScan,
           chat |-> ChatEscalation]

\* The Redis keys of the scans at work; a lead has one of each.
AlertKeys ==
    UNION {{Alerts[s][hours][i] : i \in DOMAIN Alerts[s][hours]} :
              s \in Scans, hours \in {"inHours", "offHours"}}

ASSUME AlertsAssumption ==
    Scans \subseteq DOMAIN Alerts /\ KeyTtl \in Nat \ {0} /\ LastTick \in Nat

VARIABLES
    tick,       \* the clock
    keyUntil,   \* when each key expires; 0 if it was never set
    scan,       \* which scan a task is, or NoOne
    rest,       \* the alerts it has still to look at
    took,       \* when it has taken the key; 0 if it has none
    told        \* history: who has sent each alert, and when the key was taken

alertVars == <<tick, keyUntil, scan, rest, took, told, pc, rowLock>>

AlertTypeOK ==
    /\ tick \in Nat \ {0} /\ keyUntil \in [AlertKeys -> Nat] /\ rowLock = NoOne
    /\ pc \in [Handlers -> {"idle", "scan", "tell"}]
    /\ scan \in [Handlers -> DOMAIN Alerts \union {NoOne}]
    /\ rest \in [Handlers -> Seq(AlertKeys)] /\ took \in [Handlers -> Nat]
    /\ told \in [AlertKeys -> SUBSET [by : Handlers, took : Nat]]
    /\ \A h \in Handlers : pc[h] = "tell" => rest[h] # <<>>

AlertInit ==
    /\ TasksIdle
    /\ tick = 1 /\ keyUntil = [a \in AlertKeys |-> 0]
    /\ scan = [h \in Handlers |-> NoOne] /\ rest = [h \in Handlers |-> <<>>]
    /\ took = [h \in Handlers |-> 0] /\ told = [a \in AlertKeys |-> {}]

-----------------------------------------------------------------------------
\* "max_instances": 1 keeps a job from overlapping with itself.
StartScan(h) ==
    /\ pc[h] = "idle"
    /\ \E s \in Scans, hours \in {"inHours", "offHours"} :
          /\ s # "chat" => \A g \in Handlers : scan[g] # s
          /\ scan' = [scan EXCEPT ![h] = s] /\ rest' = [rest EXCEPT ![h] = Alerts[s][hours]]
    /\ pc' = [pc EXCEPT ![h] = "scan"]
    /\ UNCHANGED <<tick, keyUntil, took, told, rowLock>>

NextAlert(h) == rest' = [rest EXCEPT ![h] = Tail(rest[h])]

\* The lead does not call for the alert, or the key is there.
PassBy(h) ==
    /\ pc[h] = "scan" /\ rest[h] # <<>>
    /\ NextAlert(h)
    /\ UNCHANGED <<tick, keyUntil, scan, took, told, pc, rowLock>>

\* SET NX with a time to live, in one command of Redis.
KeyIsFree(a) == keyUntil[a] <= tick
TakeKeyForGood(h) ==
    /\ pc[h] = "scan" /\ rest[h] # <<>> /\ KeyIsFree(Head(rest[h]))
    /\ took' = [took EXCEPT ![h] = tick] /\ pc' = [pc EXCEPT ![h] = "tell"]
    /\ UNCHANGED <<tick, keyUntil, scan, rest, told, rowLock>>
TakeKey(h) ==
    /\ pc[h] = "scan" /\ rest[h] # <<>> /\ KeyIsFree(Head(rest[h]))
    /\ keyUntil' = [keyUntil EXCEPT ![Head(rest[h])] = tick + KeyTtl]
    /\ took' = [took EXCEPT ![h] = tick] /\ pc' = [pc EXCEPT ![h] = "tell"]
    /\ UNCHANGED <<tick, scan, rest, told, rowLock>>

\* The alert goes out; after a network error it may go out again.
Tell(h) ==
    /\ pc[h] = "tell"
    /\ told' = [told EXCEPT ![Head(rest[h])] = @ \union {[by |-> h, took |-> took[h]]}]
    /\ UNCHANGED <<tick, keyUntil, scan, rest, took, pc, rowLock>>

\* Told or given up: the key stays either way.
TellEnds(h) ==
    /\ pc[h] = "tell"
    /\ NextAlert(h) /\ took' = [took EXCEPT ![h] = 0] /\ pc' = [pc EXCEPT ![h] = "scan"]
    /\ UNCHANGED <<tick, keyUntil, scan, told, rowLock>>

\* Nothing left, the cap of the cycle reached, an error at any lead, or a crash.
ScanEnds(h) ==
    /\ Active(h)
    /\ pc' = [pc EXCEPT ![h] = "idle"] /\ scan' = [scan EXCEPT ![h] = NoOne]
    /\ rest' = [rest EXCEPT ![h] = <<>>] /\ took' = [took EXCEPT ![h] = 0]
    /\ UNCHANGED <<tick, keyUntil, told, rowLock>>

Tick ==
    /\ tick < LastTick /\ tick' = tick + 1
    /\ UNCHANGED <<keyUntil, scan, rest, took, told, pc, rowLock>>

-----------------------------------------------------------------------------
AlertNext ==
    \/ Tick
    \/ \E h \in Handlers : \/ StartScan(h) \/ PassBy(h) \/ TakeKey(h)
                           \/ Tell(h) \/ TellEnds(h) \/ ScanEnds(h)

AlertSpec == AlertInit /\ [][AlertNext]_alertVars

-----------------------------------------------------------------------------
(* Properties                                                              *)

\* "Deduped via Redis key: one alert per lead per 6 hours": with scans that die
\* between the key and the alert, alerts that are slow to go out and messages of
\* a chat that escalate at the same time, two alerts of a kind come from keys
\* taken no less than their time to live apart.
AlertsSpaced ==
    [][\A h \in Handlers, a \in AlertKeys : Tell(h) /\ Head(rest[h]) = a =>
          \A t \in told[a] \ {[by |-> h, took |-> took[h]]} :
              took[h] >= t.took + KeyTtl \/ t.took >= took[h] + KeyTtl]_alertVars
=============================================================================
