---------------------------- MODULE BroadcastContract ----------------------------
(***************************************************************************)
(* What a broadcast promises the administrator: one audience, to each chat *)
(* of which the message goes at most once; a report that counts no more    *)
(* than the audience, and all of it when the broadcast is done; and that   *)
(* nothing is sent or counted after it is done or has failed.              *)
(***************************************************************************)
EXTENDS Naturals, FiniteSets

CONSTANTS Broadcasts, Chats

VARIABLES
    state,      \* of the record
    audience,   \* the chats it was resolved to
    received,   \* messages each chat got
    counted     \* chats on the record's counters

promise == <<state, audience, received, counted>>

Init ==
    /\ state = [b \in Broadcasts |-> "ABSENT"]
    /\ audience = [b \in Broadcasts |-> {}]
    /\ received = [b \in Broadcasts |-> [c \in Chats |-> 0]]
    /\ counted = [b \in Broadcasts |-> 0]

Order(b) ==
    /\ state[b] = "ABSENT"
    /\ state' = [state EXCEPT ![b] = "PENDING"]
    /\ UNCHANGED <<audience, received, counted>>

\* A broadcast is started once.
Start(b) ==
    /\ state[b] = "PENDING"
    /\ state' = [state EXCEPT ![b] = "RUNNING"]
    /\ UNCHANGED <<audience, received, counted>>

\* Its audience is chosen before anything goes out, and not again.
Address(b, chats) ==
    /\ state[b] = "RUNNING" /\ audience[b] = {} /\ counted[b] = 0
    /\ \A c \in Chats : received[b][c] = 0
    /\ audience' = [audience EXCEPT ![b] = chats]
    /\ UNCHANGED <<state, received, counted>>

Send(b, c) ==
    /\ state[b] = "RUNNING" /\ c \in audience[b] /\ received[b][c] = 0
    /\ received' = [received EXCEPT ![b][c] = 1]
    /\ UNCHANGED <<state, audience, counted>>

Count(b) ==
    /\ state[b] = "RUNNING"
    /\ \E n \in counted[b] .. Cardinality(audience[b]) : counted' = [counted EXCEPT ![b] = n]
    /\ UNCHANGED <<state, audience, received>>

Complete(b) ==
    /\ state[b] = "RUNNING"
    /\ state' = [state EXCEPT ![b] = "DONE"]
    /\ counted' = [counted EXCEPT ![b] = Cardinality(audience[b])]
    /\ UNCHANGED <<audience, received>>

\* It may be reported as failed at any time, even when it is done.
Fail(b) ==
    /\ state[b] # "ABSENT"
    /\ state' = [state EXCEPT ![b] = "FAILED"]
    /\ UNCHANGED <<audience, received, counted>>

Next ==
    \E b \in Broadcasts :
        \/ Order(b) \/ Start(b) \/ Count(b) \/ Complete(b) \/ Fail(b)
        \/ \E chats \in SUBSET Chats : Address(b, chats)
        \/ \E c \in Chats : Send(b, c)

Spec == Init /\ [][Next]_promise
==============================================================================
