---------------------------- MODULE PaymentContract ----------------------------
(***************************************************************************)
(* What the payment component promises: a submitted payment is decided at  *)
(* most once, and the client hears of that decision, at most once, and of  *)
(* no other.                                                               *)
(***************************************************************************)
CONSTANTS Payments

VARIABLES decision, notices

Decisions == {"paid", "rejected"}

Init ==
    /\ decision = [p \in Payments |-> "none"]
    /\ notices = [p \in Payments |-> <<>>]

Submit(p) ==
    /\ decision[p] = "none"
    /\ decision' = [decision EXCEPT ![p] = "pending"]
    /\ UNCHANGED notices

Decide(p, d) ==
    /\ decision[p] = "pending"
    /\ decision' = [decision EXCEPT ![p] = d]
    /\ UNCHANGED notices

Tell(p) ==
    /\ decision[p] \in Decisions
    /\ notices[p] = <<>>
    /\ notices' = [notices EXCEPT ![p] = <<decision[p]>>]
    /\ UNCHANGED decision

Next == \E p \in Payments : Submit(p) \/ (\E d \in Decisions : Decide(p, d)) \/ Tell(p)

Spec == Init /\ [][Next]_<<decision, notices>>
==============================================================================
