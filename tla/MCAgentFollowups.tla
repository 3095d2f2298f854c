--------------------------- MODULE MCAgentFollowups ---------------------------
(* Small instances of AgentFollowups for TLC. *)
EXTENDS AgentFollowups, TLC

\* Customers, rows and handlers are interchangeable.
Symmetry ==
    Permutations(Users) \union Permutations(Followups) \union Permutations(Handlers)
==============================================================================
