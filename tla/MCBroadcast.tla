----------------------------- MODULE MCBroadcast -----------------------------
(* Small instances of Broadcast for TLC. *)
EXTENDS Broadcast, TLC

\* Workers are interchangeable.
WorkerSymmetry == Permutations(Workers)
==============================================================================
