------------------------------ MODULE MCPayments ------------------------------
(* A small instance of Payments for TLC. *)
EXTENDS Payments
===============================================================================
