----------------------------- MODULE MCOrderManager ----------------------------
(* Instances of OrderManager for TLC. *)
EXTENDS OrderManager, TLC

CONSTANTS c1, c2, o1, o2

Symmetry == Permutations(Caller) \cup Permutations(Order)
===============================================================================
