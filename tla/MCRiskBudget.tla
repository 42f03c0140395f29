------------------------------ MODULE MCRiskBudget ------------------------------
(* An instance of RiskBudget for TLC: two requests, two positions, and an equity   *)
(* that may halve, which breaches the drawdown limit, and halves the limit per     *)
(* trade of an evaluation that had looked at the drawdown before.                  *)
EXTENDS RiskBudget, TLC

CONSTANTS r1, r2, p1, p2, s1, s2

Requests == Permutations({r1, r2}) \cup Permutations({p1, p2}) \cup Permutations({s1, s2})
=================================================================================
