----------------------------- MODULE MCOrchestrator -----------------------------
(* Orchestrator for TLC: two critical modules, one on the other, a module that *)
(* is not critical, and a critical one that needs it; a cycle of a data stage   *)
(* and two trading stages; two signals.                                         *)
EXTENDS Orchestrator

CONSTANTS s1, s2

MCDependencies == <<{}, {1}, {1}, {3}>>
MCCritical == {1, 2, 4}
MCTrading == {2, 3}
=================================================================================
