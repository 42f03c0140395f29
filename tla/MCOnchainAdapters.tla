--------------------------- MODULE MCOnchainAdapters ---------------------------
(* An instance of OnchainAdapters for TLC: two adapters, the first with a timeout   *)
(* shorter than the registry's and a limit of one request a day, and two callers.   *)
EXTENDS OnchainAdapters, TLC

CONSTANTS c1, c2

\* no property tells one caller from another
Callers == Permutations({c1, c2})
================================================================================
