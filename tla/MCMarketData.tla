------------------------------ MODULE MCMarketData ------------------------------
(* An instance of MarketData for TLC: three connections, so that one that is down,  *)
(* one that is held and a new one may exist at once, one configured symbol and one  *)
(* that anyone may subscribe to.                                                    *)
EXTENDS MarketData

CONSTANTS c1, c2, c3, s1, s2
=================================================================================
