-------------------------------- MODULE MCAlerts --------------------------------
(* An instance of Alerts for TLC: one latch beside the four rules that keep more    *)
(* state, two modules and two notification handlers.                                *)
EXTENDS Alerts

CONSTANTS m1, m2, h1, h2
=================================================================================
