---------------------------- MODULE MCEventWatch ----------------------------
(* EventWatch for TLC: a run of a few events, executed by two handlers and   *)
(* watched by one page.                                                      *)
EXTENDS EventWatch

CONSTANTS w1, w2
=============================================================================
