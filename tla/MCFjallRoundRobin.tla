------------------------- MODULE MCFjallRoundRobin -------------------------
(* FjallRoundRobin on small instances.                                     *)
EXTENDS FjallRoundRobin
=============================================================================
