---------------------------- MODULE MCFjallQueue ----------------------------
(* FjallQueue on small instances.                                          *)
EXTENDS FjallQueue
=============================================================================
