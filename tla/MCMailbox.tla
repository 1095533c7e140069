----------------------------- MODULE MCMailbox -----------------------------
(* Mailbox on small instances.                                             *)
EXTENDS Mailbox, TLC

\* Tasks of one kind are interchangeable (safety runs only).
Symmetry == Permutations(ExternalTasks) \cup Permutations(Tasks \ ExternalTasks)
=============================================================================
