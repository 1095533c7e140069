---------------------------- MODULE MCFileCache ----------------------------
(* FileCache on small instances.                                           *)
EXTENDS FileCache, TLC

Symmetry == Permutations(Keys)
=============================================================================
