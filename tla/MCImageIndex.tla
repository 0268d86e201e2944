--------------------------- MODULE MCImageIndex ---------------------------
(***************************************************************************)
(* The image table for TLC: the keys other than (0, 0) are interchangeable, *)
(* since the hash function ranges over every function on them.             *)
(***************************************************************************)
EXTENDS ImageIndex, TLC

KeySymmetry == Permutations(Keys \ {ZeroKey})
=============================================================================
