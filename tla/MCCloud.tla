------------------------------ MODULE MCCloud -------------------------------
(* Small instances of Cloud for TLC. *)
EXTENDS Cloud, TLC

CONSTANTS t1, t2

\* Safety only: the names of the threads do not matter.
BgSymmetry == Permutations(Bg)
=============================================================================
