----------------------------- MODULE MCPipeline -----------------------------
(* Small instances of Pipeline for TLC. *)
EXTENDS Pipeline, TLC

CONSTANTS a, b, t1, t2

\* Each row is about a posting of its own, which goes by the row's name.
OwnPosting == [i \in Item |-> i]

\* Safety only: the names of coroutines, and of rows, do not matter.
TaskSymmetry == Permutations(Task)
RowSymmetry  == Permutations(Item)
=============================================================================
