-------------------------- MODULE MCCandidateStore --------------------------
(* Instances of CandidateStore, with symmetry.                             *)
EXTENDS CandidateStore, TLC

Symmetry == Permutations(Ids) \cup Permutations(Callers) \cup Permutations(Contents)
              \cup Permutations(TaskIds)
=============================================================================
