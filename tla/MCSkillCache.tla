---------------------------- MODULE MCSkillCache ----------------------------
(* Instances of SkillCache: one file that stays and one that may come and  *)
(* go, in a source root or in a directory below one.                       *)
EXTENDS SkillCache, TLC

CONSTANTS f1, f2, a, b, c1, c2

Symmetry == Permutations(Contents) \cup Permutations(Callers)
=============================================================================
