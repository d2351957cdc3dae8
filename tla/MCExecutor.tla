----------------------------- MODULE MCExecutor -----------------------------
(* Instances of Executor: which submissions are made, and symmetry.        *)
EXTENDS Executor, TLC

CONSTANTS r1, r2, r3

HeavyMutations == {<<"heavy", TRUE>>}
Mutations == {<<"heavy", TRUE>>, <<"normal", TRUE>>}

Symmetry == Permutations(Runs)
=============================================================================
