---------------------------- MODULE MCTaskStore ----------------------------
(* Instances of TaskStore: which contents callers ask for, and symmetry.   *)
EXTENDS TaskStore, TLC

CONSTANTS t1, t2, c1, c2, i1, i2

Asked(i, next, retained, blockers) ==
  [identity |-> i, next_action |-> next, retained |-> retained, blockers |-> blockers]

(* All that matters to closing, reconciliation, retention and identity.    *)
WorkContents ==
  {Asked(i1, FALSE, FALSE, {}), Asked(i2, TRUE, TRUE, {"other"}),
   Asked(i1, FALSE, FALSE, {"pending"})}

(* What distinguishes two versions, and little more.                       *)
LeaseContents == {Asked(i1, FALSE, FALSE, {}), Asked(i1, TRUE, FALSE, {})}

Symmetry == Permutations(Tasks) \cup Permutations(Clients)
=============================================================================
