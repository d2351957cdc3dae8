--------------------------- MODULE MCOfflineTools ---------------------------
(* The two offline tools.  They share no state, so a behaviour runs one of *)
(* them, and the other one's state stays as it begins.                     *)
EXTENDS Migration, TaskCopy, TLC

CONSTANTS p1, p2, a, b, old, new, o1, o2, t1, t2, open, closed

VARIABLE job

NoTaskFiles == source = [t \in Tasks |-> NoEntry] /\ roots = {}
FirstState == [p \in Parts |-> a]

JobsInit ==
  /\ Init /\ CopyInit
  /\ \/ job = "persistence" /\ NoTaskFiles
     \/ job = "task_storage" /\ tree[Original] = FirstState

JobsNext ==
  /\ UNCHANGED job
  /\ \/ job = "persistence" /\ Next /\ UNCHANGED copyVars
     \/ job = "task_storage" /\ CopyNext /\ UNCHANGED vars

JobsSpec == JobsInit /\ [][JobsNext]_<<job, vars, copyVars>>

Symmetry == Permutations(Operators) \cup Permutations(Parts) \cup Permutations(Tasks)
=============================================================================
