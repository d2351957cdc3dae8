---------------------------- MODULE MCServerRuns ----------------------------
(* Instances of ServerRuns: which executions are asked for.                *)
EXTENDS ServerRuns, TLC

CONSTANTS r1, r2, t1, c1, c2, s1, s2

Asked(mode, class, mutates, task) ==
  [mode |-> mode, class |-> class, mutates |-> mutates, task |-> task]

(* A heavy reading by the server, a heavy mutation by the executor.        *)
MixedCalls ==
  {Asked("sync", "heavy", FALSE, t1), Asked("async", "heavy", TRUE, t1)}

Symmetry == Permutations(Runs) \cup Permutations(Clients) \cup Permutations(Servers)
=============================================================================
