---------------------------- MODULE RunLifecycle ----------------------------
(***************************************************************************)
(* What the Run records of Hypershell Reach promise to a reader, with      *)
(* nothing about how they are produced: a Run starts once, gets one        *)
(* verdict, and keeps that verdict until retention may erase it.  A Run    *)
(* whose outcome is in doubt, or which somebody retained, is never erased. *)
(*                                                                         *)
(* RunStore (the code's operations on one record) and Executor (the live   *)
(* executor acting on the store) are both checked and proved to implement  *)
(* this module.                                                            *)
(***************************************************************************)

CONSTANTS
  Runs,       \* Run identifiers
  Verdicts    \* the terminal statuses

VARIABLES
  verdict,    \* per Run: "none", "open", a verdict, or "erased"
  doubtful,   \* the Runs whose outcome is ambiguous
  pinned      \* the Runs retained by an operator

vars == <<verdict, doubtful, pinned>>

Init ==
  /\ verdict = [r \in Runs |-> "none"]
  /\ doubtful = {}
  /\ pinned = {}

Start(r) ==
  /\ verdict[r] = "none"
  /\ verdict' = [verdict EXCEPT ![r] = "open"]
  /\ UNCHANGED <<doubtful, pinned>>

(* Several Runs may be settled at once (a restart settles all it finds);   *)
(* f gives their verdicts and D the ones left in doubt.                    *)
Settle(S) ==
  /\ \A r \in S : verdict[r] = "open"
  /\ \E f \in [S -> Verdicts] :
       verdict' = [r \in Runs |-> IF r \in S THEN f[r] ELSE verdict[r]]
  /\ \E D \in SUBSET S : doubtful' = doubtful \cup D
  /\ UNCHANGED pinned

Pin(r) ==
  /\ verdict[r] \notin {"none", "erased"}
  /\ pinned' \in {pinned \cup {r}, pinned \ {r}}
  /\ UNCHANGED <<verdict, doubtful>>

Erase(S) ==
  /\ \A r \in S : verdict[r] \in Verdicts /\ r \notin doubtful \cup pinned
  /\ verdict' = [r \in Runs |-> IF r \in S THEN "erased" ELSE verdict[r]]
  /\ UNCHANGED <<doubtful, pinned>>

Next ==
  \/ \E r \in Runs : Start(r) \/ Pin(r)
  \/ \E S \in SUBSET Runs : Settle(S) \/ Erase(S)

Spec == Init /\ [][Next]_vars
=============================================================================
