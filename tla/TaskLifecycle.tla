---------------------------- MODULE TaskLifecycle ----------------------------
(***************************************************************************)
(* What a durable Task promises, with nothing about how it is stored: a    *)
(* Task is open until it is closed once, for good; only the holder of its  *)
(* execution lease, or anybody while there is none, may work on it or      *)
(* close it; it cannot be closed while a mutation made in its name is not  *)
(* reconciled; and retention erases only closed Tasks that nobody asked to *)
(* keep.  TaskStore is shown to implement this module, and ServerRuns is   *)
(* composed of its actions and those of the server.                        *)
(***************************************************************************)

CONSTANTS
  Tasks,      \* Task identifiers
  Clients,    \* callers
  Outcomes    \* the terminal statuses

VARIABLES
  stage,      \* per Task: "none", "open", an outcome, or "erased"
  debts,      \* the Tasks with an unreconciled mutation
  kept,       \* the Tasks retained by an operator
  holders     \* per Task: who holds its execution lease, at most one client

vars == <<stage, debts, kept, holders>>

Init ==
  /\ stage = [t \in Tasks |-> "none"]
  /\ debts = {}
  /\ kept = {}
  /\ holders = [t \in Tasks |-> {}]

(* A new Task; whatever it is born with counts.                            *)
Open(t) ==
  /\ stage[t] = "none"
  /\ stage' = [stage EXCEPT ![t] = "open"]
  /\ debts' \in {debts, debts \cup {t}}
  /\ kept' \in {kept, kept \cup {t}}
  /\ UNCHANGED holders

MayWork(c, t) == stage[t] = "open" /\ holders[t] \subseteq {c}

(* Work on an open Task: a mutation is owed or reconciled, the retention   *)
(* wish changes.                                                           *)
Work(c, t) ==
  /\ MayWork(c, t)
  /\ debts' \in {debts \cup {t}, debts \ {t}}
  /\ kept' \in {kept \cup {t}, kept \ {t}}
  /\ UNCHANGED <<stage, holders>>

(* The lease ends with the close, or outlives it when that is cut short.   *)
Close(c, t) ==
  /\ MayWork(c, t)
  /\ t \notin debts
  /\ \E outcome \in Outcomes : stage' = [stage EXCEPT ![t] = outcome]
  /\ kept' \in {kept \cup {t}, kept \ {t}}
  /\ holders' \in {holders, [holders EXCEPT ![t] = {}]}
  /\ UNCHANGED debts

Acquire(c, t) ==
  /\ stage[t] = "open"
  /\ holders[t] = {}
  /\ holders' = [holders EXCEPT ![t] = {c}]
  /\ UNCHANGED <<stage, debts, kept>>

(* Leases are given back or expire.                                        *)
Expire(S) ==
  /\ holders' = [t \in Tasks |-> IF t \in S THEN {} ELSE holders[t]]
  /\ UNCHANGED <<stage, debts, kept>>

Erase(S) ==
  /\ \A t \in S : stage[t] \in Outcomes /\ t \notin kept
  /\ stage' = [t \in Tasks |-> IF t \in S THEN "erased" ELSE stage[t]]
  /\ holders' = [t \in Tasks |-> IF t \in S THEN {} ELSE holders[t]]
  /\ UNCHANGED <<debts, kept>>

Next ==
  \/ \E t \in Tasks : Open(t)
  \/ \E c \in Clients, t \in Tasks : Work(c, t) \/ Close(c, t) \/ Acquire(c, t)
  \/ \E S \in SUBSET Tasks : Expire(S) \/ Erase(S)

Spec == Init /\ [][Next]_vars
=============================================================================
