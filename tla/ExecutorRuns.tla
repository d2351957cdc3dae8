---------------------------- MODULE ExecutorRuns ----------------------------
(***************************************************************************)
(* What the executor (executor.py) promises to those who submit, cancel    *)
(* and await Runs, with nothing about its semaphore, its tasks' steps or   *)
(* the ssh processes: it accepts a Run with its record and its heavy slot, *)
(* settles it, and forgets it with its slot only when it is settled, or    *)
(* when a store write failed or it died.                                   *)
(*                                                                         *)
(* Executor is shown to implement this module, and ServerRuns is composed  *)
(* of the actions of this module and those of the server.                  *)
(***************************************************************************)
EXTENDS FiniteSets, Naturals, RunStore

CONSTANTS
  Reports,      \* what run_ssh may report
  MaxHeavy,     \* max_heavy_concurrency of the target
  MaxFaults     \* bound: store writes that fail

ASSUME ReportsAssumption == Reports \subseteq ExecutionStatuses
ASSUME HeavyAssumption == MaxHeavy \in Nat
ASSUME FaultsAssumption == MaxFaults \in Nat

VARIABLES
  executor,     \* the process: "down", "up" or "stopping"
  owned,        \* _tasks: the Runs it has a task for
  cancelling,   \* those of them that it was asked to cancel
  slots,        \* who holds a heavy slot: Runs, or calls of a server
  faults        \* store writes that failed

executorVars == <<runs, executor, owned, cancelling, slots, faults>>

ExecutorInit ==
  /\ StoreInit
  /\ executor = "down"
  /\ owned = {}
  /\ cancelling = {}
  /\ slots = {}
  /\ faults = 0
-----------------------------------------------------------------------------
Fails == faults < MaxFaults /\ faults' = faults + 1 /\ UNCHANGED runs

SlotFree == Cardinality(slots) < MaxHeavy

(* _submit: slot, record and task, or none of them.                        *)
Accepts(r, class, mutates) ==
  /\ executor = "up"
  /\ Create(r, "async", class, mutates)
  /\ IF class = "heavy" THEN SlotFree /\ slots' = slots \cup {r} ELSE UNCHANGED slots
  /\ owned' = owned \cup {r}
  /\ UNCHANGED <<executor, cancelling, faults>>

(* _cancel of a Run that has a task; what it comes to is up to the task.   *)
CancelAccepted(r) ==
  /\ executor = "up"
  /\ r \in owned
  /\ cancelling' = cancelling \cup {r}
  /\ UNCHANGED <<runs, executor, owned, slots, faults>>

(* The task writes a verdict, or _cancel does for a task that is done.     *)
Settles(r) ==
  /\ r \in owned
  /\ \/ \E s \in Reports : Finish(r, s)
     \/ FailLocal(r)
     \/ MarkUnknown(r, "InternalError")
     \/ r \in cancelling /\ Interrupt(r, "ExplicitCancellation")
     \/ executor = "stopping" /\ Interrupt(r, "ExecutorShutdown")
     \/ executor = "up" /\ Interrupt(r, "ExecutorOwnershipLost")
  /\ UNCHANGED <<executor, owned, cancelling, slots, faults>>

(* The write of that verdict fails.                                        *)
VerdictLost(r) ==
  /\ r \in owned
  /\ Fails
  /\ UNCHANGED <<executor, owned, cancelling, slots>>

(* Mutant: the callback does not look at the record.                       *)
ReleasedAnyway(r) ==
  /\ r \in owned
  /\ owned' = owned \ {r}
  /\ cancelling' = cancelling \ {r}
  /\ slots' = slots \ {r}
  /\ UNCHANGED <<runs, executor, faults>>

(* The done callback: a Run still running is settled, if the store can be  *)
(* written; slot and task go in any case.                                  *)
Released(r) ==
  /\ r \in owned
  /\ \/ MarkUnknown(r, "ExecutorOwnershipLost") /\ UNCHANGED faults
     \/ Fails
  /\ owned' = owned \ {r}
  /\ cancelling' = cancelling \ {r}
  /\ slots' = slots \ {r}
  /\ UNCHANGED executor

(* await_terminal and _cancel find a running Run that has no task.         *)
Repairs(r) ==
  /\ executor = "up"
  /\ Running(r) /\ runs[r].execution_mode = "async" /\ r \notin owned
  /\ \/ MarkUnknown(r, "ExecutorOwnershipLost")
     \/ Interrupt(r, "ExecutorOwnershipLost")
  /\ UNCHANGED <<executor, owned, cancelling, slots, faults>>

(* stop: no new requests; it ends when every task has.                     *)
Stops ==
  /\ executor = "up"
  /\ executor' = "stopping"
  /\ UNCHANGED <<runs, owned, cancelling, slots, faults>>

Stopped ==
  /\ executor = "stopping"
  /\ owned = {}
  /\ executor' = "down"
  /\ UNCHANGED <<runs, owned, cancelling, slots, faults>>

(* The process ends, and with it the locks of others that live in it.      *)
Dies(others) ==
  /\ executor # "down"
  /\ executor' = "down"
  /\ owned' = {}
  /\ cancelling' = {}
  /\ slots' = slots \ (owned \cup others)
  /\ UNCHANGED <<runs, faults>>

(* start reconciles the asynchronous Runs, or breaks off on the way.       *)
Starts ==
  /\ executor = "down"
  /\ executor' = "up"
  /\ ReconcileIncomplete({"async"}, Runs)
  /\ UNCHANGED <<owned, cancelling, slots, faults>>

StartFailed ==
  /\ executor = "down"
  /\ \E reached \in SUBSET Runs : ReconcileIncomplete({"async"}, reached)
  /\ UNCHANGED <<executor, owned, cancelling, slots, faults>>
-----------------------------------------------------------------------------
ExecutorNext ==
  \/ \E r \in Runs :
       \/ \E class \in Classes, m \in BOOLEAN : Accepts(r, class, m)
       \/ CancelAccepted(r) \/ Settles(r) \/ VerdictLost(r)
       \/ Released(r) \/ Repairs(r)
  \/ Stops \/ Stopped \/ Dies({}) \/ Starts \/ StartFailed

ExecutorSpec == ExecutorInit /\ [][ExecutorNext]_executorVars
=============================================================================
