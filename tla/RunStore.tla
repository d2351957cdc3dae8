------------------------------ MODULE RunStore ------------------------------
(***************************************************************************)
(* The Run store (runs.py): one record per Run, changed by operations that *)
(* each run in one write transaction (_write_lock), so each is one step.   *)
(* Timestamps, purposes, byte counters and summaries are left out: no      *)
(* operation decides anything on them.  "absent" is a row not yet written, *)
(* "deleted" a row retention removed; Run ids are never reused.            *)
(***************************************************************************)

CONSTANT Runs

VARIABLE runs    \* the table: Run id -> record

Modes == {"sync", "async"}
Classes == {"normal", "heavy"}

(* What run_ssh can report, and what the store writes without a report.    *)
ExecutionStatuses == {"succeeded", "remote_error", "transport_error", "timeout"}
InternalStatuses == {"local_error", "interrupted", "unknown"}
Terminal == ExecutionStatuses \cup InternalStatuses

CleanupStatuses ==
  {"succeeded", "remote_error", "transport_error", "timeout", "local_error"}
AmbiguousStatuses == {"transport_error", "timeout", "interrupted", "unknown"}

(* The error types the program writes; LocalError stands for any           *)
(* ValueError or RuntimeError and InternalError for any other exception.   *)
CancelTypes ==
  {"CancelledError", "ExplicitCancellation", "ExecutorShutdown"}
LossTypes == {"ExecutorOwnershipLost", "ServerOwnershipLost"}
ErrorTypes ==
  {"none", "LocalError", "InternalError", "ExecutorRestart", "ServerRestart"}
    \cup CancelTypes \cup LossTypes

RunRecord ==
  [status : {"absent", "deleted", "running"} \cup Terminal,
   execution_mode : Modes, execution_class : Classes, may_mutate : BOOLEAN,
   ambiguous : BOOLEAN, retained : BOOLEAN, error_type : ErrorTypes]

NoRun ==
  [status |-> "absent", execution_mode |-> "sync", execution_class |-> "normal",
   may_mutate |-> FALSE, ambiguous |-> FALSE, retained |-> FALSE,
   error_type |-> "none"]

Stored(r) == runs[r].status \notin {"absent", "deleted"}
Running(r) == runs[r].status = "running"
Settled(r) == runs[r].status \in Terminal

StoreInit == runs = [r \in Runs |-> NoRun]
-----------------------------------------------------------------------------
(* A record after it left "running" with status s and error type e.        *)
Ended(record, s, e) ==
  [record EXCEPT !.status = s, !.error_type = e,
                 !.ambiguous = record.may_mutate /\ s \in AmbiguousStatuses]

Create(r, mode, class, mutates) ==
  /\ runs[r] = NoRun
  /\ runs' = [runs EXCEPT ![r] =
                [NoRun EXCEPT !.status = "running", !.execution_mode = mode,
                              !.execution_class = class, !.may_mutate = mutates]]

(* finish raises, and writes nothing, when the Run is no longer running.   *)
Finish(r, s) ==
  /\ s \in ExecutionStatuses
  /\ runs' = IF Running(r) THEN [runs EXCEPT ![r] = Ended(@, s, "none")] ELSE runs

(* Mutant: the early return of a settled Run is missing.                   *)
OverwriteWithoutExecution(r, s, e) ==
  /\ Stored(r)
  /\ runs' = [runs EXCEPT ![r] = Ended(@, s, e)]

(* The other ways to end a Run return the record unchanged in that case.   *)
FinishWithoutExecution(r, s, e) ==
  runs' = IF Running(r) THEN [runs EXCEPT ![r] = Ended(@, s, e)] ELSE runs

FailLocal(r) == FinishWithoutExecution(r, "local_error", "LocalError")
Interrupt(r, e) == FinishWithoutExecution(r, "interrupted", e)
MarkUnknown(r, e) == FinishWithoutExecution(r, "unknown", e)

(* reconcile_incomplete, for a store opened with reconcile_modes = modes:  *)
(* it interrupts one Run after another, each in a transaction of its own,  *)
(* and reached are those it came to before it failed or its process died.  *)
ReconcileIncomplete(modes, reached) ==
  runs' = [r \in Runs |->
             IF r \in reached /\ Running(r) /\ runs[r].execution_mode \in modes
             THEN Ended(runs[r], "interrupted",
                        IF runs[r].execution_mode = "async"
                        THEN "ExecutorRestart" ELSE "ServerRestart")
             ELSE runs[r]]

SetRetained(r, b) ==
  /\ Stored(r)
  /\ runs' = [runs EXCEPT ![r].retained = b]

(* Mutant: retention forgets that a Run may be in doubt.                   *)
DeletableInDoubt(r, expired) ==
  /\ r \in expired
  /\ runs[r].status \in CleanupStatuses
  /\ ~runs[r].retained

(* expired: the Runs whose ended_at is at or before the retention cutoff.  *)
Deletable(r, expired) ==
  /\ r \in expired
  /\ runs[r].status \in CleanupStatuses
  /\ ~runs[r].ambiguous
  /\ ~runs[r].retained

Cleanup(expired) ==
  runs' = [r \in Runs |-> IF Deletable(r, expired)
                          THEN [runs[r] EXCEPT !.status = "deleted"]
                          ELSE runs[r]]
-----------------------------------------------------------------------------
(* The store with callers that may use any operation at any time, as       *)
(* several processes over one database do.                                 *)
StoreNext ==
  \/ \E r \in Runs, mode \in Modes, class \in Classes, m \in BOOLEAN :
       Create(r, mode, class, m)
  \/ \E r \in Runs, s \in ExecutionStatuses : Finish(r, s)
  \/ \E r \in Runs : FailLocal(r)
  \/ \E r \in Runs, e \in CancelTypes \cup LossTypes : Interrupt(r, e)
  \/ \E r \in Runs, e \in LossTypes \cup {"InternalError"} : MarkUnknown(r, e)
  \/ \E modes \in SUBSET Modes, reached \in SUBSET Runs :
       ReconcileIncomplete(modes, reached)
  \/ \E r \in Runs, b \in BOOLEAN : SetRetained(r, b)
  \/ \E expired \in SUBSET Runs : Cleanup(expired)

StoreSpec == StoreInit /\ [][StoreNext]_runs

RunsTypeOK == runs \in [Runs -> RunRecord]

(* What a reader sees of a record: the state of RunLifecycle.              *)
Verdict(r) ==
  CASE runs[r].status = "absent" -> "none"
    [] runs[r].status = "running" -> "open"
    [] runs[r].status = "deleted" -> "erased"
    [] OTHER -> runs[r].status

Lifecycle ==
  INSTANCE RunLifecycle WITH
    Verdicts <- Terminal,
    verdict  <- [r \in Runs |-> Verdict(r)],
    doubtful <- {r \in Runs : runs[r].ambiguous},
    pinned   <- {r \in Runs : runs[r].retained}

(* Every operation of the Run store, in any order and from any number of   *)
(* callers, is a step of the abstract life cycle: one verdict per Run that *)
(* no later callback, restart or repair rewrites, and no erasure of a Run  *)
(* that is in doubt or retained (runs.py:601-702).                         *)
ImplementsLifecycle == Lifecycle!Spec
=============================================================================
