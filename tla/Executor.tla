------------------------------ MODULE Executor ------------------------------
(***************************************************************************)
(* The asynchronous executor (executor.py, class ExecutorService) over the *)
(* Run store and run_ssh.  One event loop runs the request handlers, one   *)
(* task per accepted Run and the tasks' done callbacks; each action is     *)
(* what one of them does between two awaits.  Store writes may fail (a     *)
(* busy or full database) and the process may crash at any point.          *)
(***************************************************************************)
EXTENDS FiniteSets, Execution

CONSTANTS
  Submissions,     \* <<execution_class, may_mutate>> of the requests made
  MaxConcurrency,  \* executor.max_concurrency
  MaxFaults,       \* bound: store writes that fail
  SharedStore      \* another service may open the same workspace: only a
                   \* service with a socket takes a lock (serve_socket)

ASSUME SubmissionsAssumption == Submissions \subseteq Classes \X BOOLEAN
ASSUME ConcurrencyAssumption == MaxConcurrency \in Nat \ {0}
ASSUME FaultsAssumption == MaxFaults \in Nat
ASSUME SharedAssumption == SharedStore \in BOOLEAN

VARIABLES
  service,         \* the executor process
  task,            \* _tasks: the asyncio task of a Run, until its callback
  cancelPending,   \* tasks with a CancelledError to be thrown at next step
  reasons,         \* keys of _cancel_reasons (all ExplicitCancellation)
  permits,         \* value of _semaphore
  asked,           \* history: Runs whose live task a cancel request found
  faults           \* store writes that failed

taskVars == <<task, cancelPending, reasons, permits>>
vars == <<runs, sshVars, holder, service, taskVars, asked, faults>>

(* "done": finished, its done callback not yet run.                        *)
TaskStates == {"none", "queued", "active", "done"}

Active == {r \in Runs : task[r] = "active"}

Init ==
  /\ StoreInit
  /\ ExecutionInit
  /\ HolderInit
  /\ service = "stopped"
  /\ task = [r \in Runs |-> "none"]
  /\ cancelPending = {}
  /\ reasons = {}
  /\ permits = MaxConcurrency
  /\ asked = {}
  /\ faults = 0

TypeOK ==
  /\ RunsTypeOK
  /\ ExecutionTypeOK
  /\ holder \in [Slots -> Runs \cup {Free}]
  /\ service \in {"up", "stopping", "stopped", "crashed"}
  /\ task \in [Runs -> TaskStates]
  /\ cancelPending \subseteq Runs
  /\ reasons \subseteq Runs
  /\ permits \in 0 .. MaxConcurrency
  /\ asked \subseteq Runs
  /\ faults \in 0 .. MaxFaults
-----------------------------------------------------------------------------
(* A store write that takes effect, or fails and leaves the table alone.   *)
Succeeds(write) == write /\ UNCHANGED faults
Fails == faults < MaxFaults /\ faults' = faults + 1 /\ UNCHANGED runs
Attempt(write) == Succeeds(write) \/ Fails

(* Mutant: the permit is given back twice.                                 *)
TaskEndsTwice(r) ==
  /\ task' = [task EXCEPT ![r] = "done"]
  /\ permits' = permits + 2

(* The task of r ends; from inside the semaphore the permit comes back.    *)
TaskEnds(r) ==
  /\ task' = [task EXCEPT ![r] = "done"]
  /\ permits' = permits + 1

(* A step of the task of r that is not the delivery of a cancellation.     *)
TaskRuns(r) == task[r] = "active" /\ r \notin cancelPending

(* _submit: lease, record, task, in one handler step.  A failed create     *)
(* gives the lease back, so nothing remains of it.                         *)
Submit(r, class, mutates) ==
  /\ service = "up"
  /\ Create(r, "async", class, mutates)
  /\ IF class = "heavy" THEN AcquireSlot(r) ELSE UNCHANGED holder
  /\ task' = [task EXCEPT ![r] = "queued"]
  /\ UNCHANGED <<sshVars, service, cancelPending, reasons, permits, asked, faults>>

(* The task gets the semaphore and enters run_ssh: the process starts ...  *)
Start(r) ==
  /\ task[r] = "queued" /\ r \notin cancelPending
  /\ permits > 0
  /\ Spawn(r)
  /\ task' = [task EXCEPT ![r] = "active"]
  /\ permits' = permits - 1
  /\ UNCHANGED <<runs, holder, service, cancelPending, reasons, asked, faults>>

(* ... or a precondition (disabled target, missing identity file) or the   *)
(* spawn itself fails, and the permit is back in the same step.            *)
StartFails(r) ==
  /\ task[r] = "queued" /\ r \notin cancelPending
  /\ permits > 0
  /\ Attempt(FailLocal(r) \/ MarkUnknown(r, "InternalError"))
  /\ task' = [task EXCEPT ![r] = "done"]
  /\ UNCHANGED <<sshVars, holder, service, cancelPending, reasons, permits, asked>>

(* run_ssh moves on without leaving.                                       *)
SshStep(r) ==
  /\ TaskRuns(r)
  /\ InputDrained(r) \/ WaitReturns(r) \/ TimeoutFires(r) \/ KillReturns(r)
  /\ UNCHANGED <<runs, holder, service, taskVars, asked, faults>>

(* The environment: an ssh process ends.                                   *)
ProcessStep(r) ==
  /\ ProcessExits(r)
  /\ UNCHANGED <<runs, holder, service, taskVars, asked, faults>>

(* run_ssh returns: finish, which raises if the Run is already settled.    *)
Complete(r) ==
  /\ TaskRuns(r)
  /\ Returns(r)
  /\ Attempt(Finish(r, Classified(r)))
  /\ TaskEnds(r)
  /\ UNCHANGED <<holder, service, cancelPending, reasons, asked>>

(* run_ssh raises anything but a cancellation.                             *)
Break(r) ==
  /\ TaskRuns(r)
  /\ InputBroken(r)
  /\ Attempt(MarkUnknown(r, "InternalError"))
  /\ TaskEnds(r)
  /\ UNCHANGED <<holder, service, cancelPending, reasons, asked>>

(* "except CancelledError" of _execute.                                    *)
Reason(r) == IF r \in reasons THEN "ExplicitCancellation" ELSE "ExecutorShutdown"

(* Mutant: the cancellation passes through without a record.               *)
Unrecorded(r) ==
  /\ UNCHANGED <<runs, reasons, faults>>
  /\ TaskEnds(r)

Interrupted(r) ==
  /\ reasons' = reasons \ {r}
  /\ Attempt(Interrupt(r, Reason(r)))
  /\ TaskEnds(r)

(* A cancellation reaches run_ssh while it waits for the process ...       *)
CancelBegins(r) ==
  /\ task[r] = "active" /\ r \in cancelPending
  /\ CancelKills(r)
  /\ cancelPending' = cancelPending \ {r}
  /\ UNCHANGED <<runs, holder, service, task, reasons, permits, asked, faults>>

(* ... or at an await from which it escapes ...                            *)
CancelEscapesTask(r) ==
  /\ task[r] = "active" /\ r \in cancelPending
  /\ CancelEscapes(r)
  /\ cancelPending' = cancelPending \ {r}
  /\ Interrupted(r)
  /\ UNCHANGED <<holder, service, asked>>

(* ... and the killed process is gone.                                     *)
CancelCompletes(r) ==
  /\ TaskRuns(r)
  /\ AbortReturns(r)
  /\ Interrupted(r)
  /\ UNCHANGED <<holder, service, cancelPending, asked>>

(* Mutant: a release in a finally that the acquisition never reached.      *)
CancelQueuedReleases(r) ==
  /\ task[r] = "queued" /\ r \in cancelPending
  /\ TaskEnds(r)
  /\ cancelPending' = cancelPending \ {r}
  /\ UNCHANGED <<runs, sshVars, holder, service, reasons, asked, faults>>

(* A task cancelled before it has the semaphore ends outside the try of    *)
(* _execute: nothing is written and the reason stays behind.               *)
CancelQueued(r) ==
  /\ task[r] = "queued" /\ r \in cancelPending
  /\ task' = [task EXCEPT ![r] = "done"]
  /\ cancelPending' = cancelPending \ {r}
  /\ UNCHANGED <<runs, sshVars, holder, service, reasons, permits, asked, faults>>

(* Mutants: no repair of the record; no finally around it.                 *)
ForgetCompletedTask(r) ==
  /\ task[r] = "done"
  /\ ReleaseSlot(r)
  /\ task' = [task EXCEPT ![r] = "none"]
  /\ UNCHANGED <<runs, sshVars, service, cancelPending, reasons, permits, asked, faults>>

ReconcileWithoutFinally(r) ==
  /\ task[r] = "done"
  /\ \/ Succeeds(MarkUnknown(r, "ExecutorOwnershipLost")) /\ ReleaseSlot(r)
     \/ Fails /\ UNCHANGED holder
  /\ task' = [task EXCEPT ![r] = "none"]
  /\ UNCHANGED <<sshVars, service, cancelPending, reasons, permits, asked>>

(* _reconcile_completed_task: the done callback, whose finally clause      *)
(* releases the lease and forgets the task even if the store fails.        *)
ReconcileCompletedTask(r) ==
  /\ task[r] = "done"
  /\ Attempt(MarkUnknown(r, "ExecutorOwnershipLost"))
  /\ ReleaseSlot(r)
  /\ task' = [task EXCEPT ![r] = "none"]
  /\ UNCHANGED <<sshVars, service, cancelPending, reasons, permits, asked>>

(* _cancel of a running Run with a live task: the handler then awaits the  *)
(* task and only reads the record.                                         *)
Cancel(r) ==
  /\ service = "up"
  /\ Running(r)
  /\ task[r] \in {"queued", "active"}
  /\ reasons' = reasons \cup {r}
  /\ cancelPending' = cancelPending \cup {r}
  /\ asked' = asked \cup {r}
  /\ UNCHANGED <<runs, sshVars, holder, service, task, permits, faults>>

(* _cancel of a running Run whose task is done or unknown.                 *)
CancelUnowned(r) ==
  /\ service = "up"
  /\ Running(r)
  /\ task[r] \in {"none", "done"}
  /\ Interrupt(r, "ExecutorOwnershipLost")
  /\ UNCHANGED <<sshVars, holder, service, taskVars, asked, faults>>

(* await_terminal finds a running Run without a task.  For a task that is  *)
(* done it first lets the callback run, after which it is in this case.    *)
AwaitTerminal(r) ==
  /\ service = "up"
  /\ Running(r)
  /\ task[r] = "none"
  /\ MarkUnknown(r, "ExecutorOwnershipLost")
  /\ UNCHANGED <<sshVars, holder, service, taskVars, asked, faults>>
-----------------------------------------------------------------------------
(* stop: no new requests, every live task cancelled, then awaited.         *)
StopBegins ==
  /\ service = "up"
  /\ service' = "stopping"
  /\ cancelPending' = {r \in Runs : task[r] \in {"queued", "active"}}
  /\ UNCHANGED <<runs, sshVars, holder, task, reasons, permits, asked, faults>>

(* Mutant: the cancelled tasks are not awaited.                            *)
StopEndsAtOnce ==
  /\ service = "stopping"
  /\ service' = "stopped"
  /\ UNCHANGED <<runs, sshVars, holder, taskVars, asked, faults>>

StopEnds ==
  /\ service = "stopping"
  /\ \A r \in Runs : task[r] = "none"
  /\ service' = "stopped"
  /\ UNCHANGED <<runs, sshVars, holder, taskVars, asked, faults>>

(* The process dies: its tasks and dicts with it, its flocks released by   *)
(* the kernel; its ssh processes, in sessions of their own, live on.       *)
Crash ==
  /\ service \in {"up", "stopping"}
  /\ service' = "crashed"
  /\ phase' = [r \in Runs |-> "idle"]
  /\ proc' = [r \in Runs |-> IF proc[r] = "alive" THEN "orphan" ELSE proc[r]]
  /\ holder' = [s \in Slots |-> Free]
  /\ task' = [r \in Runs |-> "none"]
  /\ cancelPending' = {}
  /\ reasons' = {}
  /\ permits' = MaxConcurrency
  /\ UNCHANGED <<runs, timedOut, asked, faults>>

(* Mutant: no reconciliation.                                              *)
StartUnreconciled ==
  /\ service \in {"stopped", "crashed"}
  /\ service' = "up"
  /\ UNCHANGED <<runs, sshVars, holder, taskVars, asked, faults>>

(* start, when the process before it has ended: opening the store          *)
(* reconciles the asynchronous Runs left running.                          *)
StartService ==
  /\ service \in {"stopped", "crashed"}
  /\ service' = "up"
  /\ ReconcileIncomplete({"async"}, Runs)
  /\ UNCHANGED <<sshVars, holder, taskVars, asked, faults>>

(* A start that does not get through: the store, the socket or the process *)
(* fails, with some or all of the Runs reconciled.                         *)
StartBreaks ==
  /\ service \in {"stopped", "crashed"}
  /\ \E reached \in SUBSET Runs : ReconcileIncomplete({"async"}, reached)
  /\ UNCHANGED <<sshVars, holder, service, taskVars, asked, faults>>

(* A second service over the same workspace opens the store as well: with  *)
(* serve_socket=False nothing stops it before the reconciliation.          *)
SecondServiceStarts ==
  /\ SharedStore
  /\ service = "up"
  /\ \E reached \in SUBSET Runs : ReconcileIncomplete({"async"}, reached)
  /\ UNCHANGED <<sshVars, holder, service, taskVars, asked, faults>>
-----------------------------------------------------------------------------
TaskStep(r) ==
  \/ Start(r) \/ StartFails(r)
  \/ SshStep(r) \/ Complete(r) \/ Break(r)
  \/ CancelBegins(r) \/ CancelEscapesTask(r) \/ CancelCompletes(r)
  \/ CancelQueued(r)

Request(r) ==
  \/ \E kind \in Submissions : Submit(r, kind[1], kind[2])
  \/ Cancel(r) \/ CancelUnowned(r) \/ AwaitTerminal(r)

Next ==
  \/ \E r \in Runs :
       Request(r) \/ TaskStep(r) \/ ReconcileCompletedTask(r) \/ ProcessStep(r)
  \/ StopBegins \/ StopEnds \/ Crash
  \/ StartService \/ StartBreaks \/ SecondServiceStarts

(***************************************************************************)
(* Fairness: the event loop runs what is ready (tasks, timers, callbacks), *)
(* a killed process ends, a supervisor restarts a service that is down.    *)
(* Nothing forces a request, a fault, a crash, a healthy ssh process to    *)
(* end, or ssh to read its stdin.                                          *)
(***************************************************************************)
TimedSshStep(r) == SshStep(r) /\ phase[r] # "feeding"
BrokenPipe(r) == Break(r) /\ Exited(r)
KilledExits(r) == ProcessStep(r) /\ proc[r] = "dying"

Fairness ==
  /\ \A r \in Runs :
       /\ WF_vars(Start(r) \/ StartFails(r))
       /\ WF_vars(TimedSshStep(r))
       /\ WF_vars(Complete(r))
       /\ WF_vars(BrokenPipe(r))
       /\ WF_vars(CancelBegins(r) \/ CancelEscapesTask(r) \/ CancelCompletes(r))
       /\ WF_vars(CancelQueued(r))
       /\ WF_vars(ReconcileCompletedTask(r))
       /\ WF_vars(KilledExits(r))
  /\ WF_vars(StopEnds)
  /\ WF_vars(StartService)

Spec == Init /\ [][Next]_vars
FairSpec == Spec /\ Fairness
-----------------------------------------------------------------------------
(* A heavy Run holds exactly one slot from acceptance to its done callback *)
(* and nobody else holds one: no path through cancellation, failure, store *)
(* fault or shutdown leaks a slot or gives it back early                   *)
(* (executor.py:296-359).                                                  *)
SlotsMatchTasks ==
  \A r \in Runs :
    /\ HoldsSlot(r) <=> task[r] # "none" /\ runs[r].execution_class = "heavy"
    /\ \A s, t \in Slots : holder[s] = r /\ holder[t] = r => s = t

(* No more heavy ssh processes run unkilled than the target allows: a slot *)
(* is not given back while its process goes on (docs/configuration.md:142).*)
(* The orphans of a crashed executor are nobody's: its flocks went with it.*)
HeavyBound ==
  Cardinality({r \in Runs : /\ runs[r].execution_class = "heavy"
                            /\ proc[r] = "alive"}) <= MaxHeavy

(* Every permit of the semaphore is free or held by a task inside it, also *)
(* after cancellations of queued and of running tasks (executor.py:384).   *)
PermitsConserved == permits + Cardinality(Active) = MaxConcurrency

(* A verdict says no more than the ssh process showed, whatever raced it:  *)
(* success and remote failure are an exit without a timeout, a local error *)
(* is a command that never started.  So a mutating Run that is not marked  *)
(* ambiguous has a known effect (runs.py:601-670), with one exception: an  *)
(* ssh that something else killed leaves an unmarked remote error          *)
(* (execution.py:156-163).                                                 *)
VerdictIsEvidence ==
  \A r \in Runs :
    /\ runs[r].status = "succeeded" => proc[r] = "zero" /\ ~timedOut[r]
    /\ runs[r].status = "remote_error" => proc[r] \in {"nonzero", "signal"} /\ ~timedOut[r]
    /\ runs[r].status = "timeout" => timedOut[r]
    /\ runs[r].status = "local_error" => proc[r] = "none"
    /\ Settled(r) /\ runs[r].may_mutate /\ ~runs[r].ambiguous
         => \/ proc[r] \in {"none", "zero", "nonzero"}
            \/ proc[r] = "signal" /\ runs[r].status = "remote_error"

(* While the executor is up, a Run is "running" without a task only after  *)
(* a store write failed (docs/runs-and-tasks.md:80).                       *)
NoOwnerlessRun ==
  service \in {"up", "stopping"} /\ faults = 0 =>
    \A r \in Runs : Running(r) => task[r] # "none"

(* A clean stop leaves no Run for the next start to reconcile.             *)
StopSettles ==
  service = "stopped" /\ faults = 0 => \A r \in Runs : ~Running(r)

(* A cancel request that finds the ssh process started wins against its    *)
(* exit and its timeout: the Run ends as interrupted (executor.py:361-381).*)
(* One that finds the Run in the queue may leave it unknown                *)
(* (executor.py:384, outside the try).                                     *)
ActiveCancelInterrupts ==
  faults = 0 =>
    \A r \in asked : Settled(r) /\ proc[r] # "none" => runs[r].status = "interrupted"

(* A Run the executor cancelled does not go on: its ssh process ended or   *)
(* was killed (tests/test_execution.py:132).                               *)
CancelKillsProcess ==
  \A r \in Runs :
    runs[r].error_type = "ExplicitCancellation" => proc[r] # "alive"

(* A service that starts settles only Runs whose task is gone              *)
(* (docs/runs-and-tasks.md:80).                                            *)
OnlyStaleReconciled ==
  [][\A r \in Runs :
       Running(r) /\ runs'[r].error_type = "ExecutorRestart" => task[r] = "none"]_vars

(* Every accepted Run gets a verdict, through queueing, timeouts,          *)
(* cancellation, shutdown and crashes, unless a store write failed.        *)
EveryRunSettles == \A r \in Runs : Running(r) ~> (~Running(r) \/ faults > 0)

(* Every heavy slot taken is given back, even when store writes fail.      *)
SlotsComeBack == \A s \in Slots : holder[s] # Free ~> holder[s] = Free
-----------------------------------------------------------------------------
(* What those who submit, cancel and await Runs see of the executor.       *)
Process == IF service \in {"up", "stopping"} THEN service ELSE "down"
Owners == {r \in Runs : task[r] # "none"}
Cancelled == {r \in Runs : r \in asked /\ task[r] # "none"}
SlotHolders == {r \in Runs : HoldsSlot(r)}

Callers ==
  INSTANCE ExecutorRuns WITH
    Reports <- ExecutionStatuses, executor <- Process, owned <- Owners,
    cancelling <- Cancelled, slots <- SlotHolders

(* The executor keeps its promises to the server: a Run is accepted with   *)
(* its record and its slot, its slot and task go only when it is settled   *)
(* or a store write failed, and nothing but a restart touches a Run the    *)
(* executor does not own (executor.py:142-405).                            *)
ImplementsExecutorRuns == Callers!ExecutorSpec
=============================================================================
