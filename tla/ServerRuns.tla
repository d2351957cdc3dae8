----------------------------- MODULE ServerRuns -----------------------------
(***************************************************************************)
(* The MCP server (server.py) between the Task store and the Run store: it *)
(* marks or checks the Task of an execution, runs it itself (a synchronous *)
(* Run) or hands it to the executor, and repairs on start what a           *)
(* predecessor left behind.  In the unified deployment one process is both *)
(* server and executor; in the stdio deployment every server process talks *)
(* to the executor over a socket that may time out at any point.           *)
(*                                                                         *)
(* Each call makes at most one Run, so the Run id names the call.  A call  *)
(* that is refused before it changed anything does not appear.             *)
(*                                                                         *)
(* The server's own steps are composed with those of TaskLifecycle, which  *)
(* TaskStore implements, and of ExecutorRuns, which Executor implements.   *)
(***************************************************************************)
EXTENDS ExecutorRuns

CONSTANTS
  Tasks, Clients, Servers,
  NoTask, NoServer,
  Calls         \* the executions asked for

Call == [mode : Modes, class : Classes, mutates : BOOLEAN, task : Tasks \cup {NoTask}]

ASSUME CallsAssumption == Calls \subseteq Call
ASSUME NobodyAssumption == NoTask \notin Tasks /\ NoServer \notin Servers

VARIABLES
  deployment,   \* chosen once
  up,           \* the server processes that run
  starting,     \* those that are opening the stores
  stage,        \* Task store: "none", "open", "closed" or "erased"
  debts,        \* Task store: Tasks with the pending-mutation blocker
  holders,      \* Task store: who holds the execution lease of a Task
  pc,           \* where the call of a Run is
  at,           \* the server that serves it, while it does
  call,         \* what it asks for
  reconciled    \* history: calls whose mark a reconciliation cleared

serverVars == <<deployment, up, starting>>
taskVars == <<stage, debts, holders, reconciled>>
callVars == <<pc, at, call>>
vars == <<serverVars, taskVars, callVars, executorVars>>

(* The Task store; retention may take every closed Task, kept or not.      *)
Durable == INSTANCE TaskLifecycle WITH Outcomes <- {"closed"}, kept <- {}

(* "sent": the request is in the socket; "lost": its sender is gone, with  *)
(* an error or a crash, but the executor may still read it.                *)
Places ==
  {"none", "prepared", "executing", "sent", "lost", "answered", "failed"}

NoCall == [mode |-> "sync", class |-> "normal", mutates |-> FALSE, task |-> NoTask]

Init ==
  /\ ExecutorInit
  /\ deployment \in {"unified", "stdio"}
  /\ up = {}
  /\ starting = {}
  /\ Durable!Init
  /\ pc = [r \in Runs |-> "none"]
  /\ at = [r \in Runs |-> NoServer]
  /\ call = [r \in Runs |-> NoCall]
  /\ reconciled = {}

TypeOK ==
  /\ RunsTypeOK
  /\ deployment \in {"unified", "stdio"}
  /\ up \subseteq Servers
  /\ starting \subseteq Servers
  /\ executor \in {"down", "up", "stopping"}
  /\ stage \in [Tasks -> {"none", "open", "closed", "erased"}]
  /\ debts \subseteq Tasks
  /\ holders \in [Tasks -> SUBSET Clients]
  /\ pc \in [Runs -> Places]
  /\ at \in [Runs -> Servers \cup {NoServer}]
  /\ call \in [Runs -> Call]
  /\ slots \subseteq Runs
  /\ owned \subseteq Runs
  /\ cancelling \subseteq Runs
  /\ reconciled \subseteq Runs
  /\ faults \in 0 .. MaxFaults

Sync(r) == call[r].mode = "sync"
Heavy(r) == call[r].class = "heavy"
Linked(r) == call[r].task # NoTask
Marks(q) == q.task # NoTask /\ q.mutates   \* a mutating call in a Task
SocketUsed(r) == deployment = "stdio" /\ ~Sync(r)

(* Between Task and Run a handler awaits only when it uses the socket; in  *)
(* every other case it keeps the event loop of its server until then.      *)
Mid(s) == {r \in Runs : at[r] = s /\ pc[r] = "prepared" /\ ~SocketUsed(r)}
Free(s) == s \in up /\ Mid(s) = {}
HasLoop(r) == at[r] \in up /\ Mid(at[r]) \subseteq {r}
ExecutorHasLoop(r) ==
  executor # "down" /\ (deployment = "unified" => \A q \in Runs \ {r} : pc[q] # "prepared")
-----------------------------------------------------------------------------
(* The Task operations of the server, each one transaction.                *)
Serving == \E s \in Servers : Free(s)

CreateTask(t) ==
  /\ Serving
  /\ Durable!Open(t)
  /\ UNCHANGED reconciled

AcquireTaskLease(c, t) ==
  /\ Serving
  /\ Durable!Acquire(c, t)
  /\ UNCHANGED reconciled

(* release_task_lease, or the lease expires.                               *)
LeaseEnds(t) ==
  /\ Durable!Expire({t})
  /\ UNCHANGED reconciled

(* update_task: with reconcile_mutation the one mark that goes stands for  *)
(* every mutating call of the Task made so far, running or not.            *)
UpdateTask(c, t) ==
  /\ Serving
  /\ Durable!Work(c, t)
  /\ reconciled' = IF t \in debts \ debts'
                   THEN reconciled \cup {r \in Runs : Marks(call[r]) /\ call[r].task = t}
                   ELSE reconciled

CloseTask(c, t) ==
  /\ Serving
  /\ Durable!Close(c, t)
  /\ UNCHANGED reconciled

TaskOperation ==
  /\ \/ \E t \in Tasks : CreateTask(t) \/ LeaseEnds(t)
     \/ \E t \in Tasks, c \in Clients :
          AcquireTaskLease(c, t) \/ UpdateTask(c, t) \/ CloseTask(c, t)
  /\ UNCHANGED <<serverVars, callVars, executorVars>>

(* Retention removes closed Tasks (list_tasks, and every server start).    *)
TasksErased(S) ==
  /\ Durable!Erase(S)
  /\ UNCHANGED reconciled
-----------------------------------------------------------------------------
(* Mutant: every linked execution only asks for an open Task.              *)
PreparedUnmarked(c, q) ==
  /\ q.task # NoTask => stage[q.task] = "open"
  /\ UNCHANGED <<stage, debts, holders>>

(* _prepare_task_execution: a mutating execution marks its Task, a reading *)
(* one asks that it is open.                                               *)
Prepared(c, q) ==
  \/ Marks(q) /\ Durable!Work(c, q.task) /\ q.task \in debts'
  \/ /\ ~Marks(q)
     /\ q.task # NoTask => stage[q.task] = "open"
     /\ UNCHANGED <<stage, debts, holders>>

(* A run_ or start_ call up to that preparation.  A synchronous heavy one  *)
(* has taken its slot before.                                              *)
Prepare(s, c, r, q) ==
  /\ Free(s)
  /\ pc[r] = "none"
  /\ Prepared(c, q)
  /\ IF q.mode = "sync" /\ q.class = "heavy"
     THEN SlotFree /\ slots' = slots \cup {r}
     ELSE UNCHANGED slots
  /\ pc' = [pc EXCEPT ![r] = "prepared"]
  /\ at' = [at EXCEPT ![r] = s]
  /\ call' = [call EXCEPT ![r] = q]
  /\ UNCHANGED <<runs, serverVars, reconciled, executor, owned, cancelling,
                 faults>>

(* The handler of the call is done, with an answer or an error.            *)
Leaves(r, place) ==
  /\ pc' = [pc EXCEPT ![r] = place]
  /\ at' = [at EXCEPT ![r] = NoServer]

(* _tracked_ssh_run goes on: the record, then run_ssh ...                  *)
SyncStarts(r) ==
  /\ pc[r] = "prepared" /\ Sync(r) /\ HasLoop(r)
  /\ Create(r, "sync", call[r].class, call[r].mutates)
  /\ pc' = [pc EXCEPT ![r] = "executing"]
  /\ UNCHANGED <<serverVars, taskVars, at, call, executor, owned, cancelling, slots, faults>>

(* Mutant: the slot is given back only by the inner finally.               *)
SyncNotRecordedKeepsSlot(r) ==
  /\ pc[r] = "prepared" /\ Sync(r) /\ HasLoop(r)
  /\ Fails
  /\ Leaves(r, "failed")
  /\ UNCHANGED <<serverVars, taskVars, call, executor, owned, cancelling, slots>>

(* ... or the record cannot be written and the outer finally runs.         *)
SyncNotRecorded(r) ==
  /\ pc[r] = "prepared" /\ Sync(r) /\ HasLoop(r)
  /\ Fails
  /\ slots' = slots \ {r}
  /\ Leaves(r, "failed")
  /\ UNCHANGED <<serverVars, taskVars, call, executor, owned, cancelling>>

(* run_ssh returned, raised, or the request was cancelled.                 *)
Report(r) ==
  \/ \E s \in Reports : Finish(r, s)
  \/ FailLocal(r)
  \/ MarkUnknown(r, "InternalError")
  \/ Interrupt(r, "CancelledError")

(* Mutant: a failed write of the report is not made up for.                *)
ReportedOnce(r) ==
  \/ Report(r) /\ UNCHANGED faults
  \/ Fails

(* The write of the report, or after its failure the one in the finally.   *)
Reported(r) ==
  \/ Report(r) /\ UNCHANGED faults
  \/ faults < MaxFaults /\ faults' = faults + 1 /\ MarkUnknown(r, "ServerOwnershipLost")

SyncEnds(r) ==
  /\ pc[r] = "executing" /\ HasLoop(r)
  /\ Reported(r)
  /\ slots' = slots \ {r}
  /\ Leaves(r, "answered")
  /\ UNCHANGED <<serverVars, taskVars, call, executor, owned, cancelling>>

(* Both writes fail.                                                       *)
SyncEndsUnrecorded(r) ==
  /\ pc[r] = "executing" /\ HasLoop(r)
  /\ Fails
  /\ slots' = slots \ {r}
  /\ Leaves(r, "failed")
  /\ UNCHANGED <<serverVars, taskVars, call, executor, owned, cancelling>>
-----------------------------------------------------------------------------
(* submit_execution opens the socket, or finds no executor in time.        *)
Connect(r) ==
  /\ pc[r] = "prepared" /\ SocketUsed(r) /\ HasLoop(r)
  /\ \/ executor = "up" /\ pc' = [pc EXCEPT ![r] = "sent"] /\ UNCHANGED at
     \/ Leaves(r, "failed")
  /\ UNCHANGED <<serverVars, taskVars, call, executorVars>>

(* Writing the request or reading the answer times out.                    *)
GiveUp(r) ==
  /\ pc[r] = "sent" /\ HasLoop(r)
  /\ Leaves(r, "lost")
  /\ UNCHANGED <<serverVars, taskVars, call, executorVars>>

(* The calls the executor may get to see: the submit call itself in the    *)
(* unified process, the request in the socket otherwise.                   *)
Arriving(r) ==
  /\ executor = "up" /\ ExecutorHasLoop(r) /\ ~Sync(r)
  /\ IF deployment = "unified" THEN pc[r] = "prepared" ELSE pc[r] \in {"sent", "lost"}

Accept(r) ==
  /\ Arriving(r)
  /\ Accepts(r, call[r].class, call[r].mutates)
  /\ Leaves(r, "answered")
  /\ UNCHANGED <<serverVars, taskVars, call>>

(* No slot, a disabled target, a store that cannot be written.             *)
Reject(r) ==
  /\ Arriving(r)
  /\ Leaves(r, "failed")
  /\ UNCHANGED <<serverVars, taskVars, call, executorVars>>

(* cancel_run: the lease of the Task is asked for here, and what the       *)
(* executor has read it acts on, whatever becomes of its answer.           *)
CancelRun(c, r) ==
  /\ Serving
  /\ Running(r) /\ ~Sync(r)
  /\ Linked(r) => Durable!MayWork(c, call[r].task)
  /\ CancelAccepted(r)
  /\ UNCHANGED <<serverVars, taskVars, callVars>>

(* The tasks and callbacks of the executor, and the Runs it has lost.      *)
ExecutorWorks(r) ==
  /\ ExecutorHasLoop(r)
  /\ Settles(r) \/ VerdictLost(r) \/ Released(r) \/ Repairs(r)
  /\ UNCHANGED <<serverVars, taskVars, callVars>>
-----------------------------------------------------------------------------
(* What ends with server processes: their handlers, and the slots of those;*)
(* a request in the socket stays there.                                    *)
HandlersEnd(S) ==
  /\ pc' = [r \in Runs |-> IF at[r] \notin S THEN pc[r]
                           ELSE IF pc[r] = "sent" THEN "lost" ELSE "failed"]
  /\ at' = [r \in Runs |-> IF at[r] \in S THEN NoServer ELSE at[r]]

ServerCrash(s) ==
  /\ deployment = "stdio" /\ s \in up \cup starting
  /\ up' = up \ {s}
  /\ starting' = starting \ {s}
  /\ HandlersEnd({s})
  /\ slots' = slots \ {r \in Runs : at[r] = s /\ Sync(r)}
  /\ UNCHANGED <<runs, deployment, taskVars, call, executor, owned, cancelling, faults>>

(* The unified process is server and executor at once.                     *)
ServiceCrash ==
  /\ deployment = "unified"
  /\ Dies(slots)
  /\ up' = {}
  /\ starting' = {}
  /\ HandlersEnd(Servers)
  /\ UNCHANGED <<deployment, taskVars, call>>

(* The lifespan ends: its handlers have, and the executor is to stop.      *)
ServiceStops(s) ==
  /\ deployment = "unified" /\ s \in up
  /\ \A r \in Runs : at[r] # s
  /\ Stops
  /\ up' = up \ {s}
  /\ UNCHANGED <<deployment, starting, taskVars, callVars>>

(* A request the executor has not read when it ends is gone.               *)
Unread == {r \in Runs : pc[r] \in {"sent", "lost"}}

SocketCloses ==
  /\ deployment = "stdio"
  /\ pc' = [r \in Runs |-> IF r \in Unread THEN "failed" ELSE pc[r]]
  /\ at' = [r \in Runs |-> IF r \in Unread THEN NoServer ELSE at[r]]
  /\ UNCHANGED <<serverVars, taskVars, call>>

ExecutorCrash == SocketCloses /\ Dies({})
ExecutorStops == SocketCloses /\ Stops

(* The lifespan of the unified service starts the executor first.          *)
ExecutorChanges ==
  /\ Stopped \/ Starts \/ StartFailed
  /\ UNCHANGED <<serverVars, taskVars, callVars>>

(* Mutant: the default reconcile_modes of RunStore.                        *)
ModesAll == Modes

(* initialize_runtime: the modes a server reconciles.                      *)
ServerModes == {"sync"}

(* The unified service is the only process of its workspace.               *)
MayStart(s) ==
  /\ s \notin up \cup starting
  /\ deployment = "unified" => executor = "up" /\ up \cup starting = {}

ServerStart(s) ==
  /\ MayStart(s)
  /\ ReconcileIncomplete(ServerModes, Runs)
  /\ starting' = starting \cup {s}
  /\ UNCHANGED <<deployment, up, taskVars, callVars, executor, owned, cancelling, slots, faults>>

(* A start that breaks off with some of the Runs reconciled.               *)
StartBreaks(s) ==
  /\ MayStart(s)
  /\ \E reached \in SUBSET Runs : ReconcileIncomplete(ServerModes, reached)
  /\ executor' = IF deployment = "unified" THEN "down" ELSE executor
  /\ UNCHANGED <<serverVars, taskVars, callVars, owned, cancelling, slots, faults>>

(* The start goes on with the retention of Runs and Tasks.                 *)
ServerReady(s) ==
  /\ s \in starting
  /\ starting' = starting \ {s}
  /\ up' = up \cup {s}
  /\ \E expired \in SUBSET Runs : Cleanup(expired)
  /\ \E S \in SUBSET Tasks : TasksErased(S)
  /\ UNCHANGED <<deployment, callVars, executor, owned, cancelling, slots, faults>>

(* set_run_retained, list_runs and list_tasks.                             *)
Housekeeping ==
  /\ Serving
  /\ \/ \E r \in Runs, b \in BOOLEAN : SetRetained(r, b) /\ UNCHANGED taskVars
     \/ \E expired \in SUBSET Runs : Cleanup(expired) /\ UNCHANGED taskVars
     \/ \E S \in SUBSET Tasks : TasksErased(S) /\ UNCHANGED runs
  /\ UNCHANGED <<serverVars, callVars, executor, owned, cancelling, slots, faults>>
-----------------------------------------------------------------------------
CallStep(r) ==
  \/ \E s \in Servers, c \in Clients, q \in Calls : Prepare(s, c, r, q)
  \/ SyncStarts(r) \/ SyncNotRecorded(r) \/ SyncEnds(r) \/ SyncEndsUnrecorded(r)
  \/ Connect(r) \/ GiveUp(r) \/ Accept(r) \/ Reject(r)
  \/ \E c \in Clients : CancelRun(c, r)
  \/ ExecutorWorks(r)

ProcessStep ==
  \/ \E s \in Servers :
       \/ ServerCrash(s) \/ ServiceStops(s)
       \/ ServerStart(s) \/ StartBreaks(s) \/ ServerReady(s)
  \/ ServiceCrash \/ ExecutorCrash \/ ExecutorStops \/ ExecutorChanges

Next == TaskOperation \/ Housekeeping \/ ProcessStep \/ \E r \in Runs : CallStep(r)

Spec == Init /\ [][Next]_vars
-----------------------------------------------------------------------------
(* A call that marked its Task stays accounted for by the mark, and the    *)
(* Task stays open, until somebody reconciles it afterwards: across the    *)
(* await for the socket, a refused, lost or retried submission, a failed   *)
(* write, a crash and later calls that share the one mark                  *)
(* (server.py:515-531, docs/tools.md:174).  So a mutating Run starts in a  *)
(* closed Task only when its mark was reconciled in between                *)
(* (server.py:1671-1677).                                                  *)
MutationAccountedFor ==
  \A r \in Runs :
    pc[r] # "none" /\ call[r].mutates /\ Linked(r) /\ r \notin reconciled =>
      call[r].task \in debts /\ stage[call[r].task] = "open"

(* A heavy slot is held exactly while its call is in the server or its Run *)
(* in the executor, whichever of the two runs it: no failed preparation,   *)
(* write, crash or refusal leaks one (server.py:558-616, executor.py:296). *)
SlotsConserved ==
  slots = {r \in Runs :
             Heavy(r) /\ (IF Sync(r) THEN pc[r] \in {"prepared", "executing"} ELSE r \in owned)}

(* A synchronous Run is "running" only while run_ssh of a live server      *)
(* executes it; one failed write does not leave it there.  "failed" is the *)
(* call whose server crashed or whose last write failed as well; the next  *)
(* start of a server settles it.  An asynchronous one is only while the    *)
(* executor has a task for it, is down, or a store write failed            *)
(* (docs/runs-and-tasks.md:80).                                            *)
NoOwnerlessRun ==
  \A r \in Runs :
    Running(r) =>
      IF Sync(r) THEN pc[r] \in {"executing", "failed"}
      ELSE r \in owned \/ executor = "down" \/ faults > 0

(* A restart settles nothing that another live owner works on: the Runs    *)
(* of the executor never, those of the service itself never.  Servers that *)
(* share a workspace over stdio do interrupt each other's Runs.            *)
OnlyOwnRunsReconciled ==
  [][\A r \in Runs :
       Running(r) /\ runs'[r].error_type \in {"ServerRestart", "ExecutorRestart"} =>
         r \notin owned /\ (pc[r] = "executing" => deployment = "stdio")]_vars
=============================================================================
