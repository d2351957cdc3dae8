--------------------------- MODULE Executor_proofs ---------------------------
(***************************************************************************)
(* Proofs about the executor, for any set of Runs, any limits and any      *)
(* number of store faults: it uses the Run store only through the store's  *)
(* operations (hence every Run follows the abstract life cycle), its       *)
(* state is well typed, its semaphore loses and gains no permit, and a     *)
(* heavy slot is held exactly by the live heavy Runs.                      *)
(***************************************************************************)
EXTENDS Executor, RunStore_proofs, FiniteSetTheorems

(* What an execution or a cancellation writes.                             *)
LEMMA ClassifiedType ==
  ASSUME NEW r \in Runs
  PROVE  Classified(r) \in ExecutionStatuses
BY DEF Classified, ExecutionStatuses

(* A cancellation that ends a task writes at most its record.              *)
LEMMA InterruptedStep ==
  ASSUME NEW r \in Runs, Interrupted(r)
  PROVE  StoreNext \/ UNCHANGED runs
<1>1. Reason(r) \in CancelTypes \cup LossTypes
  BY DEF Reason, CancelTypes
<1>2. QED
  BY <1>1 DEF Interrupted, Attempt, Succeeds, Fails, StoreNext

(* The steps of the task of a Run, seen from the store.                    *)
LEMMA TaskStoreStep ==
  ASSUME NEW r \in Runs, TaskStep(r)
  PROVE  StoreNext \/ UNCHANGED runs
<1>1. CASE Start(r) \/ SshStep(r) \/ CancelBegins(r) \/ CancelQueued(r)
  BY <1>1 DEF Start, SshStep, CancelBegins, CancelQueued
<1>2. CASE StartFails(r)
  BY <1>2 DEF StartFails, Attempt, Succeeds, Fails, StoreNext
<1>3. CASE Complete(r)
  BY <1>3, ClassifiedType DEF Complete, Attempt, Succeeds, Fails, StoreNext
<1>4. CASE Break(r)
  BY <1>4 DEF Break, Attempt, Succeeds, Fails, StoreNext
<1>5. CASE CancelEscapesTask(r) \/ CancelCompletes(r)
  BY <1>5, InterruptedStep DEF CancelEscapesTask, CancelCompletes
<1>6. QED
  BY <1>1, <1>2, <1>3, <1>4, <1>5 DEF TaskStep

(* The request handlers, seen from the store.                              *)
LEMMA RequestStoreStep ==
  ASSUME NEW r \in Runs, Request(r)
  PROVE  StoreNext \/ UNCHANGED runs
<1>1. ASSUME NEW kind \in Submissions, Submit(r, kind[1], kind[2])
      PROVE  StoreNext
  BY <1>1, SubmissionsAssumption DEF Submit, StoreNext, Modes
<1>2. CASE Cancel(r)
  BY <1>2 DEF Cancel
<1>3. CASE CancelUnowned(r)
  BY <1>3 DEF CancelUnowned, StoreNext, LossTypes
<1>4. CASE AwaitTerminal(r)
  BY <1>4 DEF AwaitTerminal, StoreNext, LossTypes
<1>5. QED
  BY <1>1, <1>2, <1>3, <1>4 DEF Request

(* Every step of the executor is at most one operation of the Run store.   *)
LEMMA StoreStep ==
  ASSUME [Next]_vars
  PROVE  [StoreNext]_runs
<1>1. ASSUME NEW r \in Runs, ReconcileCompletedTask(r)
      PROVE  StoreNext \/ UNCHANGED runs
  BY <1>1 DEF ReconcileCompletedTask, Attempt, Succeeds, Fails, StoreNext, LossTypes
<1>2. CASE \E r \in Runs : ProcessStep(r)
  BY <1>2 DEF ProcessStep
<1>3. CASE StopBegins \/ StopEnds \/ Crash
  BY <1>3 DEF StopBegins, StopEnds, Crash
<1>4. CASE StartService \/ StartBreaks \/ SecondServiceStarts
  BY <1>4 DEF StartService, StartBreaks, SecondServiceStarts, StoreNext, Modes
<1>5. CASE UNCHANGED vars
  BY <1>5 DEF vars
<1>6. QED
  BY <1>1, <1>2, <1>3, <1>4, <1>5, TaskStoreStep, RequestStoreStep DEF Next

(* The executor implements the Run store: between its handlers, its tasks  *)
(* and their callbacks, no step writes a record except through the         *)
(* operations of runs.py (executor.py:288-405).                            *)
THEOREM ExecutorImplementsStore == Spec => StoreSpec
BY StoreStep, PTL DEF Spec, Init, StoreSpec

(* Hence every Run of the executor follows the abstract life cycle: one    *)
(* verdict, never rewritten by a late callback, a restart, a second        *)
(* service or a repair.                                                    *)
THEOREM ExecutorImplementsLifecycle == Spec => ImplementsLifecycle
BY ExecutorImplementsStore, StoreImplementsLifecycle, PTL
-----------------------------------------------------------------------------
(* The inductive invariant: the types (with doubt only about settled Runs, *)
(* from the store), a record for every task, finitely many active tasks so *)
(* that they can be counted, and the two conservation laws.                *)
HandlerTypeOK ==
  /\ holder \in [Slots -> Runs \cup {Free}]
  /\ service \in {"up", "stopping", "stopped", "crashed"}
  /\ task \in [Runs -> TaskStates]
  /\ cancelPending \subseteq Runs
  /\ reasons \subseteq Runs
  /\ asked \subseteq Runs
  /\ faults \in 0 .. MaxFaults

ControlTypeOK == ExecutionTypeOK /\ HandlerTypeOK

TasksHaveRecords == \A r \in Runs : task[r] # "none" => runs[r].status # "absent"

PermitsInv ==
  /\ permits \in Nat
  /\ IsFiniteSet(Active)
  /\ PermitsConserved

IInv ==
  /\ StoreInv
  /\ ControlTypeOK
  /\ TasksHaveRecords
  /\ PermitsInv
  /\ SlotsMatchTasks

(* No step unmakes a record or changes its class.                          *)
LEMMA RecordsStay ==
  ASSUME StoreInv, [StoreNext]_runs, NEW r \in Runs, runs[r].status # "absent"
  PROVE  /\ runs'[r].status # "absent"
         /\ runs'[r].execution_class = runs[r].execution_class
<1>1. ASSUME NEW q \in Runs, NEW mode \in Modes, NEW class \in Classes,
             NEW m \in BOOLEAN, Create(q, mode, class, m)
      PROVE  runs'[r] = runs[r]
  BY <1>1 DEF Create, NoRun, StoreInv, RunsTypeOK
<1>2. ASSUME NEW q \in Runs, NEW s \in Terminal, NEW e \in ErrorTypes
      PROVE  /\ Ended(runs[q], s, e).status # "absent"
             /\ Ended(runs[q], s, e).execution_class = runs[q].execution_class
  BY DEF Ended, StoreInv, RunsTypeOK, RunRecord, Terminal, ExecutionStatuses,
     InternalStatuses
<1>3. ASSUME NEW q \in Runs, NEW s \in Terminal, NEW e \in ErrorTypes,
             FinishWithoutExecution(q, s, e)
      PROVE  /\ runs'[r].status # "absent"
             /\ runs'[r].execution_class = runs[r].execution_class
  BY <1>2, <1>3 DEF FinishWithoutExecution, StoreInv, RunsTypeOK
<1>4. ASSUME NEW modes \in SUBSET Modes, NEW reached \in SUBSET Runs,
             ReconcileIncomplete(modes, reached)
      PROVE  /\ runs'[r].status # "absent"
             /\ runs'[r].execution_class = runs[r].execution_class
  <2>1. "interrupted" \in Terminal
        /\ "ExecutorRestart" \in ErrorTypes /\ "ServerRestart" \in ErrorTypes
    BY DEF Terminal, InternalStatuses, ErrorTypes
  <2>2. QED
    BY <1>2, <1>4, <2>1 DEF ReconcileIncomplete
<1>5. ASSUME NEW q \in Runs, NEW b \in BOOLEAN, SetRetained(q, b)
      PROVE  /\ runs'[r].status # "absent"
             /\ runs'[r].execution_class = runs[r].execution_class
  BY <1>5 DEF SetRetained, StoreInv, RunsTypeOK, RunRecord
<1>6. ASSUME NEW expired \in SUBSET Runs, Cleanup(expired)
      PROVE  /\ runs'[r].status # "absent"
             /\ runs'[r].execution_class = runs[r].execution_class
  BY <1>6 DEF Cleanup, StoreInv, RunsTypeOK, RunRecord
<1>7. QED
  BY <1>1, <1>3, <1>4, <1>5, <1>6, StoreSteps

(* Every step keeps the types of run_ssh's state.                          *)
LEMMA ExecutionTypeStep ==
  ASSUME ExecutionTypeOK, [Next]_vars
  PROVE  ExecutionTypeOK'
<1> USE DEF ExecutionTypeOK, Phases, ProcStates, ExitCodes
<1>1. ASSUME NEW r \in Runs, Start(r) PROVE ExecutionTypeOK'
  BY <1>1 DEF Start, Spawn
<1>2. ASSUME NEW r \in Runs, SshStep(r) PROVE ExecutionTypeOK'
  BY <1>2 DEF SshStep, InputDrained, WaitReturns, TimeoutFires, KillReturns, Killed
<1>3. ASSUME NEW r \in Runs, Complete(r) \/ Break(r) PROVE ExecutionTypeOK'
  BY <1>3 DEF Complete, Break, Returns, InputBroken
<1>4. ASSUME NEW r \in Runs, CancelBegins(r) PROVE ExecutionTypeOK'
  BY <1>4 DEF CancelBegins, CancelKills, Killed
<1>5. ASSUME NEW r \in Runs, CancelEscapesTask(r) \/ CancelCompletes(r)
      PROVE  ExecutionTypeOK'
  BY <1>5 DEF CancelEscapesTask, CancelCompletes, CancelEscapes, AbortReturns
<1>6. ASSUME NEW r \in Runs, ProcessStep(r) PROVE ExecutionTypeOK'
  BY <1>6 DEF ProcessStep, ProcessExits
<1>7. CASE Crash
  BY <1>7 DEF Crash
<1>8. ASSUME NEW r \in Runs, StartFails(r) \/ CancelQueued(r) \/ Request(r)
                             \/ ReconcileCompletedTask(r)
      PROVE  ExecutionTypeOK'
  BY <1>8 DEF StartFails, CancelQueued, Request, Submit, Cancel, CancelUnowned,
     AwaitTerminal, ReconcileCompletedTask, sshVars
<1>9. CASE StopBegins \/ StopEnds \/ StartService \/ StartBreaks \/ SecondServiceStarts \/ UNCHANGED vars
  BY <1>9 DEF StopBegins, StopEnds, StartService, StartBreaks, SecondServiceStarts, vars, sshVars
<1>10. QED
  BY <1>1, <1>2, <1>3, <1>4, <1>5, <1>6, <1>7, <1>8, <1>9 DEF Next, TaskStep

(* Every step keeps the types of the executor's own state.                 *)
LEMMA HandlerTypeStep ==
  ASSUME HandlerTypeOK, [Next]_vars
  PROVE  HandlerTypeOK'
<1> USE DEF HandlerTypeOK, TaskStates
<1>1. faults \in 0 .. MaxFaults /\ faults < MaxFaults => faults + 1 \in 0 .. MaxFaults
  BY FaultsAssumption
<1>2. ASSUME NEW r \in Runs, Start(r) \/ StartFails(r)
      PROVE  HandlerTypeOK'
  BY <1>1, <1>2 DEF Start, StartFails, Attempt, Succeeds, Fails
<1>3. ASSUME NEW r \in Runs, SshStep(r) \/ ProcessStep(r)
      PROVE  HandlerTypeOK'
  BY <1>3 DEF SshStep, ProcessStep, taskVars
<1>4. ASSUME NEW r \in Runs, Complete(r) \/ Break(r)
      PROVE  HandlerTypeOK'
  BY <1>1, <1>4 DEF Complete, Break, Attempt, Succeeds, Fails, TaskEnds
<1>5. ASSUME NEW r \in Runs, CancelBegins(r) \/ CancelQueued(r)
      PROVE  HandlerTypeOK'
  BY <1>5 DEF CancelBegins, CancelQueued
<1>6. ASSUME NEW r \in Runs, CancelEscapesTask(r) \/ CancelCompletes(r)
      PROVE  HandlerTypeOK'
  BY <1>1, <1>6 DEF CancelEscapesTask, CancelCompletes, Interrupted, Attempt,
     Succeeds, Fails, TaskEnds
<1>7. ASSUME NEW r \in Runs, ReconcileCompletedTask(r)
      PROVE  HandlerTypeOK'
  BY <1>1, <1>7 DEF ReconcileCompletedTask, Attempt, Succeeds, Fails, ReleaseSlot
<1>8. ASSUME NEW r \in Runs, NEW kind \in Submissions, Submit(r, kind[1], kind[2])
      PROVE  HandlerTypeOK'
  BY <1>8 DEF Submit, AcquireSlot
<1>9. ASSUME NEW r \in Runs, Cancel(r) \/ CancelUnowned(r) \/ AwaitTerminal(r)
      PROVE  HandlerTypeOK'
  BY <1>9 DEF Cancel, CancelUnowned, AwaitTerminal, taskVars
<1>10. CASE StopBegins
  BY <1>10 DEF StopBegins
<1>11. CASE Crash
  BY <1>11 DEF Crash
<1>12. CASE StopEnds \/ StartService \/ StartBreaks \/ SecondServiceStarts \/ UNCHANGED vars
  BY <1>12 DEF StopEnds, StartService, StartBreaks, SecondServiceStarts, vars, taskVars
<1>13. QED
  BY <1>2, <1>3, <1>4, <1>5, <1>6, <1>7, <1>8, <1>9, <1>10, <1>11, <1>12
     DEF Next, TaskStep, Request

(* What a step does to the semaphore: nothing, one task in, one task out,  *)
(* or the process dies.                                                    *)
LEMMA SemaphoreSteps ==
  ASSUME IInv, [Next]_vars
  PROVE  \/ permits' = permits /\ Active' = Active
         \/ \E r \in Runs \ Active : /\ permits > 0
                                     /\ permits' = permits - 1
                                     /\ Active' = Active \cup {r}
         \/ \E r \in Active : permits' = permits + 1 /\ Active' = Active \ {r}
         \/ permits' = MaxConcurrency /\ Active' = {}
<1> USE DEF IInv, ControlTypeOK, HandlerTypeOK, TaskStates, Active
<1>1. ASSUME NEW r \in Runs, Start(r)
      PROVE  /\ r \notin Active /\ permits > 0 /\ permits' = permits - 1
             /\ Active' = Active \cup {r}
  BY <1>1 DEF Start
<1>2. ASSUME NEW r \in Runs, StartFails(r) \/ CancelQueued(r)
      PROVE  permits' = permits /\ Active' = Active
  BY <1>2 DEF StartFails, CancelQueued
<1>3. ASSUME NEW r \in Runs, SshStep(r) \/ ProcessStep(r) \/ CancelBegins(r)
      PROVE  permits' = permits /\ Active' = Active
  BY <1>3 DEF SshStep, ProcessStep, CancelBegins, taskVars
<1>4. ASSUME NEW r \in Runs, Complete(r) \/ Break(r)
      PROVE  r \in Active /\ permits' = permits + 1 /\ Active' = Active \ {r}
  BY <1>4 DEF Complete, Break, TaskRuns, TaskEnds
<1>5. ASSUME NEW r \in Runs, CancelEscapesTask(r) \/ CancelCompletes(r)
      PROVE  r \in Active /\ permits' = permits + 1 /\ Active' = Active \ {r}
  BY <1>5 DEF CancelEscapesTask, CancelCompletes, Interrupted, TaskRuns, TaskEnds
<1>6. ASSUME NEW r \in Runs, ReconcileCompletedTask(r)
      PROVE  permits' = permits /\ Active' = Active
  BY <1>6 DEF ReconcileCompletedTask
<1>7. ASSUME NEW r \in Runs, NEW kind \in Submissions, Submit(r, kind[1], kind[2])
      PROVE  permits' = permits /\ Active' = Active
  BY <1>7 DEF Submit, Create, NoRun, TasksHaveRecords
<1>8. ASSUME NEW r \in Runs, Cancel(r) \/ CancelUnowned(r) \/ AwaitTerminal(r)
      PROVE  permits' = permits /\ Active' = Active
  BY <1>8 DEF Cancel, CancelUnowned, AwaitTerminal, taskVars
<1>9. CASE Crash
  BY <1>9 DEF Crash
<1>10. CASE StopBegins \/ StopEnds \/ StartService \/ StartBreaks \/ SecondServiceStarts
            \/ UNCHANGED vars
  BY <1>10 DEF StopBegins, StopEnds, StartService, StartBreaks, SecondServiceStarts, vars, taskVars
<1> HIDE DEF IInv, ControlTypeOK, HandlerTypeOK, TaskStates, Active
<1>11. QED
  BY <1>1, <1>2, <1>3, <1>4, <1>5, <1>6, <1>7, <1>8, <1>9, <1>10
     DEF Next, TaskStep, Request

(* Hence no permit is lost or made.                                        *)
LEMMA PermitsStep ==
  ASSUME IInv, [Next]_vars
  PROVE  PermitsInv'
<1> DEFINE n == Cardinality(Active)
<1>1. /\ permits \in Nat /\ IsFiniteSet(Active) /\ n \in Nat
      /\ permits + n = MaxConcurrency
      /\ MaxConcurrency \in Nat
  BY FS_CardinalityType, ConcurrencyAssumption DEF IInv, PermitsInv, PermitsConserved
<1>2. CASE permits' = permits /\ Active' = Active
  BY <1>1, <1>2 DEF PermitsInv, PermitsConserved
<1>3. ASSUME NEW r \in Runs \ Active, permits > 0, permits' = permits - 1,
             Active' = Active \cup {r}
      PROVE  PermitsInv'
  <2>1. IsFiniteSet(Active') /\ Cardinality(Active') = n + 1
    BY <1>1, <1>3, FS_AddElement
  <2>2. QED
    BY <1>1, <1>3, <2>1 DEF PermitsInv, PermitsConserved
<1>4. ASSUME NEW r \in Active, permits' = permits + 1, Active' = Active \ {r}
      PROVE  PermitsInv'
  <2>1. IsFiniteSet(Active') /\ Cardinality(Active') = n - 1
    BY <1>1, <1>4, FS_RemoveElement
  <2>2. QED
    BY <1>1, <1>4, <2>1 DEF PermitsInv, PermitsConserved
<1>5. CASE permits' = MaxConcurrency /\ Active' = {}
  BY <1>1, <1>5, FS_EmptySet DEF PermitsInv, PermitsConserved
<1>6. QED
  BY <1>2, <1>3, <1>4, <1>5, SemaphoreSteps

(* A task has a record from the step that makes it to the one that ends it.*)
LEMMA TasksHaveRecordsStep ==
  ASSUME IInv, [Next]_vars
  PROVE  TasksHaveRecords'
<1>1. \A r \in Runs : runs[r].status # "absent" => runs'[r].status # "absent"
  BY StoreStep, RecordsStay DEF IInv
<1>2. ASSUME NEW r \in Runs, task'[r] # "none"
      PROVE  task[r] # "none" \/ runs'[r].status # "absent"
  <2> USE DEF IInv, ControlTypeOK, HandlerTypeOK
  <2>1. ASSUME NEW q \in Runs, NEW kind \in Submissions, Submit(q, kind[1], kind[2])
        PROVE  task[r] # "none" \/ runs'[r].status # "absent"
    BY <1>2, <2>1 DEF Submit, Create, NoRun, StoreInv, RunsTypeOK
  <2>2. ASSUME NEW q \in Runs, TaskStep(q) \/ ReconcileCompletedTask(q)
        PROVE  task[r] # "none"
    BY <1>2, <2>2 DEF TaskStep, Start, StartFails, SshStep, Complete, Break,
       CancelBegins, CancelEscapesTask, CancelCompletes, CancelQueued, Interrupted,
       TaskEnds, TaskRuns, ReconcileCompletedTask, taskVars
  <2>3. ASSUME NEW q \in Runs,
               Cancel(q) \/ CancelUnowned(q) \/ AwaitTerminal(q) \/ ProcessStep(q)
        PROVE  task[r] # "none"
    BY <1>2, <2>3 DEF Cancel, CancelUnowned, AwaitTerminal, ProcessStep, taskVars
  <2>4. CASE Crash
    BY <1>2, <2>4 DEF Crash
  <2>5. CASE StopBegins \/ StopEnds \/ StartService \/ StartBreaks \/ SecondServiceStarts
             \/ UNCHANGED vars
    BY <1>2, <2>5 DEF StopBegins, StopEnds, StartService, StartBreaks, SecondServiceStarts, vars,
       taskVars
  <2>6. QED
    BY <2>1, <2>2, <2>3, <2>4, <2>5 DEF Next, Request
<1>3. QED
  BY <1>1, <1>2 DEF IInv, TasksHaveRecords

(* What a step does to the heavy slots: nothing, an acceptance takes one,  *)
(* the done callback of a Run gives its own back, or the process dies.     *)
LEMMA SlotSteps ==
  ASSUME IInv, [Next]_vars
  PROVE  \/ /\ holder' = holder
            /\ \A r \in Runs : task'[r] = "none" <=> task[r] = "none"
         \/ \E r \in Runs, kind \in Submissions : Submit(r, kind[1], kind[2])
         \/ \E r \in Runs : ReconcileCompletedTask(r)
         \/ Crash
<1> DEFINE Same == /\ holder' = holder
                   /\ \A r \in Runs : task'[r] = "none" <=> task[r] = "none"
<1> USE DEF IInv, ControlTypeOK, HandlerTypeOK
<1>1. ASSUME NEW q \in Runs, TaskStep(q)
      PROVE  Same
  BY <1>1 DEF TaskStep, Start, StartFails, SshStep, Complete, Break, CancelBegins,
     CancelEscapesTask, CancelCompletes, CancelQueued, Interrupted, TaskEnds,
     TaskRuns, taskVars
<1>2. ASSUME NEW q \in Runs,
             Cancel(q) \/ CancelUnowned(q) \/ AwaitTerminal(q) \/ ProcessStep(q)
      PROVE  Same
  BY <1>2 DEF Cancel, CancelUnowned, AwaitTerminal, ProcessStep, taskVars
<1>3. CASE StopBegins \/ StopEnds \/ StartService \/ StartBreaks \/ SecondServiceStarts
           \/ UNCHANGED vars
  BY <1>3 DEF StopBegins, StopEnds, StartService, StartBreaks, SecondServiceStarts, vars, taskVars
<1>4. QED
  BY <1>1, <1>2, <1>3 DEF Next, Request

(* Hence a slot is held exactly by the heavy Runs that have a task.        *)
LEMMA SlotsStep ==
  ASSUME IInv, [Next]_vars
  PROVE  SlotsMatchTasks'
<1>0. /\ holder \in [Slots -> Runs \cup {Free}]
      /\ task \in [Runs -> TaskStates]
      /\ runs \in [Runs -> RunRecord]
      /\ Free \notin Runs
  BY FreeAssumption DEF IInv, ControlTypeOK, HandlerTypeOK, StoreInv, RunsTypeOK
<1>1. \A r \in Runs : runs[r].status # "absent" =>
                        runs'[r].execution_class = runs[r].execution_class
  BY StoreStep, RecordsStay DEF IInv
<1>2. ASSUME holder' = holder,
             \A r \in Runs : task'[r] = "none" <=> task[r] = "none"
      PROVE  SlotsMatchTasks'
  BY <1>1, <1>2 DEF IInv, TasksHaveRecords, SlotsMatchTasks, HoldsSlot
<1>3. ASSUME NEW r \in Runs, NEW kind \in Submissions, Submit(r, kind[1], kind[2])
      PROVE  SlotsMatchTasks'
  <2>1. /\ task[r] = "none" /\ ~HoldsSlot(r)
        /\ runs'[r].execution_class = kind[1]
        /\ task' = [task EXCEPT ![r] = "queued"]
    BY <1>0, <1>3 DEF Submit, Create, NoRun, IInv, TasksHaveRecords, SlotsMatchTasks
  <2>2. ASSUME NEW q \in Runs, q # r
        PROVE  task'[q] = task[q] /\ runs'[q] = runs[q]
    BY <1>0, <1>3, <2>1, <2>2 DEF Submit, Create
  <2>3. CASE kind[1] = "heavy"
    <3>1. PICK s \in Slots : holder[s] = Free /\ holder' = [holder EXCEPT ![s] = r]
      BY <1>3, <2>3 DEF Submit, AcquireSlot
    <3>2. /\ HoldsSlot(r)'
          /\ \A t, u \in Slots : holder'[t] = r /\ holder'[u] = r => t = u
      BY <1>0, <2>1, <3>1 DEF HoldsSlot
    <3>3. \A q \in Runs : q # r => (HoldsSlot(q)' <=> HoldsSlot(q))
      BY <1>0, <3>1 DEF HoldsSlot
    <3>4. \A q \in Runs, t \in Slots :
            q # r /\ holder'[t] = q => holder[t] = q
      BY <1>0, <3>1
    <3>5. QED
      BY <1>0, <2>1, <2>2, <2>3, <3>2, <3>3, <3>4 DEF IInv, SlotsMatchTasks
  <2>4. CASE kind[1] # "heavy"
    <3>1. holder' = holder
      BY <1>3, <2>4 DEF Submit
    <3>2. QED
      BY <1>0, <2>1, <2>2, <2>4, <3>1 DEF IInv, SlotsMatchTasks, HoldsSlot
  <2>5. QED
    BY <2>3, <2>4
<1>4. ASSUME NEW r \in Runs, ReconcileCompletedTask(r)
      PROVE  SlotsMatchTasks'
  <2>1. /\ task' = [task EXCEPT ![r] = "none"]
        /\ holder' = [s \in Slots |-> IF holder[s] = r THEN Free ELSE holder[s]]
    BY <1>4 DEF ReconcileCompletedTask, ReleaseSlot
  <2>2. ~HoldsSlot(r)' /\ \A q \in Runs : q # r => (HoldsSlot(q)' <=> HoldsSlot(q))
    BY <1>0, <2>1 DEF HoldsSlot
  <2>3. \A q \in Runs, s \in Slots : holder'[s] = q => holder[s] = q
    BY <1>0, <2>1
  <2>4. QED
    BY <1>0, <1>1, <2>1, <2>2, <2>3 DEF IInv, TasksHaveRecords, SlotsMatchTasks, HoldsSlot
<1>5. CASE Crash
  BY <1>0, <1>5 DEF Crash, SlotsMatchTasks, HoldsSlot
<1>6. QED
  BY <1>2, <1>3, <1>4, <1>5, SlotSteps

(* The initial state satisfies the invariant.                              *)
LEMMA ExecutorInitInv == Init => IInv
<1> SUFFICES ASSUME Init PROVE IInv
  OBVIOUS
<1>1. StoreInv
  BY StoreInitInv DEF Init
<1>2. ControlTypeOK
  BY FaultsAssumption DEF Init, ControlTypeOK, HandlerTypeOK, ExecutionTypeOK, ExecutionInit,
     HolderInit, Phases, ProcStates, TaskStates
<1>3. TasksHaveRecords
  BY DEF Init, TasksHaveRecords
<1>4. Active = {}
  BY DEF Init, Active
<1>5. PermitsInv
  BY <1>4, FS_EmptySet, ConcurrencyAssumption DEF Init, PermitsInv, PermitsConserved
<1>6. SlotsMatchTasks
  BY FreeAssumption DEF Init, SlotsMatchTasks, HoldsSlot, HolderInit
<1>7. QED
  BY <1>1, <1>2, <1>3, <1>5, <1>6 DEF IInv

(* The inductive invariant of the executor.                                *)
THEOREM ExecutorInvariant == Spec => []IInv
<1>1. ASSUME IInv, [Next]_vars, StoreInv' PROVE IInv'
  BY <1>1, ExecutionTypeStep, HandlerTypeStep, TasksHaveRecordsStep, PermitsStep,
     SlotsStep DEF IInv, ControlTypeOK
<1>2. StoreSpec => []StoreInv
  BY StoreTypeCorrect
<1>3. QED
  BY <1>1, <1>2, ExecutorInitInv, ExecutorImplementsStore, PTL DEF Spec

(* The invariant bounds the permits, so it gives the type invariant.       *)
LEMMA InvariantTypes == IInv => TypeOK
<1> SUFFICES ASSUME IInv PROVE TypeOK
  OBVIOUS
<1>1. permits \in 0 .. MaxConcurrency
  <2>1. Cardinality(Active) \in Nat
    BY FS_CardinalityType DEF IInv, PermitsInv
  <2>2. QED
    BY <2>1, ConcurrencyAssumption DEF IInv, PermitsInv, PermitsConserved
<1>2. QED
  BY <1>1 DEF IInv, StoreInv, ControlTypeOK, HandlerTypeOK, TypeOK

(* Type correctness of the executor, with its store and its ssh calls.     *)
THEOREM ExecutorTypeCorrect == Spec => []TypeOK
BY ExecutorInvariant, InvariantTypes, PTL

(* No path through cancellation, failure, store fault, crash or shutdown   *)
(* leaks a permit of the semaphore or makes one up (executor.py:383-405).  *)
THEOREM PermitsAreConserved == Spec => []PermitsConserved
<1>1. IInv => PermitsConserved
  BY DEF IInv, PermitsInv
<1>2. QED
  BY <1>1, ExecutorInvariant, PTL

(* A heavy Run holds exactly one slot from acceptance to its done callback *)
(* and no other Run holds one (executor.py:296-359).                       *)
THEOREM SlotsAlwaysMatchTasks == Spec => []SlotsMatchTasks
<1>1. IInv => SlotsMatchTasks
  BY DEF IInv
<1>2. QED
  BY <1>1, ExecutorInvariant, PTL
=============================================================================
