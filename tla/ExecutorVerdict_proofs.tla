----------------------- MODULE ExecutorVerdict_proofs -----------------------
(***************************************************************************)
(* Proofs about what the executor records: a verdict says no more than the *)
(* ssh process showed, a cancellation of a running execution wins, a clean *)
(* stop settles everything, and (when stdin fits) heavy work is bounded    *)
(* and a cancelled process dies; and that the executor implements what it  *)
(* promises the server.  For any Runs, limits, faults, crashes.            *)
(***************************************************************************)
EXTENDS Executor_proofs

(* What one Run and its execution have to do with each other.              *)
Evidence(r) ==
  /\ task[r] = "active" <=> phase[r] # "idle"
  /\ task[r] = "queued" \/ runs[r].status = "absent" => proc[r] = "none" /\ ~timedOut[r]
  /\ task[r] \in {"queued", "active"} =>
       /\ runs[r].status \in {"running", "interrupted"}
       /\ runs[r].error_type \notin CancelTypes
  /\ phase[r] = "collecting" => Exited(r)
  /\ runs[r].status = "succeeded" => proc[r] = "zero" /\ ~timedOut[r]
  /\ runs[r].status = "remote_error" => proc[r] \in {"nonzero", "signal"} /\ ~timedOut[r]
  /\ runs[r].status = "timeout" => timedOut[r]
  /\ runs[r].status = "local_error" => proc[r] = "none"

EvidenceInv == \A r \in Runs : Evidence(r)

(* A step of q leaves all of r alone.                                      *)
Same(r) ==
  /\ runs'[r] = runs[r] /\ task'[r] = task[r] /\ phase'[r] = phase[r]
  /\ proc'[r] = proc[r] /\ timedOut'[r] = timedOut[r]
  /\ r \in cancelPending' <=> r \in cancelPending
  /\ r \in asked' <=> r \in asked

(* The steps that belong to one Run.                                       *)
StepOf(r) == Request(r) \/ TaskStep(r) \/ ReconcileCompletedTask(r) \/ ProcessStep(r)

(* The verdict that ends a Run is written once, into its own record.       *)
LEMMA EndWrites ==
  ASSUME StoreInv, NEW q \in Runs, NEW s \in Terminal, NEW e \in ErrorTypes,
         FinishWithoutExecution(q, s, e)
  PROVE  /\ \A r \in Runs \ {q} : runs'[r] = runs[r]
         /\ Running(q) => runs'[q].status = s /\ runs'[q].error_type = e
         /\ ~Running(q) => runs'[q] = runs[q]
<1>1. /\ Ended(runs[q], s, e).status = s
      /\ Ended(runs[q], s, e).error_type = e
  BY EndedType, EndedDoubt DEF StoreInv, RunsTypeOK
<1>2. QED
  BY <1>1 DEF FinishWithoutExecution, StoreInv, RunsTypeOK

(* The same for a write that the code attempts, which may fail.            *)
LEMMA AttemptWrites ==
  ASSUME StoreInv, NEW q \in Runs, NEW s \in Terminal, NEW e \in ErrorTypes,
         Attempt(FinishWithoutExecution(q, s, e))
  PROVE  /\ \A r \in Runs \ {q} : runs'[r] = runs[r]
         /\ \/ Running(q) /\ runs'[q].status = s /\ runs'[q].error_type = e /\ faults' = faults
            \/ ~Running(q) /\ runs'[q] = runs[q] /\ faults' = faults
            \/ runs'[q] = runs[q] /\ faults' = faults + 1
<1>1. CASE Succeeds(FinishWithoutExecution(q, s, e))
  BY <1>1, EndWrites DEF Succeeds
<1>2. CASE Fails
  BY <1>2 DEF Fails
<1>3. QED
  BY <1>1, <1>2 DEF Attempt

(* The writes of the operations the executor calls.                        *)
LEMMA CallsEnd ==
  ASSUME NEW q \in Runs
  PROVE  /\ \A s \in ExecutionStatuses :
              Attempt(Finish(q, s)) => Attempt(FinishWithoutExecution(q, s, "none"))
         /\ FailLocal(q) = FinishWithoutExecution(q, "local_error", "LocalError")
         /\ \A e \in ErrorTypes :
              /\ Interrupt(q, e) = FinishWithoutExecution(q, "interrupted", e)
              /\ MarkUnknown(q, e) = FinishWithoutExecution(q, "unknown", e)
<1>1. \A s \in ExecutionStatuses : Finish(q, s) => FinishWithoutExecution(q, s, "none")
  BY FinishIsEnd
<1>2. QED
  BY <1>1 DEF Attempt, Succeeds, FailLocal, Interrupt, MarkUnknown

(* A step of one Run touches no other.                                     *)
LEMMA StepIsLocal ==
  ASSUME StoreInv, ControlTypeOK, NEW q \in Runs, StepOf(q), NEW r \in Runs, r # q
  PROVE  Same(r)
<1> USE DEF Same, ControlTypeOK, ExecutionTypeOK, HandlerTypeOK
<1>1. ASSUME NEW kind \in Submissions, Submit(q, kind[1], kind[2]) PROVE Same(r)
  BY <1>1 DEF Submit, Create, StoreInv, RunsTypeOK, sshVars
<1>2. CASE Cancel(q)
  BY <1>2 DEF Cancel, sshVars
<1>3. CASE CancelUnowned(q) \/ AwaitTerminal(q)
  <2>1. runs'[r] = runs[r]
    BY <1>3, EndWrites DEF CancelUnowned, AwaitTerminal, Interrupt, MarkUnknown, Terminal,
       InternalStatuses, ErrorTypes, LossTypes
  <2>2. QED
    BY <1>3, <2>1 DEF CancelUnowned, AwaitTerminal, sshVars, taskVars
<1>4. CASE Start(q) \/ SshStep(q) \/ CancelBegins(q) \/ CancelQueued(q)
  BY <1>4 DEF Start, Spawn, SshStep, InputDrained, WaitReturns, TimeoutFires, KillReturns,
     Killed, CancelBegins, CancelKills, CancelQueued, sshVars, taskVars
<1>5. CASE ProcessStep(q)
  BY <1>5 DEF ProcessStep, ProcessExits, taskVars
<1>6. CASE StartFails(q)
  <2>1. runs'[r] = runs[r]
    BY <1>6, AttemptWrites DEF StartFails, Attempt, Succeeds, Fails, FailLocal,
       MarkUnknown, Terminal, InternalStatuses, ErrorTypes
  <2>2. QED
    BY <1>6, <2>1 DEF StartFails, sshVars
<1>7. CASE Complete(q)
  <2>1. runs'[r] = runs[r]
    BY <1>7, CallsEnd, ClassifiedType, AttemptWrites DEF Complete, Terminal, ErrorTypes
  <2>2. QED
    BY <1>7, <2>1 DEF Complete, Returns, TaskEnds
<1>8. CASE Break(q)
  <2>1. runs'[r] = runs[r]
    BY <1>8, AttemptWrites DEF Break, MarkUnknown, Terminal, InternalStatuses, ErrorTypes
  <2>2. QED
    BY <1>8, <2>1 DEF Break, InputBroken, TaskEnds
<1>9. CASE CancelEscapesTask(q) \/ CancelCompletes(q)
  <2>1. runs'[r] = runs[r]
    BY <1>9, AttemptWrites DEF CancelEscapesTask, CancelCompletes, Interrupted, Interrupt,
       Reason, Terminal, InternalStatuses, ErrorTypes, CancelTypes
  <2>2. QED
    BY <1>9, <2>1 DEF CancelEscapesTask, CancelCompletes, CancelEscapes, AbortReturns,
       Interrupted, TaskEnds
<1>10. CASE ReconcileCompletedTask(q)
  <2>1. runs'[r] = runs[r]
    BY <1>10, AttemptWrites DEF ReconcileCompletedTask, MarkUnknown, Terminal,
       InternalStatuses, ErrorTypes, LossTypes
  <2>2. QED
    BY <1>10, <2>1 DEF ReconcileCompletedTask, sshVars
<1>11. QED
  BY <1>1, <1>2, <1>3, <1>4, <1>5, <1>6, <1>7, <1>8, <1>9, <1>10
     DEF StepOf, Request, TaskStep

(* What the end of a task leaves of its Run: the record as it was, or the  *)
(* verdict s if the Run was still running and the write did not fail.      *)
Ends(q, s, e) ==
  \/ Running(q) /\ runs'[q].status = s /\ runs'[q].error_type = e /\ faults' = faults
  \/ ~Running(q) /\ runs'[q] = runs[q] /\ faults' = faults
  \/ runs'[q] = runs[q] /\ faults' = faults + 1

(* The verdict each action writes.                                         *)
LEMMA ActionsEnd ==
  ASSUME StoreInv, NEW q \in Runs
  PROVE  /\ StartFails(q) => \/ Ends(q, "local_error", "LocalError")
                             \/ Ends(q, "unknown", "InternalError")
         /\ Complete(q) => Ends(q, Classified(q), "none")
         /\ Break(q) => Ends(q, "unknown", "InternalError")
         /\ Interrupted(q) => Ends(q, "interrupted", Reason(q))
         /\ ReconcileCompletedTask(q) => Ends(q, "unknown", "ExecutorOwnershipLost")
         /\ CancelUnowned(q) =>
              runs'[q].status = "interrupted" /\ runs'[q].error_type = "ExecutorOwnershipLost"
         /\ AwaitTerminal(q) =>
              runs'[q].status = "unknown" /\ runs'[q].error_type = "ExecutorOwnershipLost"
<1> USE DEF Terminal, InternalStatuses, ErrorTypes, LossTypes, CancelTypes, Ends
<1>1. StartFails(q) => Ends(q, "local_error", "LocalError") \/ Ends(q, "unknown", "InternalError")
  <2>1. ASSUME Attempt(FailLocal(q)) PROVE Ends(q, "local_error", "LocalError")
    BY <2>1, AttemptWrites DEF FailLocal
  <2>2. ASSUME Attempt(MarkUnknown(q, "InternalError"))
        PROVE  Ends(q, "unknown", "InternalError")
    BY <2>2, AttemptWrites DEF MarkUnknown
  <2>3. StartFails(q) => Attempt(FailLocal(q)) \/ Attempt(MarkUnknown(q, "InternalError"))
    BY DEF StartFails, Attempt, Succeeds
  <2>4. QED
    BY <2>1, <2>2, <2>3
<1>2. Complete(q) => Ends(q, Classified(q), "none")
  BY CallsEnd, ClassifiedType, AttemptWrites DEF Complete
<1>3. Break(q) => Ends(q, "unknown", "InternalError")
  BY AttemptWrites DEF Break, MarkUnknown
<1>4. Interrupted(q) => Ends(q, "interrupted", Reason(q))
  BY AttemptWrites DEF Interrupted, Interrupt, Reason
<1>5. ReconcileCompletedTask(q) => Ends(q, "unknown", "ExecutorOwnershipLost")
  BY AttemptWrites DEF ReconcileCompletedTask, MarkUnknown
<1>6. CancelUnowned(q) =>
        runs'[q].status = "interrupted" /\ runs'[q].error_type = "ExecutorOwnershipLost"
  BY EndWrites DEF CancelUnowned, Interrupt
<1>7. AwaitTerminal(q) =>
        runs'[q].status = "unknown" /\ runs'[q].error_type = "ExecutorOwnershipLost"
  BY EndWrites DEF AwaitTerminal, MarkUnknown
<1>8. QED
  BY <1>1, <1>2, <1>3, <1>4, <1>5, <1>6, <1>7

(* Starting and settling the Runs of the store as a whole: each Run stays  *)
(* as it is or is interrupted with the reason of a restart.                *)
LEMMA StartsReconcile ==
  ASSUME StoreInv, StartService \/ StartBreaks \/ SecondServiceStarts, NEW r \in Runs
  PROVE  \/ runs'[r] = runs[r]
         \/ /\ Running(r)
            /\ runs'[r].status = "interrupted"
            /\ runs'[r].error_type \in {"ExecutorRestart", "ServerRestart"}
<1>1. PICK reached \in SUBSET Runs : ReconcileIncomplete({"async"}, reached)
  BY DEF StartService, StartBreaks, SecondServiceStarts
<1>2. ASSUME NEW e \in ErrorTypes
      PROVE  /\ Ended(runs[r], "interrupted", e).status = "interrupted"
             /\ Ended(runs[r], "interrupted", e).error_type = e
  BY EndedType, EndedDoubt DEF StoreInv, RunsTypeOK, Terminal, InternalStatuses
<1>3. QED
  BY <1>1, <1>2 DEF ReconcileIncomplete, ErrorTypes

-----------------------------------------------------------------------------
(* The evidence of a Run survives the steps of the Run itself ...          *)
LEMMA EvidenceOwnStep ==
  ASSUME StoreInv, ControlTypeOK, TasksHaveRecords, NEW r \in Runs, Evidence(r), StepOf(r)
  PROVE  Evidence(r)'
<1> USE DEF Evidence, Exited, ExitCodes, ControlTypeOK, ExecutionTypeOK, HandlerTypeOK,
            Phases, ProcStates, TaskStates
<1>0. TasksHaveRecords /\ r \in Runs => (runs[r].status = "absent" => task[r] = "none")
  BY DEF TasksHaveRecords
<1>1. ASSUME NEW kind \in Submissions, Submit(r, kind[1], kind[2]) PROVE Evidence(r)'
  <2>1. runs[r].status = "absent" /\ runs'[r].status = "running"
        /\ runs'[r].error_type = "none"
    BY <1>1 DEF Submit, Create, NoRun, StoreInv, RunsTypeOK
  <2>2. QED
    BY <1>0, <1>1, <2>1 DEF Submit, sshVars, CancelTypes
<1>2. CASE Cancel(r)
  BY <1>2 DEF Cancel, sshVars
<1>3. CASE CancelUnowned(r) \/ AwaitTerminal(r)
  BY <1>3, ActionsEnd DEF CancelUnowned, AwaitTerminal, sshVars, taskVars, Running
<1>4. CASE Start(r)
  BY <1>4 DEF Start, Spawn
<1>5. CASE SshStep(r)
  BY <1>5 DEF SshStep, TaskRuns, InputDrained, WaitReturns, TimeoutFires, KillReturns,
     Killed, taskVars
<1>6. CASE CancelBegins(r)
  BY <1>6 DEF CancelBegins, CancelKills, Killed
<1>7. CASE CancelQueued(r)
  BY <1>7, <1>0 DEF CancelQueued, sshVars
<1>8. CASE ProcessStep(r)
  BY <1>8 DEF ProcessStep, ProcessExits, taskVars
<1>9. CASE StartFails(r)
  BY <1>9, <1>0, ActionsEnd DEF StartFails, sshVars, Ends, Running
<1>10. CASE Complete(r)
  <2>1. /\ task[r] = "active" /\ Exited(r)
        /\ task'[r] = "done" /\ phase'[r] = "idle"
        /\ proc'[r] = proc[r] /\ timedOut'[r] = timedOut[r]
    BY <1>10 DEF Complete, Returns, TaskRuns, TaskEnds
  <2>2. /\ timedOut[r] => Classified(r) = "timeout"
        /\ ~timedOut[r] /\ proc[r] = "zero" => Classified(r) = "succeeded"
        /\ ~timedOut[r] /\ proc[r] = "transport" => Classified(r) = "transport_error"
        /\ ~timedOut[r] /\ proc[r] \in {"nonzero", "signal"} => Classified(r) = "remote_error"
    BY DEF Classified
  <2>3. Ends(r, Classified(r), "none")
    BY <1>10, ActionsEnd
  <2>4. QED
    BY <1>0, <2>1, <2>2, <2>3 DEF Ends, Running
<1>11. CASE Break(r)
  BY <1>11, <1>0, ActionsEnd DEF Break, InputBroken, TaskRuns, TaskEnds, Ends, Running
<1>12. CASE CancelEscapesTask(r) \/ CancelCompletes(r)
  BY <1>12, <1>0, ActionsEnd DEF CancelEscapesTask, CancelCompletes, CancelEscapes, AbortReturns,
     TaskRuns, Interrupted, TaskEnds, Ends, Running
<1>13. CASE ReconcileCompletedTask(r)
  BY <1>13, <1>0, ActionsEnd DEF ReconcileCompletedTask, sshVars, Ends, Running
<1>14. QED
  BY <1>1, <1>2, <1>3, <1>4, <1>5, <1>6, <1>7, <1>8, <1>9, <1>10, <1>11, <1>12, <1>13
     DEF StepOf, Request, TaskStep

(* ... those of the service as a whole, and, with them, every step.        *)
LEMMA EvidenceStep ==
  ASSUME StoreInv, ControlTypeOK, TasksHaveRecords, EvidenceInv, [Next]_vars
  PROVE  EvidenceInv'
<1> SUFFICES ASSUME NEW r \in Runs PROVE Evidence(r)'
  BY DEF EvidenceInv
<1>0. Evidence(r)
  BY DEF EvidenceInv
<1>1. ASSUME NEW q \in Runs, StepOf(q) PROVE Evidence(r)'
  <2>1. CASE q = r
    BY <1>0, <1>1, <2>1, EvidenceOwnStep
  <2>2. CASE q # r
    BY <1>0, <1>1, <2>2, StepIsLocal DEF Same, Evidence, Exited
  <2>3. QED
    BY <2>1, <2>2
<1>2. CASE StopBegins \/ StopEnds \/ UNCHANGED vars
  BY <1>0, <1>2 DEF StopBegins, StopEnds, vars, sshVars, taskVars, Evidence, Exited
<1>3. CASE Crash
  BY <1>0, <1>3 DEF Crash, Evidence, Exited, ExitCodes, ControlTypeOK, ExecutionTypeOK
<1>4. CASE StartService \/ StartBreaks \/ SecondServiceStarts
  BY <1>0, <1>4, StartsReconcile DEF StartService, StartBreaks, SecondServiceStarts, sshVars,
     taskVars, Evidence, Exited, CancelTypes, Running
<1>5. QED
  BY <1>1, <1>2, <1>3, <1>4 DEF Next, StepOf

(* The doubt of the store is kept by the executor too.                     *)
LEMMA DoubtAlwaysKept == Spec => []DoubtIsKept
<1>1. Init => DoubtIsKept
  BY DEF Init, StoreInit, NoRun, DoubtIsKept
<1>2. ASSUME IInv, DoubtIsKept, [Next]_vars PROVE DoubtIsKept'
  BY <1>2, StoreStep, StoreKeepsDoubt DEF IInv
<1>3. QED
  BY <1>1, <1>2, ExecutorInvariant, PTL DEF Spec

(* Every Run's record, task, call and process agree, always.               *)
THEOREM EvidenceInvariant == Spec => []EvidenceInv
<1>1. Init => EvidenceInv
  BY DEF Init, StoreInit, ExecutionInit, NoRun, EvidenceInv, Evidence, CancelTypes
<1>2. ASSUME IInv, EvidenceInv, [Next]_vars PROVE EvidenceInv'
  BY <1>2, EvidenceStep DEF IInv
<1>3. QED
  BY <1>1, <1>2, ExecutorInvariant, PTL DEF Spec

(* A verdict says no more than the ssh process showed, and a mutating Run  *)
(* whose effect is not known is marked ambiguous, but for an ssh killed by *)
(* something else (runs.py:601-670, execution.py:156-163).                 *)
THEOREM VerdictsAreEvidence == Spec => []VerdictIsEvidence
<1>1. EvidenceInv /\ DoubtIsKept => VerdictIsEvidence
  BY DEF EvidenceInv, Evidence, DoubtIsKept, VerdictIsEvidence, Settled, Terminal,
     ExecutionStatuses, InternalStatuses, AmbiguousStatuses
<1>2. QED
  BY <1>1, EvidenceInvariant, DoubtAlwaysKept, PTL
-----------------------------------------------------------------------------
(* When stdin fits, only an execution that is being waited for is alive:   *)
(* every other await of run_ssh comes after its end or its kill.           *)
AliveIsWaited ==
  \A r \in Runs : /\ phase[r] # "feeding"
                  /\ proc[r] = "alive" => phase[r] = "waiting"

LEMMA AliveIsWaitedStep ==
  ASSUME ~InputBlocks, ControlTypeOK, EvidenceInv, AliveIsWaited, [Next]_vars
  PROVE  AliveIsWaited'
<1> USE DEF AliveIsWaited, ControlTypeOK, ExecutionTypeOK, Phases, ProcStates, ExitCodes, Exited
<1>1. ASSUME NEW q \in Runs, Start(q) PROVE AliveIsWaited'
  BY <1>1 DEF Start, Spawn
<1>2. ASSUME NEW q \in Runs, SshStep(q) PROVE AliveIsWaited'
  BY <1>2 DEF SshStep, InputDrained, WaitReturns, TimeoutFires, KillReturns, Killed
<1>3. ASSUME NEW q \in Runs, CancelBegins(q) \/ CancelEscapesTask(q) \/ CancelCompletes(q)
      PROVE  AliveIsWaited'
  BY <1>3 DEF CancelBegins, CancelKills, Killed, CancelEscapesTask, CancelEscapes,
     CancelCompletes, AbortReturns
<1>4. ASSUME NEW q \in Runs, Complete(q) \/ Break(q) PROVE AliveIsWaited'
  BY <1>4 DEF Complete, Returns, Break, InputBroken
<1>5. ASSUME NEW q \in Runs, ProcessStep(q) PROVE AliveIsWaited'
  BY <1>5 DEF ProcessStep, ProcessExits
<1>6. CASE Crash
  BY <1>6 DEF Crash
<1>7. ASSUME NEW q \in Runs, StartFails(q) \/ CancelQueued(q) \/ Request(q)
                             \/ ReconcileCompletedTask(q)
      PROVE  AliveIsWaited'
  BY <1>7 DEF StartFails, CancelQueued, Request, Submit, Cancel, CancelUnowned,
     AwaitTerminal, ReconcileCompletedTask, sshVars
<1>8. CASE StopBegins \/ StopEnds \/ StartService \/ StartBreaks \/ SecondServiceStarts
           \/ UNCHANGED vars
  BY <1>8 DEF StopBegins, StopEnds, StartService, StartBreaks, SecondServiceStarts, vars,
     sshVars
<1>9. QED
  BY <1>1, <1>2, <1>3, <1>4, <1>5, <1>6, <1>7, <1>8 DEF Next, TaskStep

(* The same as an invariant of the specification.                          *)
LEMMA AliveAlwaysWaited ==
  ASSUME ~InputBlocks
  PROVE  Spec => []AliveIsWaited
<1>1. Init => AliveIsWaited
  BY DEF Init, ExecutionInit, AliveIsWaited
<1>2. ASSUME IInv, EvidenceInv, AliveIsWaited, [Next]_vars PROVE AliveIsWaited'
  BY <1>2, AliveIsWaitedStep DEF IInv
<1>3. QED
  BY <1>1, <1>2, ExecutorInvariant, EvidenceInvariant, PTL DEF Spec

(* The executor never has more heavy ssh processes running unkilled than   *)
(* the target allows, if their stdin fits: each has a slot of its own      *)
(* (docs/configuration.md:142).                                            *)
THEOREM HeavyWorkIsBounded ==
  ASSUME ~InputBlocks
  PROVE  Spec => []HeavyBound
<1>1. ASSUME IInv, EvidenceInv, AliveIsWaited PROVE HeavyBound
  <2> DEFINE Heavy == {r \in Runs : runs[r].execution_class = "heavy" /\ proc[r] = "alive"}
             slot == [r \in Heavy |-> CHOOSE s \in Slots : holder[s] = r]
  <2>1. \A r \in Heavy : HoldsSlot(r)
    BY <1>1 DEF IInv, SlotsMatchTasks, EvidenceInv, Evidence, AliveIsWaited
  <2>2. \A r \in Heavy : slot[r] \in Slots /\ holder[slot[r]] = r
    BY <2>1 DEF HoldsSlot
  <2>3. slot \in [Heavy -> Slots]
    BY <2>2
  <2> HIDE DEF slot
  <2>4. slot \in Injection(Heavy, Slots)
    BY <2>2, <2>3 DEF Injection, IsInjective
  <2>5. IsFiniteSet(Slots) /\ Cardinality(Slots) = MaxHeavy
    <3>1. MaxHeavy \in Nat
      BY HeavyAssumption
    <3>2. /\ IsFiniteSet(0 .. (MaxHeavy - 1))
          /\ Cardinality(0 .. (MaxHeavy - 1)) =
               IF 0 > MaxHeavy - 1 THEN 0 ELSE (MaxHeavy - 1) - 0 + 1
      BY <3>1, FS_Interval
    <3>3. QED
      BY <3>1, <3>2 DEF Slots
  <2>6. Cardinality(Heavy) <= Cardinality(Slots)
    BY <2>4, <2>5, FS_Injection
  <2>7. QED
    BY <2>5, <2>6 DEF HeavyBound
<1>2. QED
  BY <1>1, ExecutorInvariant, EvidenceInvariant, AliveAlwaysWaited, PTL

(* A Run the executor cancelled does not go on, if its stdin fitted        *)
(* (tests/test_execution.py:132).                                          *)
THEOREM CancelledProcessesDie ==
  ASSUME ~InputBlocks
  PROVE  Spec => []CancelKillsProcess
<1>1. EvidenceInv /\ AliveIsWaited => CancelKillsProcess
  BY DEF EvidenceInv, Evidence, AliveIsWaited, CancelKillsProcess, CancelTypes
<1>2. QED
  BY <1>1, EvidenceInvariant, AliveAlwaysWaited, PTL

-----------------------------------------------------------------------------
(* A step of a Run leaves the service process as it is and undoes no fault.*)
LEMMA StepKeepsService ==
  ASSUME HandlerTypeOK, NEW q \in Runs, StepOf(q)
  PROVE  service' = service /\ (faults' = 0 => faults = 0)
<1> USE DEF HandlerTypeOK, Attempt, Succeeds, Fails
<1>1. CASE Request(q)
  BY <1>1 DEF Request, Submit, Cancel, CancelUnowned, AwaitTerminal
<1>2. CASE TaskStep(q)
  BY <1>2 DEF TaskStep, Start, StartFails, SshStep, Complete, Break, CancelBegins,
     CancelEscapesTask, CancelCompletes, CancelQueued, Interrupted
<1>3. CASE ReconcileCompletedTask(q) \/ ProcessStep(q)
  BY <1>3 DEF ReconcileCompletedTask, ProcessStep
<1>4. QED
  BY <1>1, <1>2, <1>3 DEF StepOf

(* Who owns a Run that is running: the strengthening of NoOwnerlessRun and *)
(* StopSettles, which follow from it.                                      *)
Owned(r) ==
  /\ Running(r) => runs[r].execution_mode = "async" /\ runs[r].error_type = "none"
  /\ service \in {"stopped", "crashed"} => task[r] = "none"
  /\ service \in {"up", "stopping"} /\ faults = 0 /\ Running(r) => task[r] # "none"
  /\ service = "stopped" /\ faults = 0 => ~Running(r)

OwnedInv == \A r \in Runs : Owned(r)

(* A completed start leaves no asynchronous Run running.                   *)
LEMMA StartSettles ==
  ASSUME StoreInv, StartService, NEW r \in Runs, runs[r].execution_mode = "async"
  PROVE  ~Running(r)'
<1>1. ASSUME NEW e \in ErrorTypes
      PROVE  Ended(runs[r], "interrupted", e).status = "interrupted"
  BY EndedType DEF StoreInv, RunsTypeOK, Terminal, InternalStatuses
<1>2. QED
  BY <1>1 DEF StartService, ReconcileIncomplete, Running, ErrorTypes

(* A step of a Run keeps its owner ...                                     *)
LEMMA OwnedOwnStep ==
  ASSUME StoreInv, ControlTypeOK, NEW r \in Runs, Owned(r), StepOf(r)
  PROVE  Owned(r)'
<1> USE DEF Owned, ControlTypeOK, HandlerTypeOK, TaskStates
<1>0. service' = service /\ (faults' = 0 => faults = 0)
  BY StepKeepsService
<1>1. ASSUME NEW kind \in Submissions, Submit(r, kind[1], kind[2]) PROVE Owned(r)'
  <2>1. /\ runs'[r].execution_mode = "async" /\ runs'[r].error_type = "none"
        /\ task'[r] = "queued" /\ service = "up"
    BY <1>1 DEF Submit, Create, NoRun, StoreInv, RunsTypeOK
  <2>2. QED
    BY <1>0, <2>1
<1>2. CASE Cancel(r)
  BY <1>0, <1>2 DEF Cancel, Running
<1>3. CASE CancelUnowned(r) \/ AwaitTerminal(r)
  BY <1>0, <1>3, ActionsEnd DEF CancelUnowned, AwaitTerminal, taskVars, Running
<1>4. CASE Start(r) \/ SshStep(r) \/ CancelBegins(r) \/ CancelQueued(r) \/ ProcessStep(r)
  BY <1>0, <1>4 DEF Start, SshStep, TaskRuns, CancelBegins, CancelQueued, ProcessStep, taskVars,
     Running
<1>5. CASE StartFails(r)
  BY <1>0, <1>5, ActionsEnd DEF StartFails, Ends, Running
<1>6. CASE Complete(r)
  <2>1. Classified(r) # "running"
    BY ClassifiedType DEF ExecutionStatuses
  <2>2. Ends(r, Classified(r), "none")
    BY <1>6, ActionsEnd
  <2>3. task[r] = "active" /\ task'[r] = "done"
    BY <1>6 DEF Complete, TaskRuns, TaskEnds
  <2>4. QED
    BY <1>0, <2>1, <2>2, <2>3 DEF Ends, Running
<1>7. CASE Break(r) \/ CancelEscapesTask(r) \/ CancelCompletes(r)
  <2>1. Ends(r, "unknown", "InternalError") \/ Ends(r, "interrupted", Reason(r))
    BY <1>7, ActionsEnd DEF CancelEscapesTask, CancelCompletes
  <2>2. task[r] = "active" /\ task'[r] = "done"
    BY <1>7 DEF Break, CancelEscapesTask, CancelCompletes, Interrupted, TaskRuns, TaskEnds
  <2>3. QED
    BY <1>0, <2>1, <2>2 DEF Ends, Running
<1>8. CASE ReconcileCompletedTask(r)
  <2>1. Ends(r, "unknown", "ExecutorOwnershipLost")
    BY <1>8, ActionsEnd
  <2>2. task'[r] = "none"
    BY <1>8 DEF ReconcileCompletedTask
  <2>3. faults' = 0 => faults' # faults + 1
    BY <1>0
  <2>4. QED
    BY <1>0, <2>1, <2>2, <2>3 DEF Ends, Running
<1>9. QED
  BY <1>1, <1>2, <1>3, <1>4, <1>5, <1>6, <1>7, <1>8 DEF StepOf, Request, TaskStep

(* ... and so does every other step.                                       *)
LEMMA OwnedStep ==
  ASSUME StoreInv, ControlTypeOK, OwnedInv, [Next]_vars
  PROVE  OwnedInv'
<1> SUFFICES ASSUME NEW r \in Runs PROVE Owned(r)'
  BY DEF OwnedInv
<1>0. Owned(r)
  BY DEF OwnedInv
<1>1. ASSUME NEW q \in Runs, StepOf(q) PROVE Owned(r)'
  <2>1. CASE q = r
    BY <1>0, <1>1, <2>1, OwnedOwnStep
  <2>2. CASE q # r
    BY <1>0, <1>1, <2>2, StepIsLocal, StepKeepsService DEF Same, Owned, Running, ControlTypeOK
  <2>3. QED
    BY <2>1, <2>2
<1>2. CASE StopBegins \/ StopEnds \/ Crash \/ UNCHANGED vars
  BY <1>0, <1>2 DEF StopBegins, StopEnds, Crash, vars, taskVars, Owned, Running
<1>3. CASE StartService
  BY <1>0, <1>3, StartSettles, StartsReconcile DEF StartService, taskVars, Owned, Running
<1>4. CASE StartBreaks \/ SecondServiceStarts
  BY <1>0, <1>4, StartsReconcile DEF StartBreaks, SecondServiceStarts, taskVars, Owned, Running
<1>5. QED
  BY <1>1, <1>2, <1>3, <1>4 DEF Next, StepOf

(* Every running Run has an owner unless the service is down or a store    *)
(* write failed, as an invariant of the specification.                     *)
LEMMA AlwaysOwned == Spec => []OwnedInv
<1>1. Init => OwnedInv
  BY DEF Init, StoreInit, NoRun, OwnedInv, Owned, Running
<1>2. ASSUME IInv, OwnedInv, [Next]_vars PROVE OwnedInv'
  BY <1>2, OwnedStep DEF IInv
<1>3. QED
  BY <1>1, <1>2, ExecutorInvariant, PTL DEF Spec

(* While the executor is up, a Run without a task is not running, unless a *)
(* store write failed (docs/runs-and-tasks.md:80).                         *)
THEOREM RunsHaveOwners == Spec => []NoOwnerlessRun
<1>1. OwnedInv => NoOwnerlessRun
  BY DEF OwnedInv, Owned, NoOwnerlessRun
<1>2. QED
  BY <1>1, AlwaysOwned, PTL

(* A clean stop leaves no Run for the next start to reconcile.             *)
THEOREM StopSettlesRuns == Spec => []StopSettles
<1>1. OwnedInv => StopSettles
  BY DEF OwnedInv, Owned, StopSettles
<1>2. QED
  BY <1>1, AlwaysOwned, PTL
-----------------------------------------------------------------------------
(* How a cancel request that found a live task goes on: the cancellation   *)
(* is to be delivered, or the process is being killed for it, or the task  *)
(* ended before its process started, or the Run is interrupted.            *)
CancelWins(r) ==
  faults = 0 /\ r \in asked =>
    /\ runs[r].status # "absent"
    /\ task[r] = "queued" => r \in cancelPending
    /\ task[r] = "active" => r \in cancelPending \/ phase[r] = "aborting"
    /\ task[r] = "done" /\ Running(r) => proc[r] = "none"
    /\ proc[r] # "none" => runs[r].status \in {"running", "interrupted"}

CancelInv == \A r \in Runs : CancelWins(r)

(* A step of the Run itself leaves the cancellation on its way.            *)
LEMMA CancelOwnStep ==
  ASSUME StoreInv, ControlTypeOK, TasksHaveRecords, NEW r \in Runs, Evidence(r), Owned(r),
         CancelWins(r), StepOf(r)
  PROVE  CancelWins(r)'
<1> USE DEF CancelWins, ControlTypeOK, HandlerTypeOK, TaskStates
<1>0. service' = service /\ (faults' = 0 => faults = 0 /\ faults' # faults + 1)
  BY StepKeepsService
<1>1. ASSUME NEW kind \in Submissions, Submit(r, kind[1], kind[2]) PROVE CancelWins(r)'
  BY <1>1 DEF Submit, Create, NoRun
<1>2. CASE Cancel(r)
  BY <1>2 DEF Cancel, sshVars, Running, Evidence
<1>3. CASE CancelUnowned(r)
  <2>1. runs'[r].status = "interrupted" /\ UNCHANGED <<sshVars, taskVars, asked, faults>>
    BY <1>3, ActionsEnd DEF CancelUnowned
  <2>2. QED
    BY <2>1 DEF sshVars, taskVars, Running
<1>4. CASE AwaitTerminal(r)
  <2>1. faults # 0 /\ faults' = faults
    BY <1>4 DEF AwaitTerminal, Owned
  <2>2. QED
    BY <2>1
<1>5. CASE Start(r) \/ StartFails(r) \/ SshStep(r) \/ Complete(r) \/ Break(r)
  <2>1. ~(faults' = 0 /\ r \in asked')
    BY <1>0, <1>5 DEF Start, StartFails, SshStep, Complete, Break, TaskRuns, InputDrained,
       WaitReturns, TimeoutFires, KillReturns, Returns, InputBroken
  <2>2. QED
    BY <2>1
<1>6. CASE CancelBegins(r)
  <2>1. runs' = runs /\ task'[r] = "active" /\ phase'[r] = "aborting"
        /\ runs[r].status \in {"running", "interrupted"} /\ UNCHANGED <<asked, faults>>
    BY <1>6 DEF CancelBegins, CancelKills, Evidence, ExecutionTypeOK
  <2>2. QED
    BY <2>1 DEF Running
<1>7. CASE CancelQueued(r)
  BY <1>7 DEF CancelQueued, sshVars, Evidence, Running
<1>8. CASE CancelEscapesTask(r) \/ CancelCompletes(r)
  <2>1. Ends(r, "interrupted", Reason(r))
    BY <1>8, ActionsEnd DEF CancelEscapesTask, CancelCompletes
  <2>2. /\ task[r] = "active" /\ task'[r] = "done"
        /\ runs[r].status \in {"running", "interrupted"}
    BY <1>8 DEF CancelEscapesTask, CancelCompletes, Interrupted, TaskRuns, TaskEnds, Evidence
  <2>3. QED
    BY <1>0, <2>1, <2>2 DEF Ends, Running
<1>9. CASE ReconcileCompletedTask(r)
  <2>1. Ends(r, "unknown", "ExecutorOwnershipLost")
    BY <1>9, ActionsEnd
  <2>2. task[r] = "done" /\ task'[r] = "none" /\ UNCHANGED <<sshVars, asked>>
    BY <1>9 DEF ReconcileCompletedTask
  <2>3. QED
    BY <1>0, <2>1, <2>2 DEF Ends, Running, sshVars
<1>10. CASE ProcessStep(r)
  <2>1. proc[r] # "none" /\ UNCHANGED <<runs, phase, taskVars, asked, faults>>
    BY <1>10 DEF ProcessStep, ProcessExits
  <2>2. QED
    BY <2>1 DEF taskVars, Running
<1>11. QED
  BY <1>1, <1>2, <1>3, <1>4, <1>5, <1>6, <1>7, <1>8, <1>9, <1>10 DEF StepOf, Request, TaskStep

(* So does every other step; a restart interrupts the Run itself.          *)
LEMMA CancelStep ==
  ASSUME IInv, EvidenceInv, OwnedInv, CancelInv, [Next]_vars
  PROVE  CancelInv'
<1> SUFFICES ASSUME NEW r \in Runs PROVE CancelWins(r)'
  BY DEF CancelInv
<1>0. Evidence(r) /\ Owned(r) /\ CancelWins(r) /\ StoreInv /\ ControlTypeOK
      /\ TasksHaveRecords
  BY DEF EvidenceInv, OwnedInv, CancelInv, IInv
<1>1. ASSUME NEW q \in Runs, StepOf(q) PROVE CancelWins(r)'
  <2>1. CASE q = r
    BY <1>0, <1>1, <2>1, CancelOwnStep
  <2>2. CASE q # r
    BY <1>0, <1>1, <2>2, StepIsLocal, StepKeepsService
       DEF Same, CancelWins, Running, ControlTypeOK
  <2>3. QED
    BY <2>1, <2>2
<1>2. CASE StopEnds \/ UNCHANGED vars
  BY <1>0, <1>2 DEF StopEnds, vars, sshVars, taskVars, CancelWins, Running
<1>3. CASE StopBegins
  BY <1>0, <1>3 DEF StopBegins, sshVars, CancelWins, Running
<1>4. CASE Crash
  BY <1>0, <1>4 DEF Crash, CancelWins, Running, ControlTypeOK, ExecutionTypeOK
<1>5. CASE StartService \/ StartBreaks \/ SecondServiceStarts
  BY <1>0, <1>5, StartsReconcile DEF StartService, StartBreaks, SecondServiceStarts, sshVars,
     taskVars, CancelWins, Running
<1>6. QED
  BY <1>1, <1>2, <1>3, <1>4, <1>5 DEF Next, StepOf

(* A cancel request that finds the ssh process started wins against its    *)
(* exit, its timeout, a stop and a crash: the Run ends as interrupted      *)
(* (executor.py:361-381).                                                  *)
THEOREM CancelsInterrupt == Spec => []ActiveCancelInterrupts
<1>1. Init => CancelInv
  BY DEF Init, CancelInv, CancelWins
<1>2. IInv /\ EvidenceInv /\ OwnedInv /\ CancelInv /\ [Next]_vars => CancelInv'
  BY CancelStep
<1>3. ASSUME ControlTypeOK, CancelInv PROVE ActiveCancelInterrupts
  BY <1>3 DEF CancelInv, CancelWins, ActiveCancelInterrupts, Settled, Terminal,
     ExecutionStatuses, InternalStatuses, ControlTypeOK, HandlerTypeOK
<1>4. QED
  BY <1>1, <1>2, <1>3, ExecutorInvariant, EvidenceInvariant, AlwaysOwned, PTL DEF Spec, IInv
-----------------------------------------------------------------------------
(* The store of those who submit, cancel and await Runs is this store.     *)
LEMMA SameEnding ==
  ASSUME NEW record, NEW s, NEW e
  PROVE  Callers!Ended(record, s, e) = Ended(record, s, e)
BY Zenon DEF Callers!Ended, Ended, AmbiguousStatuses, Callers!AmbiguousStatuses

LEMMA SameTable ==
  /\ \A r : Callers!Running(r) <=> Running(r)
  /\ \A modes, reached : Callers!ReconcileIncomplete(modes, reached) <=>
                           ReconcileIncomplete(modes, reached)
  /\ Callers!StoreInit <=> StoreInit
<1>1. Callers!NoRun = NoRun
  BY Zenon DEF Callers!NoRun, NoRun
<1>2. ASSUME NEW modes, NEW reached
      PROVE  Callers!ReconcileIncomplete(modes, reached) <=> ReconcileIncomplete(modes, reached)
  BY SameEnding, Zenon DEF Callers!ReconcileIncomplete, ReconcileIncomplete,
     Callers!Running, Running
<1>3. Callers!StoreInit <=> StoreInit
  BY <1>1, Zenon DEF Callers!StoreInit, StoreInit
<1>4. QED
  BY <1>2, <1>3, Zenon DEF Callers!Running, Running

LEMMA SameStore ==
  ASSUME NEW r \in Runs
  PROVE  /\ \A s, e : Callers!FinishWithoutExecution(r, s, e) <=>
                        FinishWithoutExecution(r, s, e)
         /\ \A mode, class, m : Callers!Create(r, mode, class, m) <=>
                                  Create(r, mode, class, m)
<1>1. ASSUME NEW s, NEW e
      PROVE  Callers!FinishWithoutExecution(r, s, e) <=> FinishWithoutExecution(r, s, e)
  BY SameTable, SameEnding, Zenon DEF Callers!FinishWithoutExecution, FinishWithoutExecution
<1>2. Callers!NoRun = NoRun
  BY Zenon DEF Callers!NoRun, NoRun
<1>3. ASSUME NEW mode, NEW class, NEW m
      PROVE  Callers!Create(r, mode, class, m) <=> Create(r, mode, class, m)
  BY <1>2, Zenon DEF Callers!Create, Create
<1>4. QED
  BY <1>1, <1>3, Zenon

LEMMA SameCount ==
  ASSUME NEW S
  PROVE  Callers!Cardinality(S) = Cardinality(S)
BY Zenon DEF Callers!Cardinality, Cardinality

(* The verdicts a task, its callback or a handler writes are the callers'. *)
LEMMA SameVerdicts ==
  ASSUME NEW r \in Runs
  PROVE  /\ \A s \in ExecutionStatuses : Finish(r, s) => Callers!Finish(r, s)
         /\ FailLocal(r) => Callers!FailLocal(r)
         /\ \A e : Interrupt(r, e) => Callers!Interrupt(r, e)
         /\ \A e : MarkUnknown(r, e) => Callers!MarkUnknown(r, e)
<1>1. ASSUME NEW s \in ExecutionStatuses, Finish(r, s) PROVE Callers!Finish(r, s)
  <2>1. s \in Callers!ExecutionStatuses
    BY Zenon DEF ExecutionStatuses, Callers!ExecutionStatuses
  <2>2. QED
    BY <1>1, <2>1, SameEnding, Zenon DEF Finish, Callers!Finish, Running, Callers!Running
<1>2. QED
  BY <1>1, SameStore, Zenon DEF FailLocal, Callers!FailLocal, Interrupt, Callers!Interrupt,
     MarkUnknown, Callers!MarkUnknown

(* The strengthening the mapping needs: whom a cancellation is for.        *)
CancelView(r) ==
  /\ r \in reasons => r \in asked
  /\ r \in asked => runs[r].status # "absent"
  /\ r \in cancelPending => task[r] \in {"queued", "active"}
  /\ (r \in cancelPending \/ phase[r] = "aborting") /\ r \notin reasons
       => service = "stopping"

CancelViewInv == \A r \in Runs : CancelView(r)

(* A step that keeps the service, the cancel requests, the slots and who   *)
(* has a task is no step of the callers' view.                             *)
LEMMA ViewKept ==
  ASSUME UNCHANGED <<service, asked, holder>>,
         \A r \in Runs : task'[r] = "none" <=> task[r] = "none"
  PROVE  UNCHANGED <<Process, Owners, Cancelled, SlotHolders>>
BY DEF Process, Owners, Cancelled, SlotHolders, HoldsSlot

(* The write that ends a task settles its Run, or is lost.                 *)
LEMMA AttemptSettles ==
  ASSUME NEW r \in Owners,
         UNCHANGED <<Process, Owners, Cancelled, SlotHolders>>,
         \/ Attempt(FailLocal(r))
         \/ Attempt(MarkUnknown(r, "InternalError"))
         \/ \E s \in ExecutionStatuses : Attempt(Finish(r, s))
         \/ r \in Cancelled /\ Attempt(Interrupt(r, "ExplicitCancellation"))
         \/ Process = "stopping" /\ Attempt(Interrupt(r, "ExecutorShutdown"))
         \/ Process = "up" /\ Attempt(Interrupt(r, "ExecutorOwnershipLost"))
  PROVE  Callers!Settles(r) \/ Callers!VerdictLost(r)
<1>0. r \in Runs
  BY DEF Owners
<1>1. CASE Fails
  BY <1>1, Zenon DEF Fails, Callers!Fails, Callers!VerdictLost
<1>2. CASE ~Fails
  <2>1. /\ UNCHANGED faults
        /\ \/ FailLocal(r)
           \/ MarkUnknown(r, "InternalError")
           \/ \E s \in ExecutionStatuses : Finish(r, s)
           \/ r \in Cancelled /\ Interrupt(r, "ExplicitCancellation")
           \/ Process = "stopping" /\ Interrupt(r, "ExecutorShutdown")
           \/ Process = "up" /\ Interrupt(r, "ExecutorOwnershipLost")
    BY <1>2, Zenon DEF Attempt, Succeeds
  <2>2. \/ Callers!FailLocal(r)
        \/ Callers!MarkUnknown(r, "InternalError")
        \/ \E s \in ExecutionStatuses : Callers!Finish(r, s)
        \/ r \in Cancelled /\ Callers!Interrupt(r, "ExplicitCancellation")
        \/ Process = "stopping" /\ Callers!Interrupt(r, "ExecutorShutdown")
        \/ Process = "up" /\ Callers!Interrupt(r, "ExecutorOwnershipLost")
    BY <1>0, <2>1, SameVerdicts, Zenon
  <2>3. QED
    BY <2>1, <2>2, Zenon DEF Callers!Settles
<1>3. QED
  BY <1>1, <1>2

(* A step of the Run itself keeps that.                                    *)
LEMMA CancelViewOwnStep ==
  ASSUME StoreInv, ControlTypeOK, TasksHaveRecords, NEW r \in Runs, Evidence(r),
         CancelView(r), StepOf(r), runs[r].status # "absent" => runs'[r].status # "absent"
  PROVE  CancelView(r)'
<1> USE DEF CancelView, ControlTypeOK, HandlerTypeOK, TaskStates
<1>0. service' = service
  BY StepKeepsService
<1>1. ASSUME NEW kind \in Submissions, Submit(r, kind[1], kind[2]) PROVE CancelView(r)'
  <2>1. task[r] = "none" /\ runs'[r].status = "running"
    BY <1>1 DEF Submit, Create, NoRun, StoreInv, RunsTypeOK, TasksHaveRecords
  <2>2. QED
    BY <1>0, <1>1, <2>1 DEF Submit, sshVars, Evidence
<1>2. CASE Cancel(r)
  BY <1>0, <1>2 DEF Cancel, sshVars, Running
<1>3. CASE CancelUnowned(r) \/ AwaitTerminal(r) \/ ProcessStep(r)
  BY <1>0, <1>3 DEF CancelUnowned, AwaitTerminal, ProcessStep, ProcessExits, sshVars, taskVars
<1>4. CASE Start(r) \/ StartFails(r)
  BY <1>0, <1>4 DEF Start, Spawn, StartFails, sshVars, ExecutionTypeOK, Evidence
<1>5. CASE SshStep(r)
  BY <1>0, <1>5 DEF SshStep, InputDrained, WaitReturns, TimeoutFires, KillReturns, taskVars,
     ExecutionTypeOK
<1>6. CASE Complete(r) \/ Break(r)
  BY <1>0, <1>6 DEF Complete, Break, Returns, InputBroken, TaskRuns, TaskEnds, ExecutionTypeOK
<1>7. CASE CancelBegins(r)
  BY <1>0, <1>7 DEF CancelBegins, CancelKills, ExecutionTypeOK
<1>8. CASE CancelQueued(r)
  BY <1>0, <1>8 DEF CancelQueued, sshVars, Evidence
<1>9. CASE CancelEscapesTask(r) \/ CancelCompletes(r)
  BY <1>0, <1>9 DEF CancelEscapesTask, CancelCompletes, CancelEscapes, AbortReturns,
     Interrupted, TaskRuns, TaskEnds, ExecutionTypeOK
<1>10. CASE ReconcileCompletedTask(r)
  BY <1>0, <1>10 DEF ReconcileCompletedTask, sshVars, Evidence
<1>11. QED
  BY <1>1, <1>2, <1>3, <1>4, <1>5, <1>6, <1>7, <1>8, <1>9, <1>10
     DEF StepOf, Request, TaskStep

(* A step of one Run leaves the pending reasons of the others alone.       *)
LEMMA ReasonsAreLocal ==
  ASSUME NEW q \in Runs, StepOf(q), NEW r \in Runs, r # q
  PROVE  r \in reasons' <=> r \in reasons
<1>1. CASE Request(q)
  BY <1>1 DEF Request, Submit, Cancel, CancelUnowned, AwaitTerminal, taskVars
<1>2. CASE TaskStep(q)
  BY <1>2 DEF TaskStep, Start, StartFails, SshStep, Complete, Break, CancelBegins,
     CancelEscapesTask, CancelCompletes, CancelQueued, Interrupted, taskVars
<1>3. CASE ReconcileCompletedTask(q) \/ ProcessStep(q)
  BY <1>3 DEF ReconcileCompletedTask, ProcessStep, taskVars
<1>4. QED
  BY <1>1, <1>2, <1>3 DEF StepOf

(* So does every other step.                                               *)
LEMMA CancelViewStep ==
  ASSUME IInv, EvidenceInv, OwnedInv, CancelViewInv, [Next]_vars
  PROVE  CancelViewInv'
<1> SUFFICES ASSUME NEW r \in Runs PROVE CancelView(r)'
  BY DEF CancelViewInv
<1>0. Evidence(r) /\ Owned(r) /\ CancelView(r) /\ StoreInv /\ ControlTypeOK
      /\ TasksHaveRecords
  BY DEF EvidenceInv, OwnedInv, CancelViewInv, IInv
<1>1. runs[r].status # "absent" => runs'[r].status # "absent"
  BY <1>0, StoreStep, RecordsStay
<1>2. ASSUME NEW q \in Runs, StepOf(q) PROVE CancelView(r)'
  <2>1. CASE q = r
    BY <1>0, <1>1, <1>2, <2>1, CancelViewOwnStep
  <2>2. CASE q # r
    <3>1. Same(r) /\ service' = service /\ (r \in reasons' <=> r \in reasons)
      BY <1>0, <1>2, <2>2, StepIsLocal, StepKeepsService, ReasonsAreLocal DEF ControlTypeOK
    <3>2. QED
      BY <1>0, <3>1 DEF Same, CancelView
  <2>3. QED
    BY <2>1, <2>2
<1>3. CASE StopEnds \/ UNCHANGED vars
  BY <1>0, <1>3, <1>1 DEF StopEnds, vars, sshVars, taskVars, CancelView, Evidence
<1>4. CASE StopBegins
  BY <1>0, <1>4 DEF StopBegins, sshVars, CancelView
<1>5. CASE Crash
  BY <1>0, <1>5 DEF Crash, CancelView
<1>6. CASE StartService \/ StartBreaks \/ SecondServiceStarts
  BY <1>0, <1>1, <1>6 DEF StartService, StartBreaks, SecondServiceStarts, sshVars, taskVars,
     CancelView
<1>7. QED
  BY <1>2, <1>3, <1>4, <1>5, <1>6 DEF Next, StepOf

(* The strengthening as an invariant of the specification.                 *)
LEMMA CancelAlwaysViewed == Spec => []CancelViewInv
<1>1. Init => CancelViewInv
  BY DEF Init, ExecutionInit, CancelViewInv, CancelView
<1>2. IInv /\ EvidenceInv /\ OwnedInv /\ CancelViewInv /\ [Next]_vars => CancelViewInv'
  BY CancelViewStep
<1>3. QED
  BY <1>1, <1>2, ExecutorInvariant, EvidenceInvariant, AlwaysOwned, PTL DEF Spec

(* While a slot is free, the heavy Runs that hold one are fewer than the   *)
(* target allows.                                                          *)
LEMMA FreeSlotCounts ==
  ASSUME NEW free \in Slots, holder[free] = Free
  PROVE  Callers!SlotFree
<1> DEFINE Others == Slots \ {free}
           slot == [r \in SlotHolders |-> CHOOSE s \in Others : holder[s] = r]
<1>1. \A r \in SlotHolders : slot[r] \in Others /\ holder[slot[r]] = r
  <2>1. \A r \in SlotHolders : \E s \in Others : holder[s] = r
    BY FreeAssumption DEF SlotHolders, HoldsSlot
  <2>2. QED
    BY <2>1
<1>2. slot \in [SlotHolders -> Others]
  BY <1>1
<1> HIDE DEF slot
<1>3. slot \in Injection(SlotHolders, Others)
  BY <1>1, <1>2 DEF Injection, IsInjective
<1>4. IsFiniteSet(Slots) /\ Cardinality(Slots) = MaxHeavy
  <2>1. MaxHeavy \in Nat
    BY HeavyAssumption
  <2>2. /\ IsFiniteSet(0 .. (MaxHeavy - 1))
        /\ Cardinality(0 .. (MaxHeavy - 1)) =
             IF 0 > MaxHeavy - 1 THEN 0 ELSE (MaxHeavy - 1) - 0 + 1
    BY <2>1, FS_Interval
  <2>3. QED
    BY <2>1, <2>2 DEF Slots
<1>5. IsFiniteSet(Others) /\ Cardinality(Others) = MaxHeavy - 1
  BY <1>4, FS_RemoveElement
<1> HIDE DEF Others
<1>6. Cardinality(SlotHolders) <= Cardinality(Others) /\ Cardinality(SlotHolders) \in Nat
  BY <1>3, <1>5, FS_Injection, FS_CardinalityType
<1>7. QED
  BY <1>5, <1>6, HeavyAssumption, SameCount DEF Callers!SlotFree

(* An acceptance is one for the callers.                                   *)
LEMMA SubmitMaps ==
  ASSUME IInv, CancelViewInv, NEW r \in Runs, NEW kind \in Submissions,
         Submit(r, kind[1], kind[2])
  PROVE  Callers!ExecutorNext
<1>0. /\ kind[1] \in Callers!Classes /\ kind[2] \in BOOLEAN
      /\ holder \in [Slots -> Runs \cup {Free}] /\ task \in [Runs -> TaskStates]
      /\ Free \notin Runs
  BY SubmissionsAssumption, FreeAssumption
     DEF Classes, Callers!Classes, IInv, ControlTypeOK, HandlerTypeOK
<1>1. Callers!Create(r, "async", kind[1], kind[2])
  BY SameStore, Zenon DEF Submit
<1>2. /\ Process = "up" /\ Process' = "up"
      /\ r \notin asked
      /\ asked' = asked /\ UNCHANGED faults
      /\ task' = [task EXCEPT ![r] = "queued"]
  <2>1. runs[r].status = "absent"
    BY DEF Submit, Create, NoRun
  <2>2. QED
    BY <2>1 DEF Submit, Process, CancelViewInv, CancelView
<1>3. Owners' = Owners \cup {r} /\ Cancelled' = Cancelled
  BY <1>0, <1>2 DEF Owners, Cancelled
<1>4. IF kind[1] = "heavy" THEN Callers!SlotFree /\ SlotHolders' = SlotHolders \cup {r}
                           ELSE UNCHANGED SlotHolders
  <2>1. CASE kind[1] = "heavy"
    <3>1. PICK s \in Slots : holder[s] = Free /\ holder' = [holder EXCEPT ![s] = r]
      BY <2>1 DEF Submit, AcquireSlot
    <3>2. Callers!SlotFree
      BY <3>1, FreeSlotCounts
    <3>3. SlotHolders' = SlotHolders \cup {r}
      BY <1>0, <3>1 DEF SlotHolders, HoldsSlot
    <3>4. QED
      BY <2>1, <3>2, <3>3
  <2>2. CASE kind[1] # "heavy"
    BY <2>2 DEF Submit, SlotHolders, HoldsSlot
  <2>3. QED
    BY <2>1, <2>2
<1>5. Callers!Accepts(r, kind[1], kind[2])
  BY <1>1, <1>2, <1>3, <1>4, Zenon DEF Callers!Accepts
<1>6. QED
  BY <1>0, <1>5, Zenon DEF Callers!ExecutorNext

(* The steps of a task settle its Run, lose its verdict, or do not show.   *)
LEMMA TaskStepViewed ==
  ASSUME IInv, EvidenceInv, CancelViewInv, NEW r \in Runs, TaskStep(r)
  PROVE  [Callers!ExecutorNext]_Callers!executorVars
<1> USE DEF IInv, ControlTypeOK, HandlerTypeOK
<1>1. /\ UNCHANGED <<service, asked, holder>> /\ r \in Owners
      /\ \A q \in Runs : task'[q] = "none" <=> task[q] = "none"
  BY DEF TaskStep, Start, StartFails, SshStep, Complete, Break, CancelBegins,
     CancelEscapesTask, CancelCompletes, CancelQueued, Interrupted, TaskEnds, TaskRuns,
     taskVars, Owners
<1>2. UNCHANGED <<Process, Owners, Cancelled, SlotHolders>>
  BY <1>1, ViewKept
<1>3. CASE Start(r) \/ SshStep(r) \/ CancelBegins(r) \/ CancelQueued(r)
  <2>1. UNCHANGED <<runs, faults>>
    BY <1>3 DEF Start, SshStep, CancelBegins, CancelQueued
  <2>2. QED
    BY <1>2, <2>1, Zenon DEF Callers!executorVars
<1>4. ASSUME \/ Attempt(FailLocal(r))
             \/ Attempt(MarkUnknown(r, "InternalError"))
             \/ \E s \in ExecutionStatuses : Attempt(Finish(r, s))
             \/ r \in Cancelled /\ Attempt(Interrupt(r, "ExplicitCancellation"))
             \/ Process = "stopping" /\ Attempt(Interrupt(r, "ExecutorShutdown"))
      PROVE  Callers!ExecutorNext
  <2>1. Callers!Settles(r) \/ Callers!VerdictLost(r)
    BY <1>1, <1>2, <1>4, AttemptSettles, Zenon
  <2>2. QED
    BY <2>1, Zenon DEF Callers!ExecutorNext
<1>5. CASE StartFails(r) \/ Complete(r) \/ Break(r)
  <2>1. \/ Attempt(FailLocal(r)) \/ Attempt(MarkUnknown(r, "InternalError"))
        \/ \E s \in ExecutionStatuses : Attempt(Finish(r, s))
    BY <1>5, ClassifiedType, Zenon DEF StartFails, Complete, Break, Attempt, Succeeds
  <2>2. QED
    BY <1>4, <2>1, Zenon
<1>6. CASE CancelEscapesTask(r) \/ CancelCompletes(r)
  <2>1. Attempt(Interrupt(r, Reason(r)))
    BY <1>6, Zenon DEF CancelEscapesTask, CancelCompletes, Interrupted
  <2>2. task[r] = "active" /\ (r \in cancelPending \/ phase[r] = "aborting")
    BY <1>6 DEF CancelEscapesTask, CancelCompletes, AbortReturns, TaskRuns
  <2>3. \/ r \in Cancelled /\ Reason(r) = "ExplicitCancellation"
        \/ Process = "stopping" /\ Reason(r) = "ExecutorShutdown"
    BY <2>2 DEF CancelViewInv, CancelView, Reason, Process, Cancelled
  <2>4. QED
    BY <1>4, <2>1, <2>3, Zenon
<1>7. QED
  BY <1>3, <1>5, <1>6 DEF TaskStep

(* Requests about an accepted Run.                                         *)
LEMMA RequestViewed ==
  ASSUME IInv, OwnedInv, NEW r \in Runs, Cancel(r) \/ CancelUnowned(r) \/ AwaitTerminal(r)
  PROVE  Callers!ExecutorNext
<1> USE DEF IInv, ControlTypeOK, HandlerTypeOK, TaskStates
<1>1. CASE Cancel(r)
  <2>1. /\ UNCHANGED <<service, holder, task, runs, faults>>
        /\ asked' = asked \cup {r} /\ service = "up" /\ r \in Owners
    BY <1>1 DEF Cancel, Owners
  <2>2. /\ UNCHANGED <<Process, Owners, SlotHolders>> /\ Process = "up"
        /\ Cancelled' = Cancelled \cup {r}
    BY <2>1 DEF Process, Owners, SlotHolders, HoldsSlot, Cancelled
  <2>3. Callers!CancelAccepted(r)
    BY <2>1, <2>2, Zenon DEF Callers!CancelAccepted
  <2>4. QED
    BY <2>3, Zenon DEF Callers!ExecutorNext
<1>2. CASE CancelUnowned(r) \/ AwaitTerminal(r)
  <2>1. /\ UNCHANGED <<service, holder, task, asked, faults>>
        /\ service = "up" /\ Running(r) /\ Process = "up"
    BY <1>2 DEF CancelUnowned, AwaitTerminal, taskVars, Process
  <2>2. UNCHANGED <<Process, Owners, Cancelled, SlotHolders>>
    BY <2>1, ViewKept
  <2>3. \/ Interrupt(r, "ExecutorOwnershipLost")
        \/ MarkUnknown(r, "ExecutorOwnershipLost") /\ r \notin Owners
    BY <1>2 DEF CancelUnowned, AwaitTerminal, Owners
  <2>4. CASE r \in Owners
    <3>1. Attempt(Interrupt(r, "ExecutorOwnershipLost"))
      BY <2>1, <2>3, <2>4, Zenon DEF Attempt, Succeeds
    <3>2. Callers!Settles(r) \/ Callers!VerdictLost(r)
      BY <2>1, <2>2, <2>4, <3>1, AttemptSettles, Zenon
    <3>3. QED
      BY <3>2, Zenon DEF Callers!ExecutorNext
  <2>5. CASE r \notin Owners
    <3>1. Callers!Running(r) /\ runs[r].execution_mode = "async"
      BY <2>1, SameTable DEF OwnedInv, Owned
    <3>2. \/ Callers!MarkUnknown(r, "ExecutorOwnershipLost")
          \/ Callers!Interrupt(r, "ExecutorOwnershipLost")
      BY <2>3, SameVerdicts, Zenon
    <3>3. Callers!Repairs(r)
      BY <2>1, <2>2, <2>5, <3>1, <3>2, Zenon DEF Callers!Repairs
    <3>4. QED
      BY <3>3, Zenon DEF Callers!ExecutorNext
  <2>6. QED
    BY <2>4, <2>5
<1>3. QED
  BY <1>1, <1>2

(* The done callback gives Run, cancellation and slot back together.       *)
LEMMA CallbackViewed ==
  ASSUME IInv, NEW r \in Runs, ReconcileCompletedTask(r)
  PROVE  Callers!ExecutorNext
<1> USE DEF IInv, ControlTypeOK, HandlerTypeOK, TaskStates
<1>1. /\ r \in Owners /\ Owners' = Owners \ {r} /\ Cancelled' = Cancelled \ {r}
      /\ UNCHANGED Process
  BY DEF ReconcileCompletedTask, Owners, Cancelled, Process
<1>2. SlotHolders' = SlotHolders \ {r}
  BY FreeAssumption DEF ReconcileCompletedTask, ReleaseSlot, SlotHolders, HoldsSlot
<1>3. \/ Callers!MarkUnknown(r, "ExecutorOwnershipLost") /\ UNCHANGED faults
      \/ Callers!Fails
  BY SameVerdicts, Zenon DEF ReconcileCompletedTask, Attempt, Succeeds, Fails, Callers!Fails
<1>4. Callers!Released(r)
  BY <1>1, <1>2, <1>3, Zenon DEF Callers!Released
<1>5. QED
  BY <1>4, Zenon DEF Callers!ExecutorNext

(* Stops, crashes and starts.                                              *)
LEMMA ServiceViewed ==
  ASSUME IInv, StopBegins \/ StopEnds \/ Crash \/ StartService \/ StartBreaks
  PROVE  Callers!ExecutorNext
<1> USE DEF IInv, ControlTypeOK, HandlerTypeOK
<1>1. CASE StopBegins
  <2>1. UNCHANGED <<Owners, Cancelled, SlotHolders, runs, faults>> /\ Process = "up"
        /\ Process' = "stopping"
    BY <1>1 DEF StopBegins, Owners, Cancelled, SlotHolders, HoldsSlot, Process
  <2>2. Callers!Stops
    BY <2>1, Zenon DEF Callers!Stops
  <2>3. QED
    BY <2>2, Zenon DEF Callers!ExecutorNext
<1>2. CASE StopEnds
  <2>1. UNCHANGED <<Owners, Cancelled, SlotHolders, runs, faults>>
        /\ Owners = {} /\ Process = "stopping" /\ Process' = "down"
    BY <1>2 DEF StopEnds, taskVars, Owners, Cancelled, SlotHolders, HoldsSlot, Process
  <2>2. Callers!Stopped
    BY <2>1, Zenon DEF Callers!Stopped
  <2>3. QED
    BY <2>2, Zenon DEF Callers!ExecutorNext
<1>3. CASE Crash
  <2>1. Owners' = {} /\ Cancelled' = {} /\ UNCHANGED <<runs, faults>>
        /\ Process # "down" /\ Process' = "down"
    BY <1>3 DEF Crash, Owners, Cancelled, Process
  <2>2. SlotHolders' = {} /\ SlotHolders \subseteq Owners
    BY <1>3, FreeAssumption DEF Crash, SlotHolders, HoldsSlot, Owners, SlotsMatchTasks
  <2>3. SlotHolders' = SlotHolders \ (Owners \cup {})
    BY <2>2
  <2>4. Callers!Dies({})
    BY <2>1, <2>3, Zenon DEF Callers!Dies
  <2>5. QED
    BY <2>4, Zenon DEF Callers!ExecutorNext
<1>4. CASE StartService \/ StartBreaks
  <2>1. /\ UNCHANGED <<task, asked, holder, faults>> /\ Process = "down"
        /\ \/ service' = "up" /\ ReconcileIncomplete({"async"}, Runs)
           \/ /\ service' = service
              /\ \E reached \in SUBSET Runs : ReconcileIncomplete({"async"}, reached)
    BY <1>4 DEF StartService, StartBreaks, taskVars, Process
  <2>2. UNCHANGED <<Owners, Cancelled, SlotHolders>>
    BY <2>1 DEF Owners, Cancelled, SlotHolders, HoldsSlot
  <2>3. \/ Process' = "up" /\ Callers!ReconcileIncomplete({"async"}, Runs)
        \/ /\ Process' = Process
           /\ \E reached \in SUBSET Runs : Callers!ReconcileIncomplete({"async"}, reached)
    <3>1. service' = "up" => Process' = "up"
      BY DEF Process
    <3>2. service' = service => Process' = Process
      BY DEF Process
    <3>3. QED
      BY <2>1, <3>1, <3>2, SameTable, Zenon
  <2>4. Callers!Starts \/ Callers!StartFailed
    BY <2>1, <2>2, <2>3, Zenon DEF Callers!Starts, Callers!StartFailed
  <2>5. QED
    BY <2>4, Zenon DEF Callers!ExecutorNext
<1>5. QED
  BY <1>1, <1>2, <1>3, <1>4

(* Every step of the executor is one of those promised, or does not show.  *)
LEMMA ExecutorStepViewed ==
  ASSUME ~SharedStore, IInv, EvidenceInv, OwnedInv, CancelViewInv, [Next]_vars
  PROVE  [Callers!ExecutorNext]_Callers!executorVars
<1>1. ASSUME NEW r \in Runs, Request(r)
      PROVE  Callers!ExecutorNext
  BY <1>1, SubmitMaps, RequestViewed DEF Request
<1>2. ASSUME NEW r \in Runs, ProcessStep(r)
      PROVE  UNCHANGED Callers!executorVars
  <2>1. UNCHANGED <<runs, faults, service, asked, holder, task>>
    BY <1>2 DEF ProcessStep, taskVars
  <2>2. UNCHANGED <<Process, Owners, Cancelled, SlotHolders>>
    BY <2>1, ViewKept
  <2>3. QED
    BY <2>1, <2>2, Zenon DEF Callers!executorVars
<1>3. CASE UNCHANGED vars
  <2>1. UNCHANGED <<runs, faults, service, asked, holder, task>>
    BY <1>3 DEF vars, taskVars
  <2>2. UNCHANGED <<Process, Owners, Cancelled, SlotHolders>>
    BY <2>1, ViewKept
  <2>3. QED
    BY <2>1, <2>2, Zenon DEF Callers!executorVars
<1>4. ~SecondServiceStarts
  BY DEF SecondServiceStarts
<1>5. QED
  BY <1>1, <1>2, <1>3, <1>4, TaskStepViewed, CallbackViewed, ServiceViewed, Zenon DEF Next

LEMMA ExecutorInitViewed == Init => Callers!ExecutorInit
<1> SUFFICES ASSUME Init PROVE Callers!ExecutorInit
  OBVIOUS
<1>1. Callers!StoreInit /\ faults = 0
  BY SameTable, Zenon DEF Init
<1>2. Process = "down" /\ Owners = {} /\ Cancelled = {} /\ SlotHolders = {}
  BY FreeAssumption DEF Init, HolderInit, Process, Owners, Cancelled, SlotHolders, HoldsSlot
<1>3. QED
  BY <1>1, <1>2, Zenon DEF Callers!ExecutorInit

(* The executor keeps its promises to the server, unless a second service  *)
(* opens the store: a Run is accepted with its record and its slot, they   *)
(* are given up only when the Run is settled or a store write failed, and  *)
(* nothing but a restart touches a Run it does not own                     *)
(* (executor.py:142-405).                                                  *)
THEOREM ExecutorImplementsItsPromise ==
  ASSUME ~SharedStore
  PROVE  Spec => ImplementsExecutorRuns
<1>1. IInv /\ EvidenceInv /\ OwnedInv /\ CancelViewInv /\ [Next]_vars
        => [Callers!ExecutorNext]_Callers!executorVars
  BY ExecutorStepViewed
<1>2. QED
  BY <1>1, ExecutorInitViewed, ExecutorInvariant, EvidenceInvariant, AlwaysOwned,
     CancelAlwaysViewed, PTL DEF Spec, ImplementsExecutorRuns, Callers!ExecutorSpec
=============================================================================
