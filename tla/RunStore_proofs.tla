--------------------------- MODULE RunStore_proofs ---------------------------
(***************************************************************************)
(* Proofs about the Run store: type correctness, that only a settled Run   *)
(* is in doubt, and that every operation implements the abstract Run life  *)
(* cycle, for any set of Runs.                                             *)
(***************************************************************************)
EXTENDS RunStore, TLAPS

(* Doubt comes with a verdict; the inductive strengthening of RunsTypeOK   *)
(* the refinement needs: a step that settles a Run never has to withdraw   *)
(* a doubt.                                                                *)
DoubtIsSettled == \A r \in Runs : Running(r) => ~runs[r].ambiguous

StoreInv == RunsTypeOK /\ DoubtIsSettled

(* Ended yields a record of the type, with one of the terminal statuses.   *)
LEMMA EndedType ==
  ASSUME NEW record \in RunRecord, NEW s \in Terminal, NEW e \in ErrorTypes
  PROVE  /\ Ended(record, s, e) \in RunRecord
         /\ Ended(record, s, e).status = s
         /\ Ended(record, s, e).retained = record.retained
BY DEF Ended, RunRecord, Terminal

(* The initial table satisfies the invariant.                              *)
LEMMA StoreInitInv == StoreInit => StoreInv
BY DEF StoreInit, StoreInv, RunsTypeOK, DoubtIsSettled, RunRecord, NoRun, Modes,
       Classes, ErrorTypes, Running

(* Creating a Run keeps the invariant.                                     *)
LEMMA CreateInv ==
  ASSUME StoreInv, NEW r \in Runs, NEW mode \in Modes, NEW class \in Classes,
         NEW m \in BOOLEAN, Create(r, mode, class, m)
  PROVE  StoreInv'
BY DEF StoreInv, RunsTypeOK, DoubtIsSettled, Create, RunRecord, NoRun, Running,
       ErrorTypes

(* Ending a Run with any verdict keeps the invariant.                      *)
LEMMA EndInv ==
  ASSUME StoreInv, NEW r \in Runs, NEW s \in Terminal, NEW e \in ErrorTypes,
         FinishWithoutExecution(r, s, e)
  PROVE  StoreInv'
<1>1. CASE Running(r)
  <2>1. runs' = [runs EXCEPT ![r] = Ended(runs[r], s, e)]
    BY <1>1 DEF FinishWithoutExecution
  <2>2. Ended(runs[r], s, e) \in RunRecord /\ Ended(runs[r], s, e).status = s
    BY EndedType DEF StoreInv, RunsTypeOK
  <2>3. QED
    BY <2>1, <2>2 DEF StoreInv, RunsTypeOK, DoubtIsSettled, Running, Terminal,
       ExecutionStatuses, InternalStatuses
<1>2. CASE ~Running(r)
  BY <1>2 DEF FinishWithoutExecution, StoreInv, RunsTypeOK, DoubtIsSettled, Running
<1>3. QED
  BY <1>1, <1>2

(* A restart's reconciliation keeps the invariant.                         *)
LEMMA ReconcileInv ==
  ASSUME StoreInv, NEW modes \in SUBSET Modes, NEW reached \in SUBSET Runs,
         ReconcileIncomplete(modes, reached)
  PROVE  StoreInv'
<1>1. \A r \in Runs, e \in ErrorTypes :
        /\ Ended(runs[r], "interrupted", e) \in RunRecord
        /\ Ended(runs[r], "interrupted", e).status = "interrupted"
  BY EndedType DEF StoreInv, RunsTypeOK, Terminal, InternalStatuses
<1>2. QED
  BY <1>1 DEF StoreInv, RunsTypeOK, DoubtIsSettled, ReconcileIncomplete, Running,
     ErrorTypes

(* Retention keeps the invariant.                                          *)
LEMMA CleanupInv ==
  ASSUME StoreInv, NEW expired \in SUBSET Runs, Cleanup(expired)
  PROVE  StoreInv'
BY DEF StoreInv, RunsTypeOK, DoubtIsSettled, Cleanup, RunRecord, Running

(* The retention override keeps the invariant.                             *)
LEMMA SetRetainedInv ==
  ASSUME StoreInv, NEW r \in Runs, NEW b \in BOOLEAN, SetRetained(r, b)
  PROVE  StoreInv'
BY DEF StoreInv, RunsTypeOK, DoubtIsSettled, SetRetained, RunRecord, Running

(* finish is FinishWithoutExecution with a status run_ssh reported.        *)
LEMMA FinishIsEnd ==
  ASSUME NEW r \in Runs, NEW s \in ExecutionStatuses, Finish(r, s)
  PROVE  FinishWithoutExecution(r, s, "none")
BY DEF Finish, FinishWithoutExecution

(* Every step of the store creates, ends, reconciles, retains or removes.  *)
LEMMA StoreSteps ==
  ASSUME StoreNext
  PROVE  \/ \E r \in Runs, mode \in Modes, class \in Classes, m \in BOOLEAN :
              Create(r, mode, class, m)
         \/ \E r \in Runs, s \in Terminal, e \in ErrorTypes :
              FinishWithoutExecution(r, s, e)
         \/ \E modes \in SUBSET Modes, reached \in SUBSET Runs :
              ReconcileIncomplete(modes, reached)
         \/ \E r \in Runs, b \in BOOLEAN : SetRetained(r, b)
         \/ \E expired \in SUBSET Runs : Cleanup(expired)
<1>1. ASSUME NEW r \in Runs, NEW s \in ExecutionStatuses, Finish(r, s)
      PROVE  \E q \in Runs, t \in Terminal, e \in ErrorTypes :
               FinishWithoutExecution(q, t, e)
  BY <1>1, FinishIsEnd DEF Terminal, ErrorTypes
<1>2. ASSUME NEW r \in Runs, NEW e \in ErrorTypes,
             FailLocal(r) \/ Interrupt(r, e) \/ MarkUnknown(r, e)
      PROVE  \E q \in Runs, t \in Terminal, f \in ErrorTypes :
               FinishWithoutExecution(q, t, f)
  BY <1>2 DEF FailLocal, Interrupt, MarkUnknown, Terminal, InternalStatuses, ErrorTypes
<1>3. QED
  BY <1>1, <1>2 DEF StoreNext, ErrorTypes

(* Every step of the store keeps the invariant.                            *)
LEMMA StoreInvStep == StoreInv /\ [StoreNext]_runs => StoreInv'
<1>1. ASSUME StoreInv, StoreNext PROVE StoreInv'
  BY <1>1, StoreSteps, CreateInv, EndInv, ReconcileInv, CleanupInv, SetRetainedInv
<1>2. ASSUME StoreInv, UNCHANGED runs PROVE StoreInv'
  BY <1>2 DEF StoreInv, RunsTypeOK, DoubtIsSettled, Running
<1>3. QED
  BY <1>1, <1>2

(* Type correctness of the Run table, and doubt only about settled Runs.   *)
THEOREM StoreTypeCorrect == StoreSpec => []StoreInv
BY StoreInvStep, StoreInitInv, PTL DEF StoreSpec

(* In particular every record is one the schema allows (runs.py:141-206).  *)
THEOREM StoreRecordsTyped == StoreSpec => []RunsTypeOK
<1>1. StoreInv => RunsTypeOK
  BY DEF StoreInv
<1>2. QED
  BY <1>1, StoreTypeCorrect, PTL
-----------------------------------------------------------------------------
(* An ambiguous verdict on a mutating Run leaves the Run in doubt.         *)
LEMMA EndedDoubt ==
  ASSUME NEW record \in RunRecord, NEW s \in Terminal, NEW e \in ErrorTypes
  PROVE  /\ Ended(record, s, e).may_mutate = record.may_mutate
         /\ Ended(record, s, e).execution_mode = record.execution_mode
         /\ Ended(record, s, e).error_type = e
         /\ record.may_mutate /\ s \in AmbiguousStatuses => Ended(record, s, e).ambiguous
<1>1. CASE record.may_mutate /\ s \in AmbiguousStatuses
  <2>1. (record.may_mutate /\ s \in AmbiguousStatuses) = TRUE
    BY <1>1
  <2>2. Ended(record, s, e) =
          [record EXCEPT !.status = s, !.error_type = e, !.ambiguous = TRUE]
    BY <2>1 DEF Ended
  <2>3. QED
    BY <2>2 DEF RunRecord
<1>2. CASE ~(record.may_mutate /\ s \in AmbiguousStatuses)
  BY <1>2 DEF Ended, RunRecord
<1>3. QED
  BY <1>1, <1>2

(* A mutating Run with an ambiguous verdict is in doubt.                   *)
DoubtIsKept ==
  \A r \in Runs :
    runs[r].may_mutate /\ runs[r].status \in AmbiguousStatuses => runs[r].ambiguous

(* Ending a Run keeps that so ...                                          *)
LEMMA EndKeepsDoubt ==
  ASSUME StoreInv, DoubtIsKept, NEW r \in Runs, NEW s \in Terminal, NEW e \in ErrorTypes,
         FinishWithoutExecution(r, s, e)
  PROVE  DoubtIsKept'
<1>1. CASE Running(r)
  <2>1. runs' = [runs EXCEPT ![r] = Ended(runs[r], s, e)]
    BY <1>1 DEF FinishWithoutExecution
  <2>2. /\ Ended(runs[r], s, e).status = s
        /\ Ended(runs[r], s, e).may_mutate = runs[r].may_mutate
        /\ runs[r].may_mutate /\ s \in AmbiguousStatuses => Ended(runs[r], s, e).ambiguous
    BY EndedType, EndedDoubt DEF StoreInv, RunsTypeOK
  <2>3. QED
    BY <2>1, <2>2 DEF DoubtIsKept, StoreInv, RunsTypeOK
<1>2. CASE ~Running(r)
  BY <1>2 DEF FinishWithoutExecution, DoubtIsKept
<1>3. QED
  BY <1>1, <1>2

(* ... and so does every other operation of the store.                     *)
LEMMA StoreKeepsDoubt ==
  ASSUME StoreInv, DoubtIsKept, [StoreNext]_runs
  PROVE  DoubtIsKept'
<1>1. ASSUME NEW r \in Runs, NEW mode \in Modes, NEW class \in Classes,
             NEW m \in BOOLEAN, Create(r, mode, class, m)
      PROVE  DoubtIsKept'
  BY <1>1 DEF Create, NoRun, DoubtIsKept, StoreInv, RunsTypeOK, AmbiguousStatuses
<1>2. ASSUME NEW modes \in SUBSET Modes, NEW reached \in SUBSET Runs,
             ReconcileIncomplete(modes, reached)
      PROVE  DoubtIsKept'
  <2>1. ASSUME NEW r \in Runs, NEW e \in ErrorTypes
        PROVE  /\ Ended(runs[r], "interrupted", e).may_mutate = runs[r].may_mutate
               /\ runs[r].may_mutate => Ended(runs[r], "interrupted", e).ambiguous
    BY EndedDoubt DEF StoreInv, RunsTypeOK, Terminal, InternalStatuses, AmbiguousStatuses
  <2>2. QED
    BY <1>2, <2>1 DEF ReconcileIncomplete, DoubtIsKept, ErrorTypes
<1>3. ASSUME NEW r \in Runs, NEW b \in BOOLEAN, SetRetained(r, b)
      PROVE  DoubtIsKept'
  BY <1>3 DEF SetRetained, DoubtIsKept, StoreInv, RunsTypeOK, RunRecord
<1>4. ASSUME NEW expired \in SUBSET Runs, Cleanup(expired)
      PROVE  DoubtIsKept'
  BY <1>4 DEF Cleanup, DoubtIsKept, StoreInv, RunsTypeOK, RunRecord, AmbiguousStatuses
<1>5. CASE UNCHANGED runs
  BY <1>5 DEF DoubtIsKept
<1>6. QED
  BY <1>1, <1>2, <1>3, <1>4, <1>5, EndKeepsDoubt, StoreSteps
-----------------------------------------------------------------------------
(* Creating a Run starts it in the abstract life cycle.                    *)
LEMMA CreateStarts ==
  ASSUME StoreInv, NEW r \in Runs, NEW mode \in Modes, NEW class \in Classes,
         NEW m \in BOOLEAN, Create(r, mode, class, m)
  PROVE  Lifecycle!Start(r)
<1>1. /\ runs[r] = NoRun
      /\ runs'[r].status = "running" /\ ~runs'[r].ambiguous /\ ~runs'[r].retained
      /\ \A q \in Runs : q # r => runs'[q] = runs[q]
  BY DEF Create, NoRun, StoreInv, RunsTypeOK
<1>2. [q \in Runs |-> Verdict(q)]' = [[q \in Runs |-> Verdict(q)] EXCEPT ![r] = "open"]
  BY <1>1 DEF Verdict
<1>3. {q \in Runs : runs[q].ambiguous}' = {q \in Runs : runs[q].ambiguous}
  BY <1>1 DEF NoRun
<1>4. {q \in Runs : runs[q].retained}' = {q \in Runs : runs[q].retained}
  BY <1>1 DEF NoRun
<1>5. QED
  BY <1>1, <1>2, <1>3, <1>4 DEF Lifecycle!Start, Verdict, NoRun

(* A step that ends a set of running Runs, and touches no other, settles   *)
(* that set.                                                               *)
LEMMA EndsSettle ==
  ASSUME StoreInv, StoreInv', NEW S \in SUBSET Runs,
         \A r \in S : /\ Running(r)
                      /\ runs'[r].status \in Terminal
                      /\ runs'[r].retained = runs[r].retained,
         \A r \in Runs \ S : runs'[r] = runs[r]
  PROVE  Lifecycle!Settle(S)
<1> DEFINE f == [r \in S |-> runs'[r].status]
           D == {r \in S : runs'[r].ambiguous}
<1>1. f \in [S -> Terminal] /\ D \in SUBSET S
  OBVIOUS
<1>2. \A r \in S : Verdict(r) = "open" /\ Verdict(r)' = f[r]
  BY DEF Verdict, Running, Terminal, ExecutionStatuses, InternalStatuses
<1>3. \A r \in Runs \ S : Verdict(r)' = Verdict(r)
  BY DEF Verdict
<1>4. [r \in Runs |-> Verdict(r)]' =
        [r \in Runs |-> IF r \in S THEN f[r] ELSE [q \in Runs |-> Verdict(q)][r]]
  BY <1>2, <1>3
<1>5. {r \in Runs : runs[r].ambiguous}' = {r \in Runs : runs[r].ambiguous} \cup D
  BY DEF StoreInv, DoubtIsSettled
<1>6. {r \in Runs : runs[r].retained}' = {r \in Runs : runs[r].retained}
  OBVIOUS
<1>7. QED
  BY <1>1, <1>2, <1>4, <1>5, <1>6 DEF Lifecycle!Settle

(* Ending one Run settles it, or changes nothing.                          *)
LEMMA EndSettles ==
  ASSUME StoreInv, StoreInv', NEW r \in Runs, NEW s \in Terminal,
         NEW e \in ErrorTypes, FinishWithoutExecution(r, s, e)
  PROVE  (\E S \in SUBSET Runs : Lifecycle!Settle(S)) \/ UNCHANGED runs
<1>1. CASE Running(r)
  <2>1. runs' = [runs EXCEPT ![r] = Ended(runs[r], s, e)]
    BY <1>1 DEF FinishWithoutExecution
  <2>2. /\ runs'[r].status = s
        /\ runs'[r].retained = runs[r].retained
        /\ \A q \in Runs \ {r} : runs'[q] = runs[q]
    BY <2>1, EndedType DEF StoreInv, RunsTypeOK
  <2>3. Lifecycle!Settle({r})
    BY <1>1, <2>2, EndsSettle
  <2>4. QED
    BY <2>3
<1>2. CASE ~Running(r)
  BY <1>2 DEF FinishWithoutExecution
<1>3. QED
  BY <1>1, <1>2

(* Reconciliation settles the Runs it finds running.                       *)
LEMMA ReconcileSettles ==
  ASSUME StoreInv, StoreInv', NEW modes \in SUBSET Modes, NEW reached \in SUBSET Runs,
         ReconcileIncomplete(modes, reached)
  PROVE  \E S \in SUBSET Runs : Lifecycle!Settle(S)
<1>1. PICK S \in SUBSET Runs :
        S = {r \in reached : Running(r) /\ runs[r].execution_mode \in modes}
  OBVIOUS
<1>2. \A r \in Runs, e \in ErrorTypes :
        /\ Ended(runs[r], "interrupted", e).status = "interrupted"
        /\ Ended(runs[r], "interrupted", e).retained = runs[r].retained
  BY EndedType DEF StoreInv, RunsTypeOK, Terminal, InternalStatuses
<1>3. \A r \in S : /\ Running(r)
                   /\ runs'[r].status \in Terminal
                   /\ runs'[r].retained = runs[r].retained
  BY <1>1, <1>2 DEF ReconcileIncomplete, ErrorTypes, Terminal, InternalStatuses
<1>4. \A r \in Runs \ S : runs'[r] = runs[r]
  BY <1>1 DEF ReconcileIncomplete
<1>5. Lifecycle!Settle(S)
  BY <1>3, <1>4, EndsSettle
<1>6. QED
  BY <1>5

(* The retention override pins or releases a Run.                          *)
LEMMA SetRetainedPins ==
  ASSUME StoreInv, NEW r \in Runs, NEW b \in BOOLEAN, SetRetained(r, b)
  PROVE  Lifecycle!Pin(r)
<1>1. /\ runs'[r] = [runs[r] EXCEPT !.retained = b]
      /\ \A q \in Runs : q # r => runs'[q] = runs[q]
  BY DEF SetRetained, StoreInv, RunsTypeOK
<1>2. /\ runs'[r].status = runs[r].status
      /\ runs'[r].ambiguous = runs[r].ambiguous
      /\ runs'[r].retained = b
  BY <1>1 DEF StoreInv, RunsTypeOK, RunRecord
<1>3. Verdict(r) \notin {"none", "erased"}
  BY DEF SetRetained, Stored, Verdict, StoreInv, RunsTypeOK, RunRecord, Terminal,
     ExecutionStatuses, InternalStatuses
<1>4. [q \in Runs |-> Verdict(q)]' = [q \in Runs |-> Verdict(q)]
  BY <1>1, <1>2 DEF Verdict
<1>5. {q \in Runs : runs[q].ambiguous}' = {q \in Runs : runs[q].ambiguous}
  BY <1>1, <1>2
<1>6. LET P == {q \in Runs : runs[q].retained}
      IN  P' \in {P \cup {r}, P \ {r}}
  BY <1>1, <1>2
<1>7. QED
  BY <1>3, <1>4, <1>5, <1>6 DEF Lifecycle!Pin

(* Retention erases settled Runs that are neither in doubt nor retained.   *)
LEMMA CleanupErases ==
  ASSUME StoreInv, NEW expired \in SUBSET Runs, Cleanup(expired)
  PROVE  \E S \in SUBSET Runs : Lifecycle!Erase(S)
<1> DEFINE S == {r \in Runs : Deletable(r, expired)}
<1>1. \A r \in S : /\ runs'[r].status = "deleted"
                   /\ runs'[r].ambiguous = runs[r].ambiguous
                   /\ runs'[r].retained = runs[r].retained
  BY DEF Cleanup, StoreInv, RunsTypeOK, RunRecord
<1>2. \A r \in Runs \ S : runs'[r] = runs[r]
  BY DEF Cleanup
<1>3. \A r \in S : Verdict(r) \in Terminal /\ ~runs[r].ambiguous /\ ~runs[r].retained
  BY DEF Deletable, CleanupStatuses, Verdict, Terminal, ExecutionStatuses,
     InternalStatuses
<1>4. [r \in Runs |-> Verdict(r)]' =
        [r \in Runs |-> IF r \in S THEN "erased" ELSE [q \in Runs |-> Verdict(q)][r]]
  BY <1>1, <1>2 DEF Verdict
<1>5. {r \in Runs : runs[r].ambiguous}' = {r \in Runs : runs[r].ambiguous}
  BY <1>1, <1>2
<1>6. {r \in Runs : runs[r].retained}' = {r \in Runs : runs[r].retained}
  BY <1>1, <1>2
<1>7. Lifecycle!Erase(S)
  BY <1>3, <1>4, <1>5, <1>6 DEF Lifecycle!Erase
<1>8. QED
  BY <1>7

(* An empty table is the initial state of the life cycle.                  *)
LEMMA StoreInitMaps == StoreInit => Lifecycle!Init
BY DEF StoreInit, Lifecycle!Init, Verdict, NoRun

(* Every step of the store is a step of the life cycle or a stutter.       *)
LEMMA StoreStepMaps ==
  ASSUME StoreInv, StoreInv', [StoreNext]_runs
  PROVE  [Lifecycle!Next]_Lifecycle!vars
<1>1. ASSUME UNCHANGED runs PROVE UNCHANGED Lifecycle!vars
  BY <1>1 DEF Lifecycle!vars, Verdict
<1>2. ASSUME StoreNext PROVE Lifecycle!Next \/ UNCHANGED runs
  <2>1. ASSUME NEW r \in Runs, NEW mode \in Modes, NEW class \in Classes,
               NEW m \in BOOLEAN, Create(r, mode, class, m)
        PROVE  Lifecycle!Next
    BY <2>1, CreateStarts DEF Lifecycle!Next
  <2>2. ASSUME NEW r \in Runs, NEW s \in Terminal, NEW e \in ErrorTypes,
               FinishWithoutExecution(r, s, e)
        PROVE  Lifecycle!Next \/ UNCHANGED runs
    BY <2>2, EndSettles DEF Lifecycle!Next
  <2>3. ASSUME NEW modes \in SUBSET Modes, NEW reached \in SUBSET Runs,
               ReconcileIncomplete(modes, reached)
        PROVE  Lifecycle!Next
    BY <2>3, ReconcileSettles DEF Lifecycle!Next
  <2>4. ASSUME NEW r \in Runs, NEW b \in BOOLEAN, SetRetained(r, b)
        PROVE  Lifecycle!Next
    BY <2>4, SetRetainedPins DEF Lifecycle!Next
  <2>5. ASSUME NEW expired \in SUBSET Runs, Cleanup(expired)
        PROVE  Lifecycle!Next
    BY <2>5, CleanupErases DEF Lifecycle!Next
  <2>6. QED
    BY <1>2, <2>1, <2>2, <2>3, <2>4, <2>5, StoreSteps
<1>3. QED
  BY <1>1, <1>2

(* The Run store implements the abstract Run life cycle: a verdict, once   *)
(* given, is rewritten by no later operation, and no doubtful or retained  *)
(* Run is erased (runs.py:601-702).                                        *)
THEOREM StoreImplementsLifecycle == StoreSpec => ImplementsLifecycle
<1>1. StoreInit => Lifecycle!Init
  BY StoreInitMaps
<1>2. StoreInv /\ StoreInv' /\ [StoreNext]_runs => [Lifecycle!Next]_Lifecycle!vars
  BY StoreStepMaps
<1>3. QED
  BY <1>1, <1>2, StoreTypeCorrect, PTL DEF StoreSpec, ImplementsLifecycle, Lifecycle!Spec
=============================================================================
