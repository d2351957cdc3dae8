------------------------ MODULE CandidateStore_proofs ------------------------
(***************************************************************************)
(* Proofs about the Candidate store, for any Candidates, callers, contents *)
(* and Tasks: type correctness with the shape of the lifecycle, that a     *)
(* revision names one record and no update is lost, that an occurrence is  *)
(* counted once, and what approvals and decisions are worth.               *)
(***************************************************************************)
EXTENDS CandidateStore, FiniteSetTheorems, TLAPS

(* What a mutation with a compared revision makes of the record of i.      *)
Mutation(i, expected, new) ==
  /\ Current(i, expected)
  /\ records' = [records EXCEPT ![i] = new]
  /\ new \in CandidateRecord
  /\ new.revision = expected + 1

(* Nobody has seen a later revision than the stored one, and the stored    *)
(* one only as it is: the strengthening that NoLostUpdate needs.           *)
ViewsLag ==
  \A c \in Callers, i \in Ids :
    /\ view[c][i].revision <= records[i].revision
    /\ view[c][i].revision = records[i].revision => view[c][i] = records[i]

(* Counted revisions are past ones, so a new one is never among them.      *)
CountsMatch ==
  \A i \in Ids :
    /\ IsFiniteSet(counted[i])
    /\ \A n \in counted[i] : n < records[i].revision
    /\ records[i].revision # 0 => records[i].recurrence_count = 1 + Cardinality(counted[i])

(* Every edit of a record below the bound yields a record one revision on. *)
LEMMA RevisedType ==
  ASSUME NEW record \in CandidateRecord, record.revision < MaxRevision
  PROVE  Revised(record) \in CandidateRecord /\ Revised(record).revision = record.revision + 1
<1>1. record.revision + 1 \in 0 .. MaxRevision
  BY BoundAssumption DEF CandidateRecord
<1>2. QED
  BY <1>1 DEF Revised, CandidateRecord

(* So does a decision, whatever it says of the final reference.            *)
LEMMA DecidedType ==
  ASSUME NEW record \in CandidateRecord, NEW target \in States, record.revision < MaxRevision
  PROVE  /\ Decided(record, target) \in CandidateRecord
         /\ Decided(record, target).state = target
         /\ Decided(record, target).final_reference <=> target \in Completed
<1>1. ASSUME NEW known \in BOOLEAN
      PROVE  LET new == [Revised(record) EXCEPT !.state = target, !.final_reference = known]
             IN  new \in CandidateRecord /\ new.state = target /\ new.final_reference = known
  BY RevisedType DEF CandidateRecord
<1>2. CASE target \in Completed
  <2>1. Decided(record, target) =
          [Revised(record) EXCEPT !.state = target, !.final_reference = TRUE]
    BY <1>2, Zenon DEF Decided
  <2>2. QED
    BY <1>1, <1>2, <2>1
<1>3. CASE target \notin Completed
  <2>1. Decided(record, target) =
          [Revised(record) EXCEPT !.state = target, !.final_reference = FALSE]
    <3>1. (target \in Completed) = FALSE
      BY <1>3
    <3>2. QED
      BY <3>1, Zenon DEF Decided
  <2>2. QED
    BY <1>1, <1>3, <2>1
<1>4. QED
  BY <1>2, <1>3

(* An answer shows the record, a lost one nothing.                         *)
LEMMA AnswerViews ==
  ASSUME TypeOK, NEW c \in Callers, NEW i \in Ids, MaybeAnswered(c, i),
         NEW d \in Callers, NEW j \in Ids
  PROVE  view'[d][j] = records'[j] \/ view'[d][j] = view[d][j]
BY DEF MaybeAnswered, Answered, TypeOK

(* Answers keep the views typed.                                           *)
LEMMA AnswerType ==
  ASSUME TypeOK, NEW c \in Callers, NEW i \in Ids, MaybeAnswered(c, i),
         records' \in [Ids -> CandidateRecord]
  PROVE  view' \in [Callers -> [Ids -> CandidateRecord]]
<1>1. records'[i] \in CandidateRecord
  OBVIOUS
<1>2. [view[c] EXCEPT ![i] = records'[i]] \in [Ids -> CandidateRecord]
  BY <1>1 DEF TypeOK
<1>3. CASE Answered(c, i)
  <2>1. view' = [view EXCEPT ![c] = [view[c] EXCEPT ![i] = records'[i]]]
    BY <1>3 DEF Answered
  <2>2. QED
    BY <1>2, <2>1 DEF TypeOK
<1>4. CASE UNCHANGED view
  BY <1>4 DEF TypeOK
<1>5. QED
  BY <1>3, <1>4 DEF MaybeAnswered

(* The four mutations of a Candidate are mutations in this sense, or leave *)
(* the records alone; only RecordOccurrence moves the count, and the count *)
(* of calls with it.                                                       *)
EditKeepsCount(c, i) ==
  \E expected \in Revisions :
    \/ \E content \in Contents, count \in Revisions : Update(c, i, expected, content, count)
    \/ \E target \in States : Transition(c, i, expected, target)
    \/ \E task \in TaskIds : LinkTask(c, i, expected, task)

Shape(record) == record.final_reference <=> record.state \in Completed

(* An update, a transition or a link writes a record of the type and the   *)
(* shape, one revision on, or leaves everything as it is.                  *)
LEMMA EditIsMutation ==
  ASSUME TypeOK, NEW c \in Callers, NEW i \in Ids, EditKeepsCount(c, i)
  PROVE  /\ MaybeAnswered(c, i) /\ counted' = counted /\ approved' \subseteq Ids
         /\ \/ records' = records
            \/ \E expected \in Revisions, new \in CandidateRecord :
                 /\ Mutation(i, expected, new)
                 /\ Shape(new)
                 /\ new.recurrence_count = records[i].recurrence_count
<1> USE DEF TypeOK
<1>1. ASSUME NEW expected \in Revisions, NEW content \in Contents, NEW count \in Revisions,
             Update(c, i, expected, content, count)
      PROVE  /\ Mutation(i, expected, [Revised(records[i]) EXCEPT !.content = content])
             /\ Shape([Revised(records[i]) EXCEPT !.content = content])
             /\ [Revised(records[i]) EXCEPT !.content = content] \in CandidateRecord
             /\ [Revised(records[i]) EXCEPT !.content = content].recurrence_count =
                  records[i].recurrence_count
             /\ MaybeAnswered(c, i) /\ counted' = counted /\ approved' = approved
  <2>1. Current(i, expected) /\ records[i].revision < MaxRevision
    BY <1>1 DEF Update, Current
  <2>2. [Revised(records[i]) EXCEPT !.content = content] \in CandidateRecord
    BY <2>1, RevisedType DEF CandidateRecord
  <2>3. QED
    BY <1>1, <2>1, <2>2 DEF Update, Mutation, Shape, Current, Revised, CandidateRecord
<1>2. ASSUME NEW expected \in Revisions, NEW target \in States, Transition(c, i, expected, target)
      PROVE  /\ Mutation(i, expected, Decided(records[i], target))
             /\ Shape(Decided(records[i], target))
             /\ Decided(records[i], target) \in CandidateRecord
             /\ Decided(records[i], target).recurrence_count = records[i].recurrence_count
             /\ MaybeAnswered(c, i) /\ counted' = counted /\ approved' \subseteq Ids
  <2>1. Current(i, expected) /\ records[i].revision < MaxRevision
    BY <1>2 DEF Transition, Current
  <2>2. Decided(records[i], target) \in CandidateRecord
    BY <2>1, DecidedType
  <2>3. QED
    BY <1>2, <2>1, <2>2, DecidedType DEF Transition, Mutation, Shape, Current, Revised, Decided,
       CandidateRecord
<1>3. ASSUME NEW expected \in Revisions, NEW task \in TaskIds, LinkTask(c, i, expected, task)
      PROVE  /\ \/ records' = records
                \/ /\ Mutation(i, expected, [Revised(records[i]) EXCEPT !.task_id = task])
                   /\ Shape([Revised(records[i]) EXCEPT !.task_id = task])
                   /\ [Revised(records[i]) EXCEPT !.task_id = task] \in CandidateRecord
                   /\ [Revised(records[i]) EXCEPT !.task_id = task].recurrence_count =
                        records[i].recurrence_count
             /\ MaybeAnswered(c, i) /\ counted' = counted /\ approved' = approved
  <2>1. Current(i, expected) /\ records[i].revision < MaxRevision
    BY <1>3 DEF LinkTask, Current
  <2>2. [Revised(records[i]) EXCEPT !.task_id = task] \in CandidateRecord
    BY <2>1, RevisedType DEF CandidateRecord
  <2>3. QED
    BY <1>3, <2>1, <2>2 DEF LinkTask, Mutation, Shape, Current, Revised, CandidateRecord
<1>4. QED
  BY <1>1, <1>2, <1>3 DEF EditKeepsCount

(* A recorded occurrence is a mutation that counts one more, in a call     *)
(* whose expected revision is counted for the first time.                  *)
LEMMA OccurrenceIsMutation ==
  ASSUME TypeOK, NEW c \in Callers, NEW i \in Ids, NEW expected \in Revisions,
         RecordOccurrence(c, i, expected)
  PROVE  /\ MaybeAnswered(c, i) /\ approved' = approved
         /\ counted' = [counted EXCEPT ![i] = @ \cup {expected}]
         /\ \E new \in CandidateRecord :
              /\ Mutation(i, expected, new)
              /\ Shape(new)
              /\ new.recurrence_count = records[i].recurrence_count + 1
<1> DEFINE new == Recounted(records[i])
<1>1. Current(i, expected) /\ records[i].revision < MaxRevision /\ records[i] \in CandidateRecord
  BY DEF RecordOccurrence, Current, TypeOK
<1>2. records[i].recurrence_count + 1 \in Nat
  BY <1>1 DEF CandidateRecord
<1>3. new \in CandidateRecord /\ new.recurrence_count = records[i].recurrence_count + 1
  BY <1>1, <1>2, RevisedType DEF CandidateRecord, Revised, Recounted
<1>4. Mutation(i, expected, new) /\ Shape(new)
  BY <1>1, <1>3 DEF RecordOccurrence, Mutation, Shape, Current, Revised, Recounted,
     CandidateRecord, TypeOK
<1>5. QED
  BY <1>3, <1>4 DEF RecordOccurrence

(* Every step is one of these.                                             *)
LEMMA NextSteps ==
  ASSUME Next
  PROVE  \E c \in Callers, i \in Ids :
           \/ Get(c, i)
           \/ \E content \in Contents : Create(c, i, content)
           \/ EditKeepsCount(c, i)
           \/ \E expected \in Revisions : RecordOccurrence(c, i, expected)
BY DEF Next, EditKeepsCount

(* A step keeps types and shapes.                                          *)
LEMMA TypeStep ==
  ASSUME TypeOK, [Next]_vars
  PROVE  TypeOK'
<1>1. ASSUME NEW c \in Callers, NEW i \in Ids, Get(c, i)
      PROVE  TypeOK'
  <2>1. MaybeAnswered(c, i) /\ UNCHANGED <<records, counted, approved>>
    BY <1>1 DEF Get, MaybeAnswered
  <2>2. view' \in [Callers -> [Ids -> CandidateRecord]]
    BY <2>1, AnswerType DEF TypeOK
  <2>3. QED
    BY <2>1, <2>2 DEF TypeOK
<1>2. ASSUME NEW c \in Callers, NEW i \in Ids, NEW content \in Contents, Create(c, i, content)
      PROVE  TypeOK'
  <2> DEFINE new == [records[i] EXCEPT !.revision = 1, !.recurrence_count = 1,
                                       !.content = content]
  <2>1. /\ records' = [records EXCEPT ![i] = new] /\ MaybeAnswered(c, i)
        /\ UNCHANGED <<counted, approved>> /\ records[i] = NoCandidate
    BY <1>2 DEF Create
  <2>2. 1 \in 0 .. MaxRevision
    BY BoundAssumption
  <2>3. new \in CandidateRecord /\ Shape(new)
    <3>1. records[i] \in CandidateRecord /\ Shape(records[i])
      BY DEF TypeOK, Shape
    <3>2. new \in CandidateRecord
      BY <2>2, <3>1 DEF CandidateRecord
    <3>3. new.state = records[i].state /\ new.final_reference = records[i].final_reference
      BY <3>1 DEF CandidateRecord
    <3>4. QED
      BY <3>1, <3>2, <3>3 DEF Shape
  <2>4. QED
    BY <2>1, <2>3, AnswerType DEF Shape, TypeOK
<1>3. ASSUME NEW c \in Callers, NEW i \in Ids, EditKeepsCount(c, i)
      PROVE  TypeOK'
  <2>1. /\ records' \in [Ids -> CandidateRecord]
        /\ \A j \in Ids : Shape(records'[j])
    BY <1>3, EditIsMutation DEF Mutation, Shape, TypeOK
  <2>2. QED
    BY <1>3, <2>1, EditIsMutation, AnswerType DEF Shape, TypeOK
<1>4. ASSUME NEW c \in Callers, NEW i \in Ids, NEW expected \in Revisions,
             RecordOccurrence(c, i, expected)
      PROVE  TypeOK'
  <2>1. /\ records' \in [Ids -> CandidateRecord]
        /\ \A j \in Ids : Shape(records'[j])
    BY <1>4, OccurrenceIsMutation DEF Mutation, Shape, TypeOK
  <2>2. counted' \in [Ids -> SUBSET Revisions]
    BY <1>4 DEF RecordOccurrence, TypeOK
  <2>3. QED
    BY <1>4, <2>1, <2>2, OccurrenceIsMutation, AnswerType DEF Shape, TypeOK
<1>5. CASE UNCHANGED vars
  BY <1>5 DEF vars, TypeOK
<1>6. QED
  BY <1>1, <1>2, <1>3, <1>4, <1>5, NextSteps

(* The empty store is typed, its views lag and its counts match.           *)
LEMMA InitInv == Init => TypeOK /\ ViewsLag /\ CountsMatch
<1> SUFFICES ASSUME Init PROVE TypeOK /\ ViewsLag /\ CountsMatch
  OBVIOUS
<1>1. NoCandidate \in CandidateRecord
  BY BoundAssumption DEF NoCandidate, CandidateRecord, States
<1>2. TypeOK
  BY <1>1 DEF Init, TypeOK, NoCandidate, Completed
<1>3. ViewsLag
  BY DEF Init, ViewsLag, NoCandidate
<1>4. CountsMatch
  BY FS_EmptySet DEF Init, CountsMatch, NoCandidate
<1>5. QED
  BY <1>2, <1>3, <1>4

(* Type correctness, and that a final reference is there exactly for a     *)
(* completed Candidate (candidates.py:159-170).                            *)
THEOREM CandidateTypeCorrect == Spec => []TypeOK
BY InitInv, TypeStep, PTL DEF Spec
-----------------------------------------------------------------------------
(* A step that answers about i, and moves its revision if it changes it,   *)
(* keeps every view behind the store.                                      *)
LEMMA AnswerLags ==
  ASSUME TypeOK, ViewsLag, NEW c \in Callers, NEW i \in Ids, MaybeAnswered(c, i),
         \A j \in Ids : \/ records'[j] = records[j]
                        \/ records'[j].revision = records[j].revision + 1,
         TypeOK'
  PROVE  ViewsLag'
<1> SUFFICES ASSUME NEW d \in Callers, NEW j \in Ids
             PROVE  /\ view'[d][j].revision <= records'[j].revision
                    /\ view'[d][j].revision = records'[j].revision => view'[d][j] = records'[j]
  BY DEF ViewsLag
<1>1. view'[d][j] = records'[j] \/ view'[d][j] = view[d][j]
  BY AnswerViews
<1>2. records[j].revision \in Nat /\ records'[j].revision \in Nat /\ view[d][j].revision \in Nat
  BY BoundAssumption DEF TypeOK, CandidateRecord
<1>3. QED
  BY <1>1, <1>2 DEF ViewsLag

(* A step keeps the views behind the store.                                *)
LEMMA ViewsStep ==
  ASSUME TypeOK, TypeOK', ViewsLag, [Next]_vars
  PROVE  ViewsLag'
<1>1. ASSUME NEW c \in Callers, NEW i \in Ids,
             \/ Get(c, i)
             \/ \E content \in Contents : Create(c, i, content)
             \/ EditKeepsCount(c, i)
             \/ \E expected \in Revisions : RecordOccurrence(c, i, expected)
      PROVE  ViewsLag'
  <2>1. MaybeAnswered(c, i)
    BY <1>1, EditIsMutation, OccurrenceIsMutation DEF Get, Create, MaybeAnswered
  <2>2. ASSUME NEW content \in Contents, Create(c, i, content), NEW j \in Ids
        PROVE  records'[j] = records[j] \/ records'[j].revision = records[j].revision + 1
    BY <2>2 DEF Create, NoCandidate, TypeOK
  <2>3. ASSUME NEW expected \in Revisions, NEW new \in CandidateRecord,
               Mutation(i, expected, new), NEW j \in Ids
        PROVE  records'[j] = records[j] \/ records'[j].revision = records[j].revision + 1
    BY <2>3 DEF Mutation, Current, TypeOK
  <2>4. \A j \in Ids : \/ records'[j] = records[j]
                       \/ records'[j].revision = records[j].revision + 1
    BY <1>1, <2>2, <2>3, EditIsMutation, OccurrenceIsMutation DEF Get
  <2>5. QED
    BY <2>1, <2>4, AnswerLags
<1>2. CASE UNCHANGED vars
  BY <1>2 DEF vars, ViewsLag
<1>3. QED
  BY <1>1, <1>2, NextSteps

(* Nobody has seen a revision that is not written yet.                     *)
THEOREM ViewsLagBehind == Spec => []ViewsLag
<1>1. Init => ViewsLag
  BY InitInv
<1>2. TypeOK /\ TypeOK' /\ ViewsLag /\ [Next]_vars => ViewsLag'
  BY ViewsStep
<1>3. QED
  BY <1>1, <1>2, CandidateTypeCorrect, PTL DEF Spec

(* No update is lost: who names the revision it last saw replaces what it  *)
(* saw.  The comparison of revisions (candidates.py:431-434) needs every   *)
(* mutation to raise the revision, or a revision would not name one record.*)
THEOREM UpdatesAreNotLost == Spec => NoLostUpdate
<1>1. ASSUME ViewsLag, NEW c \in Callers, NEW i \in Ids,
             Replaces(c, i, view[c][i].revision)
      PROVE  view[c][i] = records[i]
  <2>1. Current(i, view[c][i].revision)
    BY <1>1 DEF Replaces, Update, RecordOccurrence, Transition, LinkTask
  <2>2. QED
    BY <1>1, <2>1 DEF Current, ViewsLag
<1>2. ViewsLag =>
        \A c \in Callers, i \in Ids :
          view[c][i].revision # 0 /\ Replaces(c, i, view[c][i].revision) =>
            view[c][i] = records[i]
  BY <1>1
<1>3. QED
  BY <1>2, ViewsLagBehind, PTL DEF NoLostUpdate
-----------------------------------------------------------------------------
(* A step keeps the count and the set of counted calls in step.            *)
LEMMA CountsStep ==
  ASSUME TypeOK, TypeOK', CountsMatch, [Next]_vars
  PROVE  CountsMatch'
<1> SUFFICES ASSUME NEW j \in Ids
             PROVE  /\ IsFiniteSet(counted'[j])
                    /\ \A n \in counted'[j] : n < records'[j].revision
                    /\ records'[j].revision # 0 =>
                         records'[j].recurrence_count = 1 + Cardinality(counted'[j])
  BY DEF CountsMatch
<1>0. /\ records[j].revision \in Nat /\ records[j].recurrence_count \in Nat
      /\ counted[j] \subseteq Nat /\ IsFiniteSet(counted[j])
  BY BoundAssumption DEF TypeOK, CandidateRecord, Revisions, CountsMatch
<1>1. ASSUME records'[j] = records[j], counted'[j] = counted[j]
      PROVE  /\ IsFiniteSet(counted'[j])
             /\ \A n \in counted'[j] : n < records'[j].revision
             /\ records'[j].revision # 0 =>
                  records'[j].recurrence_count = 1 + Cardinality(counted'[j])
  BY <1>1 DEF CountsMatch
<1>2. ASSUME NEW c \in Callers, NEW i \in Ids, NEW content \in Contents, Create(c, i, content)
      PROVE  /\ IsFiniteSet(counted'[j])
             /\ \A n \in counted'[j] : n < records'[j].revision
             /\ records'[j].revision # 0 =>
                  records'[j].recurrence_count = 1 + Cardinality(counted'[j])
  <2>1. CASE i # j
    BY <1>1, <1>2, <2>1 DEF Create, TypeOK
  <2>2. CASE i = j
    <3>1. /\ records[j].revision = 0 /\ records'[j].recurrence_count = 1
          /\ records'[j].revision = 1 /\ counted'[j] = counted[j]
      BY <1>2, <2>2 DEF Create, NoCandidate, TypeOK
    <3>2. counted[j] = {}
      BY <1>0, <3>1 DEF CountsMatch
    <3>3. QED
      BY <3>1, <3>2, FS_EmptySet
  <2>3. QED
    BY <2>1, <2>2
<1>3. ASSUME NEW c \in Callers, NEW i \in Ids, EditKeepsCount(c, i)
      PROVE  /\ IsFiniteSet(counted'[j])
             /\ \A n \in counted'[j] : n < records'[j].revision
             /\ records'[j].revision # 0 =>
                  records'[j].recurrence_count = 1 + Cardinality(counted'[j])
  <2>1. counted' = counted
    BY <1>3, EditIsMutation
  <2>2. ASSUME NEW expected \in Revisions, NEW new \in CandidateRecord,
               Mutation(i, expected, new), i = j,
               new.recurrence_count = records[i].recurrence_count
        PROVE  /\ records'[j].revision = records[j].revision + 1
               /\ records'[j].recurrence_count = records[j].recurrence_count
               /\ records[j].revision # 0
    BY <2>2 DEF Mutation, Current, TypeOK, Revisions
  <2>3. ASSUME NEW expected \in Revisions, NEW new \in CandidateRecord,
               Mutation(i, expected, new), i # j
        PROVE  records'[j] = records[j]
    BY <2>3 DEF Mutation, TypeOK
  <2>4. \/ records'[j] = records[j]
        \/ /\ records'[j].revision = records[j].revision + 1
           /\ records'[j].recurrence_count = records[j].recurrence_count
           /\ records[j].revision # 0
    BY <1>3, <2>2, <2>3, EditIsMutation
  <2>5. QED
    BY <1>0, <1>1, <2>1, <2>4 DEF CountsMatch
<1>4. ASSUME NEW c \in Callers, NEW i \in Ids, NEW expected \in Revisions,
             RecordOccurrence(c, i, expected)
      PROVE  /\ IsFiniteSet(counted'[j])
             /\ \A n \in counted'[j] : n < records'[j].revision
             /\ records'[j].revision # 0 =>
                  records'[j].recurrence_count = 1 + Cardinality(counted'[j])
  <2>1. CASE i # j
    BY <1>1, <1>4, <2>1, OccurrenceIsMutation DEF Mutation, TypeOK
  <2>2. CASE i = j
    <3>1. /\ records[j].revision = expected /\ records'[j].revision = expected + 1
          /\ records'[j].recurrence_count = records[j].recurrence_count + 1
          /\ counted'[j] = counted[j] \cup {expected} /\ expected # 0 /\ expected \in Nat
      BY <1>4, <2>2, OccurrenceIsMutation DEF Mutation, Current, TypeOK, Revisions
    <3>2. expected \notin counted[j]
      BY <1>0, <3>1 DEF CountsMatch
    <3>3. /\ IsFiniteSet(counted'[j])
          /\ Cardinality(counted'[j]) = Cardinality(counted[j]) + 1
          /\ Cardinality(counted[j]) \in Nat
      BY <1>0, <3>1, <3>2, FS_AddElement, FS_CardinalityType
    <3>4. QED
      BY <1>0, <3>1, <3>3 DEF CountsMatch
  <2>3. QED
    BY <2>1, <2>2
<1>5. QED
  BY <1>1, <1>2, <1>3, <1>4, NextSteps DEF Get, vars

(* An occurrence is counted once per expected revision, and by nothing     *)
(* else (candidates.py:437-484).                                           *)
THEOREM OccurrencesCountedOnce == Spec => []OccurrenceCountedOnce
<1>1. Init => CountsMatch
  BY InitInv
<1>2. TypeOK /\ TypeOK' /\ CountsMatch /\ [Next]_vars => CountsMatch'
  BY CountsStep
<1>3. CountsMatch => OccurrenceCountedOnce
  BY DEF CountsMatch, OccurrenceCountedOnce
<1>4. QED
  BY <1>1, <1>2, <1>3, CandidateTypeCorrect, PTL DEF Spec
-----------------------------------------------------------------------------
(* Approval is remembered while it may be needed: the strengthening that   *)
(* CompletionNeedsApproval needs.                                          *)
ApprovalKnown ==
  \A i \in Ids : records[i].state \in {"approved"} \cup Completed => i \in approved

(* Only a transition moves a state, and only an approved Candidate is      *)
(* completed.                                                              *)
LEMMA ApprovalStep ==
  ASSUME TypeOK, ApprovalKnown, [Next]_vars
  PROVE  ApprovalKnown'
<1> SUFFICES ASSUME NEW j \in Ids, records'[j].state \in {"approved"} \cup Completed
             PROVE  j \in approved'
  BY DEF ApprovalKnown
<1> USE DEF TypeOK
<1>1. ASSUME records'[j].state = records[j].state, approved \subseteq approved'
      PROVE  j \in approved'
  BY <1>1 DEF ApprovalKnown
<1>2. ASSUME NEW c \in Callers, NEW i \in Ids, NEW content \in Contents, Create(c, i, content)
      PROVE  records'[j].state = records[j].state /\ approved' = approved
  BY <1>2 DEF Create, NoCandidate
<1>3. ASSUME NEW c \in Callers, NEW i \in Ids, NEW expected \in Revisions,
             NEW content \in Contents, NEW count \in Revisions,
             Update(c, i, expected, content, count)
      PROVE  records'[j].state = records[j].state /\ approved' = approved
  BY <1>3 DEF Update, Revised, CandidateRecord
<1>4. ASSUME NEW c \in Callers, NEW i \in Ids, NEW expected \in Revisions,
             RecordOccurrence(c, i, expected)
      PROVE  records'[j].state = records[j].state /\ approved' = approved
  BY <1>4 DEF RecordOccurrence, Recounted, Revised, CandidateRecord
<1>5. ASSUME NEW c \in Callers, NEW i \in Ids, NEW expected \in Revisions,
             NEW task \in TaskIds, LinkTask(c, i, expected, task)
      PROVE  records'[j].state = records[j].state /\ approved' = approved
  BY <1>5 DEF LinkTask, Revised, CandidateRecord
<1>6. ASSUME NEW c \in Callers, NEW i \in Ids, NEW expected \in Revisions,
             NEW target \in States, Transition(c, i, expected, target)
      PROVE  j \in approved'
  <2>1. approved \subseteq approved' /\ (target = "approved" => i \in approved')
    BY <1>6 DEF Transition
  <2>2. CASE i # j
    BY <1>1, <1>6, <2>1, <2>2 DEF Transition
  <2>3. CASE i = j
    <3>1. records'[j].state = target
      BY <1>6, <2>3, DecidedType DEF Transition, Current
    <3>2. CASE target = "approved"
      BY <2>1, <2>3, <3>2
    <3>3. CASE target \in Completed
      <4>1. target \in AllowedTransitions[records[j].state] /\ records[j].state \in States
        BY <1>6, <2>3 DEF Transition, CandidateRecord
      <4>2. records[j].state = "approved"
        BY <3>3, <4>1 DEF AllowedTransitions, States, Completed
      <4>3. QED
        BY <2>1, <4>2 DEF ApprovalKnown
    <3>4. QED
      BY <3>1, <3>2, <3>3
  <2>4. QED
    BY <2>2, <2>3
<1>7. QED
  BY <1>1, <1>2, <1>3, <1>4, <1>5, <1>6 DEF Next, Get, vars

(* A completed Candidate was approved at some time, however it was blocked *)
(* or linked in between (candidates.py:182-189, 486-563).                  *)
THEOREM CompletedWereApproved == Spec => []CompletionNeedsApproval
<1>1. Init => ApprovalKnown
  BY DEF Init, ApprovalKnown, NoCandidate, Completed
<1>2. TypeOK /\ ApprovalKnown /\ [Next]_vars => ApprovalKnown'
  BY ApprovalStep
<1>3. ApprovalKnown => CompletionNeedsApproval
  BY DEF ApprovalKnown, CompletionNeedsApproval
<1>4. QED
  BY <1>1, <1>2, <1>3, CandidateTypeCorrect, PTL DEF Spec
-----------------------------------------------------------------------------
(* What a decision settled.                                                *)
Settled(record) == <<record.state, record.final_reference, record.task_id>>

(* No step moves what a decision settled.                                  *)
LEMMA DecisionStays ==
  ASSUME TypeOK, [Next]_vars, NEW j \in Ids, records[j].state \in Decisive
  PROVE  Settled(records'[j]) = Settled(records[j])
<1> USE DEF TypeOK
<1>1. ASSUME NEW c \in Callers, NEW i \in Ids, NEW content \in Contents, Create(c, i, content)
      PROVE  records'[j] = records[j]
  BY <1>1 DEF Create, NoCandidate, Decisive, Completed
<1>2. ASSUME NEW c \in Callers, NEW i \in Ids, NEW expected \in Revisions,
             NEW content \in Contents, NEW count \in Revisions,
             Update(c, i, expected, content, count)
      PROVE  Settled(records'[j]) = Settled(records[j])
  BY <1>2 DEF Update, Revised, Settled, CandidateRecord
<1>3. ASSUME NEW c \in Callers, NEW i \in Ids, NEW expected \in Revisions,
             RecordOccurrence(c, i, expected)
      PROVE  Settled(records'[j]) = Settled(records[j])
  BY <1>3 DEF RecordOccurrence, Recounted, Revised, Settled, CandidateRecord
<1>4. ASSUME NEW c \in Callers, NEW i \in Ids, NEW expected \in Revisions,
             NEW target \in States, Transition(c, i, expected, target)
      PROVE  records'[j] = records[j]
  <2>1. CASE i = j
    <3>1. AllowedTransitions[records[j].state] = {}
      BY DEF AllowedTransitions, Decisive, Completed, States
    <3>2. QED
      BY <1>4, <2>1, <3>1 DEF Transition
  <2>2. CASE i # j
    BY <1>4, <2>2 DEF Transition
  <2>3. QED
    BY <2>1, <2>2
<1>5. ASSUME NEW c \in Callers, NEW i \in Ids, NEW expected \in Revisions,
             NEW task \in TaskIds, LinkTask(c, i, expected, task)
      PROVE  records'[j] = records[j]
  BY <1>5 DEF LinkTask, Decisive, Completed
<1>6. QED
  BY <1>1, <1>2, <1>3, <1>4, <1>5 DEF Next, Get, vars

(* A decision is final: no later call takes it back or changes what it     *)
(* settled (candidates.py:182-189, 486-563).                               *)
THEOREM DecisionsStay == Spec => DecisionsAreFinal
<1>1. ASSUME TypeOK, [Next]_vars, NEW j \in Ids, records[j].state \in Decisive
      PROVE  /\ records'[j].state = records[j].state
             /\ records'[j].final_reference = records[j].final_reference
             /\ records'[j].task_id = records[j].task_id
  BY <1>1, DecisionStays DEF Settled
<1>2. TypeOK /\ [Next]_vars =>
        [\A i \in Ids : records[i].state \in Decisive =>
           /\ records'[i].state = records[i].state
           /\ records'[i].final_reference = records[i].final_reference
           /\ records'[i].task_id = records[i].task_id]_vars
  BY <1>1
<1>3. QED
  BY <1>2, CandidateTypeCorrect, PTL DEF Spec, DecisionsAreFinal
=============================================================================
