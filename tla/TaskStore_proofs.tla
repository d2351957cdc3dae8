-------------------------- MODULE TaskStore_proofs --------------------------
(***************************************************************************)
(* Proofs about the Task store, for any Tasks, clients, contents and       *)
(* bounds, in both storage modes: type correctness, that it implements the *)
(* abstract Task life cycle, that what a client read under its lease stays *)
(* true while it holds that lease, that no update is lost, and             *)
(* that creations never double a Task.                                     *)
(***************************************************************************)
EXTENDS TaskStore, TLAPS

(* The steps in which a client edits a Task and gets the answer.           *)
EditStep(c, t) ==
  \/ \E content \in Contents : Create(c, t, content)
  \/ MarkMutationPending(c, t)
  \/ \E expected \in Expected(c, t), content \in Contents :
       \/ \E reconcile \in BOOLEAN : Update(c, t, expected, content, reconcile)
       \/ \E outcome \in Outcomes : Close(c, t, expected, content, outcome)

CrashStep(c, t) ==
  \E expected \in Expected(c, t), content \in Contents, outcome \in Outcomes :
    CloseCrashes(c, t, expected, content, outcome)

LeaseStep(c, t) ==
  \/ \E seconds \in LeaseTimes : AcquireLease(c, t, seconds) \/ RefreshLease(c, t, seconds)
  \/ ReleaseLease(c, t)

BrokenCreation == \E t \in Tasks, content \in Contents : CreateCrashes(t, content)

(* Every step is one of these.                                             *)
LEMMA NextSteps ==
  ASSUME Next
  PROVE  \/ \E c \in Clients, t \in Tasks :
              \/ Get(c, t) \/ EditStep(c, t) \/ CrashStep(c, t) \/ RetryClose(c, t)
              \/ LeaseStep(c, t)
         \/ \E t \in Tasks : Repair(t)
         \/ BrokenCreation
         \/ \E S \in SUBSET Tasks : Cleanup(S)
         \/ Tick
BY DEF Next, EditStep, CrashStep, LeaseStep, BrokenCreation

(* Blank contents and records have the right type.                         *)
LEMMA BlankType == Blank \in Content /\ NoTask \in TaskRecord
<1>1. (CHOOSE i \in Identities : TRUE) \in Identities
  BY IdentitiesAssumption
<1>2. QED
  BY <1>1, BoundsAssumption DEF Blank, NoTask, Content, TaskRecord, Outcomes

(* Putting the reserved blocker on and off yields contents.               *)
LEMMA MarkedType ==
  ASSUME NEW content \in Content
  PROVE  /\ Marked(content) \in Content
         /\ Reconciled(content) \in Content
BY DEF Marked, Reconciled, Content

(* An edit below the revision bound yields a record.                       *)
LEMMA EditedType ==
  ASSUME NEW record \in TaskRecord, NEW content \in Content,
         record.revision < MaxRevision
  PROVE  Edited(record, content) \in TaskRecord
<1>1. record.revision \in 0 .. MaxRevision
  BY DEF TaskRecord
<1>2. record.revision + 1 \in 0 .. MaxRevision
  BY <1>1, BoundsAssumption
<1>3. QED
  BY <1>2 DEF Edited, TaskRecord

(* So does the final edit of a close.                                      *)
LEMMA ClosingType ==
  ASSUME NEW record \in TaskRecord, NEW content \in Content, NEW outcome \in Outcomes,
         NEW moved \in BOOLEAN, record.revision < MaxRevision, now \in Nat
  PROVE  Closing(record, content, outcome, moved) \in TaskRecord
BY EditedType DEF Closing, TaskRecord, Outcomes

(* An edit keeps the table of records typed.                               *)
LEMMA EditTasksType ==
  ASSUME TypeOK, NEW c \in Clients, NEW t \in Tasks, EditStep(c, t) \/ CrashStep(c, t)
  PROVE  tasks' \in [Tasks -> TaskRecord]
<1> USE DEF TypeOK
<1>0. now \in Nat
  OBVIOUS
<1>1. ASSUME NEW content \in Contents, Create(c, t, content)
      PROVE  tasks' \in [Tasks -> TaskRecord]
  <2>0. 1 \in 0 .. MaxRevision /\ content \in Content
    BY ContentsAssumption, BoundsAssumption
  <2>1. [NoTask EXCEPT !.status = "open", !.revision = 1, !.content = content] \in TaskRecord
    BY <2>0, BlankType DEF TaskRecord
  <2>2. QED
    BY <1>1, <2>1 DEF Create
<1>2. CASE MarkMutationPending(c, t)
  <2>1. tasks[t].content \in Content /\ Marked(tasks[t].content) \in Content
    BY MarkedType DEF TaskRecord
  <2>2. QED
    BY <1>2, <2>1, EditedType DEF MarkMutationPending
<1>3. ASSUME NEW expected \in Expected(c, t), NEW content \in Contents,
             NEW reconcile \in BOOLEAN, Update(c, t, expected, content, reconcile)
      PROVE  tasks' \in [Tasks -> TaskRecord]
  <2>1. (IF reconcile THEN Reconciled(content) ELSE content) \in Content
    BY MarkedType, ContentsAssumption
  <2>2. QED
    BY <1>3, <2>1, EditedType DEF Update
<1>4. ASSUME NEW expected \in Expected(c, t), NEW content \in Contents,
             NEW outcome \in Outcomes, NEW moved \in BOOLEAN,
             Final(c, t, expected, content, outcome),
             tasks' = [tasks EXCEPT ![t] = Closing(tasks[t], content, outcome, moved)]
      PROVE  tasks' \in [Tasks -> TaskRecord]
  BY <1>0, <1>4, ClosingType, ContentsAssumption DEF Final
<1>5. QED
  BY <1>1, <1>2, <1>3, <1>4 DEF EditStep, CrashStep, Close, CloseCrashes

(* An answer keeps the clients' views typed.                               *)
LEMMA AnsweredType ==
  ASSUME TypeOK, NEW c \in Clients, NEW t \in Tasks, Answered(c, t),
         tasks' \in [Tasks -> TaskRecord], leases' \in [Tasks -> Lease]
  PROVE  view' \in [Clients -> [Tasks -> Version]]
<1>1. OwnLease(c, t)' \in 0 .. MaxLeases
  BY BoundsAssumption DEF OwnLease, Lease
<1>2. [record |-> tasks[t], lease |-> OwnLease(c, t)]' \in Version
  BY <1>1 DEF Version
<1>3. QED
  BY <1>2 DEF Answered, TypeOK

(* Every step keeps the types.                                             *)
LEMMA TypeStep ==
  ASSUME TypeOK, [Next]_vars
  PROVE  TypeOK'
<1> USE DEF TypeOK
<1>0. /\ NoLease \in Lease /\ now \in Nat
      /\ \A seconds \in LeaseTimes : seconds \in Nat
  BY TimesAssumption, BoundsAssumption DEF NoLease, Lease
<1>1. ASSUME NEW c \in Clients, NEW t \in Tasks, Get(c, t)
      PROVE  TypeOK'
  BY <1>1, AnsweredType DEF Get
<1>2. ASSUME NEW c \in Clients, NEW t \in Tasks, EditStep(c, t)
      PROVE  TypeOK'
  <2>1. tasks' \in [Tasks -> TaskRecord]
    BY <1>2, EditTasksType
  <2>2. /\ leases' \in [Tasks -> Lease] /\ now' = now /\ issued' = issued
        /\ token' = token /\ retitled' \subseteq Tasks /\ broken' = broken
        /\ Answered(c, t)
    BY <1>0, <1>2 DEF EditStep, Create, MarkMutationPending, Update, Close
  <2>3. view' \in [Clients -> [Tasks -> Version]]
    BY <2>1, <2>2, AnsweredType
  <2>4. QED
    BY <2>1, <2>2, <2>3
<1>3. ASSUME NEW c \in Clients, NEW t \in Tasks, CrashStep(c, t)
      PROVE  TypeOK'
  <2>1. tasks' \in [Tasks -> TaskRecord]
    BY <1>3, EditTasksType
  <2>2. QED
    BY <1>3, <2>1 DEF CrashStep, CloseCrashes
<1>4. ASSUME NEW c \in Clients, NEW t \in Tasks, RetryClose(c, t)
      PROVE  TypeOK'
  <2>1. [tasks[t] EXCEPT !.archived = TRUE] \in TaskRecord
    BY DEF TaskRecord
  <2>2. tasks' \in [Tasks -> TaskRecord] /\ leases' \in [Tasks -> Lease]
    BY <1>0, <1>4, <2>1 DEF RetryClose
  <2>3. view' \in [Clients -> [Tasks -> Version]]
    BY <1>4, <2>2, AnsweredType DEF RetryClose
  <2>4. QED
    BY <1>4, <2>2, <2>3 DEF RetryClose
<1>5. ASSUME NEW c \in Clients, NEW t \in Tasks, LeaseStep(c, t)
      PROVE  TypeOK'
  <2>1. ASSUME NEW seconds \in LeaseTimes, AcquireLease(c, t, seconds)
        PROVE  TypeOK'
    <3>1. issued' \in 0 .. MaxLeases /\ now + seconds \in Nat
      BY <1>0, <2>1, BoundsAssumption DEF AcquireLease
    <3>2. [id |-> issued', expires_at |-> now + seconds] \in Lease
      BY <3>1 DEF Lease
    <3>3. leases' \in [Tasks -> Lease] /\ token' \in [Clients -> [Tasks -> 0 .. MaxLeases]]
      BY <2>1, <3>1, <3>2 DEF AcquireLease
    <3>4. QED
      BY <2>1, <3>1, <3>3 DEF AcquireLease
  <2>2. ASSUME NEW seconds \in LeaseTimes, RefreshLease(c, t, seconds)
        PROVE  TypeOK'
    <3>1. now + seconds \in Nat
      BY <1>0
    <3>2. [leases[t] EXCEPT !.expires_at = now + seconds] \in Lease
      BY <3>1 DEF Lease
    <3>3. leases' \in [Tasks -> Lease]
      BY <2>2, <3>2 DEF RefreshLease
    <3>4. QED
      BY <2>2, <3>3 DEF RefreshLease
  <2>3. CASE ReleaseLease(c, t)
    BY <1>0, <2>3 DEF ReleaseLease
  <2>4. QED
    BY <1>5, <2>1, <2>2, <2>3 DEF LeaseStep
<1>6. ASSUME NEW t \in Tasks, Repair(t)
      PROVE  TypeOK'
  <2>1. [tasks[t] EXCEPT !.archived = TRUE] \in TaskRecord
    BY DEF TaskRecord
  <2>2. QED
    BY <1>0, <1>6, <2>1 DEF Repair
<1>7. ASSUME NEW S \in SUBSET Tasks, Cleanup(S)
      PROVE  TypeOK'
  <2>1. \A t \in Tasks : [tasks[t] EXCEPT !.status = "deleted"] \in TaskRecord
    BY DEF TaskRecord
  <2>2. QED
    BY <1>0, <1>7, <2>1 DEF Cleanup
<1>8. CASE Tick
  BY <1>8, BoundsAssumption DEF Tick
<1>9. CASE UNCHANGED vars
  BY <1>9 DEF vars
<1>10. CASE BrokenCreation
  BY <1>10 DEF BrokenCreation, CreateCrashes
<1>11. QED
  BY <1>1, <1>2, <1>3, <1>4, <1>5, <1>6, <1>7, <1>8, <1>9, <1>10, NextSteps

(* The initial state is typed.                                             *)
LEMMA TypeInit == Init => TypeOK
<1>1. NoLease \in Lease /\ 0 \in 0 .. MaxLeases /\ 1 \in 1 .. MaxTime
  BY BoundsAssumption DEF NoLease, Lease
<1>2. [record |-> NoTask, lease |-> 0] \in Version
  BY <1>1, BlankType DEF Version
<1>3. QED
  BY <1>1, <1>2, BlankType DEF Init, TypeOK

(* Type correctness of the Task store.                                     *)
THEOREM TaskTypeCorrect == Spec => []TypeOK
BY TypeInit, TypeStep, PTL DEF Spec
-----------------------------------------------------------------------------
(* The strengthening of StableUnderLease: lease ids are fresh numbers, no  *)
(* two clients were told the same one for a Task, and a Task that does not *)
(* exist has no lease.                                                     *)
LeaseInv ==
  /\ \A t \in Tasks : leases[t].id <= issued
  /\ \A t \in Tasks : tasks[t].status = "absent" => leases[t].id = 0
  /\ \A c \in Clients, t \in Tasks : token[c][t] <= issued /\ view[c][t].lease <= issued
  /\ \A c, d \in Clients, t \in Tasks :
       token[c][t] = token[d][t] /\ token[c][t] # 0 => c = d

StableInv == TypeOK /\ LeaseInv /\ StableUnderLease

(* The clauses of the invariant for one client and one Task.               *)
StableFor(d, t) ==
  OwnLease(d, t) # 0 /\ view[d][t].lease = OwnLease(d, t) =>
    view[d][t].record = tasks[t] \/ Closed(t)

(* What a client owns is bounded by the leases issued.                     *)
LEMMA OwnLeaseBound ==
  ASSUME TypeOK, LeaseInv, NEW c \in Clients, NEW t \in Tasks
  PROVE  OwnLease(c, t) \in Nat /\ OwnLease(c, t) <= issued
BY BoundsAssumption DEF TypeOK, LeaseInv, OwnLease, Lease

(* What an answer makes of the views.                                      *)
LEMMA AnsweredView ==
  ASSUME TypeOK, NEW c \in Clients, NEW t \in Tasks, Answered(c, t)
  PROVE  /\ view'[c][t].record = tasks'[t]
         /\ view'[c][t].lease = OwnLease(c, t)'
         /\ \A d \in Clients, u \in Tasks : d # c \/ u # t => view'[d][u] = view[d][u]
BY DEF Answered, TypeOK

(* A step on one Task leaves the others, and their readers, alone.         *)
LEMMA StableElsewhere ==
  ASSUME NEW d \in Clients, NEW t \in Tasks, StableFor(d, t), now' = now,
         tasks'[t] = tasks[t], leases'[t] = leases[t], token'[d][t] = token[d][t],
         view'[d][t] = view[d][t]
  PROVE  StableFor(d, t)'
BY DEF StableFor, OwnLease, ActiveLease, Closed

(* An edit leaves a Task that exists, and the others as they were.         *)
LEMMA EditShape ==
  ASSUME TypeOK, NEW c \in Clients, NEW t \in Tasks, EditStep(c, t) \/ CrashStep(c, t)
  PROVE  /\ tasks'[t].status \in {"open"} \cup Outcomes
         /\ \A u \in Tasks : u # t => tasks'[u] = tasks[u]
<1> USE DEF TypeOK
<1>1. ASSUME NEW content PROVE Edited(tasks[t], content).status = tasks[t].status
  BY DEF Edited, TaskRecord
<1>2. ASSUME NEW content, NEW outcome, NEW moved \in BOOLEAN
      PROVE  Closing(tasks[t], content, outcome, moved).status = outcome
  BY DEF Closing, Edited, TaskRecord
<1>3. CASE \E content \in Contents : Create(c, t, content)
  BY <1>3 DEF Create, NoTask
<1>4. CASE \/ MarkMutationPending(c, t)
           \/ \E expected \in Expected(c, t), content \in Contents, reconcile \in BOOLEAN :
                Update(c, t, expected, content, reconcile)
  BY <1>1, <1>4 DEF MarkMutationPending, Update, Open
<1>5. ASSUME NEW content \in Contents, NEW outcome \in Outcomes, NEW moved \in BOOLEAN,
             tasks' = [tasks EXCEPT ![t] = Closing(tasks[t], content, outcome, moved)]
      PROVE  /\ tasks'[t].status \in {"open"} \cup Outcomes
             /\ \A u \in Tasks : u # t => tasks'[u] = tasks[u]
  BY <1>2, <1>5
<1>6. QED
  BY <1>3, <1>4, <1>5 DEF EditStep, CrashStep, Close, CloseCrashes

(* Every step keeps the lease ids fresh.                                   *)
LEMMA LeaseStepInv ==
  ASSUME TypeOK, LeaseInv, TypeOK', [Next]_vars
  PROVE  LeaseInv'
<1>0. /\ issued \in Nat /\ issued' \in Nat
      /\ \A t \in Tasks : leases[t].id \in Nat /\ leases'[t].id \in Nat
      /\ \A c \in Clients, t \in Tasks : token[c][t] \in Nat /\ view[c][t].lease \in Nat
      /\ NoLease.id = 0
  BY BoundsAssumption DEF TypeOK, Lease, Version, NoLease
<1>1. ASSUME NEW c \in Clients, NEW t \in Tasks, Answered(c, t), issued' = issued,
             token' = token,
             leases' = leases \/ leases' = [leases EXCEPT ![t] = NoLease],
             \A u \in Tasks : tasks'[u].status = "absent" => tasks[u].status = "absent"
      PROVE  LeaseInv'
  <2>0. \A u \in Tasks : leases'[u] = leases[u] \/ leases'[u] = NoLease
    BY <1>1 DEF TypeOK
  <2>1. \A u \in Tasks : leases'[u].id <= issued'
                         /\ (tasks'[u].status = "absent" => leases'[u].id = 0)
    BY <1>0, <1>1, <2>0 DEF LeaseInv
  <2>2. OwnLease(c, t)' <= issued'
    BY <1>0, <2>1 DEF OwnLease
  <2>3. \A d \in Clients, u \in Tasks : view'[d][u].lease <= issued'
    BY <1>0, <1>1, <2>2, AnsweredView DEF LeaseInv
  <2>4. QED
    BY <1>0, <1>1, <2>1, <2>3 DEF LeaseInv
<1>2. ASSUME NEW c \in Clients, NEW t \in Tasks, Get(c, t)
      PROVE  LeaseInv'
  BY <1>1, <1>2 DEF Get
<1>3. ASSUME NEW c \in Clients, NEW t \in Tasks, EditStep(c, t)
      PROVE  LeaseInv'
  <2>1. \A u \in Tasks : tasks'[u].status = "absent" => tasks[u].status = "absent"
    BY <1>3, EditShape DEF Outcomes
  <2>2. QED
    BY <1>1, <1>3, <2>1 DEF EditStep, Create, MarkMutationPending, Update, Close
<1>4. ASSUME NEW c \in Clients, NEW t \in Tasks, RetryClose(c, t)
      PROVE  LeaseInv'
  <2>1. \A u \in Tasks : tasks'[u].status = "absent" => tasks[u].status = "absent"
    BY <1>4 DEF RetryClose, TypeOK, TaskRecord
  <2>2. QED
    BY <1>1, <1>4, <2>1 DEF RetryClose
<1>5. ASSUME NEW c \in Clients, NEW t \in Tasks, CrashStep(c, t)
      PROVE  LeaseInv'
  <2>1. \A u \in Tasks : tasks'[u].status = "absent" => tasks[u].status = "absent"
    BY <1>5, EditShape DEF Outcomes
  <2>2. QED
    BY <1>5, <2>1 DEF CrashStep, CloseCrashes, LeaseInv
<1>6. ASSUME NEW c \in Clients, NEW t \in Tasks, NEW seconds \in LeaseTimes,
             AcquireLease(c, t, seconds)
      PROVE  LeaseInv'
  <2>1. /\ issued' = issued + 1 /\ tasks' = tasks /\ view' = view
        /\ leases'[t].id = issued + 1
        /\ \A u \in Tasks : u # t => leases'[u] = leases[u]
        /\ token'[c][t] = issued + 1
        /\ \A d \in Clients, u \in Tasks : d # c \/ u # t => token'[d][u] = token[d][u]
        /\ tasks[t].status = "open"
    BY <1>6 DEF AcquireLease, Open, TypeOK
  <2>2. QED
    BY <1>0, <2>1 DEF LeaseInv
<1>7. ASSUME NEW c \in Clients, NEW t \in Tasks, NEW seconds \in LeaseTimes,
             RefreshLease(c, t, seconds)
      PROVE  LeaseInv'
  <2>1. \A u \in Tasks : leases'[u].id = leases[u].id
    BY <1>7 DEF RefreshLease, TypeOK, Lease
  <2>2. QED
    BY <1>7, <2>1 DEF RefreshLease, LeaseInv
<1>8. ASSUME NEW c \in Clients, NEW t \in Tasks, ReleaseLease(c, t)
      PROVE  LeaseInv'
  BY <1>0, <1>8 DEF ReleaseLease, LeaseInv, TypeOK
<1>9. ASSUME NEW t \in Tasks, Repair(t)
      PROVE  LeaseInv'
  <2>1. \A u \in Tasks : tasks'[u].status = tasks[u].status
    BY <1>9 DEF Repair, TypeOK, TaskRecord
  <2>2. \A u \in Tasks : leases'[u].id = leases[u].id \/ leases'[u].id = 0
    BY <1>0, <1>9 DEF Repair, TypeOK
  <2>3. QED
    BY <1>0, <1>9, <2>1, <2>2 DEF Repair, LeaseInv
<1>10. ASSUME NEW S \in SUBSET Tasks, Cleanup(S)
       PROVE  LeaseInv'
  <2>1. \A u \in Tasks : tasks'[u].status = tasks[u].status \/ tasks'[u].status = "deleted"
    BY <1>10 DEF Cleanup, TypeOK, TaskRecord
  <2>2. \A u \in Tasks : leases'[u].id = leases[u].id \/ leases'[u].id = 0
    BY <1>0, <1>10 DEF Cleanup
  <2>3. QED
    BY <1>0, <1>10, <2>1, <2>2 DEF Cleanup, LeaseInv
<1>11. CASE Tick \/ BrokenCreation \/ UNCHANGED vars
  BY <1>11 DEF Tick, BrokenCreation, CreateCrashes, vars, LeaseInv
<1>12. QED
  BY <1>2, <1>3, <1>4, <1>5, <1>6, <1>7, <1>8, <1>9, <1>10, <1>11, NextSteps DEF LeaseStep

(* Two clients never own the lease of one Task.                            *)
LEMMA OneOwner ==
  ASSUME TypeOK, LeaseInv, NEW c \in Clients, NEW d \in Clients, NEW t \in Tasks,
         OwnLease(c, t) # 0, OwnLease(d, t) # 0
  PROVE  c = d
BY DEF LeaseInv, OwnLease, ActiveLease

(* An answered step on a Task whose lease is gone afterwards, or was the   *)
(* caller's or nobody's, keeps every reader's view of it.                  *)
LEMMA StableAnswer ==
  ASSUME StableInv, NEW c \in Clients, NEW t \in Tasks, Answered(c, t),
         now' = now, token' = token, leases'[t] = leases[t], Authorized(c, t),
         NEW d \in Clients
  PROVE  StableFor(d, t)'
<1>1. CASE d = c
  BY <1>1, AnsweredView DEF StableFor, StableInv
<1>2. CASE d # c
  <2>1. OwnLease(d, t)' = OwnLease(d, t)
    BY DEF OwnLease, ActiveLease
  <2>2. OwnLease(d, t) = 0
    BY <1>2, OneOwner DEF StableInv, Authorized, OwnLease, ActiveLease
  <2>3. QED
    BY <2>1, <2>2 DEF StableFor
<1>3. QED
  BY <1>1, <1>2

(* Every step keeps what the holder of a lease knows true.                 *)
LEMMA StableStep ==
  ASSUME StableInv, TypeOK', [Next]_vars
  PROVE  StableUnderLease'
<1> USE DEF StableInv
<1>0. /\ \A d \in Clients, t \in Tasks : StableFor(d, t)
      /\ NoLease.id = 0
  BY DEF StableUnderLease, StableFor, NoLease
<1> SUFFICES ASSUME NEW d \in Clients, NEW t \in Tasks
             PROVE  StableFor(d, t)'
  BY DEF StableUnderLease, StableFor
<1>1. ASSUME leases'[t] = NoLease PROVE StableFor(d, t)'
  BY <1>0, <1>1 DEF StableFor, OwnLease, ActiveLease
<1>2. ASSUME UNCHANGED <<tasks, leases, now, token, view>> PROVE StableFor(d, t)'
  BY <1>0, <1>2, StableElsewhere
<1>3. ASSUME NEW c \in Clients, NEW u \in Tasks,
             Get(c, u) \/ EditStep(c, u) \/ RetryClose(c, u)
      PROVE  StableFor(d, t)'
  <2>1. /\ Answered(c, u) /\ now' = now /\ token' = token
        /\ \A v \in Tasks : v # u => tasks'[v] = tasks[v] /\ leases'[v] = leases[v]
    BY <1>3, EditShape DEF Get, EditStep, Create, MarkMutationPending, Update, Close,
       RetryClose, TypeOK
  <2>2. CASE u # t
    BY <1>0, <2>1, <2>2, AnsweredView, StableElsewhere
  <2>3. CASE u = t /\ leases'[t] = NoLease
    BY <1>1, <2>3
  <2>4. CASE u = t /\ Get(c, u)
    BY <1>0, <2>1, <2>4, AnsweredView DEF Get, StableFor, OwnLease, ActiveLease, Closed
  <2>5. CASE u = t /\ EditStep(c, u) /\ leases'[t] # NoLease
    <3>1. ASSUME NEW content \in Contents, Create(c, t, content)
          PROVE  StableFor(d, t)'
      <4>1. leases'[t].id = 0
        BY <3>1 DEF Create, NoTask, LeaseInv
      <4>2. QED
        BY <4>1 DEF StableFor, OwnLease, ActiveLease
    <3>2. CASE MarkMutationPending(c, t)
      BY <2>1, <2>5, <3>2, StableAnswer DEF MarkMutationPending
    <3>3. ASSUME NEW expected \in Expected(c, t), NEW content \in Contents,
                 NEW reconcile \in BOOLEAN, Update(c, t, expected, content, reconcile)
          PROVE  StableFor(d, t)'
      BY <2>1, <2>5, <3>3, StableAnswer DEF Update
    <3>4. QED
      BY <2>5, <3>1, <3>2, <3>3 DEF EditStep, Close, TypeOK
  <2>6. QED
    BY <1>3, <2>2, <2>3, <2>4, <2>5 DEF RetryClose, TypeOK
<1>4. ASSUME NEW c \in Clients, NEW u \in Tasks, CrashStep(c, u)
      PROVE  StableFor(d, t)'
  <2>1. /\ UNCHANGED <<leases, now, token, view>>
        /\ \A v \in Tasks : v # u => tasks'[v] = tasks[v]
    BY <1>4, EditShape DEF CrashStep, CloseCrashes
  <2>2. CASE u # t
    BY <1>0, <2>1, <2>2, StableElsewhere
  <2>3. CASE u = t
    <3>1. Closed(t)'
      <4>1. ASSUME NEW content \in Contents, NEW outcome \in Outcomes,
                   NEW moved \in BOOLEAN,
                   tasks' = [tasks EXCEPT ![t] = Closing(tasks[t], content, outcome, moved)]
            PROVE  Closed(t)'
        BY <4>1 DEF Closed, Closing, Edited, TypeOK, TaskRecord
      <4>2. QED
        BY <1>4, <2>3, <4>1 DEF CrashStep, CloseCrashes
    <3>2. QED
      BY <3>1 DEF StableFor
  <2>4. QED
    BY <2>2, <2>3
<1>5. ASSUME NEW c \in Clients, NEW u \in Tasks, NEW seconds \in LeaseTimes,
             AcquireLease(c, u, seconds)
      PROVE  StableFor(d, t)'
  <2>1. /\ UNCHANGED <<tasks, now, view>> /\ issued \in Nat
        /\ leases'[u].id = issued + 1
        /\ \A v \in Tasks : v # u => leases'[v] = leases[v]
        /\ token'[c][u] = issued + 1
        /\ \A e \in Clients, v \in Tasks : e # c \/ v # u => token'[e][v] = token[e][v]
    BY <1>5, BoundsAssumption DEF AcquireLease, TypeOK
  <2>2. CASE u # t
    BY <1>0, <2>1, <2>2, StableElsewhere
  <2>3. CASE u = t
    <3>1. view[d][t].lease # issued + 1 /\ token[d][t] # issued + 1
      BY <2>1 DEF LeaseInv, TypeOK, Version
    <3>2. OwnLease(d, t)' = 0 \/ OwnLease(d, t)' = issued + 1
      BY <2>1, <2>3 DEF OwnLease
    <3>3. QED
      BY <2>1, <3>1, <3>2 DEF StableFor
  <2>4. QED
    BY <2>2, <2>3
<1>6. ASSUME NEW c \in Clients, NEW u \in Tasks, NEW seconds \in LeaseTimes,
             RefreshLease(c, u, seconds)
      PROVE  StableFor(d, t)'
  <2>1. /\ UNCHANGED <<tasks, now, token, view>>
        /\ leases'[u].id = leases[u].id
        /\ \A v \in Tasks : v # u => leases'[v] = leases[v]
        /\ ActiveLease(u)
    BY <1>6 DEF RefreshLease, OwnLease, TypeOK, Lease
  <2>2. CASE u # t
    BY <1>0, <2>1, <2>2, StableElsewhere
  <2>3. CASE u = t
    BY <1>0, <2>1, <2>3 DEF StableFor, OwnLease, ActiveLease, Closed
  <2>4. QED
    BY <2>2, <2>3
<1>7. ASSUME NEW c \in Clients, NEW u \in Tasks, ReleaseLease(c, u)
      PROVE  StableFor(d, t)'
  <2>1. UNCHANGED <<tasks, now, token, view>>
        /\ \A v \in Tasks : IF v = u THEN leases'[v] = NoLease ELSE leases'[v] = leases[v]
    BY <1>7 DEF ReleaseLease, TypeOK
  <2>2. QED
    BY <1>0, <1>1, <2>1, StableElsewhere
<1>8. ASSUME NEW u \in Tasks, Repair(u)
      PROVE  StableFor(d, t)'
  <2>1. UNCHANGED <<now, token, view>>
        /\ \A v \in Tasks : IF v = u THEN leases'[v] = NoLease
                            ELSE leases'[v] = leases[v] /\ tasks'[v] = tasks[v]
    BY <1>8 DEF Repair, TypeOK
  <2>2. QED
    BY <1>0, <1>1, <2>1, StableElsewhere
<1>9. ASSUME NEW S \in SUBSET Tasks, Cleanup(S)
      PROVE  StableFor(d, t)'
  <2>1. UNCHANGED <<now, token, view>>
        /\ \A v \in Tasks : IF v \in S THEN leases'[v] = NoLease
                            ELSE leases'[v] = leases[v] /\ tasks'[v] = tasks[v]
    BY <1>9 DEF Cleanup
  <2>2. QED
    BY <1>0, <1>1, <2>1, StableElsewhere
<1>10. CASE Tick
  <2>1. UNCHANGED <<tasks, leases, token, view>> /\ now' = now + 1 /\ now \in Nat
        /\ leases[t].expires_at \in Nat
    BY <1>10, BoundsAssumption DEF Tick, TypeOK, Lease
  <2>2. QED
    BY <1>0, <2>1 DEF StableFor, OwnLease, ActiveLease, Closed
<1>11. CASE BrokenCreation \/ UNCHANGED vars
  BY <1>2, <1>11 DEF BrokenCreation, CreateCrashes, vars
<1>12. QED
  BY <1>3, <1>4, <1>5, <1>6, <1>7, <1>8, <1>9, <1>10, <1>11, NextSteps DEF LeaseStep

(* The initial state, where nobody holds anything.                         *)
LEMMA StableInit == Init => StableInv
<1> SUFFICES ASSUME Init PROVE StableInv
  OBVIOUS
<1>1. TypeOK
  BY TypeInit
<1>2. \A t \in Tasks : leases[t].id = 0
  BY DEF Init, NoLease
<1>3. LeaseInv
  BY <1>2 DEF Init, LeaseInv
<1>4. StableUnderLease
  BY <1>2 DEF StableUnderLease, OwnLease, ActiveLease
<1>5. QED
  BY <1>1, <1>3, <1>4 DEF StableInv

(* The strengthened invariant holds.                                       *)
LEMMA StableInvariant == Spec => []StableInv
<1>1. StableInv /\ [Next]_vars => StableInv'
  BY TypeStep, LeaseStepInv, StableStep DEF StableInv
<1>2. QED
  BY <1>1, StableInit, PTL DEF Spec

(* What a client read under its lease stays true for as long as it holds   *)
(* that lease (tasks.py:428-449).                                          *)
THEOREM LeaseHolderIsUndisturbed == Spec => []StableUnderLease
<1>1. StableInv => StableUnderLease
  BY DEF StableInv
<1>2. QED
  BY <1>1, StableInvariant, PTL
-----------------------------------------------------------------------------
(* While t carries no lease nobody holds one; under a lease that c may act *)
(* on, nobody but c does.                                                  *)
LEMMA HoldersOfLease ==
  ASSUME TypeOK, LeaseInv, NEW t \in Tasks
  PROVE  /\ ~ActiveLease(t) => Holders(t) = {}
         /\ \A c \in Clients : Authorized(c, t) => Holders(t) \subseteq {c}
<1>1. ~ActiveLease(t) => Holders(t) = {}
  BY DEF Holders, OwnLease
<1>2. ASSUME NEW c \in Clients, Authorized(c, t), NEW d \in Holders(t)
      PROVE  d = c
  <2>1. OwnLease(d, t) # 0 /\ OwnLease(c, t) # 0
    BY <1>2 DEF Holders, OwnLease, ActiveLease, Authorized
  <2>2. QED
    BY <1>2, <2>1, OneOwner DEF Holders
<1>3. QED
  BY <1>1, <1>2

(* A step that spares the lease of t, the clock and the ids the clients    *)
(* know keeps the holders of t; one that removes the lease frees t.        *)
LEMMA HoldersAfter ==
  ASSUME NEW t \in Tasks
  PROVE  /\ leases'[t] = leases[t] /\ UNCHANGED <<now, token>> => Holders(t)' = Holders(t)
         /\ leases'[t] = NoLease => Holders(t)' = {}
BY DEF Holders, OwnLease, ActiveLease, NoLease

(* A step that leaves every status, content and holder alone is a stutter. *)
LEMMA SameIsStutter ==
  ASSUME \A t \in Tasks : /\ tasks'[t].status = tasks[t].status
                          /\ tasks'[t].content = tasks[t].content
                          /\ Holders(t)' = Holders(t)
  PROVE  UNCHANGED Lifecycle!vars
BY DEF Lifecycle!vars, Pending, Stage

(* A step that changes one Task changes the abstract state of that Task.   *)
LEMMA OneTaskMaps ==
  ASSUME NEW t \in Tasks,
         \A u \in Tasks : u # t => tasks'[u] = tasks[u] /\ Holders(u)' = Holders(u)
  PROVE  /\ [u \in Tasks |-> Stage(u)]' =
              [[u \in Tasks |-> Stage(u)] EXCEPT ![t] = Stage(t)']
         /\ {u \in Tasks : Pending(u)}' =
              IF Pending(t)' THEN {u \in Tasks : Pending(u)} \cup {t}
                             ELSE {u \in Tasks : Pending(u)} \ {t}
         /\ {u \in Tasks : tasks[u].content.retained}' =
              IF tasks'[t].content.retained
              THEN {u \in Tasks : tasks[u].content.retained} \cup {t}
              ELSE {u \in Tasks : tasks[u].content.retained} \ {t}
         /\ [u \in Tasks |-> Holders(u)]' =
              [[u \in Tasks |-> Holders(u)] EXCEPT ![t] = Holders(t)']
<1>1. \A u \in Tasks : u # t => Stage(u)' = Stage(u) /\ Pending(u)' = Pending(u)
  BY DEF Stage, Pending
<1>2. QED
  BY <1>1

(* A step that spares all records, and the leases outside S, gives back    *)
(* the leases of S.                                                        *)
LEMMA LeasesExpire ==
  ASSUME NEW S \in SUBSET Tasks, \A t \in Tasks : Holders(t)' =
           IF t \in S THEN {} ELSE Holders(t),
         \A t \in Tasks : /\ tasks'[t].status = tasks[t].status
                          /\ tasks'[t].content = tasks[t].content
  PROVE  Lifecycle!Expire(S)
<1>1. /\ [t \in Tasks |-> Stage(t)]' = [t \in Tasks |-> Stage(t)]
      /\ {t \in Tasks : Pending(t)}' = {t \in Tasks : Pending(t)}
      /\ {t \in Tasks : tasks[t].content.retained}' =
           {t \in Tasks : tasks[t].content.retained}
  BY DEF Pending, Stage
<1>2. [t \in Tasks |-> Holders(t)]' =
        [t \in Tasks |-> IF t \in S THEN {} ELSE [u \in Tasks |-> Holders(u)][t]]
  OBVIOUS
<1>3. QED
  BY <1>1, <1>2 DEF Lifecycle!Expire

(* A creation opens a Task.                                                *)
LEMMA CreateOpens ==
  ASSUME TypeOK, NEW c \in Clients, NEW t \in Tasks, NEW content \in Contents,
         Create(c, t, content)
  PROVE  Lifecycle!Open(t)
<1>1. /\ tasks[t] = NoTask
      /\ tasks'[t].status = "open"
      /\ \A u \in Tasks : u # t => tasks'[u] = tasks[u]
  BY DEF Create, TypeOK, NoTask
<1>2. ~Pending(t) /\ ~tasks[t].content.retained /\ Stage(t) = "none" /\ Stage(t)' = "open"
  BY <1>1 DEF Pending, Stage, NoTask, Blank
<1>3. \A u \in Tasks : Holders(u)' = Holders(u)
  BY HoldersAfter DEF Create
<1>4. QED
  BY <1>1, <1>2, <1>3, OneTaskMaps DEF Lifecycle!Open

(* A mutation mark or an update is work on an open Task.                   *)
LEMMA EditWorks ==
  ASSUME TypeOK, LeaseInv, NEW c \in Clients, NEW t \in Tasks, NEW content,
         Open(t), Authorized(c, t), UNCHANGED <<leases, now, token>>,
         tasks' = [tasks EXCEPT ![t] = Edited(tasks[t], content)]
  PROVE  Lifecycle!Work(c, t)
<1>1. /\ tasks'[t].status = "open"
      /\ \A u \in Tasks : u # t => tasks'[u] = tasks[u]
  BY DEF Edited, Open, TypeOK, TaskRecord
<1>2. Stage(t) = "open" /\ Stage(t)' = "open"
  BY <1>1 DEF Stage, Open
<1>3. \A u \in Tasks : Holders(u)' = Holders(u)
  BY HoldersAfter
<1>4. Holders(t) \subseteq {c}
  BY HoldersOfLease
<1>5. Lifecycle!MayWork(c, t)
  BY <1>2, <1>4 DEF Lifecycle!MayWork
<1>6. /\ {u \in Tasks : Pending(u)}' \in
           {{u \in Tasks : Pending(u)} \cup {t}, {u \in Tasks : Pending(u)} \ {t}}
      /\ {u \in Tasks : tasks[u].content.retained}' \in
           {{u \in Tasks : tasks[u].content.retained} \cup {t},
            {u \in Tasks : tasks[u].content.retained} \ {t}}
      /\ [u \in Tasks |-> Stage(u)]' = [u \in Tasks |-> Stage(u)]
  BY <1>1, <1>2, <1>3, OneTaskMaps
<1>7. [u \in Tasks |-> Holders(u)]' = [u \in Tasks |-> Holders(u)]
  BY <1>3
<1>8. QED
  BY <1>5, <1>6, <1>7 DEF Lifecycle!Work

(* A close closes, whole or cut short.                                     *)
LEMMA FinalCloses ==
  ASSUME TypeOK, LeaseInv, NEW c \in Clients, NEW t \in Tasks, NEW expected,
         NEW content \in Contents, NEW outcome \in Outcomes, NEW moved \in BOOLEAN,
         Final(c, t, expected, content, outcome), UNCHANGED <<now, token>>,
         leases' \in {leases, [leases EXCEPT ![t] = NoLease]},
         tasks' = [tasks EXCEPT ![t] = Closing(tasks[t], content, outcome, moved)]
  PROVE  Lifecycle!Close(c, t)
<1>1. /\ tasks'[t].status = outcome
      /\ tasks'[t].content = content
      /\ \A u \in Tasks : u # t => tasks'[u] = tasks[u]
  BY DEF Closing, Edited, TypeOK, TaskRecord
<1>2. Stage(t) = "open" /\ Stage(t)' = outcome
  BY <1>1 DEF Stage, Final, Open, Outcomes
<1>3. ~Pending(t) /\ ~Pending(t)'
  BY <1>1 DEF Final, Pending
<1>4. /\ \A u \in Tasks : u # t => Holders(u)' = Holders(u)
      /\ Holders(t)' = Holders(t) \/ Holders(t)' = {}
  BY HoldersAfter DEF TypeOK
<1>5. Holders(t) \subseteq {c}
  BY HoldersOfLease DEF Final
<1>6. [u \in Tasks |-> Holders(u)]' \in
        {[u \in Tasks |-> Holders(u)], [[u \in Tasks |-> Holders(u)] EXCEPT ![t] = {}]}
  BY <1>4
<1>7. Lifecycle!MayWork(c, t)
  BY <1>2, <1>5 DEF Lifecycle!MayWork
<1>8. [u \in Tasks |-> Stage(u)]' = [[u \in Tasks |-> Stage(u)] EXCEPT ![t] = outcome]
  BY <1>1, <1>2, <1>4, OneTaskMaps
<1>9. {u \in Tasks : tasks[u].content.retained}' \in
        {{u \in Tasks : tasks[u].content.retained} \cup {t},
         {u \in Tasks : tasks[u].content.retained} \ {t}}
  BY <1>1, <1>4, OneTaskMaps
<1>10. {u \in Tasks : Pending(u)}' = {u \in Tasks : Pending(u)}
  <2>1. \A u \in Tasks : Pending(u)' <=> Pending(u)
    BY <1>1, <1>3 DEF Pending
  <2>2. QED
    BY <2>1
<1>11. QED
  BY <1>3, <1>6, <1>7, <1>8, <1>9, <1>10 DEF Lifecycle!Close

(* A lease goes to a Task that nobody holds, and to nobody else.           *)
LEMMA AcquireMaps ==
  ASSUME TypeOK, LeaseInv, NEW c \in Clients, NEW t \in Tasks, NEW seconds \in LeaseTimes,
         AcquireLease(c, t, seconds)
  PROVE  Lifecycle!Acquire(c, t)
<1>0. now \in Nat /\ issued \in Nat /\ seconds \in Nat /\ seconds > 0
  BY TimesAssumption, BoundsAssumption DEF TypeOK
<1>1. /\ tasks' = tasks
      /\ leases'[t] = [id |-> issued + 1, expires_at |-> now + seconds]
      /\ \A u \in Tasks : u # t => leases'[u] = leases[u]
      /\ token'[c][t] = issued + 1
      /\ \A d \in Clients, u \in Tasks : d # c \/ u # t => token'[d][u] = token[d][u]
      /\ now' = now
  BY DEF AcquireLease, TypeOK
<1>2. \A u \in Tasks : u # t => Holders(u)' = Holders(u)
  BY <1>1 DEF Holders, OwnLease, ActiveLease
<1>3. \A d \in Clients : token[d][t] \in Nat /\ token[d][t] <= issued
  BY BoundsAssumption DEF LeaseInv, TypeOK
<1>4. ActiveLease(t)' /\ leases'[t].id = issued + 1
  BY <1>0, <1>1 DEF ActiveLease
<1>5. Holders(t)' = {c}
  BY <1>0, <1>1, <1>3, <1>4 DEF Holders, OwnLease
<1>6. Holders(t) = {}
  BY HoldersOfLease DEF AcquireLease
<1>7. Stage(t) = "open"
  BY DEF AcquireLease, Open, Stage
<1>8. QED
  BY <1>1, <1>2, <1>5, <1>6, <1>7, OneTaskMaps DEF Lifecycle!Acquire, Stage, Pending

(* The passing of time ends the leases that are no longer active.          *)
LEMMA TickExpires ==
  ASSUME TypeOK, Tick
  PROVE  \E S \in SUBSET Tasks : Lifecycle!Expire(S)
<1> DEFINE S == {t \in Tasks : ~ActiveLease(t)'}
<1>1. \A t \in Tasks : leases[t].expires_at \in Nat /\ now \in Nat
  BY BoundsAssumption DEF TypeOK, Lease
<1>2. \A t \in Tasks \ S : ActiveLease(t)
  BY <1>1 DEF Tick, ActiveLease
<1>3. \A t \in Tasks : Holders(t)' = IF t \in S THEN {} ELSE Holders(t)
  BY <1>2 DEF Tick, Holders, OwnLease
<1>4. tasks' = tasks
  BY DEF Tick
<1> HIDE DEF S
<1>5. S \in SUBSET Tasks
  BY DEF S
<1>6. QED
  BY <1>3, <1>4, <1>5, LeasesExpire

(* Retention erases closed Tasks that nobody retained.                     *)
LEMMA CleanupErases ==
  ASSUME TypeOK, NEW S \in SUBSET Tasks, Cleanup(S)
  PROVE  Lifecycle!Erase(S)
<1>1. \A t \in S : /\ tasks'[t].status = "deleted"
                   /\ tasks'[t].content = tasks[t].content
  BY DEF Cleanup, TypeOK, TaskRecord
<1>2. \A t \in Tasks \ S : tasks'[t] = tasks[t]
  BY DEF Cleanup
<1>3. \A t \in S : Stage(t) \in Outcomes /\ ~tasks[t].content.retained
  BY DEF Cleanup, Expired, Closed, Stage, Outcomes
<1>4. [t \in Tasks |-> Stage(t)]' =
        [t \in Tasks |-> IF t \in S THEN "erased" ELSE [u \in Tasks |-> Stage(u)][t]]
  BY <1>1, <1>2 DEF Stage
<1>5. /\ {t \in Tasks : Pending(t)}' = {t \in Tasks : Pending(t)}
      /\ {t \in Tasks : tasks[t].content.retained}' =
           {t \in Tasks : tasks[t].content.retained}
  BY <1>1, <1>2 DEF Pending
<1>6. \A t \in Tasks : Holders(t)' = IF t \in S THEN {} ELSE Holders(t)
  BY HoldersAfter DEF Cleanup
<1>7. [t \in Tasks |-> Holders(t)]' =
        [t \in Tasks |-> IF t \in S THEN {} ELSE [u \in Tasks |-> Holders(u)][t]]
  BY <1>6
<1>8. QED
  BY <1>3, <1>4, <1>5, <1>7 DEF Lifecycle!Erase

(* A retried close, a repair and a release free one Task.                  *)
LEMMA LeaseRemoved ==
  ASSUME TypeOK, NEW t \in Tasks, leases' = [leases EXCEPT ![t] = NoLease],
         UNCHANGED <<now, token>>,
         tasks' = tasks \/ tasks' = [tasks EXCEPT ![t].archived = TRUE]
  PROVE  Lifecycle!Expire({t})
<1>1. \A u \in Tasks : /\ tasks'[u].status = tasks[u].status
                       /\ tasks'[u].content = tasks[u].content
  BY DEF TypeOK, TaskRecord
<1>2. \A u \in Tasks : Holders(u)' = IF u \in {t} THEN {} ELSE Holders(u)
  BY HoldersAfter DEF TypeOK
<1>3. QED
  BY <1>1, <1>2, LeasesExpire

(* A refreshed lease keeps its holder.                                     *)
LEMMA RefreshKeepsHolders ==
  ASSUME TypeOK, NEW c \in Clients, NEW t \in Tasks, NEW seconds \in LeaseTimes,
         RefreshLease(c, t, seconds), NEW u \in Tasks
  PROVE  Holders(u)' = Holders(u)
<1>1. now \in Nat /\ now + seconds > now
  BY TimesAssumption, BoundsAssumption DEF TypeOK
<1>2. leases'[u].id = leases[u].id /\ (ActiveLease(u)' <=> ActiveLease(u))
  BY <1>1 DEF RefreshLease, OwnLease, ActiveLease, TypeOK, Lease
<1>3. QED
  BY <1>2 DEF RefreshLease, Holders, OwnLease

(* Every step maps to a step of the life cycle or a stutter.               *)
LEMMA TaskStepMaps ==
  ASSUME TypeOK, LeaseInv, [Next]_vars
  PROVE  [Lifecycle!Next]_Lifecycle!vars
<1>1. ASSUME NEW c \in Clients, NEW t \in Tasks, EditStep(c, t)
      PROVE  Lifecycle!Next
  <2>1. ASSUME NEW content \in Contents, Create(c, t, content)
        PROVE  Lifecycle!Next
    BY <2>1, CreateOpens DEF Lifecycle!Next
  <2>2. CASE MarkMutationPending(c, t)
    BY <2>2, EditWorks DEF MarkMutationPending, Lifecycle!Next
  <2>3. ASSUME NEW expected \in Expected(c, t), NEW content \in Contents,
               NEW reconcile \in BOOLEAN, Update(c, t, expected, content, reconcile)
        PROVE  Lifecycle!Next
    BY <2>3, EditWorks DEF Update, Lifecycle!Next
  <2>4. ASSUME NEW expected \in Expected(c, t), NEW content \in Contents,
               NEW outcome \in Outcomes, Close(c, t, expected, content, outcome)
        PROVE  Lifecycle!Next
    BY <2>4, FinalCloses DEF Close, Lifecycle!Next
  <2>5. QED
    BY <1>1, <2>1, <2>2, <2>3, <2>4 DEF EditStep
<1>2. ASSUME NEW c \in Clients, NEW t \in Tasks, CrashStep(c, t)
      PROVE  Lifecycle!Next
  BY <1>2, FinalCloses DEF CrashStep, CloseCrashes, Lifecycle!Next
<1>3. ASSUME NEW t \in Tasks, Lifecycle!Expire({t})
      PROVE  Lifecycle!Next
  BY <1>3 DEF Lifecycle!Next
<1>4. ASSUME NEW c \in Clients, NEW t \in Tasks,
             RetryClose(c, t) \/ ReleaseLease(c, t) \/ Repair(t)
      PROVE  Lifecycle!Next
  BY <1>3, <1>4, LeaseRemoved DEF RetryClose, ReleaseLease, Repair
<1>5. ASSUME tasks' = tasks, \A t \in Tasks : Holders(t)' = Holders(t)
      PROVE  UNCHANGED Lifecycle!vars
  BY <1>5, SameIsStutter
<1>6. ASSUME UNCHANGED <<tasks, leases, now, token>>
      PROVE  UNCHANGED Lifecycle!vars
  BY <1>5, <1>6, HoldersAfter
<1>7. ASSUME NEW c \in Clients, NEW t \in Tasks, Get(c, t) \/ LeaseStep(c, t)
      PROVE  [Lifecycle!Next]_Lifecycle!vars
  <2>1. ASSUME NEW seconds \in LeaseTimes, AcquireLease(c, t, seconds)
        PROVE  Lifecycle!Next
    BY <2>1, AcquireMaps DEF Lifecycle!Next
  <2>2. ASSUME NEW seconds \in LeaseTimes, RefreshLease(c, t, seconds)
        PROVE  UNCHANGED Lifecycle!vars
    BY <1>5, <2>2, RefreshKeepsHolders DEF RefreshLease
  <2>3. CASE Get(c, t)
    BY <1>6, <2>3 DEF Get
  <2>4. QED
    BY <1>4, <1>7, <2>1, <2>2, <2>3 DEF LeaseStep
<1>8. ASSUME NEW S \in SUBSET Tasks, Cleanup(S)
      PROVE  Lifecycle!Next
  BY <1>8, CleanupErases DEF Lifecycle!Next
<1>9. CASE Tick
  BY <1>9, TickExpires DEF Lifecycle!Next
<1>10. CASE BrokenCreation \/ UNCHANGED vars
  BY <1>10, <1>6 DEF BrokenCreation, CreateCrashes, vars
<1>11. ASSUME NEW t \in Tasks, Repair(t)
       PROVE  Lifecycle!Next
  BY <1>3, <1>11, LeaseRemoved DEF Repair
<1>12. QED
  BY <1>1, <1>2, <1>4, <1>7, <1>8, <1>9, <1>10, <1>11, NextSteps

(* The empty store is the initial state of the life cycle.                 *)
LEMMA TaskInitMaps == Init => Lifecycle!Init
<1> SUFFICES ASSUME Init PROVE Lifecycle!Init
  OBVIOUS
<1>1. /\ NoTask.status = "absent"
      /\ NoTask.content.blockers = {}
      /\ NoTask.content.retained = FALSE
      /\ NoLease.id = 0
  BY DEF NoTask, Blank, NoLease
<1>2. \A t \in Tasks : tasks[t] = NoTask /\ leases[t] = NoLease
  BY DEF Init
<1>3. \A t \in Tasks : Stage(t) = "none" /\ ~Pending(t) /\ ~tasks[t].content.retained
  BY <1>1, <1>2 DEF Stage, Pending
<1>4. \A t \in Tasks : Holders(t) = {}
  BY <1>1, <1>2 DEF Holders, OwnLease, ActiveLease
<1>5. QED
  BY <1>3, <1>4 DEF Lifecycle!Init

(* A Task closes once, for good, never over an unreconciled mutation, by   *)
(* whatever mix of update, close, retry, crash, repair, expiry and         *)
(* retention; its lease passes on only through a time when nobody holds    *)
(* it; and only an unretained closed Task is erased (tasks.py:428-482,     *)
(* 855-1209).                                                              *)
THEOREM TaskStoreImplementsLifecycle == Spec => ImplementsLifecycle
<1>1. StableInv /\ [Next]_vars => [Lifecycle!Next]_Lifecycle!vars
  BY TaskStepMaps DEF StableInv
<1>2. QED
  BY <1>1, TaskInitMaps, StableInvariant, PTL DEF Spec, ImplementsLifecycle, Lifecycle!Spec
-----------------------------------------------------------------------------
(* A client's version is what the Task is or was: it has no later revision.*)
ViewsLag ==
  \A c \in Clients, t \in Tasks : view[c][t].record.revision <= tasks[t].revision

(* Who has read a Task under its present revision has read its present     *)
(* content; only the directory may differ.                                 *)
RevisionNamesContent ==
  \A c \in Clients, t \in Tasks :
    view[c][t].record.revision = tasks[t].revision /\ tasks[t].status # "deleted" =>
      /\ view[c][t].record.content = tasks[t].content
      /\ view[c][t].record.status = tasks[t].status

VersionInv == TypeOK /\ ViewsLag /\ RevisionNamesContent

(* What a step does to a Task: it leaves revision, content and status as   *)
(* they are unless it erases the Task, or writes the next revision.        *)
Kept(t) ==
  /\ tasks'[t].revision = tasks[t].revision
  /\ tasks'[t].content = tasks[t].content
  /\ tasks'[t].status \in {tasks[t].status, "deleted"}

Advances(t) == tasks'[t].revision = tasks[t].revision + 1

(* An edit, answered or cut short, writes the next revision.               *)
LEMMA EditAdvances ==
  ASSUME TypeOK, NEW c \in Clients, NEW t \in Tasks, EditStep(c, t) \/ CrashStep(c, t)
  PROVE  Advances(t)
<1>1. ASSUME NEW content PROVE Edited(tasks[t], content).revision = tasks[t].revision + 1
  BY DEF Edited, TypeOK, TaskRecord
<1>2. ASSUME NEW content \in Contents, Create(c, t, content)
      PROVE  Advances(t)
  BY <1>2 DEF Create, NoTask, TypeOK, Advances
<1>3. CASE MarkMutationPending(c, t)
  BY <1>1, <1>3 DEF MarkMutationPending, TypeOK, Advances
<1>4. ASSUME NEW expected \in Expected(c, t), NEW content \in Contents,
             NEW reconcile \in BOOLEAN, Update(c, t, expected, content, reconcile)
      PROVE  Advances(t)
  BY <1>1, <1>4 DEF Update, TypeOK, Advances
<1>5. ASSUME NEW content \in Contents, NEW outcome \in Outcomes, NEW moved \in BOOLEAN,
             tasks' = [tasks EXCEPT ![t] = Closing(tasks[t], content, outcome, moved)]
      PROVE  Advances(t)
  BY <1>5 DEF Closing, Edited, TypeOK, TaskRecord, Advances
<1>6. QED
  BY <1>2, <1>3, <1>4, <1>5 DEF EditStep, CrashStep, Close, CloseCrashes

(* Every step is one of the two.                                           *)
LEMMA RevisionSteps ==
  ASSUME TypeOK, [Next]_vars, NEW t \in Tasks
  PROVE  Kept(t) \/ Advances(t)
<1> USE DEF TypeOK
<1>1. ASSUME tasks'[t] = tasks[t] PROVE Kept(t)
  BY <1>1 DEF Kept
<1>2. ASSUME NEW c \in Clients, NEW u \in Tasks, EditStep(c, u) \/ CrashStep(c, u)
      PROVE  Kept(t) \/ Advances(t)
  BY <1>1, <1>2, EditShape, EditAdvances
<1>3. ASSUME NEW c \in Clients, NEW u \in Tasks, RetryClose(c, u)
      PROVE  Kept(t)
  BY <1>3 DEF RetryClose, Kept, TaskRecord
<1>4. ASSUME NEW S \in SUBSET Tasks, Cleanup(S)
      PROVE  Kept(t)
  BY <1>4 DEF Cleanup, Kept, TaskRecord
<1>5. ASSUME NEW c \in Clients, NEW u \in Tasks, Get(c, u) \/ LeaseStep(c, u)
      PROVE  Kept(t)
  BY <1>1, <1>5 DEF Get, LeaseStep, AcquireLease, RefreshLease, ReleaseLease
<1>6. CASE Tick \/ BrokenCreation \/ UNCHANGED vars
  BY <1>1, <1>6 DEF Tick, BrokenCreation, CreateCrashes, vars
<1>7. ASSUME NEW u \in Tasks, Repair(u)
      PROVE  Kept(t)
  BY <1>7 DEF Repair, Kept, TaskRecord
<1>8. QED
  BY <1>2, <1>3, <1>4, <1>5, <1>6, <1>7, NextSteps

(* A client's version stays, or is the Task after the step.                *)
LEMMA ViewSteps ==
  ASSUME TypeOK, [Next]_vars, NEW c \in Clients, NEW t \in Tasks
  PROVE  view'[c][t] = view[c][t] \/ view'[c][t].record = tasks'[t]
<1>1. ASSUME NEW d \in Clients, NEW u \in Tasks, Answered(d, u)
      PROVE  view'[c][t] = view[c][t] \/ view'[c][t].record = tasks'[t]
  BY <1>1, AnsweredView
<1>2. ASSUME NEW d \in Clients, NEW u \in Tasks,
             Get(d, u) \/ EditStep(d, u) \/ RetryClose(d, u)
      PROVE  Answered(d, u)
  BY <1>2 DEF Get, EditStep, Create, MarkMutationPending, Update, Close, RetryClose
<1>3. ASSUME view' = view
      PROVE  view'[c][t] = view[c][t]
  BY <1>3
<1>4. ASSUME NEW d \in Clients, NEW u \in Tasks, CrashStep(d, u) \/ LeaseStep(d, u)
      PROVE  view' = view
  BY <1>4 DEF CrashStep, CloseCrashes, LeaseStep, AcquireLease, RefreshLease, ReleaseLease
<1>5. CASE (\E u \in Tasks : Repair(u)) \/ (\E S \in SUBSET Tasks : Cleanup(S)) \/ Tick
           \/ BrokenCreation \/ UNCHANGED vars
  BY <1>3, <1>5 DEF Repair, Cleanup, Tick, BrokenCreation, CreateCrashes, vars
<1>6. QED
  BY <1>1, <1>2, <1>3, <1>4, <1>5, NextSteps

(* The strengthening is invariant: nobody has seen a revision that is not  *)
(* written yet.                                                            *)
THEOREM VersionInvariant == Spec => []VersionInv
<1>1. Init => VersionInv
  <2> SUFFICES ASSUME Init PROVE VersionInv
    OBVIOUS
  <2>1. TypeOK
    BY TypeInit
  <2>2. \A c \in Clients, t \in Tasks : view[c][t].record = tasks[t]
    BY DEF Init
  <2>3. \A t \in Tasks : tasks[t].revision = 0
    BY DEF Init, NoTask
  <2>4. QED
    BY <2>1, <2>2, <2>3 DEF VersionInv, ViewsLag, RevisionNamesContent
<1>2. VersionInv /\ [Next]_vars => VersionInv'
  <2> SUFFICES ASSUME VersionInv, [Next]_vars PROVE VersionInv'
    OBVIOUS
  <2>1. TypeOK'
    BY TypeStep DEF VersionInv
  <2>2. ASSUME NEW c \in Clients, NEW t \in Tasks
        PROVE  /\ view'[c][t].record.revision <= tasks'[t].revision
               /\ view'[c][t].record.revision = tasks'[t].revision
                    /\ tasks'[t].status # "deleted"
                  => /\ view'[c][t].record.content = tasks'[t].content
                     /\ view'[c][t].record.status = tasks'[t].status
    <3>1. /\ tasks[t].revision \in Nat /\ tasks'[t].revision \in Nat
          /\ view[c][t].record.revision \in Nat
      BY <2>1, BoundsAssumption DEF VersionInv, TypeOK, TaskRecord, Version
    <3>2. CASE view'[c][t].record = tasks'[t]
      BY <3>1, <3>2
    <3>3. CASE view'[c][t] = view[c][t] /\ Advances(t)
      BY <3>1, <3>3 DEF VersionInv, ViewsLag, Advances
    <3>4. CASE view'[c][t] = view[c][t] /\ Kept(t)
      BY <3>1, <3>4 DEF VersionInv, ViewsLag, RevisionNamesContent, Kept
    <3>5. QED
      BY <3>2, <3>3, <3>4, RevisionSteps, ViewSteps DEF VersionInv
  <2>3. QED
    BY <2>1, <2>2 DEF VersionInv, ViewsLag, RevisionNamesContent
<1>3. QED
  BY <1>1, <1>2, PTL DEF Spec

(* No update is lost: who names the revision he last saw replaces what he  *)
(* saw.  The comparison of revisions (tasks.py:957-960) needs all writes   *)
(* to raise the revision, which is RevisionNamesContent.                   *)
THEOREM UpdatesAreNotLost == Spec => NoLostUpdate
<1>1. ASSUME VersionInv, NEW c \in Clients, NEW t \in Tasks,
             view[c][t].record.revision # 0, Replaces(c, t, view[c][t].record.revision)
      PROVE  /\ view[c][t].record.content = tasks[t].content
             /\ view[c][t].record.status = tasks[t].status
  <2>1. Current(t, view[c][t].record.revision) /\ Open(t)
    BY <1>1 DEF Replaces, Update, Close, CloseCrashes, Final
  <2>2. view[c][t].record.revision = tasks[t].revision /\ tasks[t].status # "deleted"
    BY <1>1, <2>1 DEF Current, Open
  <2>3. QED
    BY <1>1, <2>2 DEF VersionInv, RevisionNamesContent
<1>2. VersionInv =>
        \A c \in Clients, t \in Tasks :
          LET saw == view[c][t].record IN
          saw.revision # 0 /\ Replaces(c, t, saw.revision) =>
            saw.content = tasks[t].content /\ saw.status = tasks[t].status
  BY <1>1
<1>3. QED
  BY <1>2, VersionInvariant, PTL DEF NoLostUpdate
-----------------------------------------------------------------------------
(* Apart from creations, an open Task was open before, and has the same    *)
(* identity or is marked as retitled.                                      *)
OpenBefore(t) ==
  Open(t)' => /\ Open(t)
              /\ tasks'[t].content.identity = tasks[t].content.identity \/ t \in retitled'

LEMMA OpenSteps ==
  ASSUME TypeOK, [Next]_vars,
         ~ \E c \in Clients, t \in Tasks, content \in Contents : Create(c, t, content)
  PROVE  (\A t \in Tasks : OpenBefore(t)) /\ retitled \subseteq retitled'
<1> USE DEF TypeOK
<1>1. ASSUME tasks' = tasks, retitled' = retitled
      PROVE  (\A t \in Tasks : OpenBefore(t)) /\ retitled \subseteq retitled'
  BY <1>1 DEF OpenBefore, Open
<1>2. ASSUME NEW c \in Clients, NEW u \in Tasks, EditStep(c, u)
      PROVE  (\A t \in Tasks : OpenBefore(t)) /\ retitled \subseteq retitled'
  <2>1. \A t \in Tasks : t # u => OpenBefore(t)
    BY <1>2, EditShape DEF OpenBefore, Open
  <2>2. CASE MarkMutationPending(c, u)
    <3>1. /\ Edited(tasks[u], Marked(tasks[u].content)).content.identity
               = tasks[u].content.identity
      BY DEF Edited, Marked, TaskRecord, Content
    <3>2. QED
      BY <2>1, <2>2, <3>1 DEF MarkMutationPending, OpenBefore
  <2>3. ASSUME NEW expected, NEW content \in Contents, NEW reconcile \in BOOLEAN,
               Update(c, u, expected, content, reconcile)
        PROVE  OpenBefore(u) /\ retitled \subseteq retitled'
    <3>1. content \in Content
      BY ContentsAssumption
    <3>2. (IF reconcile THEN Reconciled(content) ELSE content).identity = content.identity
      BY <3>1 DEF Reconciled, Content
    <3>3. tasks'[u].content.identity = content.identity
      BY <2>3, <3>2 DEF Update, Edited, TaskRecord
    <3>4. QED
      BY <2>3, <3>3 DEF Update, OpenBefore
  <2>4. ASSUME NEW expected, NEW content, NEW outcome \in Outcomes,
               Close(c, u, expected, content, outcome)
        PROVE  OpenBefore(u) /\ retitled' = retitled
    <3>1. tasks'[u].archived
      BY <2>4 DEF Close, Closing, Edited, TaskRecord
    <3>2. QED
      BY <2>4, <3>1 DEF Close, OpenBefore, Open
  <2>5. QED
    BY <1>2, <2>1, <2>2, <2>3, <2>4 DEF EditStep, MarkMutationPending
<1>3. ASSUME NEW c \in Clients, NEW u \in Tasks, CrashStep(c, u)
      PROVE  (\A t \in Tasks : OpenBefore(t)) /\ retitled \subseteq retitled'
  <2>1. \A t \in Tasks : t # u => OpenBefore(t)
    BY <1>3, EditShape DEF OpenBefore, Open
  <2>2. ASSUME NEW content, NEW outcome \in Outcomes, NEW moved,
               tasks' = [tasks EXCEPT ![u] = Closing(tasks[u], content, outcome, moved)]
        PROVE  tasks'[u].status \in Outcomes
    BY <2>2 DEF Closing, Edited, TaskRecord
  <2>3. tasks'[u].status \in Outcomes /\ retitled' = retitled
    BY <1>3, <2>2 DEF CrashStep, CloseCrashes
  <2>4. QED
    BY <2>1, <2>3 DEF OpenBefore, Open, Outcomes
<1>4. ASSUME NEW c \in Clients, NEW u \in Tasks, RetryClose(c, u)
      PROVE  (\A t \in Tasks : OpenBefore(t)) /\ retitled \subseteq retitled'
  BY <1>4 DEF RetryClose, OpenBefore, Open, TaskRecord
<1>5. ASSUME NEW u \in Tasks, Repair(u)
      PROVE  (\A t \in Tasks : OpenBefore(t)) /\ retitled \subseteq retitled'
  BY <1>5 DEF Repair, OpenBefore, Open, TaskRecord
<1>6. ASSUME NEW S \in SUBSET Tasks, Cleanup(S)
      PROVE  (\A t \in Tasks : OpenBefore(t)) /\ retitled \subseteq retitled'
  BY <1>6 DEF Cleanup, OpenBefore, Open, TaskRecord
<1>7. ASSUME NEW c \in Clients, NEW u \in Tasks, Get(c, u) \/ LeaseStep(c, u)
      PROVE  tasks' = tasks /\ retitled' = retitled
  BY <1>7 DEF Get, LeaseStep, AcquireLease, RefreshLease, ReleaseLease
<1>8. CASE Tick \/ BrokenCreation \/ UNCHANGED vars
  BY <1>1, <1>8 DEF Tick, BrokenCreation, CreateCrashes, vars
<1>9. QED
  BY <1>1, <1>2, <1>3, <1>4, <1>5, <1>6, <1>7, <1>8, NextSteps

(* A creation finds no open Task with its identity.                        *)
LEMMA CreationIsAlone ==
  ASSUME TypeOK, OneOpenTaskPerIdentity, NEW c \in Clients, NEW v \in Tasks,
         NEW content \in Contents, Create(c, v, content)
  PROVE  OneOpenTaskPerIdentity'
<1>1. /\ tasks'[v].content = content
      /\ retitled' = retitled
      /\ \A u \in Tasks : u # v => tasks'[u] = tasks[u]
  BY DEF Create, TypeOK, NoTask
<1>2. \A u \in Tasks : ~(Open(u) /\ tasks[u].content.identity = content.identity)
  BY DEF Create, Equivalent
<1>3. QED
  BY <1>1, <1>2 DEF OneOpenTaskPerIdentity, Open

(* Two open Tasks with one identity come only from an update that changed  *)
(* an identity, never from creations (tasks.py:634-640).                   *)
THEOREM CreationsAreUnique == Spec => []OneOpenTaskPerIdentity
<1>1. Init => OneOpenTaskPerIdentity
  BY DEF Init, NoTask, OneOpenTaskPerIdentity, Open
<1>2. TypeOK /\ OneOpenTaskPerIdentity /\ [Next]_vars => OneOpenTaskPerIdentity'
  <2>1. ASSUME TypeOK, OneOpenTaskPerIdentity, [Next]_vars,
               ~ \E c \in Clients, t \in Tasks, content \in Contents :
                   Create(c, t, content)
        PROVE  OneOpenTaskPerIdentity'
    BY <2>1, OpenSteps DEF OneOpenTaskPerIdentity, OpenBefore
  <2>2. QED
    BY <2>1, CreationIsAlone
<1>3. QED
  BY <1>1, <1>2, TaskTypeCorrect, PTL DEF Spec
=============================================================================
