-------------------------- MODULE ServerRuns_proofs --------------------------
(***************************************************************************)
(* Proofs about the server between Task store and Run store, for any       *)
(* number of Runs, Tasks, clients, servers, slots and failing writes, in   *)
(* both deployments.  The steps of the server are composed with those of   *)
(* the two abstract modules that TaskStore_proofs and                      *)
(* ExecutorVerdict_proofs show to be implemented.                          *)
(***************************************************************************)
EXTENDS ServerRuns, RunStore_proofs, FiniteSetTheorems

USE CallsAssumption, ReportsAssumption, HeavyAssumption, FaultsAssumption,
    NobodyAssumption

RestartTypes == {"ServerRestart", "ExecutorRestart"}

(* What the record of a call says: nothing before it is made, and while it *)
(* is running the mode of the call and no error.                           *)
Early == {"none", "prepared", "sent", "lost"}

Records ==
  \A r \in Runs :
    /\ pc[r] \in Early => runs[r] = NoRun
    /\ Running(r) =>
         runs[r].execution_mode = call[r].mode /\ runs[r].error_type = "none"

(* Who works on a call: a handler of a live server, or the executor.       *)
Handled == {"prepared", "executing", "sent"}

Workers ==
  \A r \in Runs :
    /\ at[r] # NoServer <=> pc[r] \in Handled
    /\ at[r] # NoServer => at[r] \in up
    /\ Sync(r) => pc[r] \notin {"sent", "lost"}
    /\ pc[r] = "executing" => Sync(r)
    /\ r \in owned => pc[r] = "answered" /\ ~Sync(r)

(* Which processes there are: the unified service is one, its executor     *)
(* starts first and its server stops first.                                *)
Processes ==
  /\ owned # {} => executor # "down"
  /\ up \cap starting = {}
  /\ deployment = "unified" =>
       /\ executor # "up" => up \cup starting = {}
       /\ executor = "up" /\ owned # {} => up # {}
       /\ \A s, q \in up \cup starting : s = q

ServerInv ==
  /\ TypeOK /\ Records /\ Workers /\ Processes
  /\ MutationAccountedFor /\ SlotsConserved /\ NoOwnerlessRun
-----------------------------------------------------------------------------
(* Every step of the server is an operation of the Run store.              *)
Settling(r) ==
  \E s \in Terminal, e \in ErrorTypes \ RestartTypes : FinishWithoutExecution(r, s, e)

LEMMA VerdictSettles ==
  ASSUME NEW r \in Runs,
         \/ \E s \in Reports : Finish(r, s)
         \/ FailLocal(r)
         \/ \E e \in LossTypes \cup {"InternalError"} : MarkUnknown(r, e)
         \/ \E e \in CancelTypes \cup LossTypes : Interrupt(r, e)
  PROVE  Settling(r) /\ StoreNext
<1>1. ASSUME NEW s \in Reports, Finish(r, s) PROVE Settling(r) /\ StoreNext
  BY <1>1, FinishIsEnd DEF Settling, StoreNext, Terminal, ErrorTypes, RestartTypes
<1>2. CASE FailLocal(r)
  BY <1>2 DEF FailLocal, Settling, StoreNext, Terminal, InternalStatuses, ErrorTypes, RestartTypes
<1>3. ASSUME NEW e \in LossTypes \cup {"InternalError"}, MarkUnknown(r, e)
      PROVE  Settling(r) /\ StoreNext
  BY <1>3 DEF MarkUnknown, Settling, StoreNext, Terminal, InternalStatuses, ErrorTypes,
     LossTypes, RestartTypes
<1>4. ASSUME NEW e \in CancelTypes \cup LossTypes, Interrupt(r, e)
      PROVE  Settling(r) /\ StoreNext
  BY <1>4 DEF Interrupt, Settling, StoreNext, Terminal, InternalStatuses, ErrorTypes,
     CancelTypes, LossTypes, RestartTypes
<1>5. QED
  BY <1>1, <1>2, <1>3, <1>4

(* The synchronous server writes a verdict or, once more, that there is    *)
(* none.                                                                   *)
LEMMA ReportSettles ==
  ASSUME NEW r \in Runs, Reported(r)
  PROVE  Settling(r) /\ StoreNext
BY VerdictSettles DEF Reported, Report, LossTypes, CancelTypes

(* Whatever the executor does with a Run settles it or leaves the table.   *)
LEMMA ExecutorWorkSettles ==
  ASSUME NEW r \in Runs, ExecutorWorks(r)
  PROVE  (Settling(r) /\ StoreNext) \/ UNCHANGED runs
<1>1. CASE Settles(r)
  BY <1>1, VerdictSettles DEF Settles, LossTypes, CancelTypes
<1>2. CASE VerdictLost(r)
  BY <1>2 DEF VerdictLost, Fails
<1>3. CASE Released(r)
  BY <1>3, VerdictSettles DEF Released, Fails, LossTypes
<1>4. CASE Repairs(r)
  BY <1>4, VerdictSettles DEF Repairs, LossTypes
<1>5. QED
  BY <1>1, <1>2, <1>3, <1>4 DEF ExecutorWorks

(* The calls that make a record, with what the call asks for.              *)
Recorded(r) == Create(r, call[r].mode, call[r].class, call[r].mutates)

LEMMA RecordedCreates ==
  ASSUME TypeOK, NEW r \in Runs, SyncStarts(r) \/ Accept(r)
  PROVE  Recorded(r) /\ StoreNext
<1>1. call[r] \in Call
  BY DEF TypeOK
<1>2. Recorded(r)
  BY <1>1 DEF SyncStarts, Accept, Accepts, Arriving, Sync, Recorded, Call, Modes
<1>3. QED
  BY <1>1, <1>2 DEF Recorded, Call, StoreNext

LEMMA CallStoreStep ==
  ASSUME TypeOK, NEW r \in Runs, CallStep(r)
  PROVE  \/ SyncStarts(r) \/ Accept(r)
         \/ Settling(r) /\ StoreNext
         \/ UNCHANGED runs
<1>1. CASE SyncEnds(r)
  BY <1>1, ReportSettles DEF SyncEnds
<1>2. CASE SyncNotRecorded(r) \/ SyncEndsUnrecorded(r) \/ Connect(r) \/ GiveUp(r) \/ Reject(r)
  BY <1>2 DEF SyncNotRecorded, SyncEndsUnrecorded, Fails, Connect, GiveUp, Reject, executorVars
<1>3. ASSUME NEW s \in Servers, NEW c \in Clients, NEW q \in Calls, Prepare(s, c, r, q)
      PROVE  UNCHANGED runs
  BY <1>3 DEF Prepare
<1>4. ASSUME NEW c \in Clients, CancelRun(c, r) PROVE UNCHANGED runs
  BY <1>4 DEF CancelRun, CancelAccepted
<1>5. QED
  BY <1>1, <1>2, <1>3, <1>4, ExecutorWorkSettles DEF CallStep

(* Starts and retention, of servers and executor.                          *)
Reconciles ==
  \E modes \in SUBSET Modes, reached \in SUBSET Runs : ReconcileIncomplete(modes, reached)
Retains ==
  \/ \E r \in Runs, b \in BOOLEAN : SetRetained(r, b)
  \/ \E expired \in SUBSET Runs : Cleanup(expired)

LEMMA StartReconciles ==
  ASSUME \/ \E s \in Servers : ServerStart(s) \/ StartBreaks(s)
         \/ Starts \/ StartFailed
  PROVE  Reconciles
<1>1. ServerModes \in SUBSET Modes /\ {"async"} \in SUBSET Modes
  BY DEF ServerModes, Modes
<1>2. QED
  BY <1>1 DEF Reconciles, ServerStart, StartBreaks, Starts, StartFailed

LEMMA ProcessRetainsOrStarts ==
  ASSUME ProcessStep
  PROVE  \/ Retains \/ UNCHANGED runs
         \/ \E s \in Servers : ServerStart(s) \/ StartBreaks(s)
         \/ Starts \/ StartFailed
<1>1. ASSUME NEW s \in Servers, ServerCrash(s) \/ ServiceStops(s) PROVE UNCHANGED runs
  BY <1>1 DEF ServerCrash, ServiceStops, Stops
<1>2. ASSUME NEW s \in Servers, ServerReady(s) PROVE Retains
  BY <1>2 DEF ServerReady, Retains
<1>3. CASE ServiceCrash \/ ExecutorCrash \/ ExecutorStops
  BY <1>3 DEF ServiceCrash, ExecutorCrash, ExecutorStops, Dies, Stops
<1>4. QED
  BY <1>1, <1>2, <1>3 DEF ProcessStep, ExecutorChanges, Stopped

LEMMA HousekeepingStoreStep ==
  ASSUME Housekeeping
  PROVE  Retains \/ UNCHANGED runs
BY DEF Housekeeping, Retains

LEMMA ServerStoreStep ==
  ASSUME TypeOK, [Next]_vars
  PROVE  [StoreNext]_runs
<1>1. CASE TaskOperation \/ UNCHANGED vars
  BY <1>1 DEF TaskOperation, vars, executorVars
<1>2. CASE Housekeeping \/ ProcessStep
  BY <1>2, HousekeepingStoreStep, ProcessRetainsOrStarts, StartReconciles
     DEF Reconciles, Retains, StoreNext
<1>3. ASSUME NEW r \in Runs, CallStep(r) PROVE [StoreNext]_runs
  BY <1>3, CallStoreStep, RecordedCreates
<1>4. QED
  BY <1>1, <1>2, <1>3 DEF Next
-----------------------------------------------------------------------------
(* What the operations do to the table of Runs.                            *)
LEMMA CreatesOne ==
  ASSUME RunsTypeOK, NEW r \in Runs, Recorded(r)
  PROVE  /\ runs[r] = NoRun
         /\ runs'[r].status = "running" /\ runs'[r].error_type = "none"
         /\ runs'[r].execution_mode = call[r].mode
         /\ \A q \in Runs \ {r} : runs'[q] = runs[q]
BY DEF RunsTypeOK, Recorded, Create, NoRun

LEMMA SettlesOne ==
  ASSUME RunsTypeOK, NEW r \in Runs, Settling(r)
  PROVE  /\ runs'[r].status # "running"
         /\ ~Running(r) => runs'[r] = runs[r]
         /\ Running(r) => runs'[r].error_type \notin RestartTypes
         /\ \A q \in Runs \ {r} : runs'[q] = runs[q]
<1>1. PICK s \in Terminal, e \in ErrorTypes \ RestartTypes : FinishWithoutExecution(r, s, e)
  BY DEF Settling
<1>2. CASE Running(r)
  <2>1. Ended(runs[r], s, e).status = s /\ Ended(runs[r], s, e).error_type = e
    BY DEF RunsTypeOK, Ended, RunRecord
  <2>2. s # "running"
    BY DEF Terminal, ExecutionStatuses, InternalStatuses
  <2>3. QED
    BY <1>1, <1>2, <2>1, <2>2 DEF RunsTypeOK, FinishWithoutExecution
<1>3. CASE ~Running(r)
  BY <1>1, <1>3 DEF FinishWithoutExecution, Running
<1>4. QED
  BY <1>2, <1>3

(* No Run starts, and those that go on are as they were.                   *)
Spares ==
  \A r \in Runs :
    /\ runs[r] = NoRun => runs'[r] = NoRun
    /\ runs'[r].status = "running" =>
         /\ Running(r)
         /\ runs'[r].execution_mode = runs[r].execution_mode
         /\ runs'[r].error_type = runs[r].error_type

LEMMA ReconcileSpares ==
  ASSUME RunsTypeOK, Reconciles
  PROVE  Spares
<1> SUFFICES ASSUME NEW modes \in SUBSET Modes, NEW reached \in SUBSET Runs,
                    ReconcileIncomplete(modes, reached), NEW r \in Runs
             PROVE  /\ runs[r] = NoRun => runs'[r] = NoRun
                    /\ runs'[r].status = "running" => runs'[r] = runs[r]
  BY DEF Spares, Running, Reconciles
<1>1. \A e : Ended(runs[r], "interrupted", e).status = "interrupted"
  BY DEF Ended, RunsTypeOK, RunRecord
<1>2. runs'[r] = runs[r] \/ (Running(r) /\ runs'[r].status = "interrupted")
  BY <1>1 DEF ReconcileIncomplete
<1>3. QED
  BY <1>2 DEF NoRun, Running

LEMMA RetentionSpares ==
  ASSUME RunsTypeOK, Retains
  PROVE  Spares /\ \A r \in Runs : runs'[r].error_type = runs[r].error_type
<1> DEFINE Kept == \A r \in Runs : runs'[r].error_type = runs[r].error_type
<1>1. ASSUME NEW r \in Runs, NEW b \in BOOLEAN, SetRetained(r, b) PROVE Spares /\ Kept
  <2>1. runs[r] # NoRun /\ \A q \in Runs \ {r} : runs'[q] = runs[q]
    BY <1>1 DEF SetRetained, Stored, RunsTypeOK, NoRun
  <2>2. /\ runs'[r].status = runs[r].status
        /\ runs'[r].execution_mode = runs[r].execution_mode
        /\ runs'[r].error_type = runs[r].error_type
    BY <1>1 DEF SetRetained, RunsTypeOK, RunRecord
  <2>3. QED
    BY <2>1, <2>2 DEF Spares, Running
<1>2. ASSUME NEW expired \in SUBSET Runs, Cleanup(expired) PROVE Spares /\ Kept
  <2>1. \A r \in Runs : Deletable(r, expired) =>
          /\ runs[r] # NoRun /\ runs'[r].status = "deleted"
          /\ runs'[r].error_type = runs[r].error_type
    BY <1>2 DEF Cleanup, Deletable, CleanupStatuses, RunsTypeOK, RunRecord, NoRun
  <2>2. \A r \in Runs : ~Deletable(r, expired) => runs'[r] = runs[r]
    BY <1>2 DEF Cleanup
  <2>3. QED
    BY <2>1, <2>2 DEF Spares, Running
<1>3. QED
  BY <1>1, <1>2 DEF Retains

LEMMA SettlingSpares ==
  ASSUME RunsTypeOK, NEW r \in Runs, Settling(r)
  PROVE  Spares
<1>1. ~Running(r) => runs'[r] = runs[r]
  BY SettlesOne
<1>2. QED
  BY <1>1, SettlesOne DEF Spares, Running, NoRun

(* Only a call that starts is an exception.                                *)
LEMMA StepSpares ==
  ASSUME TypeOK, [Next]_vars
  PROVE  Spares \/ \E r \in Runs : SyncStarts(r) \/ Accept(r)
<1> RunsTypeOK
  BY DEF TypeOK
<1>1. ASSUME UNCHANGED runs PROVE Spares
  BY <1>1 DEF Spares, Running
<1>2. CASE TaskOperation \/ UNCHANGED vars
  BY <1>1, <1>2 DEF TaskOperation, vars, executorVars
<1>3. CASE Housekeeping \/ ProcessStep
  BY <1>1, <1>3, HousekeepingStoreStep, ProcessRetainsOrStarts, StartReconciles,
     ReconcileSpares, RetentionSpares
<1>4. ASSUME NEW r \in Runs, CallStep(r)
      PROVE  Spares \/ SyncStarts(r) \/ Accept(r)
  BY <1>1, <1>4, CallStoreStep, SettlingSpares
<1>5. QED
  BY <1>2, <1>3, <1>4 DEF Next
-----------------------------------------------------------------------------
(* Who moves the calls: a handler or the executor one of them, the end of  *)
(* a process all that are with it; every other step goes on backstage.     *)
CallMoves(r) ==
  \/ \E s \in Servers, c \in Clients, q \in Calls : Prepare(s, c, r, q)
  \/ SyncStarts(r) \/ SyncNotRecorded(r) \/ SyncEnds(r) \/ SyncEndsUnrecorded(r)
  \/ Connect(r) \/ GiveUp(r) \/ Accept(r) \/ Reject(r)

HandlersMove ==
  \/ \E s \in Servers : ServerCrash(s)
  \/ ServiceCrash \/ ExecutorCrash \/ ExecutorStops

Backstage ==
  /\ UNCHANGED callVars
  /\ \/ UNCHANGED <<owned, slots>>
     \/ \E r \in owned : owned' = owned \ {r} /\ slots' = slots \ {r}
  /\ \A r \in Runs : at[r] \in up => at[r] \in up'

LEMMA TaskStepBackstage == TaskOperation => Backstage
BY DEF TaskOperation, Backstage, serverVars, executorVars

LEMMA ExecutorBackstage ==
  ASSUME NEW r \in Runs, ExecutorWorks(r)
  PROVE  Backstage
<1>1. CASE Settles(r) \/ VerdictLost(r) \/ Repairs(r)
  BY <1>1 DEF ExecutorWorks, Settles, VerdictLost, Repairs, Backstage, serverVars
<1>2. CASE Released(r)
  BY <1>2 DEF ExecutorWorks, Released, Backstage, serverVars
<1>3. QED
  BY <1>1, <1>2 DEF ExecutorWorks

LEMMA ProcessBackstage ==
  ASSUME ProcessStep, ~HandlersMove
  PROVE  Backstage
<1>1. ASSUME NEW s \in Servers, ServiceStops(s) PROVE Backstage
  BY <1>1 DEF ServiceStops, Stops, Backstage
<1>2. ASSUME NEW s \in Servers, ServerStart(s) \/ StartBreaks(s) \/ ServerReady(s)
      PROVE  Backstage
  BY <1>2 DEF ServerStart, StartBreaks, ServerReady, Backstage, serverVars
<1>3. CASE ExecutorChanges
  BY <1>3 DEF ExecutorChanges, Stopped, Starts, StartFailed, Backstage, serverVars
<1>4. QED
  BY <1>1, <1>2, <1>3 DEF ProcessStep, HandlersMove

LEMMA WhoMoves ==
  ASSUME [Next]_vars
  PROVE  Backstage \/ HandlersMove \/ \E r \in Runs : CallMoves(r)
<1>1. CASE UNCHANGED vars
  BY <1>1 DEF vars, serverVars, executorVars, Backstage
<1>2. CASE Housekeeping
  BY <1>2 DEF Housekeeping, serverVars, Backstage
<1>3. ASSUME NEW r \in Runs, CallStep(r)
      PROVE  Backstage \/ \E q \in Runs : CallMoves(q)
  <2>1. ASSUME NEW c \in Clients, CancelRun(c, r) PROVE Backstage
    BY <2>1 DEF CancelRun, CancelAccepted, Backstage, serverVars
  <2>2. QED
    BY <1>3, <2>1, ExecutorBackstage DEF CallStep, CallMoves
<1>4. QED
  BY <1>1, <1>2, <1>3, TaskStepBackstage, ProcessBackstage DEF Next
-----------------------------------------------------------------------------
(* One call moves, all others stay as they are.                            *)
LEMMA OneCallMoves ==
  ASSUME TypeOK, NEW r \in Runs, CallMoves(r)
  PROVE  /\ \A d \in Runs \ {r} : pc'[d] = pc[d] /\ at'[d] = at[d] /\ call'[d] = call[d]
         /\ pc'[r] \in Early \ {"none"} => pc[r] \in Early
         /\ pc[r] = "none" \/ call'[r] = call[r]
         /\ pc'[r] # "none"
         /\ UNCHANGED serverVars
<1>1. ASSUME NEW s \in Servers, NEW c \in Clients, NEW q \in Calls, Prepare(s, c, r, q)
      PROVE  /\ pc' = [pc EXCEPT ![r] = "prepared"]
             /\ \E a : at' = [at EXCEPT ![r] = a]
             /\ \E a : call' = [call EXCEPT ![r] = a]
             /\ pc[r] = "none"
             /\ UNCHANGED serverVars
  BY <1>1 DEF Prepare
<1>2. CASE ~ \E s \in Servers, c \in Clients, q \in Calls : Prepare(s, c, r, q)
  <2>1. /\ UNCHANGED <<call, serverVars>>
        /\ pc[r] \in Early \/ pc[r] = "executing"
        /\ \E place \in Places \ {"none", "prepared"} :
              /\ pc' = [pc EXCEPT ![r] = place]
              /\ pc[r] = "executing" => place \notin Early
        /\ at' = at \/ at' = [at EXCEPT ![r] = NoServer]
    BY <1>2 DEF CallMoves, SyncStarts, SyncNotRecorded, SyncEnds, SyncEndsUnrecorded, Connect,
       GiveUp, Accept, Reject, Arriving, Leaves, Places, Early
  <2>2. QED
    BY <2>1 DEF TypeOK, Early, Places
<1>3. QED
  BY <1>1, <1>2 DEF TypeOK, Early

(* When a process ends, so do its handlers and nothing else.               *)
LEMMA HandlersGone ==
  ASSUME TypeOK, Workers, HandlersMove
  PROVE  \A d \in Runs :
           /\ \/ UNCHANGED <<pc[d], at[d]>>
              \/ /\ pc[d] \in Handled \cup {"lost"} /\ pc'[d] \in {"lost", "failed"}
                 /\ pc[d] # "sent" => pc'[d] = "failed"
                 /\ at'[d] = NoServer
           /\ call'[d] = call[d]
           /\ at'[d] # NoServer => at[d] \in up'
           /\ d \in owned' => d \in owned
<1>1. ASSUME NEW S \in SUBSET Servers, HandlersEnd(S), UNCHANGED call,
             owned' \subseteq owned, up \ S \subseteq up'
      PROVE  \A d \in Runs :
           /\ \/ UNCHANGED <<pc[d], at[d]>>
              \/ /\ pc[d] \in Handled \cup {"lost"} /\ pc'[d] \in {"lost", "failed"}
                 /\ pc[d] # "sent" => pc'[d] = "failed"
                 /\ at'[d] = NoServer
           /\ call'[d] = call[d]
           /\ at'[d] # NoServer => at[d] \in up'
           /\ d \in owned' => d \in owned
  BY <1>1 DEF HandlersEnd, Workers, Handled
<1>2. ASSUME NEW s \in Servers, ServerCrash(s)
      PROVE  HandlersEnd({s}) /\ UNCHANGED call /\ owned' \subseteq owned /\ up \ {s} \subseteq up'
  BY <1>2 DEF ServerCrash
<1>3. ASSUME ServiceCrash
      PROVE  HandlersEnd(Servers) /\ UNCHANGED call /\ owned' \subseteq owned
             /\ up \ Servers \subseteq up'
  BY <1>3 DEF ServiceCrash, Dies, TypeOK
<1>4. CASE ExecutorCrash \/ ExecutorStops
  <2>1. SocketCloses /\ owned' \subseteq owned
    BY <1>4 DEF ExecutorCrash, ExecutorStops, Dies, Stops
  <2>2. QED
    BY <2>1 DEF SocketCloses, Unread, Workers, Handled, serverVars
<1>5. QED
  BY <1>1, <1>2, <1>3, <1>4 DEF HandlersMove
-----------------------------------------------------------------------------
LEMMA RecordsStep ==
  ASSUME ServerInv, [Next]_vars
  PROVE  Records'
<1> TypeOK /\ Records /\ Workers /\ RunsTypeOK
  BY DEF ServerInv, TypeOK
(* A call whose place is early was early before; one that asks for         *)
(* something else than before had not begun.                               *)
<1>1. \A d \in Runs :
         /\ pc'[d] \in Early => pc[d] \in Early
         /\ pc[d] = "none" \/ call'[d] = call[d]
  <2>1. CASE Backstage
    BY <2>1 DEF Backstage, callVars
  <2>2. CASE HandlersMove
    BY <2>2, HandlersGone DEF Early, Handled
  <2>3. ASSUME NEW r \in Runs, CallMoves(r)
        PROVE  \A d \in Runs : /\ pc'[d] \in Early => pc[d] \in Early
                               /\ pc[d] = "none" \/ call'[d] = call[d]
    BY <2>3, OneCallMoves DEF Early
  <2>4. QED
    BY <2>1, <2>2, <2>3, WhoMoves
<1>2. CASE Spares
  <2>1. \A d \in Runs : pc'[d] \in Early => runs'[d] = NoRun
    BY <1>1, <1>2 DEF Spares, Records
  <2>2. ASSUME NEW d \in Runs, runs'[d].status = "running"
        PROVE  runs'[d].execution_mode = call'[d].mode /\ runs'[d].error_type = "none"
    <3>1. pc[d] # "none"
      BY <1>2, <2>2 DEF Spares, Records, Running, NoRun, Early
    <3>2. QED
      BY <1>1, <1>2, <2>2, <3>1 DEF Spares, Records
  <2>3. QED
    BY <2>1, <2>2 DEF Records, Running
<1>3. ASSUME NEW r \in Runs, SyncStarts(r) \/ Accept(r)
      PROVE  Records'
  <2>1. pc'[r] \notin Early /\ UNCHANGED call
    BY <1>3 DEF SyncStarts, Accept, Leaves, TypeOK, Early
  <2>2. Recorded(r)
    BY <1>3, RecordedCreates
  <2>3. QED
    BY <1>1, <2>1, <2>2, CreatesOne DEF Records, Running
<1>4. QED
  BY <1>2, <1>3, StepSpares

LEMMA WorkersStep ==
  ASSUME ServerInv, [Next]_vars
  PROVE  Workers'
<1> TypeOK /\ Records /\ Workers
  BY DEF ServerInv
<1>1. CASE Backstage
  BY <1>1 DEF Backstage, callVars, Workers, Sync
<1>2. CASE HandlersMove
  BY <1>2, HandlersGone DEF Workers, Handled, Sync
<1>3. ASSUME NEW r \in Runs, CallMoves(r)
      PROVE  Workers'
  <2>1. \A d \in Runs \ {r} :
          /\ pc'[d] = pc[d] /\ at'[d] = at[d] /\ call'[d] = call[d]
          /\ at[d] \in up => at[d] \in up'
    BY <1>3, OneCallMoves DEF serverVars
  <2>2. ASSUME NEW s \in Servers, NEW c \in Clients, NEW q \in Calls, Prepare(s, c, r, q)
        PROVE  /\ pc'[r] = "prepared" /\ at'[r] \in up' /\ at'[r] # NoServer
               /\ r \notin owned /\ owned' = owned
    BY <2>2 DEF Prepare, Free, TypeOK, Workers, serverVars
  <2>3. CASE SyncStarts(r)
    BY <2>1, <2>3 DEF SyncStarts, TypeOK, Workers, Handled, Sync, serverVars
  <2>4. CASE Connect(r)
    BY <2>1, <2>4 DEF Connect, Leaves, SocketUsed, TypeOK, Workers, Handled, Sync, serverVars,
       executorVars
  <2>5. ASSUME \/ SyncNotRecorded(r) \/ SyncEnds(r) \/ SyncEndsUnrecorded(r)
               \/ GiveUp(r) \/ Reject(r)
        PROVE  /\ pc'[r] \in {"failed", "answered", "lost"}
               /\ at'[r] = NoServer /\ owned' = owned /\ r \notin owned /\ call' = call
               /\ pc'[r] = "lost" => pc[r] = "sent"
    BY <2>5 DEF SyncNotRecorded, SyncEnds, SyncEndsUnrecorded, GiveUp, Reject, Arriving, Leaves,
       TypeOK, Workers, executorVars
  <2>6. ASSUME Accept(r)
        PROVE  /\ pc'[r] = "answered" /\ at'[r] = NoServer /\ call' = call /\ ~Sync(r)
               /\ owned' = owned \cup {r}
    BY <2>6 DEF Accept, Accepts, Arriving, Leaves, TypeOK
  <2>7. QED
    BY <1>3, <2>1, <2>2, <2>3, <2>4, <2>5, <2>6 DEF CallMoves, Workers, Handled, Sync
<1>4. QED
  BY <1>1, <1>2, <1>3, WhoMoves

LEMMA ProcessesStep ==
  ASSUME ServerInv, [Next]_vars
  PROVE  Processes'
<1> TypeOK /\ Workers /\ Processes
  BY DEF ServerInv
<1>1. ASSUME UNCHANGED serverVars, UNCHANGED executor, owned' \subseteq owned
      PROVE  Processes'
  BY <1>1 DEF Processes, serverVars
<1>2. CASE TaskOperation \/ Housekeeping \/ UNCHANGED vars
  BY <1>1, <1>2 DEF TaskOperation, Housekeeping, vars, executorVars
<1>3. ASSUME NEW r \in Runs, CallStep(r)
      PROVE  Processes'
  <2>1. CASE Accept(r)
    <3>1. executor = "up" /\ (deployment = "unified" => pc[r] = "prepared")
      BY <2>1 DEF Accept, Arriving
    <3>2. deployment = "unified" => up # {}
      BY <3>1 DEF Workers, Handled
    <3>3. QED
      BY <2>1, <3>1, <3>2 DEF Accept, Accepts, Processes, serverVars
  <2>2. ASSUME ExecutorWorks(r)
        PROVE  UNCHANGED serverVars /\ UNCHANGED executor /\ owned' \subseteq owned
    BY <2>2 DEF ExecutorWorks, Settles, VerdictLost, Released, Repairs
  <2>3. ASSUME NEW c \in Clients, CancelRun(c, r)
        PROVE  UNCHANGED serverVars /\ UNCHANGED <<executor, owned>>
    BY <2>3 DEF CancelRun, CancelAccepted
  <2>4. ASSUME CallMoves(r), ~Accept(r)
        PROVE  UNCHANGED serverVars /\ UNCHANGED <<executor, owned>>
    BY <2>4 DEF CallMoves, Prepare, SyncStarts, SyncNotRecorded, SyncEnds, SyncEndsUnrecorded,
       Connect, GiveUp, Reject, executorVars
  <2>5. QED
    BY <1>1, <1>3, <2>1, <2>2, <2>3, <2>4 DEF CallStep, CallMoves
<1>4. ASSUME NEW s \in Servers, ServerCrash(s) PROVE Processes'
  BY <1>4 DEF ServerCrash, Processes
<1>5. ASSUME NEW s \in Servers, ServiceStops(s) PROVE Processes'
  BY <1>5 DEF ServiceStops, Stops, Processes
<1>6. ASSUME NEW s \in Servers, ServerStart(s) \/ StartBreaks(s) PROVE Processes'
  BY <1>6 DEF ServerStart, StartBreaks, MayStart, Processes, TypeOK, serverVars
<1>7. ASSUME NEW s \in Servers, ServerReady(s) PROVE Processes'
  BY <1>7 DEF ServerReady, Processes
<1>8. CASE ServiceCrash
  BY <1>8 DEF ServiceCrash, Dies, Processes
<1>9. CASE ExecutorCrash \/ ExecutorStops
  BY <1>9 DEF ExecutorCrash, ExecutorStops, SocketCloses, Dies, Stops, Processes, serverVars
<1>10. CASE ExecutorChanges
  BY <1>10 DEF ExecutorChanges, Stopped, Starts, StartFailed, Processes, serverVars
<1>11. QED
  BY <1>2, <1>3, <1>4, <1>5, <1>6, <1>7, <1>8, <1>9, <1>10 DEF Next, ProcessStep

(* The mark of a call and the place of its Task.                           *)
LEMMA AccountStep ==
  ASSUME ServerInv, [Next]_vars
  PROVE  MutationAccountedFor'
<1> TypeOK /\ Workers /\ MutationAccountedFor
  BY DEF ServerInv
<1> DEFINE Owes(t) == t \in debts /\ stage[t] = "open"
           OwesStill(t) == t \in debts' /\ stage'[t] = "open"
(* No debt goes away but with a reconciliation.                            *)
<1>1. ASSUME \A r \in Runs : \/ call'[r] = call[r] /\ (pc'[r] # "none" => pc[r] # "none")
                             \/ Marks(call'[r]) => OwesStill(call'[r].task),
             \A t \in Tasks : Owes(t) => OwesStill(t),
             reconciled \subseteq reconciled'
      PROVE  MutationAccountedFor'
  BY <1>1 DEF MutationAccountedFor, Linked, Marks, TypeOK, Call
<1>2. ASSUME UNCHANGED <<stage, debts, reconciled>>, ~ \E r \in Runs : CallMoves(r)
      PROVE  MutationAccountedFor'
  <2>1. \A r \in Runs : call'[r] = call[r] /\ (pc'[r] # "none" => pc[r] # "none")
    BY <1>2, WhoMoves, HandlersGone DEF Backstage, callVars, Handled
  <2>2. QED
    BY <1>1, <1>2, <2>1
<1>3. CASE TaskOperation
  <2>1. UNCHANGED <<pc, call>>
    BY <1>3 DEF TaskOperation, callVars
  <2>2. ASSUME NEW t \in Tasks, CreateTask(t) \/ LeaseEnds(t)
        PROVE  (\A d \in Tasks : Owes(d) => OwesStill(d)) /\ reconciled \subseteq reconciled'
    BY <2>2 DEF CreateTask, Durable!Open, LeaseEnds, Durable!Expire, TypeOK
  <2>3. ASSUME NEW t \in Tasks, NEW c \in Clients, AcquireTaskLease(c, t) \/ CloseTask(c, t)
        PROVE  (\A d \in Tasks : Owes(d) => OwesStill(d)) /\ reconciled \subseteq reconciled'
    BY <2>3 DEF AcquireTaskLease, Durable!Acquire, CloseTask, Durable!Close, Durable!MayWork,
       TypeOK
  <2>4. ASSUME NEW t \in Tasks, NEW c \in Clients, UpdateTask(c, t)
        PROVE  MutationAccountedFor'
    <3>1. /\ UNCHANGED stage
          /\ debts' = debts \cup {t} \/ debts' = debts \ {t}
      BY <2>4 DEF UpdateTask, Durable!Work
    <3>2. CASE t \in debts \ debts'
      <4>1. /\ debts' = debts \ {t}
            /\ reconciled' = reconciled \cup {r \in Runs : Marks(call[r]) /\ call[r].task = t}
        BY <2>4, <3>1, <3>2 DEF UpdateTask
      <4>2. QED
        BY <2>1, <3>1, <4>1 DEF MutationAccountedFor, Linked, Marks
    <3>3. CASE t \notin debts \ debts'
      BY <1>1, <2>1, <2>4, <3>1, <3>3 DEF UpdateTask
    <3>4. QED
      BY <3>2, <3>3
  <2>5. QED
    BY <1>1, <1>3, <2>1, <2>2, <2>3, <2>4 DEF TaskOperation
<1>4. ASSUME NEW S \in SUBSET Tasks, TasksErased(S)
      PROVE  (\A d \in Tasks : Owes(d) => OwesStill(d)) /\ reconciled \subseteq reconciled'
  BY <1>4 DEF TasksErased, Durable!Erase, TypeOK
<1>5. CASE Housekeeping
  BY <1>1, <1>4, <1>5 DEF Housekeeping, callVars, taskVars
<1>6. ASSUME NEW s \in Servers, ServerReady(s) PROVE MutationAccountedFor'
  BY <1>1, <1>4, <1>6 DEF ServerReady, callVars
<1>7. ASSUME NEW r \in Runs, CallMoves(r) PROVE MutationAccountedFor'
  <2>1. CASE UNCHANGED <<stage, debts, reconciled, call>> /\ pc[r] # "none"
    BY <1>1, <1>7, <2>1, OneCallMoves
  <2>2. ASSUME NEW s \in Servers, NEW c \in Clients, NEW q \in Calls, Prepare(s, c, r, q)
        PROVE  MutationAccountedFor'
    <3>1. Marks(q) => OwesStill(q.task)
      BY <2>2 DEF Prepare, Prepared, Durable!Work, Durable!MayWork
    <3>2. \A d \in Tasks : Owes(d) => OwesStill(d)
      BY <2>2 DEF Prepare, Prepared, Durable!Work, Durable!MayWork
    <3>3. call'[r] = q /\ \A d \in Runs \ {r} : call'[d] = call[d] /\ pc'[d] = pc[d]
      BY <2>2 DEF Prepare, TypeOK
    <3>4. QED
      BY <1>1, <2>2, <3>1, <3>2, <3>3 DEF Prepare
  <2>3. QED
    BY <1>7, <2>1, <2>2 DEF CallMoves, SyncStarts, SyncNotRecorded, SyncEnds, SyncEndsUnrecorded,
       Connect, GiveUp, Accept, Arriving, Reject, taskVars
<1>8. ASSUME NEW r \in Runs, CallStep(r), ~CallMoves(r)
      PROVE  UNCHANGED <<stage, debts, reconciled>>
  BY <1>8 DEF CallStep, CallMoves, CancelRun, ExecutorWorks, taskVars
<1>9. ASSUME ProcessStep, ~ \E s \in Servers : ServerReady(s)
      PROVE  UNCHANGED <<stage, debts, reconciled>>
  BY <1>9 DEF ProcessStep, ServerCrash, ServiceStops, ServerStart, StartBreaks, ServiceCrash,
     ExecutorCrash, ExecutorStops, SocketCloses, ExecutorChanges, taskVars
<1>10. QED
  BY <1>2, <1>3, <1>5, <1>6, <1>7, <1>8, <1>9 DEF Next, vars, taskVars

(* Which calls hold a slot, by the places of calls and executor.           *)
Holds(r) ==
  Heavy(r) /\ (IF Sync(r) THEN pc[r] \in {"prepared", "executing"} ELSE r \in owned)

LEMMA SlotsStep ==
  ASSUME ServerInv, [Next]_vars
  PROVE  SlotsConserved'
<1> TypeOK /\ Workers /\ Processes /\ SlotsConserved
  BY DEF ServerInv
<1> slots = {r \in Runs : Holds(r)}
  BY DEF SlotsConserved, Holds
<1> SUFFICES slots' = {r \in Runs : Holds(r)'}
  BY DEF SlotsConserved, Holds
<1>1. CASE Backstage
  BY <1>1 DEF Backstage, callVars, Holds, Heavy, Sync, Workers
<1>2. CASE HandlersMove
  <2>1. \A d \in Runs : call'[d] = call[d]
    BY <1>2, HandlersGone
  <2>2. ASSUME NEW s \in Servers, ServerCrash(s)
        PROVE  slots' = {r \in Runs : Holds(r)'}
    <3>1. \A d \in Runs : Holds(d)' <=> Holds(d) /\ ~(at[d] = s /\ Sync(d))
      BY <2>1, <2>2 DEF ServerCrash, HandlersEnd, Holds, Heavy, Sync, Workers, Handled
    <3>2. QED
      BY <2>2, <3>1 DEF ServerCrash
  <2>3. CASE ServiceCrash
    <3>1. \A d \in Runs : ~Holds(d)'
      BY <2>1, <2>3 DEF ServiceCrash, Dies, HandlersEnd, Holds, Heavy, Sync, Workers, Handled,
         TypeOK
    <3>2. slots' = {}
      BY <2>3 DEF ServiceCrash, Dies
    <3>3. QED
      BY <3>1, <3>2
  <2>4. CASE ExecutorCrash
    <3>1. \A d \in Runs : Holds(d)' <=> Holds(d) /\ d \notin owned
      BY <2>1, <2>4 DEF ExecutorCrash, SocketCloses, Unread, Dies, Holds, Heavy, Sync, Workers
    <3>2. slots' = slots \ owned
      BY <2>4 DEF ExecutorCrash, Dies
    <3>3. QED
      BY <3>1, <3>2
  <2>5. CASE ExecutorStops
    <3>1. \A d \in Runs : Holds(d)' <=> Holds(d)
      BY <2>1, <2>5 DEF ExecutorStops, SocketCloses, Unread, Stops, Holds, Heavy, Sync, Workers
    <3>2. QED
      BY <2>5, <3>1 DEF ExecutorStops, Stops
  <2>6. QED
    BY <1>2, <2>2, <2>3, <2>4, <2>5 DEF HandlersMove
<1>3. ASSUME NEW r \in Runs, CallMoves(r)
      PROVE  slots' = {d \in Runs : Holds(d)'}
  <2>1. \A d \in Runs \ {r} : pc'[d] = pc[d] /\ call'[d] = call[d]
    BY <1>3, OneCallMoves
  <2>2. (\A d \in Runs \ {r} : d \in owned' <=> d \in owned)
    BY <1>3 DEF CallMoves, Prepare, SyncStarts, SyncNotRecorded, SyncEnds, SyncEndsUnrecorded,
       Connect, GiveUp, Accept, Accepts, Reject, executorVars
  <2>3. \A d \in Runs \ {r} : Holds(d)' <=> Holds(d)
    BY <2>1, <2>2 DEF Holds, Heavy, Sync
  <2>4. ASSUME NEW s \in Servers, NEW c \in Clients, NEW q \in Calls, Prepare(s, c, r, q)
        PROVE  slots' = {d \in Runs : Holds(d)'}
    <3>1. r \notin owned /\ owned' = owned /\ r \notin slots
      BY <2>4 DEF Prepare, Workers, Holds
    <3>2. Holds(r)' <=> q.class = "heavy" /\ q.mode = "sync"
      BY <2>4, <3>1 DEF Prepare, TypeOK, Holds, Heavy, Sync
    <3>3. QED
      BY <2>3, <2>4, <3>1, <3>2 DEF Prepare
  <2>5. CASE SyncStarts(r)
    <3>1. Holds(r)' <=> Holds(r)
      BY <2>5 DEF SyncStarts, TypeOK, Holds, Heavy, Sync
    <3>2. QED
      BY <2>3, <2>5, <3>1 DEF SyncStarts
  <2>6. CASE SyncNotRecorded(r) \/ SyncEnds(r) \/ SyncEndsUnrecorded(r)
    <3>1. slots' = slots \ {r} /\ Sync(r) /\ call' = call /\ pc'[r] \in {"answered", "failed"}
      BY <2>6 DEF SyncNotRecorded, SyncEnds, SyncEndsUnrecorded, Leaves, TypeOK, Workers
    <3>2. ~Holds(r)'
      BY <3>1 DEF Holds, Sync
    <3>3. QED
      BY <2>3, <3>1, <3>2
  <2>7. CASE Connect(r) \/ GiveUp(r) \/ Reject(r)
    <3>1. ~Sync(r) /\ call' = call /\ UNCHANGED <<slots, owned>>
      BY <2>7 DEF Connect, GiveUp, Reject, Arriving, SocketUsed, Workers, executorVars
    <3>2. Holds(r)' <=> Holds(r)
      BY <3>1 DEF Holds, Heavy, Sync
    <3>3. QED
      BY <2>3, <3>1, <3>2
  <2>8. CASE Accept(r)
    <3>1. /\ ~Sync(r) /\ call' = call /\ owned' = owned \cup {r} /\ r \notin owned
          /\ IF Heavy(r) THEN slots' = slots \cup {r} ELSE slots' = slots
      BY <2>8 DEF Accept, Accepts, Arriving, Heavy, Workers
    <3>2. Holds(r)' <=> Heavy(r)
      BY <3>1 DEF Holds, Heavy, Sync
    <3>3. ~Holds(r)
      BY <3>1 DEF Holds
    <3>4. QED
      BY <2>3, <3>1, <3>2, <3>3
  <2>9. QED
    BY <1>3, <2>4, <2>5, <2>6, <2>7, <2>8 DEF CallMoves
<1>4. QED
  BY <1>1, <1>2, <1>3, WhoMoves

(* A Run that goes on keeps whoever works on it, or the executor is down,  *)
(* or a write failed.                                                      *)
LEMMA OwnerStays ==
  ASSUME TypeOK, Workers, NEW r \in Runs, Running(r), ~Sync(r), [Next]_vars,
         runs'[r].status = "running", runs[r].execution_mode = "async",
         r \in owned \/ executor = "down" \/ faults > 0
  PROVE  r \in owned' \/ executor' = "down" \/ faults' > 0
<1> faults \in Nat /\ RunsTypeOK
  BY DEF TypeOK
<1>1. CASE owned \subseteq owned' /\ executor' \in {executor, "down"} /\ faults' \in {faults, faults + 1}
  BY <1>1
<1>2. CASE UNCHANGED executorVars
  BY <1>1, <1>2 DEF executorVars
<1>3. CASE TaskOperation \/ Housekeeping \/ UNCHANGED vars
  BY <1>1, <1>3 DEF TaskOperation, Housekeeping, vars, executorVars
<1>4. ASSUME NEW q \in Runs, CallMoves(q)
      PROVE  r \in owned' \/ executor' = "down" \/ faults' > 0
  BY <1>1, <1>4 DEF CallMoves, Prepare, SyncStarts, SyncNotRecorded, SyncEnds, Reported,
     SyncEndsUnrecorded, Fails, Connect, GiveUp, Accept, Accepts, Reject, executorVars
<1>5. ASSUME NEW q \in Runs, NEW c \in Clients, CancelRun(c, q)
      PROVE  r \in owned' \/ executor' = "down" \/ faults' > 0
  BY <1>1, <1>5 DEF CancelRun, CancelAccepted
<1>6. ASSUME NEW q \in Runs, ExecutorWorks(q)
      PROVE  r \in owned' \/ executor' = "down" \/ faults' > 0
  <2>1. CASE Settles(q) \/ VerdictLost(q) \/ Repairs(q)
    BY <1>1, <2>1 DEF Settles, VerdictLost, Fails, Repairs
  <2>2. CASE Released(q)
    <3>1. CASE Fails
      BY <2>2, <3>1 DEF Fails
    <3>2. CASE MarkUnknown(q, "ExecutorOwnershipLost") /\ UNCHANGED faults
      <4>1. runs'[q].status # "running"
        BY <3>2, VerdictSettles, SettlesOne DEF LossTypes
      <4>2. QED
        BY <2>2, <3>2, <4>1 DEF Released
    <3>3. QED
      BY <2>2, <3>1, <3>2 DEF Released
  <2>3. QED
    BY <1>6, <2>1, <2>2 DEF ExecutorWorks
<1>7. ASSUME ProcessStep
      PROVE  r \in owned' \/ executor' = "down" \/ faults' > 0
  <2>1. ASSUME NEW s \in Servers, ServerCrash(s) \/ ServerStart(s) \/ StartBreaks(s) \/ ServerReady(s)
        PROVE  r \in owned' \/ executor' = "down" \/ faults' > 0
    BY <1>1, <2>1 DEF ServerCrash, ServerStart, StartBreaks, ServerReady
  <2>2. ASSUME Stops PROVE r \in owned' \/ executor' = "down" \/ faults' > 0
    BY <2>2 DEF Stops
  <2>3. ASSUME NEW others, Dies(others) PROVE executor' = "down"
    BY <2>3 DEF Dies
  <2>4. CASE Stopped \/ StartFailed
    BY <1>1, <2>4 DEF Stopped, StartFailed
  <2>5. CASE Starts
    <3>1. runs'[r] = Ended(runs[r], "interrupted", "ExecutorRestart")
      BY <2>5 DEF Starts, ReconcileIncomplete
    <3>2. runs'[r].status = "interrupted"
      BY <3>1 DEF Ended, RunsTypeOK, RunRecord
    <3>3. QED
      BY <3>2
  <2>6. QED
    BY <1>7, <2>1, <2>2, <2>3, <2>4, <2>5 DEF ProcessStep, ServiceStops, ServiceCrash,
       ExecutorCrash, ExecutorStops, ExecutorChanges
<1>8. QED
  BY <1>3, <1>4, <1>5, <1>6, <1>7 DEF Next, CallStep, CallMoves

LEMMA OwnerlessStep ==
  ASSUME ServerInv, [Next]_vars
  PROVE  NoOwnerlessRun'
<1> TypeOK /\ Records /\ Workers /\ NoOwnerlessRun /\ RunsTypeOK
  BY DEF ServerInv, TypeOK
<1> SUFFICES ASSUME NEW r \in Runs, runs'[r].status = "running"
             PROVE  IF Sync(r)' THEN pc'[r] \in {"executing", "failed"}
                    ELSE r \in owned' \/ executor' = "down" \/ faults' > 0
  BY DEF NoOwnerlessRun, Running
<1>1. CASE Running(r)
  <2>1. pc[r] # "none" /\ runs[r].execution_mode = call[r].mode
    BY <1>1 DEF Records, Running, NoRun, Early
  <2>2. call'[r] = call[r]
    BY <2>1, WhoMoves, HandlersGone, OneCallMoves DEF Backstage, callVars
  <2>3. CASE Sync(r)
    <3>1. pc[r] \in {"executing", "failed"}
      BY <1>1, <2>3 DEF NoOwnerlessRun
    <3>2. CASE Backstage
      BY <2>2, <2>3, <3>1, <3>2 DEF Backstage, callVars, Sync
    <3>3. CASE HandlersMove
      BY <2>2, <2>3, <3>1, <3>3, HandlersGone DEF Sync
    <3>4. ASSUME NEW q \in Runs, CallMoves(q), q # r PROVE pc'[r] = pc[r]
      BY <3>4, OneCallMoves
    <3>5. ASSUME CallMoves(r) PROVE pc'[r] = "failed"
      <4>1. CASE SyncEnds(r)
        <5>1. Settling(r)
          BY <4>1, ReportSettles DEF SyncEnds
        <5>2. QED
          BY <5>1, SettlesOne
      <4>2. CASE SyncEndsUnrecorded(r)
        BY <4>2 DEF SyncEndsUnrecorded, Leaves, TypeOK
      <4>3. QED
        BY <2>3, <3>1, <3>5, <4>1, <4>2 DEF CallMoves, Prepare, SyncStarts, SyncNotRecorded,
           Connect, GiveUp, Accept, Arriving, Reject
    <3>6. QED
      BY <2>2, <2>3, <3>1, <3>2, <3>3, <3>4, <3>5, WhoMoves DEF Sync
  <2>4. CASE ~Sync(r)
    <3>1. runs[r].execution_mode = "async"
      BY <2>1, <2>4 DEF Sync, TypeOK, Call, Modes
    <3>2. r \in owned' \/ executor' = "down" \/ faults' > 0
      BY <1>1, <2>4, <3>1, OwnerStays DEF NoOwnerlessRun
    <3>3. QED
      BY <2>2, <2>4, <3>2 DEF Sync
  <2>5. QED
    BY <2>3, <2>4
<1>2. CASE ~Running(r)
  <2>1. PICK q \in Runs : SyncStarts(q) \/ Accept(q)
    BY <1>2, StepSpares DEF Spares
  <2>2. q = r
    BY <1>2, <2>1, RecordedCreates, CreatesOne DEF Running
  <2>3. CASE SyncStarts(r)
    BY <2>3 DEF SyncStarts, TypeOK, Sync
  <2>4. CASE Accept(r)
    BY <2>4 DEF Accept, Arriving, Accepts, Sync
  <2>5. QED
    BY <2>1, <2>2, <2>3, <2>4
<1>3. QED
  BY <1>1, <1>2
-----------------------------------------------------------------------------
(* What a step may be of the given types: each variable by who writes it.  *)
LEMMA TaskTypes ==
  ASSUME TypeOK, TaskOperation \/ \E S \in SUBSET Tasks : TasksErased(S)
  PROVE  /\ stage' \in [Tasks -> {"none", "open", "closed", "erased"}]
         /\ debts' \subseteq Tasks
         /\ holders' \in [Tasks -> SUBSET Clients]
         /\ TaskOperation => reconciled' \subseteq Runs
<1>1. ASSUME NEW t \in Tasks, CreateTask(t) \/ LeaseEnds(t)
      PROVE  /\ stage' \in [Tasks -> {"none", "open", "closed", "erased"}]
             /\ debts' \subseteq Tasks
             /\ holders' \in [Tasks -> SUBSET Clients]
             /\ reconciled' \subseteq Runs
  BY <1>1 DEF CreateTask, Durable!Open, LeaseEnds, Durable!Expire, TypeOK
<1>2. ASSUME NEW t \in Tasks, NEW c \in Clients,
             AcquireTaskLease(c, t) \/ UpdateTask(c, t)
      PROVE  /\ stage' \in [Tasks -> {"none", "open", "closed", "erased"}]
             /\ debts' \subseteq Tasks
             /\ holders' \in [Tasks -> SUBSET Clients]
             /\ reconciled' \subseteq Runs
  BY <1>2 DEF AcquireTaskLease, Durable!Acquire, UpdateTask, Durable!Work, TypeOK
<1>3. ASSUME NEW t \in Tasks, NEW c \in Clients, CloseTask(c, t)
      PROVE  /\ stage' \in [Tasks -> {"none", "open", "closed", "erased"}]
             /\ debts' \subseteq Tasks
             /\ holders' \in [Tasks -> SUBSET Clients]
             /\ reconciled' \subseteq Runs
  BY <1>3 DEF CloseTask, Durable!Close, TypeOK
<1>4. ASSUME NEW S \in SUBSET Tasks, TasksErased(S)
      PROVE  /\ stage' \in [Tasks -> {"none", "open", "closed", "erased"}]
             /\ debts' \subseteq Tasks
             /\ holders' \in [Tasks -> SUBSET Clients]
             /\ reconciled' \subseteq Runs
  BY <1>4 DEF TasksErased, Durable!Erase, TypeOK
<1>5. QED
  BY <1>1, <1>2, <1>3, <1>4 DEF TaskOperation

LEMMA CallTypes ==
  ASSUME TypeOK, NEW r \in Runs, CallMoves(r)
  PROVE  TypeOK' \/ ~RunsTypeOK'
<1> SUFFICES ASSUME RunsTypeOK' PROVE TypeOK'
  OBVIOUS
<1>1. ASSUME NEW s \in Servers, NEW c \in Clients, NEW q \in Calls, Prepare(s, c, r, q)
      PROVE  TypeOK'
  <2>1. q \in Call /\ (q.task # NoTask => q.task \in Tasks)
    BY DEF Call
  <2>2. /\ debts' \subseteq Tasks /\ slots' \subseteq Runs /\ call' \in [Runs -> Call]
        /\ UNCHANGED <<stage, holders>>
    BY <1>1, <2>1 DEF TypeOK, Prepare, Prepared, Marks, Durable!Work
  <2>3. QED
    BY <1>1, <2>2 DEF TypeOK, Places, Prepare, serverVars
<1>2. CASE SyncStarts(r)
  BY <1>2 DEF TypeOK, Places, SyncStarts, serverVars, taskVars
<1>3. CASE SyncNotRecorded(r) \/ SyncEndsUnrecorded(r)
  BY <1>3 DEF TypeOK, Places, SyncNotRecorded, SyncEndsUnrecorded, Leaves, Fails, serverVars,
     taskVars
<1>4. CASE SyncEnds(r)
  BY <1>4 DEF TypeOK, Places, SyncEnds, Leaves, Reported, serverVars, taskVars
<1>5. CASE Connect(r)
  BY <1>5 DEF TypeOK, Places, Connect, Leaves, serverVars, taskVars, executorVars
<1>6. CASE GiveUp(r) \/ Reject(r)
  BY <1>6 DEF TypeOK, Places, GiveUp, Reject, Leaves, serverVars, taskVars, executorVars
<1>7. CASE Accept(r)
  BY <1>7 DEF TypeOK, Places, Accept, Accepts, Leaves, serverVars, taskVars
<1>8. QED
  BY <1>1, <1>2, <1>3, <1>4, <1>5, <1>6, <1>7 DEF CallMoves

LEMMA ProcessTypes ==
  ASSUME TypeOK, RunsTypeOK', ProcessStep
  PROVE  TypeOK'
<1>1. ASSUME NEW s \in Servers, ServerCrash(s) PROVE TypeOK'
  BY <1>1 DEF TypeOK, Places, ServerCrash, HandlersEnd, taskVars
<1>2. ASSUME NEW s \in Servers, ServiceStops(s) PROVE TypeOK'
  BY <1>2 DEF TypeOK, ServiceStops, Stops, taskVars, callVars
<1>3. ASSUME NEW s \in Servers, ServerStart(s) \/ StartBreaks(s) PROVE TypeOK'
  BY <1>3 DEF TypeOK, ServerStart, StartBreaks, serverVars, taskVars, callVars
<1>4. ASSUME NEW s \in Servers, ServerReady(s) PROVE TypeOK'
  <2>1. \E S \in SUBSET Tasks : TasksErased(S)
    BY <1>4 DEF ServerReady
  <2>2. UNCHANGED reconciled
    BY <2>1 DEF TasksErased
  <2>3. QED
    BY <1>4, <2>1, <2>2, TaskTypes DEF TypeOK, ServerReady, callVars
<1>5. CASE ServiceCrash
  BY <1>5 DEF TypeOK, Places, ServiceCrash, Dies, HandlersEnd, taskVars
<1>6. CASE ExecutorCrash \/ ExecutorStops
  BY <1>6 DEF TypeOK, Places, ExecutorCrash, ExecutorStops, SocketCloses, Unread, Dies, Stops,
     serverVars, taskVars
<1>7. CASE ExecutorChanges
  BY <1>7 DEF TypeOK, ExecutorChanges, Stopped, Starts, StartFailed, serverVars, taskVars,
     callVars
<1>8. QED
  BY <1>1, <1>2, <1>3, <1>4, <1>5, <1>6, <1>7 DEF ProcessStep

LEMMA TypeStep ==
  ASSUME TypeOK, RunsTypeOK', [Next]_vars
  PROVE  TypeOK'
<1>1. CASE TaskOperation
  BY <1>1, TaskTypes DEF TaskOperation, TypeOK, serverVars, callVars, executorVars
<1>2. CASE Housekeeping
  <2>1. UNCHANGED taskVars \/ \E S \in SUBSET Tasks : TasksErased(S)
    BY <1>2 DEF Housekeeping
  <2>2. (\E S \in SUBSET Tasks : TasksErased(S)) => UNCHANGED reconciled
    BY DEF TasksErased
  <2>3. QED
    BY <1>2, <2>1, <2>2, TaskTypes DEF Housekeeping, TypeOK, serverVars, callVars, taskVars
<1>3. CASE ProcessStep
  BY <1>3, ProcessTypes
<1>4. ASSUME NEW r \in Runs, CallStep(r) PROVE TypeOK'
  <2>1. ASSUME NEW c \in Clients, CancelRun(c, r) PROVE TypeOK'
    BY <2>1 DEF CancelRun, CancelAccepted, TypeOK, serverVars, taskVars, callVars
  <2>2. CASE ExecutorWorks(r)
    <3>1. /\ UNCHANGED <<serverVars, taskVars, callVars, executor>>
          /\ owned' \subseteq owned /\ cancelling' \subseteq cancelling /\ slots' \subseteq slots
          /\ faults' \in 0 .. MaxFaults
      BY <2>2 DEF ExecutorWorks, Settles, VerdictLost, Released, Fails, Repairs, TypeOK
    <3>2. QED
      BY <3>1 DEF TypeOK, serverVars, taskVars, callVars
  <2>3. QED
    BY <1>4, <2>1, <2>2, CallTypes DEF CallStep, CallMoves
<1>5. CASE UNCHANGED vars
  BY <1>5 DEF TypeOK, vars, serverVars, taskVars, callVars, executorVars
<1>6. QED
  BY <1>1, <1>2, <1>3, <1>4, <1>5 DEF Next

LEMMA InitType == Init => TypeOK
<1> SUFFICES ASSUME Init PROVE TypeOK
  OBVIOUS
<1> USE DEF Init, ExecutorInit, Durable!Init
<1>1. RunsTypeOK
  BY StoreInitInv DEF StoreInv
<1>2. call \in [Runs -> Call] /\ pc \in [Runs -> Places] /\ faults \in 0 .. MaxFaults
  BY DEF NoCall, Call, Modes, Classes, Places
<1>3. QED
  BY <1>1, <1>2 DEF TypeOK

LEMMA InitInv == Init => ServerInv
<1> SUFFICES ASSUME Init PROVE ServerInv
  OBVIOUS
<1> USE DEF Init, ExecutorInit
<1>1. Records
  BY DEF Records, StoreInit, Running, NoRun
<1>2. Workers /\ Processes
  BY DEF Workers, Handled, Processes
<1>3. SlotsConserved
  BY DEF SlotsConserved, Heavy, NoCall
<1>4. MutationAccountedFor /\ NoOwnerlessRun
  BY DEF MutationAccountedFor, NoOwnerlessRun, StoreInit, Running, NoRun
<1>5. QED
  BY InitType, <1>1, <1>2, <1>3, <1>4 DEF ServerInv
-----------------------------------------------------------------------------
(* The server and the executor together write Run records only through the *)
(* operations of runs.py (server.py:534-616, executor.py:283-405).         *)
THEOREM ServerImplementsStore == Spec => StoreSpec
<1>1. Init => StoreInit
  BY DEF Init, ExecutorInit
<1>2. Init => TypeOK
  BY InitType
<1>3. TypeOK /\ StoreInv' /\ [Next]_vars => TypeOK'
  BY TypeStep DEF StoreInv
<1>4. TypeOK /\ [Next]_vars => [StoreNext]_runs
  BY ServerStoreStep
<1>5. TypeOK /\ StoreInv /\ [Next]_vars => (TypeOK /\ StoreInv)'
  BY <1>3, <1>4, StoreInvStep
<1>6. QED
  BY <1>1, <1>2, <1>4, <1>5, StoreInitInv, PTL DEF Spec, StoreSpec

(* So every Run, synchronous or not, follows the abstract life cycle,      *)
(* whatever servers and executors write it (server.py:534-616).            *)
THEOREM ServerImplementsLifecycle == Spec => ImplementsLifecycle
BY ServerImplementsStore, StoreImplementsLifecycle, PTL

(* The inductive invariant of the server.                                  *)
THEOREM ServerInvariant == Spec => []ServerInv
<1>1. ServerInv /\ RunsTypeOK' /\ [Next]_vars => ServerInv'
  BY TypeStep, RecordsStep, WorkersStep, ProcessesStep, AccountStep, SlotsStep, OwnerlessStep
     DEF ServerInv
<1>2. StoreInv => RunsTypeOK
  BY DEF StoreInv
<1>3. QED
  BY <1>1, <1>2, InitInv, ServerImplementsStore, StoreTypeCorrect, PTL DEF Spec

(* The state of server, executor and stores is well formed                 *)
(* (server.py:534-616).                                                    *)
THEOREM ServerTypeCorrect == Spec => []TypeOK
<1>1. ServerInv => TypeOK
  BY DEF ServerInv
<1>2. QED
  BY <1>1, ServerInvariant, PTL

(* No mutating call is forgotten by its Task before somebody reconciled it *)
(* (server.py:515-531).                                                    *)
THEOREM MutationsAreAccountedFor == Spec => []MutationAccountedFor
<1>1. ServerInv => MutationAccountedFor
  BY DEF ServerInv
<1>2. QED
  BY <1>1, ServerInvariant, PTL

(* Heavy slots are neither leaked nor given back early by any failure of   *)
(* a handler or a process (server.py:558-616).                             *)
THEOREM HeavySlotsAreConserved == Spec => []SlotsConserved
<1>1. ServerInv => SlotsConserved
  BY DEF ServerInv
<1>2. QED
  BY <1>1, ServerInvariant, PTL

(* No Run is running without a handler or an executor task, but for a      *)
(* crash or a failed write (server.py:592-616, executor.py:346-359).       *)
THEOREM ServerRunsHaveOwners == Spec => []NoOwnerlessRun
<1>1. ServerInv => NoOwnerlessRun
  BY DEF ServerInv
<1>2. QED
  BY <1>1, ServerInvariant, PTL

(* Only a start of a process reconciles, and only what no other live       *)
(* process of its kind owns (server.py:1811-1826, service.py:40-49).       *)
THEOREM StartsReconcileTheirOwn == Spec => OnlyOwnRunsReconciled
<1> DEFINE TheirOwn ==
      \A r \in Runs :
        Running(r) /\ runs'[r].error_type \in {"ServerRestart", "ExecutorRestart"} =>
          r \notin owned /\ (pc[r] = "executing" => deployment = "stdio")
<1>1. ASSUME ServerInv, [Next]_vars PROVE TheirOwn
  <2> TypeOK /\ Records /\ Workers /\ Processes /\ RunsTypeOK
    BY <1>1 DEF ServerInv, TypeOK
  <2> SUFFICES ASSUME NEW r \in Runs, Running(r), runs'[r].error_type \in RestartTypes
               PROVE  r \notin owned /\ (pc[r] = "executing" => deployment = "stdio")
    BY DEF RestartTypes
  <2>1. runs[r].error_type \notin RestartTypes /\ runs[r].execution_mode = call[r].mode
    BY DEF Records, RestartTypes
  <2>2. ASSUME NEW s \in Servers, ServerStart(s) \/ StartBreaks(s)
        PROVE  r \notin owned /\ (pc[r] = "executing" => deployment = "stdio")
    <3>1. MayStart(s) /\ Sync(r)
      BY <2>1, <2>2 DEF ServerStart, StartBreaks, ReconcileIncomplete, ServerModes, Sync
    <3>2. CASE deployment = "unified"
      BY <3>1, <3>2 DEF Workers, Handled, MayStart
    <3>3. CASE deployment # "unified"
      BY <3>1, <3>3 DEF TypeOK, Workers
    <3>4. QED
      BY <3>2, <3>3
  <2>3. CASE Starts \/ StartFailed
    <3>1. executor = "down" /\ runs[r].execution_mode = "async"
      BY <2>1, <2>3 DEF Starts, StartFailed, ReconcileIncomplete
    <3>2. QED
      BY <2>1, <3>1 DEF Processes, Workers, Sync
  <2>4. ASSUME NEW q \in Runs, CallStep(q) PROVE FALSE
    <3>1. runs[r] # NoRun
      BY DEF Running, NoRun
    <3>2. CASE SyncStarts(q) \/ Accept(q)
      BY <2>1, <3>1, <3>2, RecordedCreates, CreatesOne
    <3>3. CASE Settling(q)
      BY <2>1, <3>3, SettlesOne
    <3>4. QED
      BY <2>1, <2>4, <3>2, <3>3, CallStoreStep
  <2>5. ASSUME Retains \/ UNCHANGED runs PROVE FALSE
    BY <2>1, <2>5, RetentionSpares
  <2>6. CASE ProcessStep
    BY <2>2, <2>3, <2>5, <2>6, ProcessRetainsOrStarts
  <2>7. QED
    BY <1>1, <2>4, <2>5, <2>6, HousekeepingStoreStep DEF Next, TaskOperation, vars, executorVars
<1>2. QED
  BY <1>1, ServerInvariant, PTL DEF Spec, OnlyOwnRunsReconciled
-----------------------------------------------------------------------------
(* The calls that use the remote machine heavily, wherever they run.       *)
HeavyAtWork == {r \in Runs : Holds(r)}

SlotLimit == IsFiniteSet(slots) /\ Cardinality(slots) <= MaxHeavy

LEMMA FewerSlots ==
  ASSUME SlotLimit, slots' \subseteq slots
  PROVE  SlotLimit'
<1>1. IsFiniteSet(slots') /\ Cardinality(slots') <= Cardinality(slots)
  BY FS_Subset DEF SlotLimit
<1>2. Cardinality(slots') \in Nat /\ Cardinality(slots) \in Nat
  BY <1>1, FS_CardinalityType DEF SlotLimit
<1>3. QED
  BY <1>1, <1>2 DEF SlotLimit

LEMMA OneMoreSlot ==
  ASSUME SlotLimit, SlotFree, NEW r, slots' = slots \cup {r}
  PROVE  SlotLimit'
<1>1. /\ IsFiniteSet(slots')
      /\ Cardinality(slots') = Cardinality(slots) \/ Cardinality(slots') = Cardinality(slots) + 1
  BY FS_AddElement DEF SlotLimit
<1>2. Cardinality(slots) \in Nat
  BY FS_CardinalityType DEF SlotLimit
<1>3. QED
  BY <1>1, <1>2 DEF SlotLimit, SlotFree

(* Servers and executor of a deployment share the slots of a target: never *)
(* more than max_heavy_concurrency heavy executions are at work, whichever *)
(* of them runs them and however one of them ends (execution.py:42-52,     *)
(* server.py:558-616, executor.py:296-344).                                *)
THEOREM HeavyWorkIsLimited == Spec => [](Cardinality(HeavyAtWork) <= MaxHeavy)
<1>1. Init => SlotLimit
  BY FS_EmptySet DEF Init, ExecutorInit, SlotLimit
<1>2. ASSUME SlotLimit, [Next]_vars PROVE SlotLimit'
  <2>1. CASE Backstage
    BY <1>2, <2>1, FewerSlots DEF Backstage
  <2>2. CASE HandlersMove
    BY <1>2, <2>2, FewerSlots DEF HandlersMove, ServerCrash, ServiceCrash, ExecutorCrash,
       ExecutorStops, Dies, Stops
  <2>3. ASSUME NEW r \in Runs, CallMoves(r) PROVE SlotLimit'
    <3>1. slots' \subseteq slots \/ (SlotFree /\ slots' = slots \cup {r})
      BY <2>3 DEF CallMoves, Prepare, SyncStarts, SyncNotRecorded, SyncEnds, SyncEndsUnrecorded,
         Connect, GiveUp, Accept, Accepts, Reject, executorVars
    <3>2. QED
      BY <1>2, <3>1, FewerSlots, OneMoreSlot
  <2>4. QED
    BY <1>2, <2>1, <2>2, <2>3, WhoMoves
<1>3. ServerInv /\ SlotLimit => Cardinality(HeavyAtWork) <= MaxHeavy
  BY DEF ServerInv, SlotsConserved, Holds, HeavyAtWork, SlotLimit
<1>4. QED
  BY <1>1, <1>2, <1>3, ServerInvariant, PTL DEF Spec
=============================================================================
