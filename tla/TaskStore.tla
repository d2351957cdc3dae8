----------------------------- MODULE TaskStore -----------------------------
(***************************************************************************)
(* The Task store (tasks.py): durable Tasks with a revision, and one       *)
(* execution lease per Task.  An operation holds the lock of its Task (a   *)
(* flock, or the write transaction of the unified database), so it is one  *)
(* step; an operation whose checks fail raises and changes nothing.  With  *)
(* the legacy files a crash can part the directory of a new Task from its  *)
(* record, and the write of a closed record from the move to the archive   *)
(* and the removal of the lease file; the lock goes with the process.      *)
(*                                                                         *)
(* The open statuses active, partial and blocked are one: no operation     *)
(* tells them apart.  A patch that leaves a field out asks for the value   *)
(* it has, so an edit is the content it asks for.                          *)
(***************************************************************************)
EXTENDS Naturals

CONSTANTS
  Tasks,
  Clients,         \* callers, each with an executor_id and scope of its own
  Identities,      \* normalized (title, objective, project_ref)
  Contents,        \* the contents that callers ask for
  Transactional,   \* TRUE: the unified database, FALSE: the legacy files
  ArchivedDays,    \* retention of archived Tasks, in ticks
  LeaseTimes,      \* lease_seconds asked for, in ticks
  MaxRevision, MaxLeases, MaxTime   \* bounds

Content ==
  [identity : Identities, next_action : BOOLEAN, retained : BOOLEAN,
   blockers : SUBSET {"pending", "other"}]

ASSUME ContentsAssumption == Contents \subseteq Content
ASSUME ModeAssumption == Transactional \in BOOLEAN
ASSUME TimesAssumption == LeaseTimes \subseteq Nat \ {0} /\ ArchivedDays \in Nat
ASSUME IdentitiesAssumption == Identities # {}
ASSUME BoundsAssumption ==
  MaxRevision \in Nat \ {0} /\ MaxLeases \in Nat /\ MaxTime \in Nat \ {0}

VARIABLES
  tasks,     \* Task id -> record
  leases,    \* Task id -> execution lease
  now,       \* the clock
  issued,    \* leases granted so far: a lease id is a fresh number
  token,     \* the lease id a client was last given for a Task
  view,      \* the version of a Task a client last read or wrote
  retitled,  \* history: Tasks whose identity an update changed
  broken     \* active directories without a record

vars == <<tasks, leases, now, issued, token, view, retitled, broken>>

Outcomes == {"completed", "cancelled"}

(* archived_at is 0 for a Task that was never closed; "absent" is a Task   *)
(* not yet created, "deleted" one retention removed.                       *)
TaskRecord ==
  [status : {"absent", "open", "deleted"} \cup Outcomes, revision : 0 .. MaxRevision,
   archived : BOOLEAN, archived_at : Nat, content : Content]

Lease == [id : 0 .. MaxLeases, expires_at : Nat]
NoLease == [id |-> 0, expires_at |-> 0]

(* A version read, and the client's own lease at that moment (0: none).    *)
Version == [record : TaskRecord, lease : 0 .. MaxLeases]

Open(t) == tasks[t].status = "open" /\ ~tasks[t].archived
Closed(t) == tasks[t].status \in Outcomes
Residue(t) == Closed(t) /\ ~tasks[t].archived
Pending(t) == "pending" \in tasks[t].content.blockers

(* _active_execution_lease; an expired lease counts as none and is removed.*)
ActiveLease(t) == leases[t].id # 0 /\ leases[t].expires_at > now

(* _require_execution_lease, for the id the client presents.               *)
Authorized(c, t) == ActiveLease(t) => token[c][t] = leases[t].id

OwnLease(c, t) ==
  IF ActiveLease(t) /\ token[c][t] = leases[t].id THEN leases[t].id ELSE 0

Blank ==
  [identity |-> CHOOSE i \in Identities : TRUE, next_action |-> FALSE,
   retained |-> FALSE, blockers |-> {}]

NoTask ==
  [status |-> "absent", revision |-> 0, archived |-> FALSE, archived_at |-> 0,
   content |-> Blank]

Init ==
  /\ tasks = [t \in Tasks |-> NoTask]
  /\ leases = [t \in Tasks |-> NoLease]
  /\ now = 1
  /\ issued = 0
  /\ token = [c \in Clients |-> [t \in Tasks |-> 0]]
  /\ view = [c \in Clients |-> [t \in Tasks |-> [record |-> NoTask, lease |-> 0]]]
  /\ retitled = {}
  /\ broken = {}

TypeOK ==
  /\ tasks \in [Tasks -> TaskRecord]
  /\ leases \in [Tasks -> Lease]
  /\ now \in 1 .. MaxTime
  /\ issued \in 0 .. MaxLeases
  /\ token \in [Clients -> [Tasks -> 0 .. MaxLeases]]
  /\ view \in [Clients -> [Tasks -> Version]]
  /\ retitled \subseteq Tasks
  /\ broken \subseteq Tasks
-----------------------------------------------------------------------------
(* The answer of an operation on t shows c the Task as it now is.          *)
Answered(c, t) ==
  view' = [view EXCEPT ![c][t] = [record |-> tasks[t], lease |-> OwnLease(c, t)]']

(* get_task                                                                *)
Get(c, t) ==
  /\ tasks[t].status \notin {"absent", "deleted"}
  /\ UNCHANGED <<tasks, leases, now, issued, token, retitled, broken>>
  /\ Answered(c, t)

Equivalent(i) == {t \in Tasks : Open(t) /\ tasks[t].content.identity = i}

(* Mutant: no search for an equivalent open Task.                          *)
CreateAnyway(c, t, content) ==
  /\ tasks[t] = NoTask
  /\ tasks' = [tasks EXCEPT ![t] = [NoTask EXCEPT !.status = "open", !.revision = 1,
                                                  !.content = content]]
  /\ UNCHANGED <<leases, now, issued, token, retitled, broken>>
  /\ Answered(c, t)

(* create, when no equivalent open Task is there to return instead.  It    *)
(* reads every active directory, and raises on one without a record.       *)
Create(c, t, content) ==
  /\ tasks[t] = NoTask
  /\ broken = {}
  /\ Equivalent(content.identity) = {}
  /\ tasks' = [tasks EXCEPT ![t] = [NoTask EXCEPT !.status = "open", !.revision = 1,
                                                  !.content = content]]
  /\ UNCHANGED <<leases, now, issued, token, retitled, broken>>
  /\ Answered(c, t)

(* A crash in create, before the record is in its directory.  The one left *)
(* behind has the latest id: repair comes to it last, and raises there.    *)
CreateCrashes(t, content) ==
  /\ ~Transactional
  /\ tasks[t] = NoTask
  /\ broken = {}
  /\ Equivalent(content.identity) = {}
  /\ broken' = {t}
  /\ UNCHANGED <<tasks, leases, now, issued, token, view, retitled>>

(* Mutant: the new revision is the old one.                                *)
EditedInPlace(record, content) == [record EXCEPT !.content = content]

(* _build_updated                                                          *)
Edited(record, content) ==
  [record EXCEPT !.revision = @ + 1, !.content = content]

(* The reserved blocker is put on, or taken off with evidence.             *)
Marked(content) == [content EXCEPT !.blockers = @ \cup {"pending"}]
Reconciled(content) == [content EXCEPT !.blockers = @ \ {"pending"}]

(* expected_revision is left out, or what the caller last saw.             *)
Expected(c, t) == {0, view[c][t].record.revision}

(* Mutant: the expected revision is not compared.                          *)
CurrentUnchecked(t, expected) == TRUE

Current(t, expected) == expected = 0 \/ expected = tasks[t].revision

(* Mutant: the lease is not asked for.                                     *)
MarkWithoutLease(c, t) ==
  /\ Open(t)
  /\ tasks[t].revision < MaxRevision
  /\ tasks' = [tasks EXCEPT ![t] = Edited(@, Marked(@.content))]
  /\ UNCHANGED <<leases, now, issued, token, retitled, broken>>
  /\ Answered(c, t)

(* mark_mutation_pending, before a mutating execution for the Task.        *)
MarkMutationPending(c, t) ==
  /\ Open(t)
  /\ Authorized(c, t)
  /\ tasks[t].revision < MaxRevision
  /\ tasks' = [tasks EXCEPT ![t] = Edited(@, Marked(@.content))]
  /\ UNCHANGED <<leases, now, issued, token, retitled, broken>>
  /\ Answered(c, t)

(* update to an open status; reconcile is whether reconcile_mutation is    *)
(* given.  Only that may take the pending mutation off the blockers.       *)
Update(c, t, expected, content, reconcile) ==
  /\ Open(t)
  /\ Authorized(c, t)
  /\ Current(t, expected)
  /\ tasks[t].revision < MaxRevision
  /\ Pending(t) /\ "pending" \notin content.blockers => reconcile
  /\ reconcile => Pending(t)
  /\ tasks' = [tasks EXCEPT ![t] =
                 Edited(@, IF reconcile THEN Reconciled(content) ELSE content)]
  /\ retitled' = IF content.identity = tasks[t].content.identity
                 THEN retitled ELSE retitled \cup {t}
  /\ UNCHANGED <<leases, now, issued, token, broken>>
  /\ Answered(c, t)

(* The final record of a close: its checks, and the record it writes.      *)
(* A pending mutation stops both outcomes, before and after the patch.     *)
Final(c, t, expected, content, outcome) ==
  /\ Open(t)
  /\ Authorized(c, t)
  /\ ~Pending(t) /\ "pending" \notin content.blockers
  /\ Current(t, expected)
  /\ tasks[t].revision < MaxRevision
  /\ outcome = "completed" => ~content.next_action /\ content.blockers = {}

(* Mutant: a status literal the schema does not have.                      *)
ClosingAsArchived(record, content, outcome, moved) ==
  [Edited(record, content) EXCEPT !.status = "archived", !.archived = moved,
                                  !.archived_at = now]

Closing(record, content, outcome, moved) ==
  [Edited(record, content) EXCEPT !.status = outcome, !.archived = moved,
                                  !.archived_at = now]

(* close: record, move and lease in one transaction, or uninterrupted.     *)
Close(c, t, expected, content, outcome) ==
  /\ Final(c, t, expected, content, outcome)
  /\ tasks' = [tasks EXCEPT ![t] = Closing(@, content, outcome, TRUE)]
  /\ leases' = [leases EXCEPT ![t] = NoLease]
  /\ UNCHANGED <<now, issued, token, retitled, broken>>
  /\ Answered(c, t)

(* A crash in close, after the write or after the move.                    *)
CloseCrashes(c, t, expected, content, outcome) ==
  /\ ~Transactional
  /\ Final(c, t, expected, content, outcome)
  /\ \E moved \in BOOLEAN : tasks' = [tasks EXCEPT ![t] = Closing(@, content, outcome, moved)]
  /\ UNCHANGED <<leases, now, issued, token, view, retitled, broken>>

(* The same close retried by a client, or archive_task: the committed      *)
(* record is moved as it is, and the lease file goes.                      *)
RetryClose(c, t) ==
  /\ Closed(t)
  /\ Residue(t) => Authorized(c, t)
  /\ tasks' = [tasks EXCEPT ![t].archived = TRUE]
  /\ leases' = [leases EXCEPT ![t] = NoLease]
  /\ UNCHANGED <<now, issued, token, retitled, broken>>
  /\ Answered(c, t)

(* Mutant: any lease on file stops the repair, an expired one as well.     *)
RepairUnleased(t) ==
  /\ Residue(t)
  /\ leases[t] = NoLease
  /\ tasks' = [tasks EXCEPT ![t].archived = TRUE]
  /\ UNCHANGED <<leases, now, issued, token, view, retitled, broken>>

(* repair of a starting server: close without a lease id.                  *)
Repair(t) ==
  /\ Residue(t)
  /\ ~ActiveLease(t)
  /\ tasks' = [tasks EXCEPT ![t].archived = TRUE]
  /\ leases' = [leases EXCEPT ![t] = NoLease]
  /\ UNCHANGED <<now, issued, token, view, retitled, broken>>

(* Mutant: retention by age alone.                                         *)
ExpiredByAge(t) ==
  Closed(t) /\ tasks[t].archived /\ tasks[t].archived_at + ArchivedDays <= now

Expired(t) ==
  /\ Closed(t) /\ tasks[t].archived
  /\ ~tasks[t].content.retained
  /\ tasks[t].archived_at + ArchivedDays <= now

(* cleanup: one transaction, or one directory after the other.             *)
Cleanup(S) ==
  /\ \A t \in S : Expired(t)
  /\ Transactional => \A t \in Tasks : Expired(t) => t \in S
  /\ tasks' = [t \in Tasks |-> IF t \in S THEN [tasks[t] EXCEPT !.status = "deleted"]
                               ELSE tasks[t]]
  /\ leases' = [t \in Tasks |-> IF t \in S THEN NoLease ELSE leases[t]]
  /\ UNCHANGED <<now, issued, token, view, retitled, broken>>
-----------------------------------------------------------------------------
(* Mutant: an active lease of somebody else is taken over.                 *)
AcquireAnyway(c, t, seconds) ==
  /\ Open(t)
  /\ issued < MaxLeases /\ now + seconds <= MaxTime
  /\ issued' = issued + 1
  /\ leases' = [leases EXCEPT ![t] = [id |-> issued', expires_at |-> now + seconds]]
  /\ token' = [token EXCEPT ![c][t] = issued']
  /\ UNCHANGED <<tasks, now, view, retitled, broken>>

(* acquire_execution_lease of a free Task; to the owner of an active lease *)
(* it repeats the id, to anybody else it says busy.                        *)
AcquireLease(c, t, seconds) ==
  /\ Open(t)
  /\ ~ActiveLease(t)
  /\ issued < MaxLeases /\ now + seconds <= MaxTime
  /\ issued' = issued + 1
  /\ leases' = [leases EXCEPT ![t] = [id |-> issued', expires_at |-> now + seconds]]
  /\ token' = [token EXCEPT ![c][t] = issued']
  /\ UNCHANGED <<tasks, now, view, retitled, broken>>

RefreshLease(c, t, seconds) ==
  /\ Open(t)
  /\ OwnLease(c, t) # 0
  /\ now + seconds <= MaxTime
  /\ leases' = [leases EXCEPT ![t].expires_at = now + seconds]
  /\ UNCHANGED <<tasks, now, issued, token, view, retitled, broken>>

ReleaseLease(c, t) ==
  /\ Open(t)
  /\ OwnLease(c, t) # 0
  /\ leases' = [leases EXCEPT ![t] = NoLease]
  /\ UNCHANGED <<tasks, now, issued, token, view, retitled, broken>>

Tick ==
  /\ now < MaxTime
  /\ now' = now + 1
  /\ UNCHANGED <<tasks, leases, issued, token, view, retitled, broken>>
-----------------------------------------------------------------------------
Next ==
  \/ \E c \in Clients, t \in Tasks :
       \/ Get(c, t) \/ MarkMutationPending(c, t) \/ RetryClose(c, t) \/ ReleaseLease(c, t)
       \/ \E content \in Contents : Create(c, t, content)
       \/ \E expected \in Expected(c, t), content \in Contents :
            \/ \E reconcile \in BOOLEAN : Update(c, t, expected, content, reconcile)
            \/ \E outcome \in Outcomes :
                 \/ Close(c, t, expected, content, outcome)
                 \/ CloseCrashes(c, t, expected, content, outcome)
       \/ \E seconds \in LeaseTimes : AcquireLease(c, t, seconds) \/ RefreshLease(c, t, seconds)
  \/ \E t \in Tasks : Repair(t) \/ \E content \in Contents : CreateCrashes(t, content)
  \/ \E S \in SUBSET Tasks : Cleanup(S)
  \/ Tick

Spec == Init /\ [][Next]_vars

(* The clock runs and a server that cannot repair is started again.        *)
FairSpec == Spec /\ WF_vars(Tick) /\ \A t \in Tasks : WF_vars(Repair(t))
-----------------------------------------------------------------------------
(* What a reader sees of a Task: the state of TaskLifecycle.               *)
Stage(t) ==
  CASE tasks[t].status = "absent" -> "none"
    [] tasks[t].status = "deleted" -> "erased"
    [] OTHER -> tasks[t].status

Holders(t) == {c \in Clients : OwnLease(c, t) # 0}

Lifecycle ==
  INSTANCE TaskLifecycle WITH
    stage <- [t \in Tasks |-> Stage(t)],
    debts <- {t \in Tasks : Pending(t)},
    kept  <- {t \in Tasks : tasks[t].content.retained},
    holders <- [t \in Tasks |-> Holders(t)]

(* A Task closes once, for good, never over an unreconciled mutation, by   *)
(* whatever mix of update, close, retry, crash, repair, expiry and         *)
(* retention; its lease passes from one client to another only through a   *)
(* time when nobody holds it; and only an unretained closed Task is erased *)
(* (tasks.py:428-482, 855-1209).  The promise does not name who acts:      *)
(* StableUnderLease says that the holder alone does.                       *)
ImplementsLifecycle == Lifecycle!Spec

(* A write of c that names the revision it expects.                        *)
Replaces(c, t, expected) ==
  \E content \in Contents :
    \/ \E reconcile \in BOOLEAN : Update(c, t, expected, content, reconcile)
    \/ \E outcome \in Outcomes :
         Close(c, t, expected, content, outcome) \/ CloseCrashes(c, t, expected, content, outcome)

(* No update is lost: a client that names the revision it last saw replaces*)
(* what it saw, and not what another client wrote, marked or closed in     *)
(* between (docs/runs-and-tasks.md:132; tasks.py:957-960).                 *)
NoLostUpdate ==
  [][\A c \in Clients, t \in Tasks :
       LET saw == view[c][t].record IN
       saw.revision # 0 /\ Replaces(c, t, saw.revision) =>
         saw.content = tasks[t].content /\ saw.status = tasks[t].status]_vars

(* What a client read under its lease stays true for as long as it holds   *)
(* that lease: nobody else, with no id, an old id or a lease of another    *)
(* Task, changes the Task under it (tasks.py:428-449).  The exception is   *)
(* its own close cut short by a crash, which never answered it.            *)
StableUnderLease ==
  \A c \in Clients, t \in Tasks :
    OwnLease(c, t) # 0 /\ view[c][t].lease = OwnLease(c, t) =>
      view[c][t].record = tasks[t] \/ Closed(t)

(* Two open Tasks with one identity come only from an update that changed  *)
(* an identity, never from creations (tasks.py:634-640).                   *)
OneOpenTaskPerIdentity ==
  \A t, u \in Tasks :
    t # u /\ Open(t) /\ Open(u) /\ tasks[t].content.identity = tasks[u].content.identity
      => t \in retitled \/ u \in retitled

(* A close cut short by a crash is completed (docs/runs-and-tasks.md:146). *)
ResidueArchived == \A t \in Tasks : Residue(t) ~> ~Residue(t)

(* A starting server completes whatever residue it finds                   *)
(* (docs/runs-and-tasks.md:146).                                           *)
RepairNeverRefused == \A t \in Tasks : Residue(t) => ~ActiveLease(t)
=============================================================================
