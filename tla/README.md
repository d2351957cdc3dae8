# Verification of Hypershell Reach

Hypershell Reach runs commands on configured SSH targets for agents, keeps a
durable record of every execution (a *Run*) and of every unit of work that
spans conversations (a *Task*), and governs proposals for reusable tooling
(*Candidates*). This directory holds TLA+ models of the parts that carry that
promise, the TLC configurations that check them on small instances, and proofs
of the main results for every instance. Paths without a directory are in
`src/src/hypershell_reach/`, docs are in `src/docs/`, tests in `src/tests/`.

    tlc -workers 2 -config MCExecutor.cfg MCExecutor      # one run
    tlapm Executor_proofs.tla                             # one module of proofs

## 1. The system: inventory

| Part | State | Operations | Works with | Hard behaviour | What makes it correct |
| --- | --- | --- | --- | --- | --- |
| Run store (`runs.py`) | one SQLite row per Run: status, error, ambiguity, retention | create, finish, fail_local, interrupt, mark_unknown, reconcile_incomplete, set_retained, cleanup; one-time import of JSON Runs, export | executor, MCP server, UI (reads) | several writers settle one Run; restart; retention | one verdict per Run, for good; doubtful and retained Runs survive |
| SSH execution (`execution.py`) | one child process per call; flock slot files per target | run_ssh; acquire and release a heavy lease | executor, MCP server | stdin, exit, timeout and cancellation race; process groups; flocks go with their process | the verdict says what the process did; nothing runs on after it was cancelled; slots bound heavy work |
| Executor (`executor.py`) | `_tasks`, `_leases`, `_cancel_reasons`, semaphore; socket and lock file | submit, cancel, await_terminal, stop, start, done callback; socket client | Run store, SSH execution | interleaving of tasks, callbacks and handlers; failed writes; crash and restart | permits and slots are conserved; no Run without an owner; every Run settles |
| Task store (`tasks.py`) | Task record with revision; execution lease; active and archive root | create, get, mark_mutation_pending, update, close, archive, repair, cleanup, acquire, refresh, release, authorize | MCP server; UI (reads) | compare-and-swap; expiry of leases; a crash inside close; retries; retention | an unreconciled mutation stops a close; a close is final; a lease holder is undisturbed |
| Candidate store (`candidates.py`) | Candidate record with revision and promotion state | create, update, record_occurrence, transition, link_task | MCP server | compare-and-swap; lost answers | decisions are final; occurrences count once; work only after approval |
| Unified database (`database.py`) | one SQLite file, schema and connections | transactions, validation | all stores | write transactions exclude each other | a store operation is atomic |
| MCP server (`server.py`) | singletons of the stores, skill cache | tool dispatch, tracked synchronous Runs, Task preparation, start-up repair | everything | awaits between a check and its use; cancelled requests | a Run belongs to an open Task; a mutation is marked before it starts |
| Service (`service.py`) | one ASGI process | lifespan: executor start, initialize, stop | executor, server | second process over one workspace | start-up touches only what is stale |
| Migrations (`persistence_migration.py`, `task_migration.py`) | stage database or directory, published by rename | inspect, stage, validate, publish, roll back, export | old and new stores | crash between steps; a source that changes; rerun | all or nothing; nothing lost or invented |
| Skills, Hermes projection (`skills.py`, `hermes_*.py`) | source snapshots, cached registry | snapshot, probe, rebuild; projector publishes a file | server, UI | concurrent rebuilds; stale snapshots | a request sees one consistent snapshot |
| Read model (`read_model.py`) | cache with a time to live | cached queries | UI, API | stale answers | bounded staleness |
| Managed tools, tooling registry, configuration, validation | none | pure parsing and checking | server | none | not a question of state |
| Web UI, API, assets, bundled tools, `_assets`, CI scripts | none | rendering; remote scripts; vendored code | reads the stores | none | out of scope |

`PROJECT.json` lists the same parts with the modules that cover them, and under
"hazards" each place where something can go wrong that a test hardly reaches,
with the properties that would catch it.

## 2. The modules

| Module | What it is |
| --- | --- |
| `RunLifecycle` | abstract: a Run opens once, gets one verdict, is erased only when neither doubtful nor pinned |
| `RunStore` | the operations of `runs.py` on the table of Runs; refines `RunLifecycle` |
| `Execution` | `run_ssh` and the heavy slots of `execution.py`, as steps between awaits |
| `ExecutorRuns` | abstract: what the executor promises to those who submit, cancel and await Runs: accepted with record and slot, settled, forgotten only when settled or after a failed write or a crash; EXTENDS `RunStore` |
| `Executor` | the executor: EXTENDS `Execution`, which EXTENDS `RunStore`; its actions compose store operations, steps of `run_ssh` and the slots; refines `RunLifecycle` and `ExecutorRuns` |
| `TaskLifecycle` | abstract: a Task is open, is closed once, by the holder of its execution lease if it has one, and never over an unreconciled mutation; it is erased only when closed and not kept |
| `TaskStore` | `tasks.py`: records, revisions, leases, crashes, repair, retention; refines `TaskLifecycle` |
| `CandidateStore` | `candidates.py`: revisions, occurrences, decisions, Task links, lost answers |
| `ServerRuns` | the MCP server between Task store and Run store: its own steps composed with the actions of `ExecutorRuns` (EXTENDS) and of `TaskLifecycle` (INSTANCE); refines `RunLifecycle` |
| `Migration` | `persistence_migration.py`: migration into the unified database, rerun, export |
| `TaskCopy` | `task_migration.py`: copy of the Task roots in place, comparison, rollback |
| `SkillCache` | the skill registry of `server.py` over `skills.py`: probe, digest, scan, cache |
| `RunStore_proofs`, `Executor_proofs`, `ExecutorVerdict_proofs`, `TaskStore_proofs`, `CandidateStore_proofs`, `ServerRuns_proofs`, `OfflineTools_proofs`, `SkillCache_proofs` | theorems and proofs (`OfflineTools_proofs`: of `Migration` and `TaskCopy`) |
| `MCExecutor`, `MCTaskStore`, `MCCandidateStore`, `MCServerRuns`, `MCOfflineTools`, `MCSkillCache` | instances for TLC: inputs and symmetry |

In each module a mutant of a definition stands just before the definition,
marked "Mutant": a plausible bug in that code. Every property of a passing run
is violated under one of them (`PROJECT.json`, "mutants").

The modules fit together at the two abstract ones in the middle:

    RunStore  <-  Execution  <-  Executor   ==>  ExecutorRuns  \
                                                                 ServerRuns  ==>  RunLifecycle
                                TaskStore   ==>  TaskLifecycle /

`<-` is EXTENDS, `==>` a refinement that is checked and proved. So what holds of
`ServerRuns` is said of an executor and a Task store that can do all the detailed
ones can do.

### 2.1 Run store

`runs[r]` is the row of a Run; "absent" is a Run not yet created, "deleted" one
that retention removed. Every write method runs in one write transaction, so it
is one action. `finish` raises when the Run is not running, hence its guard;
`fail_local`, `interrupt` and `mark_unknown` return silently when it is not,
hence they are steps without effect then. Timestamps, output, target, purpose
and script names are left out: no operation decides on them. `reconcile_incomplete`
is a loop of one transaction per Run; a failure or a crash may end it, so
`ReconcileIncomplete(modes, reached)` names the Runs it came to. Retention compares
`ended_at` with a cut-off; which settled Runs are old enough is arbitrary in
`Cleanup(expired)`, which then applies the conditions of the code.

### 2.2 SSH execution

`phase[r]` says at which await `run_ssh` is: "feeding" (drain of stdin),
"waiting" (wait with the timeout), "killing" (after the timeout), "aborting"
(after a cancellation), "collecting" (the process is gone). `proc[r]` is the
ssh process as the operating system sees it: alive, dying (killed, not yet
reaped), exited with zero, nonzero or 255, ended by a signal that something else
sent (`ExitCodes`), or an orphan of a crashed executor. `Classified` takes such a
signal for an error of the remote process, as `classify_status` does (see the end of
section 3). The code writes and drains stdin *before* the `try` that kills
the process group and before the timeout is armed; with `InputBlocks` the drain
may block (scripts are up to 262144 bytes, `managed_tools.py:24`, more than a
pipe and its transport buffer hold while ssh still connects), without it the
input always fits. Slots are the lock files of one target; the kernel releases
them with their process.

### 2.3 Executor

One event loop: an action is what a handler, a task or a callback does between
two awaits.

| In the code | In the model |
| --- | --- |
| `_tasks[r]` | `task[r]`: "queued" (created, or waiting for the semaphore), "active" (inside it), "done" (finished, callback not yet run), "none" |
| `task.cancel()` | `r \in cancelPending` until the task's next step |
| `_cancel_reasons` | `reasons` |
| `_semaphore._value` | `permits` |
| process state | `service`: up, stopping, stopped, crashed |

Merged on purpose: a task that was created, that waits, and that was granted the
semaphore but not resumed are one state, because a cancellation does the same in
all three; the FIFO of the semaphore is any order; the await of the spawn is one
step with the spawn. The done callback runs before `await_terminal` or the
second half of `_cancel` resume, so `AwaitTerminal` acts only on a task that is
gone. `stop` first refuses submissions, so none happen while stopping. A store
write may fail (`MaxFaults` of them): a failed write changes nothing, and the
code around it goes on as the exception takes it. A crash keeps the Run table
and the ssh processes and loses the rest. A start reconciles all asynchronous
Runs (`StartService`) or breaks off after some of them (`StartBreaks`).

*What callers see* (`ExecutorRuns`, the instance `Callers`). The process is up,
stopping or down; `owned` are the Runs in `_tasks`, whatever state their task is in;
`cancelling` those of them with an accepted cancel request; `slots` those with a
heavy slot, whichever slot file it is. The permits, the awaits of `run_ssh`, the
processes and the delivery of a cancellation are gone: a Run that is owned may get a
verdict at any moment (`Settles`), an explicit interruption only if it was asked for,
a shutdown only while the executor stops. Orphaned slots do not exist at this level:
flocks go with the process.

### 2.4 Task store

`tasks[t]` is the record, `leases[t]` the lease, `now` the clock, `token` and
`view` what each client was last given and last saw. The lock of a Task (a
flock, or the database transaction) makes an operation one step, and one that
raises no step. `Transactional` selects the storage: in the legacy files a crash
can part the write of the closed record, the move to the archive and the removal
of the lease (`CloseCrashes`), and the directory of a new Task from its record
(`CreateCrashes`, `tasks.py:659`). Such a directory (`broken`) makes every later
creation raise, because each reads all open Tasks first, and repair too when it
reaches it; which it does last, since a new id is the latest. Retention removes one
directory after the other, and one cut short is one that came to fewer of them. Merged on purpose: the open statuses (no operation tells them apart); a
patch and the content it asks for; `archive_task` and a retried close; an
expired lease and none, because the code removes it when it reads it and the
clock of the model never steps back. A client with the same executor and scope
that acquires its own active lease again gets the same id and changes nothing.
Version 1 records (revision 0), files damaged from outside and a wall clock that
is set back are left out.

### 2.5 Candidate store

A mutation compares `expected_revision` and replaces the record. Expected
revisions are arbitrary, not only honest ones. The answer of every mutation may
be lost, which also stands for a crash just after the write.

### 2.6 Server

An execution tool of `server.py` prepares its Task (marks a pending mutation, or
checks that the Task is open), makes a Run, executes it or hands it to the
executor, and shapes the answer. Each call makes at most one Run, so the Run
names the call.

| In the code | In the model |
| --- | --- |
| where the handler is | `pc[r]`: "prepared" (Task done, Run not yet made), "executing" (`run_ssh` of a synchronous Run), "sent" and "lost" (in the socket; "lost" when the sender is gone), "answered", "failed" |
| `service.py`, or the stdio servers | `deployment`: "unified" (server and executor are one process) or "stdio" (any number of servers, a separate executor, a socket) |
| event loop of a server | `Mid`, `Free`, `HasLoop`: from the Task preparation to the record of the Run nobody else runs in that process, unless the call awaits the socket in between |
| heavy slots | `slots` of `ExecutorRuns`, which the synchronous calls of the servers share |
| Task store | `stage`, `debts` (the pending-mutation blocker), `holders` (of the lease): the variables and actions of `TaskLifecycle`, through the instance `Durable`. The terminal statuses are one ("closed"), and retention may take every closed Task (`kept` is empty), which allows more than the store does |
| executor | `executor`, `owned`, `cancelling`, `faults`: the variables and actions of `ExecutorRuns` |

A submission over the socket may be abandoned by its sender (timeout, error,
cancelled request, crash) and be accepted afterwards. One handler's store writes
may fail (`MaxFaults`), and the `finally` of the handler then does what it does
after that exception. A start opens the stores, reconciles the Runs of its own
mode, repairs and applies retention, and may break off anywhere. A target whose
`max_heavy_concurrency` is unset has no slots and is left out. Tools that only
read, schemas, command building and shaping of results are left out.

Merged on purpose: `cancel_run` asks the Task for its lease and, over the socket, asks
the executor after an await; `CancelRun` is one step. Between the two the lease may
pass on or the Task close; the Run is then cancelled by who owned it a moment ago, and
no property speaks of that. TLC runs no synchronous mutation (`MixedCalls`); the
proofs cover it.

Two things of the composition are by reading, not by proof: that the servers touch
slots and store only as `flock` and write transactions let them, so that their steps
interleave with those of the executor, and that what the detailed modules promise
alone they promise beside a server too. `ExecutorRuns` is written for that: its
actions neither ask who else holds a slot, beyond the limit, nor change records that
are not the executor's.

### 2.7 Offline tools

*Migration.* A tree of old stores consists of parts, read one at a time while
services that were not stopped go on writing (`LegacyWrite`, `UnifiedWrite`). A
digest stands for what it digests. A stage is visible to nobody but its maker, so
a tool that fails or dies just ends; publication is exclusive, so it fails when
the destination appeared meanwhile. `late` records which parts were written after
the last time the tool read them: no tool can know of those. A migration with
`--fresh` is one of a tree that is empty.

*Task copy.* It works in place: `MakeDirectory` and `CopyEntry` are two steps, a
death leaves `Partial` copies. The two target roots are checked together
(`TargetsChecked`, which makes the active one) and made one after the other, outside
the `try`: if the archive root cannot be made, the run ends as "unrooted" and the new
active root stays. A later failure is undone root after root (`Remove`,
`RootUndone`). A removal or a `mkdir` in there may raise as well (`UndoingFails`):
the run ends as "unrolled", with what is left of that root and, if it was the active
one, with all of the archive root. `FailedCopyLeavesTargets` says what a failed and an
unrooted run leave, and of every run that it does not touch targets it found occupied.
Records stand for the Task file with its evidence.
`changed` is the counterpart of `late`.

The two tools share no state, so `MCOfflineTools` runs either one or the other.

### 2.8 Skill cache

All requests share the event loop of the server: `loop` has it until the next
await (the lock, the remote state), while the *writers* of skill files take no
part in it, so files are visited one at a time (`todo`) and change in between.

One directory `Dir` stands for all, with the files of the packages in it, of which
the `Entries` may come and go. The walk of `skill_sources_snapshot` takes two steps,
`List` and `Stat`: of the source root itself the metadata is taken first
(`skills.py:428`), of a directory below it (`Nested`) the list, because `os.walk` has
it before `_iter_skill_files` stats it (`skills.py:249-255`). Then every file listed
is hashed (`Hash`: metadata, content, metadata again, which must agree, so one step),
and all metadata is taken once more (`Recheck`). A snapshot has no stamp (`Unseen`)
for what its walk did not see, and a probe does not look there (`Tracked`).

A stamp stands for the mode, size, `st_mtime_ns` and `st_ctime_ns` of `_probe_entry`;
the inode is not among them. Assumed is that every write gives its file a new one
(`ctime` moves on), and that adding or removing a file gives one to its directory.
Files are written in place; a file replaced by a rename is one written.
The configuration does not change. One await in a build stands for all remote
sources; without a remote source there are fewer interleavings. A request may
fail or be cancelled at each await (`Fail`).

What an answer promises depends on the order of `List` and `Stat`. Of a directory below
the root, an entry that comes between the two is not in the snapshot; so
`AnswersAreCurrent` speaks of the files that are `Certain` together, and of the others
only in a refresh, one at a time. Finding 4 is what it does not say.

## 3. What is checked

| Run | Instance | Shows |
| --- | --- | --- |
| `executor` (512,800 states) | two mutating Runs, heavy or not, one heavy slot, two permits, one fault, crashes and restarts, fairness; stdin fits, one service | `VerdictIsEvidence`, `HeavyBound`, `StopSettles`, `ActiveCancelInterrupts`, `CancelKillsProcess`, `ImplementsExecutorRuns`, `EveryRunSettles`, `SlotsComeBack` |
| `executor_faults` (600,462) | the same with stdin that may block and a second service | `SlotsMatchTasks`, `PermitsConserved`, `NoOwnerlessRun`, `TypeOK` still hold |
| `task_store` (113,855) | one Task in the database, two clients, three leases, four revisions, five ticks | `StableUnderLease`, `ImplementsLifecycle` (with two clients: a held lease does not change hands), `NoLostUpdate`, `TypeOK` |
| `task_files` (243,219) | two Tasks in files, two identities, two ticks, crashes in create and close, repair, retention, fairness | `OneOpenTaskPerIdentity`, `ImplementsLifecycle`, `ResidueArchived` |
| `candidate_store` (9,178) | one Candidate, two callers, two contents, two Tasks, five revisions | `NoLostUpdate`, `OccurrenceCountedOnce`, `CompletionNeedsApproval`, `DecisionsAreFinal`, `TypeOK` |
| `server_runs` (692,275) | two calls (a heavy mutation for the executor, a heavy synchronous reading, or two of one kind) in one Task, two clients, two servers or one service, one heavy slot, one fault, crashes, orderly and broken starts and stops | `MutationAccountedFor`, `SlotsConserved`, `NoOwnerlessRun`, `OnlyOwnRunsReconciled`, `ImplementsLifecycle` |
| `offline_tools` (345,416) | two operators, two trees of two parts, two contents; or two Tasks, an open and a terminal record | `InstalledIsTheSource`, `AlreadyMigratedIsTrue`, `OnlyServicesChangeStores`, `ExportIsCurrent`; `SwitchReadyIsTrue`, `FailedCopyLeavesTargets`; `TypeOK` |
| `skill_cache` (3,825,310) | two files in a directory below the source root, one of which may come and go, two contents, two requests, a time to live of one tick, two writes, one tick | `AnswersAreCurrent`, `AnswersExpire`, `LockedByARequest`, `TypeOK` |

**Why the bounds are enough.** Runs, Tasks and Candidates interact only through
permits, slots, the search for an equivalent Task and retention; two of each,
over one slot, one or two permits and two identities, make every contention
happen. `MaxRevision`, `MaxLeases` and `MaxTime` cap counters: three leases and
five ticks (in `task_store`) let a lease be granted, refreshed, expire, be taken over and be
presented again by its old holder; three revisions let a Task be created, edited
and closed, five let a Candidate be approved, linked, completed and then edited.
Leases are granted only if they expire within `MaxTime`. One fault is enough to
part the record of a Run from its task. In `server_runs` two Runs of one Task are
enough for a mark shared by two calls, a slot held by the server while the
executor asks for it, and a second server that starts while the first one works.
In `offline_tools` two parts let one change after it was read and the other not, and
two operators race for the destination; the contents, not the number of writes, are
bounded, so that a value that comes back is covered. In `skill_cache` two writes
let a file change and change back between a probe and a scan, or both files change
in one scan, or an entry appear and change; the inductive invariant of the proof was
also checked with two entries and three writes. The same instance with
`Nested = FALSE`, files in the root itself, where an answer is always one state of all
files, passes too (3,524,826 states); the proof covers both. Except for these caps, what is proved needs no bound.

**Deadlock** is not checked: every instance stops where a counter is at its
bound or all Runs are settled and the service was stopped for good.

**Fairness** (`Executor!Fairness`, `TaskStore!FairSpec`). The event loop runs
what is ready: tasks, timers, callbacks (weak fairness of each task's steps). A
killed process ends. A supervisor restarts a service that is down
(docs/runs-and-tasks.md:80). Not assumed: that clients ask for anything, that a
healthy ssh process ends by itself, that nothing crashes. That ssh reads its
stdin is assumed by `InputBlocks = FALSE` in `executor`; without it `EveryRunSettles`
fails (end of this section). For `ResidueArchived`: the clock runs, and a server whose repair fails
is started again.

### Disagreements with the documentation

Each is a run that TLC finds violated (`PROJECT.json`, "findings").

1. `executor_input_cancel`: a cancellation during the drain of stdin leaves the
   ssh process running while the Run is recorded as interrupted and its slot is
   free (`execution.py:208-212`).
2. `executor_second`: a service started with `serve_socket=False` takes no lock
   before it reconciles (`executor.py:88`), so a second one over the same workspace
   interrupts the live Runs of the first. In the same way a second stdio server
   interrupts the live synchronous Runs of the first (`server.py:1821`), which
   `OnlyOwnRunsReconciled` excepts. `executor_faults`, with `SharedStore = TRUE`, shows
   what survives a second service.
3. `task_repair`: a close that crashed under a lease leaves residue that start-up
   repair may not touch while the lease is active, so the server does not start
   for up to an hour (`tasks.py:1171`). `ResidueArchived` is what does hold.
4. `skill_stale`: a package added to a directory below the source root between its
   listing and its `stat` (`skills.py:252`) is missing from the digest and from the
   probe, while the directory has its new metadata already. So the recheck passes, and
   until the time to live is over the package is hidden, or, if a scan came later, its
   later changes are. `AnswersAreCurrent` is what does hold.

Modelling also brought up the following behaviour, in which the code is stricter or
looser than a reader of the documentation may expect. No run is devoted to it; the
first four can be seen in the models.

- An ssh client that was killed from outside (out of memory, an operator) has a negative
  return code, which `classify_status` records as `remote_error`, "a known non-zero exit
  code" of the remote process (docs/runs-and-tasks.md:67), without the mark of a doubtful
  effect (`execution.py:156-163`, `runs.py:35`). `VerdictIsEvidence` names this one
  exception and holds otherwise; without "signal" in its second clause TLC finds it
  violated.
- A cancellation that reaches a task still waiting for the semaphore is raised outside
  the `try` of `_execute` (`executor.py:384`): the Run ends as unknown, not interrupted
  (docs/runs-and-tasks.md:71), and its entry in `_cancel_reasons` stays.
  `ActiveCancelInterrupts` is what does hold.
- stdin is drained before the timeout is armed (`execution.py:211`), so a Run whose ssh
  never reads keeps its permit and its slot until it is cancelled or ssh ends.
  `EveryRunSettles` and `SlotsComeBack` are checked for stdin that fits; with
  `InputBlocks = TRUE` the first fails.
- A Candidate that was blocked but never approved can be linked to an implementation
  Task (`candidates.py:545`, against docs/tools.md:222 and the message of the check).
  `CompletionNeedsApproval` is what does hold.

- A read-only start over the socket checks the Task and then awaits the
  submission: the Run may be linked to a Task that was closed or erased
  meanwhile ("Only open Tasks accept new linked Runs", docs/runs-and-tasks.md:138).
- `cancel_run` of a running Run is refused once its Task is archived
  (`server.py:1689`, docs/tools.md:252).
- `reconcile_mutation` removes the one mark of a Task although other mutating
  calls of it are still running or not even accepted (docs/tools.md:174);
  `MutationAccountedFor` excepts the calls that were reconciled, so it does not show that
  a reconciliation is justified; the tool takes the word of its caller.
- A crash inside the creation of a Task in files leaves a directory on which later
  creations and repairs raise until somebody removes it (`tasks.py:659`).
- Two Task copies into the same empty targets are not excluded: the rollback of
  the second removes what the first has copied (`task_migration.py:212`). This
  one is read from the code; the model runs one copy at a time.

## 4. What is proved

For every value of the constants that satisfies the named ASSUMEs; TLC evaluates
those on every run.

| Theorem | Says |
| --- | --- |
| `RunStore_proofs!StoreRecordsTyped` | `StoreSpec => []RunsTypeOK` |
| `RunStore_proofs!StoreImplementsLifecycle` | the Run store implements `RunLifecycle` |
| `Executor_proofs!ExecutorImplementsStore` | every step of the executor is a store operation or leaves the table alone |
| `Executor_proofs!ExecutorImplementsLifecycle` | hence the executor implements `RunLifecycle` |
| `Executor_proofs!ExecutorTypeCorrect` | `[]TypeOK` |
| `Executor_proofs!PermitsAreConserved` | `[]PermitsConserved` |
| `Executor_proofs!SlotsAlwaysMatchTasks` | `[]SlotsMatchTasks` |
| `ExecutorVerdict_proofs!VerdictsAreEvidence` | `[]VerdictIsEvidence` |
| `ExecutorVerdict_proofs!CancelsInterrupt` | `[]ActiveCancelInterrupts` |
| `ExecutorVerdict_proofs!RunsHaveOwners` | `[]NoOwnerlessRun` |
| `ExecutorVerdict_proofs!StopSettlesRuns` | `[]StopSettles` |
| `ExecutorVerdict_proofs!HeavyWorkIsBounded` | `[]HeavyBound`, if stdin fits (`~InputBlocks`) |
| `ExecutorVerdict_proofs!CancelledProcessesDie` | `[]CancelKillsProcess`, if stdin fits |
| `ExecutorVerdict_proofs!ExecutorImplementsItsPromise` | the executor implements `ExecutorRuns`, if no second service opens the store |
| `TaskStore_proofs!TaskTypeCorrect` | `[]TypeOK` in both storage modes |
| `TaskStore_proofs!TaskStoreImplementsLifecycle` | the Task store implements `TaskLifecycle` |
| `TaskStore_proofs!LeaseHolderIsUndisturbed` | `[]StableUnderLease` |
| `TaskStore_proofs!VersionInvariant` | `[]VersionInv`, the inductive invariant of revisions and views |
| `TaskStore_proofs!UpdatesAreNotLost` | `NoLostUpdate` |
| `TaskStore_proofs!CreationsAreUnique` | `[]OneOpenTaskPerIdentity` |
| `CandidateStore_proofs!CandidateTypeCorrect` | `[]TypeOK` |
| `CandidateStore_proofs!UpdatesAreNotLost` | `NoLostUpdate` |
| `CandidateStore_proofs!OccurrencesCountedOnce` | `[]OccurrenceCountedOnce` |
| `CandidateStore_proofs!CompletedWereApproved` | `[]CompletionNeedsApproval` |
| `CandidateStore_proofs!DecisionsStay` | `DecisionsAreFinal` |
| `ServerRuns_proofs!ServerImplementsStore` | every step of the server, with its executor, is a Run store operation or leaves the table alone |
| `ServerRuns_proofs!ServerImplementsLifecycle` | hence it implements `RunLifecycle` |
| `ServerRuns_proofs!ServerInvariant` | `[]ServerInv`, the inductive invariant |
| `ServerRuns_proofs!ServerTypeCorrect` | `[]TypeOK` |
| `ServerRuns_proofs!MutationsAreAccountedFor` | `[]MutationAccountedFor` |
| `ServerRuns_proofs!HeavySlotsAreConserved` | `[]SlotsConserved` |
| `ServerRuns_proofs!ServerRunsHaveOwners` | `[]NoOwnerlessRun` |
| `ServerRuns_proofs!HeavyWorkIsLimited` | servers and executor together never have more than `MaxHeavy` heavy executions at work |
| `ServerRuns_proofs!StartsReconcileTheirOwn` | `OnlyOwnRunsReconciled` |
| `OfflineTools_proofs!MigrationTypeCorrect` | `[]TypeOK` |
| `OfflineTools_proofs!InstalledDatabaseIsTheSource` | `InstalledIsTheSource` |
| `OfflineTools_proofs!AlreadyMigratedMeansEqual` | `AlreadyMigratedIsTrue` |
| `OfflineTools_proofs!StoresAreNeverReplaced` | `OnlyServicesChangeStores` |
| `OfflineTools_proofs!ExportsAreCurrent` | `ExportIsCurrent` |
| `OfflineTools_proofs!CopyInvariant` | `[]CopyInv`, the inductive invariant of `TaskCopy` |
| `OfflineTools_proofs!FailedCopiesLeaveTargets` | `[]FailedCopyLeavesTargets` |
| `OfflineTools_proofs!SwitchReadyMeansEqual` | `SwitchReadyIsTrue` |
| `SkillCache_proofs!CacheInvariant` | `[]CacheInv`, the inductive invariant |
| `SkillCache_proofs!CacheTypeCorrect` | `[]TypeOK` |
| `SkillCache_proofs!AnswersAreNeverMixed` | `[]AnswersAreCurrent` |
| `SkillCache_proofs!AnswersAreNeverStale` | `[]AnswersExpire` |
| `SkillCache_proofs!LockHasAnOwner` | `[]LockedByARequest` |

**Arguments.** *Run store*: the types are not inductive enough for the
refinement, because settling must never withdraw a doubt; `StoreInv` adds that
only settled Runs are doubtful (`DoubtIsSettled`). *Executor*: each disjunct of
`Next` is shown to be a `RunStore` step, so the refinement composes and no step
of the executor is refined a second time. Its own invariant `IInv` joins the
store's, the types, a record for every task (`TasksHaveRecords`: a task never
outlives the class its slot depends on), finitely many active tasks (so that
`PermitsConserved` can count them) and the two conservation laws. *What the
executor records* (`ExecutorVerdict_proofs`): a step of one Run touches no other
(`StepIsLocal`), so the strengthenings are statements about one Run.
`EvidenceInv` relates record, task, await and process (a queued Run has no
process; a collecting one's has exited; while a task is there its Run is running
or was interrupted by a second service); with the store's `DoubtIsKept` (a
mutating Run settled with an ambiguous status is marked) it gives
`VerdictIsEvidence`. `AliveIsWaited` (only a process somebody waits for is
alive) needs stdin to fit, and maps the live heavy processes one to one into the
slots. `OwnedInv` says who owns a running Run in each state of the service.
`CancelInv` follows a cancel request: it is to be delivered, or is killing the
process, or came before the process, or the Run is interrupted.
*The executor's promise* (`ExecutorImplementsItsPromise`): every disjunct of
`Executor!Next` is mapped to one action of `ExecutorRuns` or to a stutter
(`SubmitMaps`, `AttemptSettles`, then one lemma per kind of step). Two places are not
bookkeeping. That an interruption is written only for the reason it names needs
`CancelView`: a task with a cancellation to be delivered was asked for it, or the
service is stopping, and `_cancel_reasons` never outlives a request that was not
accepted. That a submission finds `SlotFree` when a slot file is free needs counting:
the heavy Runs with a slot map one to one into the slots that are taken, which are
fewer than `MaxHeavy` (`FreeSlotCounts`). The hypothesis `~SharedStore` is needed: a
second service settles Runs of the first, which no action of `ExecutorRuns` allows.
*Task store*:
`LeaseInv` says that ids are handed out in order, that a client's id or view
never names a lease not yet issued, and that no two clients have the id of one
active lease; from it a step of anybody else is refused while a lease is active. The
refinement uses it too: `holders` is the set of clients whose id is that of the active
lease, so only with `LeaseInv` has a Task at most one, loses it by a release, a close
or the clock, and keeps it under a refresh.
`VersionInv` adds that nobody has seen a later revision than the stored one. That no
update is lost (`NoLostUpdate`) takes both halves: the comparison of revisions in
`update` and `close`, and that every write makes a revision of its own; the same in the
Candidate store.
`OneOpenTaskPerIdentity` needs no further invariant: a Task that opens finds no open
one of its identity (`CreationIsAlone`), and any other that is open and was never
retitled was so before.
*Candidate store*: nobody has seen a later revision than the stored one
(`ViewsLag`), counted revisions are past ones (`CountsMatch`), and what is approved or
completed was approved (`ApprovalKnown`).

*Server*: each disjunct is a `RunStore`
step, and all but the two that make a record start no Run and leave those that go on
as they are (`StepSpares`). `ServerInv` joins the types, what the record of a Run says
about where its call is (`Records`), who works on a call (`Workers`), which processes
there are (`Processes`: the unified service is one process, whose executor starts
before its server and outlives it) and three of the properties, which support each
other: a slot is given back where the Run is settled, a mark is there when its call
goes on. Steps are grouped by which calls they move (`WhoMoves`): none, one
(`OneCallMoves`), or all of a process that ends (`HandlersGone`), and each conjunct
is proved by group. `NoOwnerlessRun` relates both halves: a synchronous Run to its
handler, an asynchronous one to the executor (`OwnerStays`: a callback lets a Run go
only settled or with a failed write, and a start settles all). `HeavyWorkIsLimited`
adds that slots are counted when taken. *Migration*: `Knowledge` says that what the tool has read equals the tree
except for `late` parts; with exclusive publication the four action properties
follow step by step. *Task copy*: `CopyInv` says that Tasks already compared are as
planned unless written since (`Compared`), and that the tool touches only targets
that were empty and, until it ends, knows which roots were there (`Rooted`); so what
it undoes is its own, and what a rollback that fails leaves behind is its own too.
*Skill cache*: `CacheInv` says who has the loop and the lock (`Discipline`) and what a
stamp dates: two states since a moment that agree in a stamp agree in the file, and
those that agree in the directory's stamp agree in which entries there are (`Stamps`,
`Past`). A snapshot is then `Whole` as far as its walk can tell (`WalkSound`): in the
root, every file there is was listed; below it, every `Certain` one. `CacheSound` says
so of the snapshot in the cache and of the registry that goes with it. `ProbeSound` is
the heart of it: files that a probe has checked do not change back, so if those still
to be checked agree as well, all agreed at one moment since the request began.
`ScanSound` says the same of a scan and its verification, `TimeSound` that a decision to
use the cache is still good when it is used.

**Only model-checked.** Liveness (`EveryRunSettles`, `SlotsComeBack`,
`ResidueArchived`): fairness and ENABLED are out of the prover's reach. Every
safety property of a passing run is proved.

## 5. What is not modelled

- The one-time import of JSON Runs into SQLite and its export (`runs.py`): one
  process, under the write lock, before anything else runs.
- The read model and the snapshot mode of Hermes: one cache of lists for the UI, one
  file made by a command of an operator.
- A wall clock that is set back, files damaged from outside.
- Answers of Task operations that are lost other than by a crash inside close. A
  caller who retries then presents an old revision, which is covered: expected
  revisions are those a client last saw.
- Two Task copies at a time. The steps of an `rmtree`: retention (`tasks.py:1205`)
  removes a directory at once. Start-up repair is one step per Task, while its loop stops
  at the first residue that is refused (`tasks.py:1158-1171`); a server that is started
  again comes to the others later, as `ResidueArchived` assumes anyway.
- The database schema and its validation; a record is what it says.
- Output capture and truncation, command quoting, validation, rendering, parsing
  of configuration, skills and registries, tool schemas: pure functions whose
  result no property of the stores depends on.
- Bundled tools, which run elsewhere, and vendored JavaScript.
- The network between ssh and its target: an execution ends as its process ends.

## 6. What could follow

1. An abstract module of Candidates beside the other three, and the executor's promise
   with a second service over the store.
2. The import of JSON Runs, with a crash between its steps, and the cache of the
   read model: small modules beside `Migration` and `SkillCache`.
3. `TaskStore` below the record: temporary file, replace, rename, rmtree as steps
   of their own, refining the present module.
4. Two concurrent runs of the Task copy, once the tool excludes them.
5. Lost answers of Task operations, as the Candidate store has them.
