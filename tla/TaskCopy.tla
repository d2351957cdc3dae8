------------------------------ MODULE TaskCopy ------------------------------
(***************************************************************************)
(* copy_and_validate_task_storage (task_migration.py): copies the Task     *)
(* directories of one active and archive root into two others, in place    *)
(* and not through a stage, and takes them away again when anything fails. *)
(* It may be killed at any point and run again; Task writers that were not *)
(* stopped go on.  A record stands for a Task file and its evidence tree.  *)
(***************************************************************************)
EXTENDS Naturals

CONSTANTS
  Tasks, Records,
  Open,         \* the records whose status is not terminal
  NoEntry, Partial

Places == {"active", "archive"}
Entry == [at : Places, record : Records]

ASSUME OpenAssumption == Open \subseteq Records
ASSUME EntryAssumption == NoEntry \notin Entry /\ Partial \notin Entry \cup {NoEntry}

VARIABLES
  source,       \* the Task directories
  target,       \* the copies
  roots,        \* the target roots that exist
  tool,         \* where the run of the tool is, or how the last one ended
  plan,         \* the manifest of the source
  rest,         \* the Tasks it has still to come to
  found,        \* the target roots that existed before
  changed,      \* history: Tasks written since the second inspection read them
  before        \* history: the targets when the run began

sourceVars == <<source, changed>>
targetVars == <<target, roots>>
toolVars == <<tool, plan, rest, found, before>>
copyVars == <<sourceVars, targetVars, toolVars>>

(* An archived Task is terminal; a terminal one in the active root is the  *)
(* residue of a crash inside a close.                                      *)
Sources == {e \in Entry : e.at = "archive" => e.record \notin Open}
Done == {"none", "failed", "unrooted", "unrolled", "killed", "ready"}
Working == {"planning", "rooting", "copying", "comparing", "undoing_active",
            "undoing_archive"}

CopyInit ==
  /\ source \in [Tasks -> Sources \cup {NoEntry}]
  /\ target = [t \in Tasks |-> NoEntry]
  /\ roots \in SUBSET Places
  /\ tool = "none"
  /\ plan = [t \in Tasks |-> NoEntry]
  /\ rest = {}
  /\ found = {}
  /\ changed = {}
  /\ before = [target |-> target, roots |-> roots]

CopyTypeOK ==
  /\ source \in [Tasks -> Sources \cup {NoEntry}]
  /\ target \in [Tasks -> Entry \cup {NoEntry, Partial}]
  /\ roots \subseteq Places
  /\ tool \in Done \cup Working
  /\ plan \in [Tasks -> Sources \cup {NoEntry}]
  /\ rest \subseteq Tasks
  /\ found \subseteq Places
  /\ changed \subseteq Tasks
  /\ before \in [target : [Tasks -> Entry \cup {NoEntry, Partial}], roots : SUBSET Places]

TargetPlace(e) == IF e.at = "active" /\ e.record \in Open THEN "active" ELSE "archive"
Copied(t) == [at |-> TargetPlace(plan[t]), record |-> plan[t].record]
Planned == {t \in Tasks : plan[t] # NoEntry}
Empty(held) == \A t \in Tasks : held[t] = NoEntry
-----------------------------------------------------------------------------
(* The tool is done with its manifest.                                     *)
Stops(how) ==
  /\ tool' = how
  /\ plan' = [t \in Tasks |-> NoEntry]
  /\ rest' = {}
  /\ found' = {}
  /\ changed' = {}
  /\ UNCHANGED <<source, before>>

(* inspect_task_storage, the first time.                                   *)
CopyStarts ==
  /\ tool \in Done
  /\ tool' = "planning"
  /\ rest' = Tasks
  /\ before' = [target |-> target, roots |-> roots]
  /\ UNCHANGED <<sourceVars, targetVars, plan, found>>

Plan(t) ==
  /\ tool = "planning" /\ t \in rest
  /\ plan' = [plan EXCEPT ![t] = source[t]]
  /\ rest' = rest \ {t}
  /\ UNCHANGED <<sourceVars, targetVars, tool, found, before>>

(* Mutant: nobody looks into the targets before the copy begins.           *)
TargetsTaken ==
  /\ tool = "planning" /\ rest = {}
  /\ found' = roots
  /\ roots' = roots \cup {"active"}
  /\ tool' = "rooting"
  /\ UNCHANGED <<sourceVars, target, plan, rest, before>>

(* Both target roots must be empty; the active one is made if missing ...  *)
TargetsChecked ==
  /\ tool = "planning" /\ rest = {}
  /\ Empty(target)
  /\ found' = roots
  /\ roots' = roots \cup {"active"}
  /\ tool' = "rooting"
  /\ UNCHANGED <<sourceVars, target, plan, rest, before>>

(* ... and then the archive one.  From here on an error is undone.         *)
TargetsMade ==
  /\ tool = "rooting"
  /\ roots' = Places
  /\ tool' = "copying"
  /\ rest' = Planned
  /\ UNCHANGED <<sourceVars, target, plan, found, before>>

(* _copy_entry: the directory, and then what is in the source by now.      *)
MakeDirectory(t) ==
  /\ tool = "copying" /\ t \in rest /\ target[t] = NoEntry
  /\ target' = [target EXCEPT ![t] = Partial]
  /\ UNCHANGED <<sourceVars, roots, toolVars>>

CopyEntry(t) ==
  /\ tool = "copying" /\ target[t] = Partial
  /\ source[t] # NoEntry /\ source[t].at = plan[t].at
  /\ target' = [target EXCEPT ![t] = [at |-> TargetPlace(plan[t]), record |-> source[t].record]]
  /\ rest' = rest \ {t}
  /\ UNCHANGED <<sourceVars, roots, tool, plan, found, before>>

(* The second inspection of the source; drift leaves nothing but to fail.  *)
AllCopied ==
  /\ tool = "copying" /\ rest = {}
  /\ tool' = "comparing"
  /\ rest' = Tasks
  /\ changed' = {}
  /\ UNCHANGED <<source, targetVars, plan, found, before>>

Compare(t) ==
  /\ tool = "comparing" /\ t \in rest
  /\ source[t] = plan[t]
  /\ rest' = rest \ {t}
  /\ UNCHANGED <<sourceVars, targetVars, tool, plan, found, before>>

(* Mutant: the copies are counted, and not compared with the manifest.     *)
ReadyByCount ==
  /\ tool = "comparing" /\ rest = {}
  /\ {t \in Tasks : target[t] # NoEntry} = Planned
  /\ Stops("ready")
  /\ UNCHANGED targetVars

(* _validate_target_matches_source.                                        *)
Ready ==
  /\ tool = "comparing" /\ rest = {}
  /\ \A t \in Tasks : target[t] = IF t \in Planned THEN Copied(t) ELSE NoEntry
  /\ Stops("ready")
  /\ UNCHANGED targetVars
-----------------------------------------------------------------------------
(* An error before the copy begins is not undone: if the archive root      *)
(* cannot be made, the active one stays.  A later one is undone ...        *)
CopyFails ==
  /\ \/ tool = "planning" /\ Stops("failed")
     \/ tool = "rooting" /\ "archive" \notin found /\ Stops("unrooted")
     \/ /\ tool \in {"copying", "comparing"} /\ tool' = "undoing_active"
        /\ rest' = {}
        /\ UNCHANGED <<sourceVars, plan, found, before>>
  /\ UNCHANGED targetVars

Undoes(place) ==
  tool = IF place = "active" THEN "undoing_active" ELSE "undoing_archive"

CopiesAt(place) == {t \in Tasks : target[t] # NoEntry /\ TargetPlace(plan[t]) = place}

(* ... root after root: what is in it goes, ...                            *)
Remove(t) ==
  /\ \E place \in Places : Undoes(place) /\ t \in CopiesAt(place)
  /\ target' = [target EXCEPT ![t] = NoEntry]
  /\ UNCHANGED <<sourceVars, roots, toolVars>>

(* ... and then the root itself, unless it was there before.               *)
RootUndone(place) ==
  /\ Undoes(place) /\ CopiesAt(place) = {}
  /\ roots' = IF place \in found THEN roots ELSE roots \ {place}
  /\ IF place = "archive" THEN Stops("failed")
     ELSE tool' = "undoing_archive" /\ UNCHANGED <<sourceVars, plan, rest, found, before>>
  /\ UNCHANGED target

(* Undoing a root raises, perhaps when an old root has to be made again:   *)
(* the rest of it, and the archive root if it was the active one, stay.    *)
UndoingFails(place) ==
  /\ Undoes(place)
  /\ \/ roots' = roots
     \/ CopiesAt(place) = {} /\ place \in found /\ roots' = roots \ {place}
  /\ Stops("unrolled")
  /\ UNCHANGED target

Killed ==
  /\ tool \notin Done
  /\ Stops("killed")
  /\ UNCHANGED targetVars

(* A Task writer that was not stopped creates, updates, closes or removes. *)
TaskWritten(t, e) ==
  /\ source[t] # e
  /\ source' = [source EXCEPT ![t] = e]
  /\ changed' = IF tool = "comparing" /\ t \notin rest THEN changed \cup {t} ELSE changed
  /\ UNCHANGED <<targetVars, toolVars>>

CopyStep ==
  \/ CopyStarts \/ TargetsChecked \/ TargetsMade \/ AllCopied \/ Ready
  \/ \E t \in Tasks : Plan(t) \/ MakeDirectory(t) \/ CopyEntry(t) \/ Compare(t) \/ Remove(t)
  \/ \E place \in Places : RootUndone(place) \/ UndoingFails(place)
  \/ CopyFails \/ Killed

CopyNext == CopyStep \/ \E t \in Tasks, e \in Sources \cup {NoEntry} : TaskWritten(t, e)

CopySpec == CopyInit /\ [][CopyNext]_copyVars
-----------------------------------------------------------------------------
(* switch_ready: the targets hold the Tasks of the source, open ones       *)
(* active, terminal ones archived, and nothing else; but for Tasks written *)
(* after the second inspection came to them (task_migration.py:293-297).   *)
SwitchReadyIsTrue ==
  [][tool # "ready" /\ tool' = "ready" =>
       \A t \in Tasks \ changed :
         target[t] = IF source[t] = NoEntry THEN NoEntry
                     ELSE [at |-> TargetPlace(source[t]), record |-> source[t].record]]_copyVars

(* A run that fails and whose rollback does not fail as well leaves the    *)
(* targets as it found them, but for an empty active root when the archive *)
(* root could not be made; a run that finds anything in the targets (a     *)
(* ready copy, the rest of a killed or half undone one) never touches them *)
(* (task_migration.py:281-284, 322-325; docs/task-storage-migration.md:62).*)
FailedCopyLeavesTargets ==
  /\ tool \in {"failed", "unrooted"} =>
       /\ target = before.target
       /\ roots = before.roots \cup (IF tool = "unrooted" THEN {"active"} ELSE {})
  /\ ~Empty(before.target) => target = before.target /\ roots = before.roots
=============================================================================
