------------------------------ MODULE Migration ------------------------------
(***************************************************************************)
(* The offline tools between the v0.10 stores and the unified database     *)
(* (persistence_migration.py): migrate_persistence installs a database     *)
(* made from a tree of old stores, export_legacy writes such a tree from   *)
(* the database.  Several operators run them, again and again, and may     *)
(* break off at any point; services that were not stopped keep on writing. *)
(*                                                                         *)
(* A tree consists of parts (Run database, Task directories, Candidate     *)
(* files), each read at a moment of its own.  A digest stands for what it  *)
(* digests.  A tool that fails or dies leaves nothing but its stage, which *)
(* no one else reads: stages do not appear.                                *)
(***************************************************************************)
EXTENDS Integers

CONSTANTS
  Parts, Contents,
  Trees,        \* paths of v0.10 state
  Original,     \* those in use before the first migration
  Operators,
  Nothing, Unread

ASSUME OriginalAssumption == Original \in Trees
ASSUME ContentsAssumption == Unread \notin Contents
ASSUME NothingAssumption ==
  /\ Nothing \notin [Parts -> Contents]
  /\ Nothing \notin [content : [Parts -> Contents], receipt : [Parts -> Contents]]

VARIABLES
  tree,         \* the state at each path
  db,           \* the unified database and its unified_migration receipt
  pc,           \* what each operator's tool does, or how it ended
  path,         \* the tree it reads or writes
  unread,       \* the parts it has still to read
  snapshot,     \* what it read
  late          \* history: parts changed since the tool relies on them

vars == <<tree, db, pc, path, unread, snapshot, late>>

State == [Parts -> Contents]
Blank == [p \in Parts |-> Unread]
Database == [content : State, receipt : State]
Ended == {"none", "failed", "migrated", "already_migrated", "exported"}
Running == {"inspecting", "verifying", "exporting"}

Init ==
  /\ tree \in [Trees -> State \cup {Nothing}]
  /\ \A t \in Trees : tree[t] = Nothing <=> t # Original
  /\ db = Nothing
  /\ pc = [o \in Operators |-> "none"]
  /\ path = [o \in Operators |-> Original]
  /\ unread = [o \in Operators |-> {}]
  /\ snapshot = [o \in Operators |-> Blank]
  /\ late = [o \in Operators |-> {}]

TypeOK ==
  /\ tree \in [Trees -> State \cup {Nothing}]
  /\ db \in Database \cup {Nothing}
  /\ pc \in [Operators -> Ended \cup Running]
  /\ path \in [Operators -> Trees]
  /\ unread \in [Operators -> SUBSET Parts]
  /\ snapshot \in [Operators -> [Parts -> Contents \cup {Unread}]]
  /\ late \in [Operators -> SUBSET Parts]

Goes(o, place) == pc' = [pc EXCEPT ![o] = place]

(* The tool starts to read or write, with parts to read and what it knows. *)
Begins(o, place, t, parts, known) ==
  /\ pc[o] \in Ended
  /\ Goes(o, place)
  /\ path' = [path EXCEPT ![o] = t]
  /\ unread' = [unread EXCEPT ![o] = parts]
  /\ snapshot' = [snapshot EXCEPT ![o] = known]
  /\ late' = [late EXCEPT ![o] = {}]

Ends(o, how) ==
  /\ Goes(o, how)
  /\ unread' = [unread EXCEPT ![o] = {}]
  /\ snapshot' = [snapshot EXCEPT ![o] = Blank]
  /\ late' = [late EXCEPT ![o] = {}]
  /\ UNCHANGED path
-----------------------------------------------------------------------------
(* migrate_persistence: inspect_legacy reads part after part.              *)
Migrate(o, t) ==
  /\ tree[t] # Nothing
  /\ Begins(o, "inspecting", t, Parts, Blank)
  /\ UNCHANGED <<tree, db>>

Inspect(o, p) ==
  /\ pc[o] = "inspecting" /\ p \in unread[o]
  /\ snapshot' = [snapshot EXCEPT ![o][p] = tree[path[o]][p]]
  /\ unread' = [unread EXCEPT ![o] = @ \ {p}]
  /\ UNCHANGED <<tree, db, pc, path, late>>

Inspected(o) == pc[o] = "inspecting" /\ unread[o] = {}

(* Mutant: the rerun trusts the receipt alone.                             *)
EquivalentByReceipt(o) == db.receipt = snapshot[o]

(* The receipt in the database and the digest of its content.              *)
Equivalent(o) == db.receipt = snapshot[o] /\ db.content = snapshot[o]

(* A destination that exists is never written.                             *)
MigratedBefore(o) ==
  /\ Inspected(o) /\ db # Nothing
  /\ Ends(o, IF Equivalent(o) THEN "already_migrated" ELSE "failed")
  /\ UNCHANGED <<tree, db>>

(* Mutant: the source is not inspected again.                              *)
StageUnverified(o) ==
  /\ Inspected(o) /\ db = Nothing
  /\ Goes(o, "verifying")
  /\ late' = [late EXCEPT ![o] = {}]
  /\ UNCHANGED <<tree, db, path, unread, snapshot>>

(* The stage is built and verified against the receipt.                    *)
Stage(o) ==
  /\ Inspected(o) /\ db = Nothing
  /\ Goes(o, "verifying")
  /\ unread' = [unread EXCEPT ![o] = Parts]
  /\ late' = [late EXCEPT ![o] = {}]
  /\ UNCHANGED <<tree, db, path, snapshot>>

(* The second inspection; a part that differs leaves nothing but to fail.  *)
InspectAgain(o, p) ==
  /\ pc[o] = "verifying" /\ p \in unread[o]
  /\ tree[path[o]][p] = snapshot[o][p]
  /\ unread' = [unread EXCEPT ![o] = @ \ {p}]
  /\ UNCHANGED <<tree, db, pc, path, snapshot, late>>

(* Mutant: os.replace for os.link.                                         *)
InstallReplacing(o) ==
  /\ pc[o] = "verifying" /\ unread[o] = {}
  /\ db' = [content |-> snapshot[o], receipt |-> snapshot[o]]
  /\ Ends(o, "migrated")
  /\ UNCHANGED tree

(* os.link refuses a destination that exists by now.  The process may die  *)
(* before it can tell.                                                     *)
Install(o) ==
  /\ pc[o] = "verifying" /\ unread[o] = {}
  /\ db = Nothing
  /\ db' = [content |-> snapshot[o], receipt |-> snapshot[o]]
  /\ Ends(o, "migrated") \/ Ends(o, "failed")
  /\ UNCHANGED tree
-----------------------------------------------------------------------------
(* Mutant: the export goes back to what was migrated.                      *)
ExportPreimage(o, t) ==
  /\ db # Nothing /\ tree[t] = Nothing
  /\ Begins(o, "exporting", t, {}, db.receipt)
  /\ UNCHANGED <<tree, db>>

(* Mutant: the stage is published before it is filled.                     *)
ExportUnfilled(o, t) ==
  /\ db # Nothing /\ tree[t] = Nothing
  /\ Begins(o, "exporting", t, {}, Blank)
  /\ UNCHANGED <<tree, db>>

(* export_legacy: inspect_database reads in one transaction.               *)
Export(o, t) ==
  /\ db # Nothing /\ tree[t] = Nothing
  /\ Begins(o, "exporting", t, {}, db.content)
  /\ UNCHANGED <<tree, db>>

(* _publish_directory: renameat2 refuses a directory that exists by now.   *)
Publish(o) ==
  /\ pc[o] = "exporting"
  /\ tree[path[o]] = Nothing
  /\ tree' = [tree EXCEPT ![path[o]] = snapshot[o]]
  /\ Ends(o, "exported") \/ Ends(o, "failed")
  /\ UNCHANGED db

(* Any error, or the death of the process.                                 *)
Fail(o) ==
  /\ pc[o] \in Running
  /\ Ends(o, "failed")
  /\ UNCHANGED <<tree, db>>
-----------------------------------------------------------------------------
(* A service of the old release that was not stopped, or was started after *)
(* a roll-back: the parts a tool has read may no longer be what it read.   *)
LegacyWrite(t, p, v) ==
  /\ tree[t] # Nothing /\ tree[t][p] # v
  /\ tree' = [tree EXCEPT ![t][p] = v]
  /\ late' = [o \in Operators |->
                IF pc[o] \in {"inspecting", "verifying"} /\ path[o] = t /\ p \notin unread[o]
                THEN late[o] \cup {p} ELSE late[o]]
  /\ UNCHANGED <<db, pc, path, unread, snapshot>>

(* The service of the new release.                                         *)
UnifiedWrite(p, v) ==
  /\ db # Nothing /\ db.content[p] # v
  /\ db' = [db EXCEPT !.content[p] = v]
  /\ late' = [o \in Operators |->
                IF pc[o] = "exporting" THEN late[o] \cup {p} ELSE late[o]]
  /\ UNCHANGED <<tree, pc, path, unread, snapshot>>

Tool(o) ==
  \/ \E t \in Trees : Migrate(o, t) \/ Export(o, t)
  \/ \E p \in Parts : Inspect(o, p) \/ InspectAgain(o, p)
  \/ MigratedBefore(o) \/ Stage(o) \/ Install(o) \/ Publish(o) \/ Fail(o)

Service ==
  \E p \in Parts, v \in Contents :
    UnifiedWrite(p, v) \/ \E t \in Trees : LegacyWrite(t, p, v)

Next == Service \/ \E o \in Operators : Tool(o)

Spec == Init /\ [][Next]_vars
-----------------------------------------------------------------------------
(* The installed database is the source: only parts written after the      *)
(* second inspection came to them may differ, whoever wrote before and     *)
(* whatever value came back in between (persistence_migration.py:315-318). *)
InstalledIsTheSource ==
  [][db = Nothing /\ db' # Nothing =>
       \E o \in Operators :
         /\ pc[o] = "verifying"
         /\ \A p \in Parts \ late[o] : db'.content[p] = tree[path[o]][p]]_vars

(* "already_migrated" is answered only if the database still holds what    *)
(* the tree holds: not after writes of the new service, nor after a        *)
(* roll-back and writes of the old one (persistence_migration.py:274-281). *)
AlreadyMigratedIsTrue ==
  [][\A o \in Operators :
       pc[o] # "already_migrated" /\ pc'[o] = "already_migrated" =>
         \A p \in Parts \ late[o] : db.content[p] = tree[path[o]][p]]_vars

(* Only the service itself changes a store that is there: tools that race  *)
(* for one destination never overwrite what the other published and its    *)
(* service wrote since (persistence_migration.py:4, 318, 327-339).         *)
OnlyServicesChangeStores ==
  [][/\ \A t \in Trees :
          tree[t] # Nothing /\ tree'[t] # tree[t] =>
            \E p \in Parts, v \in Contents : LegacyWrite(t, p, v)
     /\ db # Nothing /\ db' # db => \E p \in Parts, v \in Contents : UnifiedWrite(p, v)]_vars

(* An export holds every write the service made before it was read; the    *)
(* preimage of the migration would not do (docs/unified-persistence.md:18).*)
ExportIsCurrent ==
  [][\A o \in Operators :
       pc[o] # "exported" /\ pc'[o] = "exported" =>
         \A p \in Parts \ late[o] : tree'[path[o]][p] = db.content[p]]_vars
=============================================================================
