------------------------- MODULE OfflineTools_proofs -------------------------
(***************************************************************************)
(* Proofs about the offline tools, for any parts, trees, Tasks and number  *)
(* of operators: what a tool relies on is what it read, but for the parts  *)
(* written since, and hence what it publishes or answers is true.          *)
(***************************************************************************)
EXTENDS Migration, TaskCopy, TLAPS

(* A tool that inspects still has its tree, and knows what it read of it;  *)
(* one that verifies or exports has a whole snapshot.                      *)
Reading(o) ==
  pc[o] \in {"inspecting", "verifying"} =>
    /\ tree[path[o]] # Nothing
    /\ \A p \in Parts \ (unread[o] \cup late[o]) : tree[path[o]][p] = snapshot[o][p]

Whole(o) ==
  /\ pc[o] = "inspecting" => \A p \in Parts \ unread[o] : snapshot[o][p] \in Contents
  /\ pc[o] \in {"verifying", "exporting"} => snapshot[o] \in State

Exporting(o) ==
  pc[o] = "exporting" =>
    /\ db # Nothing
    /\ \A p \in Parts \ late[o] : snapshot[o][p] = db.content[p]

Knowledge == \A o \in Operators : Reading(o) /\ Whole(o) /\ Exporting(o)

IInv == TypeOK /\ Knowledge

USE OriginalAssumption, ContentsAssumption, NothingAssumption

LEMMA BlankType == Blank \in [Parts -> Contents \cup {Unread}]
BY DEF Blank

LEMMA IInvInit == Init => IInv
BY BlankType DEF Init, IInv, TypeOK, Knowledge, Reading, Whole, Exporting, Ended, Running

(* Steps that begin or end the work of one tool.                           *)
LEMMA BeginsType ==
  ASSUME TypeOK, NEW o \in Operators, NEW t \in Trees,
         NEW place \in Running, NEW parts \in SUBSET Parts,
         NEW known \in [Parts -> Contents \cup {Unread}],
         Begins(o, place, t, parts, known), UNCHANGED <<tree, db>>
  PROVE  TypeOK'
BY DEF TypeOK, Begins, Goes

LEMMA EndsType ==
  ASSUME TypeOK, NEW o \in Operators, NEW how \in Ended, Ends(o, how),
         tree' \in [Trees -> State \cup {Nothing}], db' \in Database \cup {Nothing}
  PROVE  TypeOK'
BY BlankType DEF TypeOK, Ends, Goes

(* A tool that ended claims nothing, and the others are where they were.   *)
LEMMA EndsKnowledge ==
  ASSUME IInv, NEW o \in Operators, NEW how \in Ended, Ends(o, how),
         \A t \in Trees : tree[t] # Nothing => tree'[t] = tree[t],
         db # Nothing => db' = db
  PROVE  Knowledge'
<1> SUFFICES ASSUME NEW q \in Operators
             PROVE  (Reading(q) /\ Whole(q) /\ Exporting(q))'
  BY DEF Knowledge
<1>1. CASE q = o
  <2>1. pc'[q] \in Ended
    BY <1>1 DEF IInv, TypeOK, Ends, Goes
  <2>2. QED
    BY <2>1 DEF Reading, Whole, Exporting, Ended
<1>2. CASE q # o
  <2>1. /\ pc'[q] = pc[q] /\ path'[q] = path[q] /\ unread'[q] = unread[q]
        /\ snapshot'[q] = snapshot[q] /\ late'[q] = late[q]
    BY <1>2 DEF IInv, TypeOK, Ends, Goes
  <2>2. path[q] \in Trees
    BY DEF IInv, TypeOK
  <2>3. QED
    BY <2>1, <2>2 DEF IInv, Knowledge, Reading, Whole, Exporting
<1>3. QED
  BY <1>1, <1>2

(* A step of one tool that leaves the stores and the other tools alone.    *)
LEMMA OthersKnow ==
  ASSUME IInv, NEW o \in Operators, NEW q \in Operators, q # o,
         UNCHANGED <<tree, db>>,
         pc'[q] = pc[q], path'[q] = path[q], unread'[q] = unread[q],
         snapshot'[q] = snapshot[q], late'[q] = late[q]
  PROVE  (Reading(q) /\ Whole(q) /\ Exporting(q))'
BY DEF IInv, Knowledge, Reading, Whole, Exporting

LEMMA ToolInv ==
  ASSUME IInv, NEW o \in Operators, Tool(o)
  PROVE  IInv'
<1>1. ASSUME NEW t \in Trees, Migrate(o, t)
      PROVE  IInv'
  <2>1. TypeOK'
    BY <1>1, BeginsType, BlankType DEF IInv, Migrate, Running
  <2>2. (Reading(o) /\ Whole(o) /\ Exporting(o))'
    BY <1>1 DEF IInv, TypeOK, Migrate, Begins, Goes, Reading, Whole, Exporting
  <2>3. ASSUME NEW q \in Operators, q # o
        PROVE  (Reading(q) /\ Whole(q) /\ Exporting(q))'
    <3>1. /\ pc'[q] = pc[q] /\ path'[q] = path[q] /\ unread'[q] = unread[q]
          /\ snapshot'[q] = snapshot[q] /\ late'[q] = late[q]
      BY <1>1, <2>3 DEF IInv, TypeOK, Migrate, Begins, Goes
    <3>2. QED
      BY <1>1, <2>3, <3>1, OthersKnow DEF Migrate
  <2>4. QED
    BY <2>1, <2>2, <2>3 DEF IInv, Knowledge
<1>2. ASSUME NEW t \in Trees, Export(o, t)
      PROVE  IInv'
  <2>1. db \in Database /\ db.content \in State
    BY <1>2 DEF IInv, TypeOK, Export, Database
  <2>2. db.content \in [Parts -> Contents \cup {Unread}]
    BY <2>1 DEF State
  <2>3. TypeOK'
    BY <1>2, <2>2, BeginsType DEF IInv, Export, Running
  <2>4. (Reading(o) /\ Whole(o) /\ Exporting(o))'
    BY <1>2, <2>1 DEF IInv, TypeOK, Export, Begins, Goes, Reading, Whole, Exporting
  <2>5. ASSUME NEW q \in Operators, q # o
        PROVE  (Reading(q) /\ Whole(q) /\ Exporting(q))'
    <3>1. /\ pc'[q] = pc[q] /\ path'[q] = path[q] /\ unread'[q] = unread[q]
          /\ snapshot'[q] = snapshot[q] /\ late'[q] = late[q]
      BY <1>2, <2>5 DEF IInv, TypeOK, Export, Begins, Goes
    <3>2. QED
      BY <1>2, <2>5, <3>1, OthersKnow DEF Export
  <2>6. QED
    BY <2>3, <2>4, <2>5 DEF IInv, Knowledge
<1>3. ASSUME NEW p \in Parts, Inspect(o, p)
      PROVE  IInv'
  <2>1. tree[path[o]] \in State /\ path[o] \in Trees
    BY <1>3 DEF IInv, TypeOK, Knowledge, Reading, Inspect
  <2>2. tree[path[o]][p] \in Contents
    BY <2>1 DEF State
  <2>3. TypeOK'
    BY <1>3, <2>2 DEF IInv, TypeOK, Inspect
  <2>4. (Reading(o) /\ Whole(o) /\ Exporting(o))'
    BY <1>3, <2>2 DEF IInv, TypeOK, Knowledge, Inspect, Reading, Whole, Exporting
  <2>5. ASSUME NEW q \in Operators, q # o
        PROVE  (Reading(q) /\ Whole(q) /\ Exporting(q))'
    <3>1. /\ pc'[q] = pc[q] /\ path'[q] = path[q] /\ unread'[q] = unread[q]
          /\ snapshot'[q] = snapshot[q] /\ late'[q] = late[q]
      BY <1>3, <2>5 DEF IInv, TypeOK, Inspect
    <3>2. QED
      BY <1>3, <2>5, <3>1, OthersKnow DEF Inspect
  <2>6. QED
    BY <2>3, <2>4, <2>5 DEF IInv, Knowledge
<1>4. ASSUME NEW p \in Parts, InspectAgain(o, p)
      PROVE  IInv'
  <2>1. TypeOK'
    BY <1>4 DEF IInv, TypeOK, InspectAgain
  <2>2. (Reading(o) /\ Whole(o) /\ Exporting(o))'
    BY <1>4 DEF IInv, TypeOK, Knowledge, InspectAgain, Reading, Whole, Exporting
  <2>3. ASSUME NEW q \in Operators, q # o
        PROVE  (Reading(q) /\ Whole(q) /\ Exporting(q))'
    <3>1. /\ pc'[q] = pc[q] /\ path'[q] = path[q] /\ unread'[q] = unread[q]
          /\ snapshot'[q] = snapshot[q] /\ late'[q] = late[q]
      BY <1>4, <2>3 DEF IInv, TypeOK, InspectAgain
    <3>2. QED
      BY <1>4, <2>3, <3>1, OthersKnow DEF InspectAgain
  <2>4. QED
    BY <2>1, <2>2, <2>3 DEF IInv, Knowledge
<1>5. CASE Stage(o)
  <2>1. TypeOK'
    BY <1>5 DEF IInv, TypeOK, Stage, Goes, Running
  <2>2. snapshot[o] \in State
    BY <1>5 DEF IInv, TypeOK, Knowledge, Whole, Stage, Inspected, State
  <2>3. (Reading(o) /\ Whole(o) /\ Exporting(o))'
    BY <1>5, <2>2 DEF IInv, TypeOK, Knowledge, Stage, Inspected, Goes, Reading, Whole, Exporting
  <2>4. ASSUME NEW q \in Operators, q # o
        PROVE  (Reading(q) /\ Whole(q) /\ Exporting(q))'
    <3>1. /\ pc'[q] = pc[q] /\ path'[q] = path[q] /\ unread'[q] = unread[q]
          /\ snapshot'[q] = snapshot[q] /\ late'[q] = late[q]
      BY <1>5, <2>4 DEF IInv, TypeOK, Stage, Goes
    <3>2. QED
      BY <1>5, <2>4, <3>1, OthersKnow DEF Stage
  <2>5. QED
    BY <2>1, <2>3, <2>4 DEF IInv, Knowledge
<1>6. CASE MigratedBefore(o) \/ Fail(o)
  <2>1. PICK how \in Ended : Ends(o, how)
    BY <1>6 DEF MigratedBefore, Fail, Ended
  <2>2. UNCHANGED <<tree, db>>
    BY <1>6 DEF MigratedBefore, Fail
  <2>3. TypeOK'
    BY <2>1, <2>2, EndsType DEF IInv, TypeOK
  <2>4. QED
    BY <2>1, <2>2, <2>3, EndsKnowledge DEF IInv
<1>7. CASE Install(o)
  <2>1. PICK how \in Ended : Ends(o, how)
    BY <1>7 DEF Install, Ended
  <2>2. snapshot[o] \in State
    BY <1>7 DEF IInv, Knowledge, Whole, Install
  <2>3. db' \in Database
    BY <1>7, <2>2 DEF Install, Database
  <2>4. TypeOK'
    BY <1>7, <2>1, <2>3, EndsType DEF IInv, TypeOK, Install
  <2>5. QED
    BY <1>7, <2>1, <2>4, EndsKnowledge DEF IInv, Install
<1>8. CASE Publish(o)
  <2>1. PICK how \in Ended : Ends(o, how)
    BY <1>8 DEF Publish, Ended
  <2>2. snapshot[o] \in State
    BY <1>8 DEF IInv, Knowledge, Whole, Publish
  <2>3. tree' \in [Trees -> State \cup {Nothing}]
    BY <1>8, <2>2 DEF IInv, TypeOK, Publish
  <2>4. TypeOK'
    BY <1>8, <2>1, <2>3, EndsType DEF IInv, TypeOK, Publish
  <2>5. \A t \in Trees : tree[t] # Nothing => tree'[t] = tree[t]
    BY <1>8 DEF IInv, TypeOK, Publish
  <2>6. QED
    BY <1>8, <2>1, <2>4, <2>5, EndsKnowledge DEF IInv, Publish
<1>9. QED
  BY <1>1, <1>2, <1>3, <1>4, <1>5, <1>6, <1>7, <1>8 DEF Tool

LEMMA LegacyWriteInv ==
  ASSUME IInv, NEW t \in Trees, NEW p \in Parts, NEW v \in Contents, LegacyWrite(t, p, v)
  PROVE  IInv'
<1>1. tree[t] \in State
  BY DEF IInv, TypeOK, LegacyWrite
<1>2. [tree[t] EXCEPT ![p] = v] \in State
  BY <1>1 DEF State
<1>3. tree' = [tree EXCEPT ![t] = [tree[t] EXCEPT ![p] = v]]
  BY DEF IInv, TypeOK, LegacyWrite
<1>4. TypeOK'
  BY <1>2, <1>3 DEF IInv, TypeOK, LegacyWrite
<1>5. ASSUME NEW q \in Operators
      PROVE  (Reading(q) /\ Whole(q) /\ Exporting(q))'
  <2>1. Reading(q)'
    <3>1. CASE path[q] # t
      BY <1>3, <3>1 DEF IInv, TypeOK, Knowledge, Reading, LegacyWrite
    <3>2. CASE path[q] = t
      <4>1. tree'[t] # Nothing
        BY <1>2, <1>3, NothingAssumption DEF IInv, TypeOK, State
      <4>2. \A x \in Parts : x # p => tree'[t][x] = tree[t][x]
        BY <1>1, <1>3 DEF IInv, TypeOK, State
      <4>3. pc[q] \in {"inspecting", "verifying"} => p \in unread'[q] \cup late'[q]
        BY <3>2 DEF IInv, TypeOK, LegacyWrite
      <4>4. late[q] \subseteq late'[q] /\ unread'[q] = unread[q] /\ path'[q] = t
            /\ snapshot'[q] = snapshot[q] /\ pc'[q] = pc[q]
        BY <3>2 DEF IInv, TypeOK, LegacyWrite
      <4>5. QED
        BY <3>2, <4>1, <4>2, <4>3, <4>4 DEF IInv, Knowledge, Reading
    <3>3. QED
      BY <3>1, <3>2
  <2>2. Whole(q)'
    BY DEF IInv, Knowledge, Whole, LegacyWrite
  <2>3. Exporting(q)'
    BY DEF IInv, TypeOK, Knowledge, Exporting, LegacyWrite
  <2>4. QED
    BY <2>1, <2>2, <2>3
<1>6. QED
  BY <1>4, <1>5 DEF IInv, Knowledge

LEMMA UnifiedWriteInv ==
  ASSUME IInv, NEW p \in Parts, NEW v \in Contents, UnifiedWrite(p, v)
  PROVE  IInv'
<1>1. db \in Database /\ db.content \in State
  BY DEF IInv, TypeOK, UnifiedWrite, Database
<1>2. db' = [content |-> [db.content EXCEPT ![p] = v], receipt |-> db.receipt]
  BY <1>1 DEF UnifiedWrite, Database
<1>3. db' \in Database
  BY <1>1, <1>2 DEF Database, State
<1>4. TypeOK'
  BY <1>3 DEF IInv, TypeOK, UnifiedWrite
<1>5. db' # Nothing
  BY <1>3, NothingAssumption DEF Database, State
<1>6. \A x \in Parts : x # p => db'.content[x] = db.content[x]
  BY <1>1, <1>2 DEF State
<1>7. ASSUME NEW q \in Operators
      PROVE  (Reading(q) /\ Whole(q) /\ Exporting(q))'
  <2>1. (Reading(q) /\ Whole(q))'
    BY DEF IInv, TypeOK, Knowledge, Reading, Whole, UnifiedWrite
  <2>2. pc[q] = "exporting" => p \in late'[q] /\ late[q] \subseteq late'[q]
    BY DEF IInv, TypeOK, UnifiedWrite
  <2>3. Exporting(q)'
    BY <1>5, <1>6, <2>2 DEF IInv, Knowledge, Exporting, UnifiedWrite
  <2>4. QED
    BY <2>1, <2>3
<1>8. QED
  BY <1>4, <1>7 DEF IInv, Knowledge

LEMMA IInvNext == IInv /\ [Next]_vars => IInv'
<1> SUFFICES ASSUME IInv, [Next]_vars
             PROVE  IInv'
  OBVIOUS
<1>1. CASE UNCHANGED vars
  BY <1>1 DEF IInv, TypeOK, Knowledge, Reading, Whole, Exporting, vars
<1>2. CASE Next
  BY <1>2, ToolInv, LegacyWriteInv, UnifiedWriteInv DEF Next, Service
<1>3. QED
  BY <1>1, <1>2

LEMMA MigrationInvariant == Spec => []IInv
BY IInvInit, IInvNext, PTL DEF Spec

(* The stores are always whole: no tool installs or publishes a part it    *)
(* did not read (persistence_migration.py:269-409).                        *)
THEOREM MigrationTypeCorrect == Spec => []TypeOK
BY MigrationInvariant, PTL DEF IInv

(* Which tools change a store, and when.                                   *)
LEMMA OnlyInstallMakesDatabase ==
  ASSUME IInv, [Next]_vars, db = Nothing, db' # Nothing
  PROVE  \E o \in Operators : Install(o)
BY DEF Next, Service, Tool, Migrate, Export, Begins, Inspect, InspectAgain, MigratedBefore,
       Stage, Publish, Fail, LegacyWrite, UnifiedWrite, vars

(* What is installed is the tree it was read from, but for parts written   *)
(* while the second inspection had come past them                          *)
(* (persistence_migration.py:315-318).                                     *)
THEOREM InstalledDatabaseIsTheSource == Spec => InstalledIsTheSource
<1> DEFINE TheSource ==
      db = Nothing /\ db' # Nothing =>
        \E o \in Operators :
          /\ pc[o] = "verifying"
          /\ \A p \in Parts \ late[o] : db'.content[p] = tree[path[o]][p]
<1>1. ASSUME IInv, [Next]_vars PROVE TheSource
  <2> SUFFICES ASSUME db = Nothing, db' # Nothing
               PROVE  \E o \in Operators :
                        /\ pc[o] = "verifying"
                        /\ \A p \in Parts \ late[o] : db'.content[p] = tree[path[o]][p]
    OBVIOUS
  <2>1. PICK o \in Operators : Install(o)
    BY <1>1, OnlyInstallMakesDatabase
  <2>2. pc[o] = "verifying" /\ unread[o] = {} /\ db'.content = snapshot[o]
    BY <2>1 DEF Install
  <2>3. \A p \in Parts \ late[o] : tree[path[o]][p] = snapshot[o][p]
    BY <1>1, <2>2 DEF IInv, Knowledge, Reading
  <2>4. QED
    BY <2>2, <2>3
<1>2. QED
  BY <1>1, MigrationInvariant, PTL DEF Spec, InstalledIsTheSource

(* "already_migrated" means that the database still holds what the tree    *)
(* holds (persistence_migration.py:274-281).                               *)
THEOREM AlreadyMigratedMeansEqual == Spec => AlreadyMigratedIsTrue
<1> DEFINE TrueAnswers ==
      \A o \in Operators :
        pc[o] # "already_migrated" /\ pc'[o] = "already_migrated" =>
          \A p \in Parts \ late[o] : db.content[p] = tree[path[o]][p]
<1>1. ASSUME IInv, [Next]_vars PROVE TrueAnswers
  <2> SUFFICES ASSUME NEW o \in Operators,
                      pc[o] # "already_migrated", pc'[o] = "already_migrated"
               PROVE  \A p \in Parts \ late[o] : db.content[p] = tree[path[o]][p]
    OBVIOUS
  <2>1. MigratedBefore(o) /\ Equivalent(o)
    <3>1. PICK q \in Operators : Tool(q)
      BY <1>1 DEF Next, Service, LegacyWrite, UnifiedWrite, vars
    <3>2. q = o /\ MigratedBefore(o) /\ Equivalent(o)
      BY <1>1, <3>1 DEF IInv, TypeOK, Tool, Migrate, Export, Begins, Ends, Goes, Inspect,
         InspectAgain, MigratedBefore, Stage, Install, Publish, Fail
    <3>3. QED
      BY <3>2
  <2>2. pc[o] = "inspecting" /\ unread[o] = {} /\ db.content = snapshot[o]
    BY <2>1 DEF MigratedBefore, Inspected, Equivalent
  <2>3. QED
    BY <1>1, <2>2 DEF IInv, Knowledge, Reading
<1>2. QED
  BY <1>1, MigrationInvariant, PTL DEF Spec, AlreadyMigratedIsTrue

(* No tool overwrites a database or a tree that is there, whoever else     *)
(* runs (persistence_migration.py:4, 318, 327-339).                        *)
THEOREM StoresAreNeverReplaced == Spec => OnlyServicesChangeStores
<1> DEFINE ByServices ==
      /\ \A t \in Trees :
           tree[t] # Nothing /\ tree'[t] # tree[t] =>
             \E p \in Parts, v \in Contents : LegacyWrite(t, p, v)
      /\ db # Nothing /\ db' # db => \E p \in Parts, v \in Contents : UnifiedWrite(p, v)
<1>1. ASSUME IInv, [Next]_vars PROVE ByServices
  <2>1. ASSUME NEW t \in Trees, tree[t] # Nothing, tree'[t] # tree[t]
        PROVE  \E p \in Parts, v \in Contents : LegacyWrite(t, p, v)
    <3>1. ~\E o \in Operators : Tool(o)
      BY <1>1, <2>1 DEF IInv, TypeOK, Tool, Migrate, Export, Begins, Inspect, InspectAgain,
         MigratedBefore, Stage, Install, Publish, Fail
    <3>2. PICK p \in Parts, v \in Contents, d \in Trees : LegacyWrite(d, p, v)
      BY <1>1, <2>1, <3>1 DEF Next, Service, UnifiedWrite, vars
    <3>3. d = t
      BY <1>1, <2>1, <3>2 DEF IInv, TypeOK, LegacyWrite
    <3>4. QED
      BY <3>2, <3>3
  <2>2. ASSUME db # Nothing, db' # db
        PROVE  \E p \in Parts, v \in Contents : UnifiedWrite(p, v)
    <3>1. ~\E o \in Operators : Tool(o)
      BY <1>1, <2>2 DEF Tool, Migrate, Export, Begins, Inspect, InspectAgain,
         MigratedBefore, Stage, Install, Publish, Fail
    <3>2. QED
      BY <1>1, <2>2, <3>1 DEF Next, Service, LegacyWrite, vars
  <2>3. QED
    BY <2>1, <2>2
<1>2. QED
  BY <1>1, MigrationInvariant, PTL DEF Spec, OnlyServicesChangeStores

(* An export holds all that was written before it was read                 *)
(* (docs/unified-persistence.md:18).                                       *)
THEOREM ExportsAreCurrent == Spec => ExportIsCurrent
<1> DEFINE Current ==
      \A o \in Operators :
        pc[o] # "exported" /\ pc'[o] = "exported" =>
          \A p \in Parts \ late[o] : tree'[path[o]][p] = db.content[p]
<1>1. ASSUME IInv, [Next]_vars PROVE Current
  <2> SUFFICES ASSUME NEW o \in Operators, pc[o] # "exported", pc'[o] = "exported"
               PROVE  \A p \in Parts \ late[o] : tree'[path[o]][p] = db.content[p]
    OBVIOUS
  <2>1. Publish(o)
    <3>1. PICK q \in Operators : Tool(q)
      BY <1>1 DEF Next, Service, LegacyWrite, UnifiedWrite, vars
    <3>2. q = o /\ Publish(o)
      BY <1>1, <3>1 DEF IInv, TypeOK, Tool, Migrate, Export, Begins, Ends, Goes, Inspect,
         InspectAgain, MigratedBefore, Stage, Install, Publish, Fail
    <3>3. QED
      BY <3>2
  <2>2. tree'[path[o]] = snapshot[o] /\ pc[o] = "exporting"
    BY <1>1, <2>1 DEF IInv, TypeOK, Publish
  <2>3. QED
    BY <1>1, <2>2 DEF IInv, Knowledge, Exporting
<1>2. QED
  BY <1>1, MigrationInvariant, PTL DEF Spec, ExportIsCurrent
-----------------------------------------------------------------------------
(* The copy of the Task directories.                                       *)

(* What the second inspection came to is as the manifest says, but for the *)
(* Tasks written since.                                                    *)
Compared ==
  tool = "comparing" => \A t \in Tasks \ (rest \cup changed) : source[t] = plan[t]

(* The targets are touched only when they were empty, and the tool knows   *)
(* which of the roots were there; undoing comes to the archive root when   *)
(* the active one is as it was.                                            *)
Rooted ==
  /\ Empty(before.target)
  /\ found = before.roots /\ found \subseteq Places

Touching ==
  /\ tool = "planning" => target = before.target /\ roots = before.roots
  /\ tool = "rooting" =>
       Rooted /\ target = before.target /\ roots = found \cup {"active"}
  /\ tool \in {"copying", "comparing", "undoing_active"} => Rooted /\ roots = Places
  /\ tool = "undoing_archive" =>
       Rooted /\ CopiesAt("active") = {} /\ roots = found \cup {"archive"}

CopyInv == CopyTypeOK /\ Compared /\ Touching /\ FailedCopyLeavesTargets

USE OpenAssumption, EntryAssumption

LEMMA CopyInvInit == CopyInit => CopyInv
BY DEF CopyInit, CopyInv, CopyTypeOK, Compared, Touching, FailedCopyLeavesTargets, Empty, Done

LEMMA CopiedType ==
  ASSUME NEW e \in Sources PROVE TargetPlace(e) \in Places /\ e.record \in Records
BY DEF TargetPlace, Sources, Entry, Places

LEMMA CopyTypeStep == CopyTypeOK /\ [CopyNext]_copyVars => CopyTypeOK'
<1> SUFFICES ASSUME CopyTypeOK, [CopyNext]_copyVars PROVE CopyTypeOK'
  OBVIOUS
<1> USE DEF Done, Working
<1>1. CASE CopyStarts
  BY <1>1 DEF CopyTypeOK, CopyStarts, sourceVars, targetVars
<1>2. CASE TargetsChecked \/ TargetsMade
  BY <1>2 DEF CopyTypeOK, TargetsChecked, TargetsMade, sourceVars, Planned, Places
<1>3. CASE AllCopied
  BY <1>3 DEF CopyTypeOK, AllCopied, targetVars
<1>4. CASE Ready
  BY <1>4 DEF CopyTypeOK, Ready, Stops, targetVars
<1>5. ASSUME NEW t \in Tasks,
             Plan(t) \/ MakeDirectory(t) \/ Compare(t) \/ Remove(t)
      PROVE  CopyTypeOK'
  BY <1>5 DEF CopyTypeOK, Plan, MakeDirectory, Compare, Remove, sourceVars, targetVars, toolVars
<1>6. ASSUME NEW t \in Tasks, CopyEntry(t) PROVE CopyTypeOK'
  <2>1. plan[t] \in Sources \cup {NoEntry} /\ source[t] \in Sources
    BY <1>6 DEF CopyTypeOK, CopyEntry
  <2>2. TargetPlace(plan[t]) \in Places /\ source[t].record \in Records
    BY <2>1, CopiedType DEF TargetPlace, Places
  <2>3. QED
    BY <1>6, <2>2 DEF CopyTypeOK, CopyEntry, Entry, sourceVars
<1>7. CASE CopyFails
  BY <1>7 DEF CopyTypeOK, CopyFails, Stops, sourceVars, targetVars
<1>8. ASSUME NEW place \in Places, RootUndone(place) PROVE CopyTypeOK'
  BY <1>8 DEF CopyTypeOK, RootUndone, Stops, sourceVars
<1>9. ASSUME NEW place \in Places, UndoingFails(place) PROVE CopyTypeOK'
  BY <1>9 DEF CopyTypeOK, UndoingFails, Stops
<1>10. CASE Killed
  BY <1>10 DEF CopyTypeOK, Killed, Stops, targetVars
<1>11. ASSUME NEW t \in Tasks, NEW e \in Sources \cup {NoEntry}, TaskWritten(t, e)
       PROVE  CopyTypeOK'
  BY <1>11 DEF CopyTypeOK, TaskWritten, targetVars, toolVars
<1>12. CASE UNCHANGED copyVars
  BY <1>12 DEF CopyTypeOK, copyVars, sourceVars, targetVars, toolVars
<1>13. QED
  BY <1>1, <1>2, <1>3, <1>4, <1>5, <1>6, <1>7, <1>8, <1>9, <1>10, <1>11, <1>12
     DEF CopyNext, CopyStep

LEMMA ComparedStep == CopyInv /\ [CopyNext]_copyVars => Compared'
<1> SUFFICES ASSUME CopyInv, [CopyNext]_copyVars PROVE Compared'
  OBVIOUS
<1>1. CASE AllCopied
  BY <1>1 DEF CopyInv, Compared, AllCopied
<1>2. ASSUME NEW t \in Tasks, Compare(t) PROVE Compared'
  BY <1>2 DEF CopyInv, CopyTypeOK, Compared, Compare, sourceVars
<1>3. ASSUME NEW t \in Tasks, NEW e \in Sources \cup {NoEntry}, TaskWritten(t, e)
      PROVE  Compared'
  BY <1>3 DEF CopyInv, CopyTypeOK, Compared, TaskWritten, toolVars
<1>4. ASSUME NEW t \in Tasks, Plan(t) \/ MakeDirectory(t) \/ CopyEntry(t) \/ Remove(t)
      PROVE  Compared'
  BY <1>4 DEF CopyInv, Compared, Plan, MakeDirectory, CopyEntry, Remove, sourceVars, toolVars
<1>5. CASE CopyStarts \/ TargetsChecked \/ TargetsMade \/ Ready \/ CopyFails \/ Killed
  BY <1>5 DEF Compared, CopyStarts, TargetsChecked, TargetsMade, Ready, CopyFails, Killed,
     Stops
<1>6. ASSUME NEW place \in Places, RootUndone(place) \/ UndoingFails(place)
      PROVE  Compared'
  BY <1>6 DEF Compared, RootUndone, UndoingFails, Stops
<1>7. CASE UNCHANGED copyVars
  BY <1>7 DEF CopyInv, Compared, copyVars, sourceVars, targetVars, toolVars
<1>8. QED
  BY <1>1, <1>2, <1>3, <1>4, <1>5, <1>6, <1>7 DEF CopyNext, CopyStep

LEMMA TouchingStep ==
  CopyInv /\ [CopyNext]_copyVars => Touching' /\ FailedCopyLeavesTargets'
<1> SUFFICES ASSUME CopyInv, [CopyNext]_copyVars
             PROVE  Touching' /\ FailedCopyLeavesTargets'
  OBVIOUS
<1> USE DEF CopyInv, Touching, Rooted, FailedCopyLeavesTargets
<1>1. CASE CopyStarts
  BY <1>1 DEF CopyStarts, targetVars
<1>2. CASE TargetsChecked
  BY <1>2 DEF CopyTypeOK, TargetsChecked, Empty
<1>3. CASE TargetsMade
  BY <1>3 DEF TargetsMade, Places
<1>4. CASE AllCopied
  BY <1>4 DEF AllCopied, targetVars
<1>5. CASE Ready
  BY <1>5 DEF Ready, Stops, targetVars
<1>6. ASSUME NEW t \in Tasks, Plan(t) \/ Compare(t) PROVE Touching' /\ FailedCopyLeavesTargets'
  BY <1>6 DEF Plan, Compare, targetVars
<1>7. ASSUME NEW t \in Tasks, MakeDirectory(t) \/ CopyEntry(t)
      PROVE  Touching' /\ FailedCopyLeavesTargets'
  BY <1>7 DEF MakeDirectory, CopyEntry, toolVars
<1>8. ASSUME NEW t \in Tasks, Remove(t) PROVE Touching' /\ FailedCopyLeavesTargets'
  <2>1. UNCHANGED <<roots, tool, plan, found, before>> /\ Empty(before.target)
    BY <1>8 DEF Remove, Undoes, toolVars
  <2>2. CopiesAt("active")' \subseteq CopiesAt("active")
    BY <1>8, <2>1 DEF CopyTypeOK, Remove, CopiesAt, TargetPlace
  <2>3. QED
    BY <1>8, <2>1, <2>2 DEF Remove, Undoes
<1>9. CASE CopyFails
  BY <1>9 DEF CopyFails, Stops, targetVars
<1>10. CASE RootUndone("active")
  <2>1. CopiesAt("active")' = {} /\ Rooted' /\ tool' = "undoing_archive"
    BY <1>10 DEF RootUndone, Undoes, CopiesAt, TargetPlace, sourceVars
  <2>2. roots' = found \cup {"archive"}
    BY <1>10 DEF RootUndone, Undoes, Places
  <2>3. QED
    BY <1>10, <2>1, <2>2 DEF RootUndone, Undoes, sourceVars
<1>11. CASE RootUndone("archive")
  <2>1. \A t \in Tasks : target[t] = NoEntry
    BY <1>11 DEF RootUndone, Undoes, CopiesAt, TargetPlace
  <2>2. target = before.target
    BY <1>11, <2>1 DEF CopyTypeOK, RootUndone, Undoes, Empty
  <2>3. roots' = before.roots
    BY <1>11 DEF RootUndone, Undoes, Places
  <2>4. QED
    BY <1>11, <2>2, <2>3 DEF RootUndone, Stops
<1>12. ASSUME NEW place \in Places, UndoingFails(place)
       PROVE  Touching' /\ FailedCopyLeavesTargets'
  BY <1>12 DEF UndoingFails, Undoes, Stops, Places
<1>13. CASE Killed
  BY <1>13 DEF CopyTypeOK, Killed, Stops, targetVars, Done, Working
<1>14. ASSUME NEW t \in Tasks, NEW e \in Sources \cup {NoEntry}, TaskWritten(t, e)
       PROVE  Touching' /\ FailedCopyLeavesTargets'
  BY <1>14 DEF TaskWritten, targetVars, toolVars, CopiesAt
<1>15. CASE UNCHANGED copyVars
  BY <1>15 DEF copyVars, targetVars, toolVars, CopiesAt
<1>16. QED
  BY <1>1, <1>2, <1>3, <1>4, <1>5, <1>6, <1>7, <1>8, <1>9, <1>10, <1>11, <1>12, <1>13,
     <1>14, <1>15 DEF CopyNext, CopyStep, Places

(* The copy keeps its invariant.                                           *)
THEOREM CopyInvariant == CopySpec => []CopyInv
<1>1. CopyInv /\ [CopyNext]_copyVars => CopyInv'
  BY CopyTypeStep, ComparedStep, TouchingStep DEF CopyInv
<1>2. QED
  BY <1>1, CopyInvInit, PTL DEF CopySpec

(* The copy is type correct, and its targets hold nothing but entries.     *)
THEOREM CopyTypeCorrect == CopySpec => []CopyTypeOK
<1>1. CopyInv => CopyTypeOK
  BY DEF CopyInv
<1>2. QED
  BY <1>1, CopyInvariant, PTL

(* A failed copy that could undo what it did leaves the targets as it      *)
(* found them, but for the root it may have made, and none touches targets *)
(* that held something (task_migration.py:281-284, 322-325).               *)
THEOREM FailedCopiesLeaveTargets == CopySpec => []FailedCopyLeavesTargets
<1>1. CopyInv => FailedCopyLeavesTargets
  BY DEF CopyInv
<1>2. QED
  BY <1>1, CopyInvariant, PTL

(* switch_ready is true of every Task not written since it was compared    *)
(* (task_migration.py:293-297).                                            *)
THEOREM SwitchReadyMeansEqual == CopySpec => SwitchReadyIsTrue
<1> DEFINE ReadyIsTrue ==
      tool # "ready" /\ tool' = "ready" =>
        \A t \in Tasks \ changed :
          target[t] = IF source[t] = NoEntry THEN NoEntry
                      ELSE [at |-> TargetPlace(source[t]), record |-> source[t].record]
<1>1. ASSUME CopyInv, [CopyNext]_copyVars PROVE ReadyIsTrue
  <2> SUFFICES ASSUME tool # "ready", tool' = "ready", NEW t \in Tasks \ changed
               PROVE  target[t] = IF source[t] = NoEntry THEN NoEntry
                                  ELSE [at |-> TargetPlace(source[t]), record |-> source[t].record]
    OBVIOUS
  <2>1. Ready
    BY <1>1 DEF CopyNext, CopyStep, CopyStarts, TargetsChecked, TargetsMade, AllCopied, Plan,
       MakeDirectory, CopyEntry, Compare, Remove, CopyFails, RootUndone, UndoingFails, Killed,
       Stops, TaskWritten, copyVars, toolVars
  <2>2. source[t] = plan[t]
    BY <1>1, <2>1 DEF CopyInv, Compared, Ready
  <2>3. QED
    BY <2>1, <2>2 DEF Ready, Planned, Copied
<1>2. QED
  BY <1>1, CopyInvariant, PTL DEF CopySpec, SwitchReadyIsTrue
=============================================================================
