--------------------------- MODULE CandidateStore ---------------------------
(***************************************************************************)
(* The Candidate store (candidates.py): proposals for reusable tooling,    *)
(* their promotion state and the Task that implements them.  A mutation    *)
(* holds the lock of its Candidate, or the write transaction of the        *)
(* unified database, and replaces the record at once, so it is one step.   *)
(* Its answer may be lost, with the connection or with the server: the     *)
(* record has changed and the caller does not know.                        *)
(*                                                                         *)
(* Title, proposal, ownership, rationale and the rest of the problem are   *)
(* one content.  The reason of a state, and which final reference it is,   *)
(* are left out.                                                           *)
(***************************************************************************)
EXTENDS Naturals, FiniteSets

CONSTANTS
  Ids,
  Callers,
  Contents,
  TaskIds,
  MaxRevision,   \* bound
  None           \* no content, no Task

ASSUME NoneAssumption == None \notin TaskIds
ASSUME BoundAssumption == MaxRevision \in Nat \ {0}

VARIABLES
  records,   \* Candidate id -> record
  view,      \* per caller, the record it last read or was answered
  counted,   \* history: the expected revisions of the occurrences recorded
  approved   \* history: Candidates that were approved at some time

vars == <<records, view, counted, approved>>

Completed == {"implemented", "automated"}
States == {"candidate", "approved", "blocked", "not-warranted"} \cup Completed

Decisive == {"not-warranted"} \cup Completed

(* Mutant: completed work may be taken up again.                           *)
TransitionsReopening ==
  [s \in States |->
    CASE s = "candidate" -> {"approved", "blocked", "not-warranted"}
      [] s = "approved" -> {"blocked", "not-warranted"} \cup Completed
      [] s = "not-warranted" -> {}
      [] OTHER -> {"approved", "not-warranted"}]

(* Mutant: what is blocked may be completed without having been approved.  *)
TransitionsUnapproved ==
  [s \in States |->
    CASE s = "candidate" -> {"approved", "blocked", "not-warranted"}
      [] s = "approved" -> {"blocked", "not-warranted"} \cup Completed
      [] s = "blocked" -> {"approved", "not-warranted"} \cup Completed
      [] OTHER -> {}]

(* _ALLOWED_TRANSITIONS                                                    *)
AllowedTransitions ==
  [s \in States |->
    CASE s = "candidate" -> {"approved", "blocked", "not-warranted"}
      [] s = "approved" -> {"blocked", "not-warranted"} \cup Completed
      [] s = "blocked" -> {"approved", "not-warranted"}
      [] OTHER -> {}]

Revisions == 1 .. MaxRevision

(* Revision 0: not created.                                                *)
CandidateRecord ==
  [revision : 0 .. MaxRevision, state : States, recurrence_count : Nat,
   content : Contents \cup {None}, task_id : TaskIds \cup {None},
   final_reference : BOOLEAN]

NoCandidate ==
  [revision |-> 0, state |-> "candidate", recurrence_count |-> 0, content |-> None,
   task_id |-> None, final_reference |-> FALSE]

(* Types, and the shape of the lifecycle that the schema demands.          *)
TypeOK ==
  /\ records \in [Ids -> CandidateRecord]
  /\ view \in [Callers -> [Ids -> CandidateRecord]]
  /\ counted \in [Ids -> SUBSET Revisions]
  /\ approved \subseteq Ids
  /\ \A i \in Ids : records[i].final_reference <=> records[i].state \in Completed

Init ==
  /\ records = [i \in Ids |-> NoCandidate]
  /\ view = [c \in Callers |-> [i \in Ids |-> NoCandidate]]
  /\ counted = [i \in Ids |-> {}]
  /\ approved = {}
-----------------------------------------------------------------------------
(* The answer of an operation, or its loss.                                *)
Answered(c, i) == view' = [view EXCEPT ![c][i] = records[i]']
MaybeAnswered(c, i) == Answered(c, i) \/ UNCHANGED view

(* get_candidate                                                           *)
Get(c, i) ==
  /\ records[i].revision # 0
  /\ UNCHANGED <<records, counted, approved>>
  /\ Answered(c, i)

Create(c, i, content) ==
  /\ records[i] = NoCandidate
  /\ records' = [records EXCEPT ![i] = [@ EXCEPT !.revision = 1, !.recurrence_count = 1,
                                                 !.content = content]]
  /\ UNCHANGED <<counted, approved>>
  /\ MaybeAnswered(c, i)

(* Mutant: the revision is not compared.                                   *)
CurrentUnchecked(i, expected) == records[i].revision \in 1 .. MaxRevision - 1

(* The compare-and-swap every mutation begins with.                        *)
Current(i, expected) ==
  records[i].revision = expected /\ expected < MaxRevision

(* Mutant: the new revision is the old one.                                *)
RevisedInPlace(record) == record

Revised(record) == [record EXCEPT !.revision = @ + 1]

(* update, with the recurrence count in the problem the caller sends.      *)
Update(c, i, expected, content, count) ==
  /\ Current(i, expected)
  /\ count = records[i].recurrence_count
  /\ records' = [records EXCEPT ![i] = [Revised(@) EXCEPT !.content = content]]
  /\ UNCHANGED <<counted, approved>>
  /\ MaybeAnswered(c, i)

Recounted(record) == [Revised(record) EXCEPT !.recurrence_count = @ + 1]

RecordOccurrence(c, i, expected) ==
  /\ Current(i, expected)
  /\ records' = [records EXCEPT ![i] = Recounted(@)]
  /\ counted' = [counted EXCEPT ![i] = @ \cup {expected}]
  /\ UNCHANGED approved
  /\ MaybeAnswered(c, i)

(* Mutant: the final reference survives, or is missing.                    *)
DecidedWithoutReference(record, target) == [Revised(record) EXCEPT !.state = target]

Decided(record, target) ==
  [Revised(record) EXCEPT !.state = target, !.final_reference = target \in Completed]

(* transition: approve, block, mark not warranted or complete, the last    *)
(* with a final reference and only it.                                     *)
Transition(c, i, expected, target) ==
  /\ Current(i, expected)
  /\ target \in AllowedTransitions[records[i].state]
  /\ records' = [records EXCEPT ![i] = Decided(@, target)]
  /\ approved' = IF target = "approved" THEN approved \cup {i} ELSE approved
  /\ UNCHANGED counted
  /\ MaybeAnswered(c, i)

(* link_task; the Task it already names changes nothing.                   *)
LinkTask(c, i, expected, task) ==
  /\ Current(i, expected)
  /\ records[i].state \in {"approved", "blocked"}
  /\ records' = IF records[i].task_id = task THEN records
                ELSE [records EXCEPT ![i] = [Revised(@) EXCEPT !.task_id = task]]
  /\ UNCHANGED <<counted, approved>>
  /\ MaybeAnswered(c, i)
-----------------------------------------------------------------------------
Next ==
  \E c \in Callers, i \in Ids :
    \/ Get(c, i)
    \/ \E content \in Contents : Create(c, i, content)
    \/ \E expected \in Revisions :
         \/ \E content \in Contents, count \in Revisions : Update(c, i, expected, content, count)
         \/ RecordOccurrence(c, i, expected)
         \/ \E target \in States : Transition(c, i, expected, target)
         \/ \E task \in TaskIds : LinkTask(c, i, expected, task)

Spec == Init /\ [][Next]_vars
-----------------------------------------------------------------------------
(* A write of c that names the revision it expects.                        *)
Replaces(c, i, expected) ==
  \/ \E content \in Contents, count \in Revisions : Update(c, i, expected, content, count)
  \/ RecordOccurrence(c, i, expected)
  \/ \E target \in States : Transition(c, i, expected, target)
  \/ \E task \in TaskIds : LinkTask(c, i, expected, task)

(* No update is lost: a caller that names the revision it last saw edits,  *)
(* decides and links what it saw, and not what another caller made of it   *)
(* in between (docs/tooling-lifecycle.md:53; candidates.py:431-434).       *)
NoLostUpdate ==
  [][\A c \in Callers, i \in Ids :
       view[c][i].revision # 0 /\ Replaces(c, i, view[c][i].revision) =>
         view[c][i] = records[i]]_vars

(* recurrence_count is one more than the occurrences recorded with         *)
(* different expected revisions: a call repeated after a lost answer is    *)
(* not another occurrence, and nothing else moves the count                *)
(* (docs/tooling-lifecycle.md:49; candidates.py:437-484).                  *)
OccurrenceCountedOnce ==
  \A i \in Ids :
    records[i].revision # 0 => records[i].recurrence_count = 1 + Cardinality(counted[i])

(* A Candidate that was completed or found not warranted stays so, with    *)
(* its final reference and its Task, under every later edit of its content *)
(* (candidates.py:182-189, 486-563).                                       *)
DecisionsAreFinal ==
  [][\A i \in Ids :
       records[i].state \in Decisive =>
         /\ records'[i].state = records[i].state
         /\ records'[i].final_reference = records[i].final_reference
         /\ records'[i].task_id = records[i].task_id]_vars

(* Only approved work is completed, whatever blocked it in between or was  *)
(* linked to it without an approval (docs/tools.md:226;                    *)
(* candidates.py:182-189, 545).                                            *)
CompletionNeedsApproval == \A i \in Ids : records[i].state \in Completed => i \in approved
=============================================================================
