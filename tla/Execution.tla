----------------------------- MODULE Execution -----------------------------
(***************************************************************************)
(* execution.py: run_ssh, one bounded SSH call, and the heavy-execution    *)
(* lease.  A call is a coroutine: between two of its awaits it runs        *)
(* without interleaving, so an action here is the code from one await to   *)
(* the next.  The caller decides what an exception becomes; the actions    *)
(* below only say where the call stands and what became of the process.    *)
(***************************************************************************)
EXTENDS Naturals, RunStore   \* a call is named by the Run that makes it

CONSTANTS
  MaxHeavy,     \* max_heavy_concurrency of the target
  Free,         \* the holder of an unlocked slot
  InputBlocks   \* stdin may exceed what pipe and transport buffer at once

ASSUME HeavyAssumption == MaxHeavy \in Nat
ASSUME FreeAssumption == Free \notin Runs
ASSUME InputAssumption == InputBlocks \in BOOLEAN

VARIABLES
  phase,        \* where the coroutine of the call is
  proc,         \* its local ssh process
  timedOut,     \* the local variable timed_out
  holder        \* who holds the flock of each slot file

sshVars == <<phase, proc, timedOut>>

(***************************************************************************)
(* "idle": not in run_ssh.  "feeding": awaiting stdin.drain().  "waiting": *)
(* awaiting process.wait() under the timeout.  "killing" / "aborting":     *)
(* awaiting the killed process after a timeout / a cancellation.           *)
(* "collecting": awaiting the two readers.                                 *)
(***************************************************************************)
Phases == {"idle", "feeding", "waiting", "killing", "aborting", "collecting"}

(* A return code is 0 ("zero"), 255 ("transport"), another exit code of    *)
(* the remote command ("nonzero"), or negative: ssh was ended by a signal  *)
(* ("signal"), of run_ssh or from outside.  "dying": SIGKILL was sent.     *)
(* "orphan": the executor that started it is gone.                         *)
ExitCodes == {"zero", "transport", "nonzero", "signal"}
ProcStates == {"none", "alive", "dying", "orphan"} \cup ExitCodes

Exited(c) == proc[c] \in ExitCodes

ExecutionInit ==
  /\ phase = [c \in Runs |-> "idle"]
  /\ proc = [c \in Runs |-> "none"]
  /\ timedOut = [c \in Runs |-> FALSE]

ExecutionTypeOK ==
  /\ phase \in [Runs -> Phases]
  /\ proc \in [Runs -> ProcStates]
  /\ timedOut \in [Runs -> BOOLEAN]
-----------------------------------------------------------------------------
(* Mutant: the exit code is looked at before the timeout flag.             *)
ClassifiedByExitCode(c) ==
  CASE proc[c] = "zero"      -> "succeeded"
    [] proc[c] = "transport" -> "transport_error"
    [] OTHER                 -> IF timedOut[c] THEN "timeout" ELSE "remote_error"

(* classify_status: a death by signal is a remote error like any other.    *)
Classified(c) ==
  IF timedOut[c] THEN "timeout"
  ELSE CASE proc[c] = "zero"      -> "succeeded"
         [] proc[c] = "transport" -> "transport_error"
         [] OTHER                 -> "remote_error"

(* killpg(SIGKILL); an exited process is ProcessLookupError, ignored.      *)
Killed(c) == [proc EXCEPT ![c] = IF @ = "alive" THEN "dying" ELSE @]

(* The process exists; stdin is written and, if it does not fit, awaited.  *)
Spawn(c) ==
  /\ proc' = [proc EXCEPT ![c] = "alive"]
  /\ \E first \in {"waiting"} \cup (IF InputBlocks THEN {"feeding"} ELSE {}) :
       phase' = [phase EXCEPT ![c] = first]
  /\ UNCHANGED timedOut

(* ssh has read enough of stdin: drain() returns and stdin is closed.      *)
InputDrained(c) ==
  /\ phase[c] = "feeding"
  /\ phase' = [phase EXCEPT ![c] = "waiting"]
  /\ UNCHANGED <<proc, timedOut>>

(* drain() raises BrokenPipe or ConnectionReset: nothing in run_ssh        *)
(* catches it, and nothing kills or reaps the process.                     *)
InputBroken(c) ==
  /\ phase[c] = "feeding"
  /\ phase' = [phase EXCEPT ![c] = "idle"]
  /\ UNCHANGED <<proc, timedOut>>

(* The process ends by itself or is killed, by run_ssh or by somebody      *)
(* else.  Nobody observes the end of an orphan.                            *)
ProcessExits(c) ==
  /\ proc[c] \in {"alive", "dying"}
  /\ \E code \in ExitCodes :
       /\ proc[c] = "dying" => code = "signal"
       /\ proc' = [proc EXCEPT ![c] = code]
  /\ UNCHANGED <<phase, timedOut>>

(* wait_for(process.wait()) returns ...                                    *)
WaitReturns(c) ==
  /\ phase[c] = "waiting"
  /\ Exited(c)
  /\ phase' = [phase EXCEPT ![c] = "collecting"]
  /\ UNCHANGED <<proc, timedOut>>

(* ... or raises TimeoutError, which may still race the exit.              *)
TimeoutFires(c) ==
  /\ phase[c] = "waiting"
  /\ timedOut' = [timedOut EXCEPT ![c] = TRUE]
  /\ proc' = Killed(c)
  /\ phase' = [phase EXCEPT ![c] = "killing"]

KillReturns(c) ==
  /\ phase[c] = "killing"
  /\ Exited(c)
  /\ phase' = [phase EXCEPT ![c] = "collecting"]
  /\ UNCHANGED <<proc, timedOut>>

(* CancelledError while waiting: kill, then await the process.             *)
CancelKills(c) ==
  /\ phase[c] = "waiting"
  /\ proc' = Killed(c)
  /\ phase' = [phase EXCEPT ![c] = "aborting"]
  /\ UNCHANGED timedOut

(* Mutant: no "except CancelledError" around the wait either.              *)
CancelEscapesAnywhere(c) ==
  /\ phase[c] # "idle"
  /\ phase' = [phase EXCEPT ![c] = "idle"]
  /\ UNCHANGED <<proc, timedOut>>

(* CancelledError at any other await leaves run_ssh at once: the input     *)
(* phase stands before the try, the others inside its except clauses or    *)
(* behind it.                                                              *)
CancelEscapes(c) ==
  /\ phase[c] \in {"feeding", "killing", "aborting", "collecting"}
  /\ phase' = [phase EXCEPT ![c] = "idle"]
  /\ UNCHANGED <<proc, timedOut>>

(* The killed process and the readers are done: CancelledError goes on.    *)
AbortReturns(c) ==
  /\ phase[c] = "aborting"
  /\ Exited(c)
  /\ phase' = [phase EXCEPT ![c] = "idle"]
  /\ UNCHANGED <<proc, timedOut>>

(* Both readers saw end of file: run_ssh returns with Classified(c).       *)
Returns(c) ==
  /\ phase[c] = "collecting"
  /\ phase' = [phase EXCEPT ![c] = "idle"]
  /\ UNCHANGED <<proc, timedOut>>
-----------------------------------------------------------------------------
(* The heavy lease: one flock per slot file, tried in the order 0, 1, ...  *)
Slots == 0 .. (MaxHeavy - 1)

HolderInit == holder = [s \in Slots |-> Free]

HoldsSlot(c) == \E s \in Slots : holder[s] = c

(* Mutant: a lock somebody else holds does not stop the search.            *)
AcquireAnySlot(c) ==
  \E s \in Slots : holder' = [holder EXCEPT ![s] = c]

(* acquire_execution_lease for a heavy call; all slots taken is an error.  *)
AcquireSlot(c) ==
  \E s \in Slots :
    /\ holder[s] = Free
    /\ \A t \in Slots : t < s => holder[t] # Free
    /\ holder' = [holder EXCEPT ![s] = c]

(* ExecutionLease.release, a no-op for a call without a lease.             *)
ReleaseSlot(c) ==
  holder' = [s \in Slots |-> IF holder[s] = c THEN Free ELSE holder[s]]
=============================================================================
