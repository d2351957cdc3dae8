------------------------------ MODULE SkillCache ------------------------------
(***************************************************************************)
(* The skill registry of the server (server.py, _skill_registry): built    *)
(* from skill files that others change at any time and a remote state that *)
(* is asked for over ssh, cached for a while, and reused as long as a      *)
(* cheap probe of the files (their stamps) or else a digest of their       *)
(* content says that nothing changed.                                      *)
(*                                                                         *)
(* Requests share one event loop: what runs between two awaits (the lock,  *)
(* the ssh call) is not interleaved with other requests, but the writers   *)
(* of the files go on meanwhile, so files are read one at a time.  Every   *)
(* write gives its file a new stamp; one that adds or removes a file gives *)
(* one to its directory as well.  The configuration stays the same.        *)
(***************************************************************************)
EXTENDS Integers

CONSTANTS
  Files, Contents, Callers,
  Dir,          \* a directory of packages
  Entries,      \* the files in it that may come and go; the others stay
  Nested,       \* it lies below its source root, and is not the root itself
  TTL,          \* SKILL_REGISTRY_CACHE_TTL_SECONDS
  MaxWrites,    \* bound: writes of files
  MaxTime,      \* bound: the clock
  Nobody, NoCache, NoAnswer, Absent, Blank, Unseen

ASSUME EntriesAssumption == Entries \subseteq Files /\ Dir \notin Files /\ Nested \in BOOLEAN
ASSUME TTLAssumption == TTL \in Nat \ {0}
ASSUME BoundsAssumption == MaxWrites \in Nat /\ MaxTime \in Nat
ASSUME NobodyAssumption == Nobody \notin Callers /\ Unseen \notin Nat
ASSUME BlankAssumption == Absent \notin Contents /\ Blank \notin Contents \cup {Absent}

VARIABLES
  content,      \* the files
  stamp,        \* what stat says of them and of the directory
  writes,       \* how often one was written
  now,          \* the monotonic clock
  cache,        \* the registry, the snapshot and the time it goes with
  loop,         \* the request that has the event loop
  lock,         \* the request that has _skill_registry_lock
  todo,         \* the paths that the request with the loop has still to visit
  snapshot,     \* the one the request with the lock made
  scanned,      \* the packages it read
  attempt,      \* its attempt to build
  reuse,        \* whether an equal digest would do for it
  pc, refresh, asked, answer,   \* each request
  seen          \* history: the contents of the files since a request began

fileVars == <<content, stamp, writes>>
holderVars == <<snapshot, scanned, attempt, reuse>>
requestVars == <<pc, refresh, asked, answer>>
vars == <<fileVars, now, cache, loop, lock, todo, holderVars, requestVars, seen>>

Paths == Files \cup {Dir}
State == [Files -> Contents \cup {Absent}]
Snapshot == [content : State, stamp : [Paths -> Nat \cup {Unseen}]]
Registry == [content : State, born : Nat]
Cache == [registry : Registry, snapshot : Snapshot, at : Nat]

ASSUME NoneAssumption == NoCache \notin Cache /\ NoAnswer \notin Registry

NoSnapshot ==
  [content |-> [f \in Files |-> Absent], stamp |-> [p \in Paths |-> Unseen]]
Unscanned == [f \in Files |-> Blank]

(* The paths whose stamps a snapshot has: not those its walk did not see.  *)
Tracked(s) == {p \in Paths : s.stamp[p] # Unseen}

Visiting == {"probing", "reprobing", "walking", "walked", "hashing", "rechecking",
             "scanning", "verifying"}
Places == Visiting \cup {"idle", "locking", "waiting", "projecting", "answered", "failed"}

Init ==
  /\ content \in {held \in State : \A f \in Files \ Entries : held[f] # Absent}
  /\ stamp = [p \in Paths |-> 0]
  /\ writes = 0
  /\ now = 0
  /\ cache = NoCache
  /\ loop = Nobody
  /\ lock = Nobody
  /\ todo = {}
  /\ snapshot = NoSnapshot
  /\ scanned = Unscanned
  /\ attempt = 1
  /\ reuse = FALSE
  /\ pc = [c \in Callers |-> "idle"]
  /\ refresh = [c \in Callers |-> FALSE]
  /\ asked = [c \in Callers |-> 0]
  /\ answer = [c \in Callers |-> NoAnswer]
  /\ seen = [c \in Callers |-> {}]

TypeOK ==
  /\ content \in State /\ \A f \in Files \ Entries : content[f] # Absent
  /\ stamp \in [Paths -> Nat]
  /\ writes \in 0 .. MaxWrites
  /\ now \in 0 .. MaxTime
  /\ cache \in Cache \cup {NoCache}
  /\ loop \in Callers \cup {Nobody}
  /\ lock \in Callers \cup {Nobody}
  /\ todo \subseteq Paths
  /\ snapshot \in Snapshot
  /\ scanned \in [Files -> Contents \cup {Absent, Blank}]
  /\ attempt \in {1, 2}
  /\ reuse \in BOOLEAN
  /\ pc \in [Callers -> Places]
  /\ refresh \in [Callers -> BOOLEAN]
  /\ asked \in [Callers -> Nat]
  /\ answer \in [Callers -> Registry \cup {NoAnswer}]
  /\ seen \in [Callers -> SUBSET State]

Goes(c, place) == pc' = [pc EXCEPT ![c] = place]
Visits(c, place, paths) == Goes(c, place) /\ todo' = paths
Walks(c) == Visits(c, "walking", {}) /\ snapshot' = NoSnapshot
Usable(r) == ~r /\ cache # NoCache /\ now - cache.at < TTL

(* A request is done with the lock and with what it made under it.         *)
Drops(c) ==
  IF lock = c
  THEN /\ lock' = Nobody
       /\ snapshot' = NoSnapshot
       /\ scanned' = Unscanned
       /\ attempt' = 1
       /\ reuse' = FALSE
  ELSE UNCHANGED <<lock, holderVars>>

Answers(c, registry) ==
  /\ Goes(c, "answered")
  /\ answer' = [answer EXCEPT ![c] = registry]
  /\ Drops(c)
  /\ loop' = Nobody
  /\ UNCHANGED <<refresh, asked>>
-----------------------------------------------------------------------------
(* A request, up to the decision whether the cache is worth a probe.       *)
Call(c, r) ==
  /\ pc[c] = "idle" /\ loop = Nobody
  /\ refresh' = [refresh EXCEPT ![c] = r]
  /\ asked' = [asked EXCEPT ![c] = now]
  /\ IF Usable(r) THEN Visits(c, "probing", Tracked(cache.snapshot))
     ELSE Goes(c, "locking") /\ UNCHANGED todo
  /\ loop' = c
  /\ seen' = [seen EXCEPT ![c] = {content}]
  /\ UNCHANGED <<fileVars, now, cache, lock, holderVars, answer>>

(* skill_sources_probe_unchanged, one path after the other.                *)
Trusted(c) == IF pc[c] = "verifying" THEN snapshot ELSE cache.snapshot

Probe(c, p) ==
  /\ pc[c] \in {"probing", "reprobing", "verifying"} /\ p \in todo
  /\ stamp[p] = Trusted(c).stamp[p]
  /\ todo' = todo \ {p}
  /\ UNCHANGED <<fileVars, now, cache, loop, lock, holderVars, requestVars, seen>>

Differs(c) == \E p \in todo : stamp[p] # Trusted(c).stamp[p]

ProbeHit(c) ==
  /\ pc[c] \in {"probing", "reprobing"} /\ todo = {}
  /\ Answers(c, cache.registry)
  /\ UNCHANGED <<fileVars, now, cache, todo, seen>>

ProbeMiss(c) ==
  /\ pc[c] = "probing" /\ Differs(c)
  /\ Goes(c, "locking")
  /\ todo' = {}
  /\ UNCHANGED <<fileVars, now, cache, loop, lock, holderVars, refresh, asked,
                 answer, seen>>

Queue(c) ==
  /\ pc[c] = "locking" /\ lock # Nobody
  /\ Goes(c, "waiting")
  /\ loop' = Nobody
  /\ UNCHANGED <<fileVars, now, cache, lock, todo, holderVars, refresh, asked, answer,
                 seen>>

(* The lock, and the same decision again.                                  *)
Acquire(c) ==
  /\ \/ pc[c] = "locking"
     \/ pc[c] = "waiting" /\ loop = Nobody
  /\ lock = Nobody
  /\ lock' = c
  /\ loop' = c
  /\ asked' = [asked EXCEPT ![c] = now]
  /\ attempt' = 1
  /\ reuse' = Usable(refresh[c])
  /\ IF Usable(refresh[c])
     THEN Visits(c, "reprobing", Tracked(cache.snapshot)) /\ UNCHANGED snapshot
     ELSE Walks(c)
  /\ UNCHANGED <<fileVars, now, cache, scanned, refresh, answer, seen>>

ReprobeMiss(c) ==
  /\ pc[c] = "reprobing" /\ Differs(c)
  /\ Walks(c)
  /\ UNCHANGED <<fileVars, now, cache, loop, lock, scanned, attempt, reuse, refresh, asked,
                 answer, seen>>
-----------------------------------------------------------------------------
(* skill_sources_snapshot: the walk lists a directory and takes its stamp, *)
(* of the root the stamp first, of one below it the list, ...              *)
List(c) ==
  /\ pc[c] = IF Nested THEN "walking" ELSE "walked"
  /\ Visits(c, IF Nested THEN "walked" ELSE "hashing", {f \in Files : content[f] # Absent})
  /\ UNCHANGED <<fileVars, now, cache, loop, lock, holderVars, refresh, asked, answer,
                 seen>>

Stat(c) ==
  /\ pc[c] = IF Nested THEN "walked" ELSE "walking"
  /\ Goes(c, IF Nested THEN "hashing" ELSE "walked")
  /\ snapshot' = [snapshot EXCEPT !.stamp[Dir] = stamp[Dir]]
  /\ UNCHANGED <<fileVars, now, cache, loop, lock, todo, scanned, attempt, reuse, refresh,
                 asked, answer, seen>>

(* ... then come a digest of every file listed, and every stamp again.     *)
Hash(c, f) ==
  /\ pc[c] = "hashing" /\ f \in todo /\ content[f] # Absent
  /\ snapshot' = [snapshot EXCEPT !.content[f] = content[f], !.stamp[f] = stamp[f]]
  /\ todo' = todo \ {f}
  /\ UNCHANGED <<fileVars, now, cache, loop, lock, scanned, attempt, reuse, requestVars,
                 seen>>

Hashed(c) ==
  /\ pc[c] = "hashing" /\ todo = {}
  /\ Visits(c, "rechecking", Tracked(snapshot))
  /\ UNCHANGED <<fileVars, now, cache, loop, lock, holderVars, refresh, asked, answer,
                 seen>>

Recheck(c, p) ==
  /\ pc[c] = "rechecking" /\ p \in todo
  /\ stamp[p] = snapshot.stamp[p]
  /\ todo' = todo \ {p}
  /\ UNCHANGED <<fileVars, now, cache, loop, lock, holderVars, requestVars, seen>>

Same == cache # NoCache /\ snapshot.content = cache.snapshot.content

(* Mutant: the reuse also starts the time to live again.                   *)
ReusedAndRenewed(c) ==
  /\ pc[c] = "rechecking" /\ todo = {}
  /\ reuse /\ Same
  /\ cache' = [cache EXCEPT !.snapshot = snapshot, !.at = now]
  /\ Answers(c, cache.registry)
  /\ UNCHANGED <<fileVars, now, todo, seen>>

(* Touched, but not changed: the cache keeps its registry and its time.    *)
Reused(c) ==
  /\ pc[c] = "rechecking" /\ todo = {}
  /\ reuse /\ Same
  /\ cache' = [cache EXCEPT !.snapshot = snapshot]
  /\ Answers(c, cache.registry)
  /\ UNCHANGED <<fileVars, now, todo, seen>>

(* _build_skill_registry awaits the remote state ...                       *)
Ask(c) ==
  /\ pc[c] = "rechecking" /\ todo = {}
  /\ ~(reuse /\ Same)
  /\ Goes(c, "projecting")
  /\ loop' = Nobody
  /\ UNCHANGED <<fileVars, now, cache, lock, todo, holderVars, refresh, asked, answer,
                 seen>>

(* Mutant: with the remote state at hand, the packages are not read.       *)
ProjectedOnly(c) ==
  /\ pc[c] = "projecting" /\ loop = Nobody
  /\ loop' = c
  /\ Visits(c, "verifying", Tracked(snapshot))
  /\ UNCHANGED <<fileVars, now, cache, lock, holderVars, refresh, asked, answer, seen>>

(* ... and goes on to read the packages.                                   *)
Projected(c) ==
  /\ pc[c] = "projecting" /\ loop = Nobody
  /\ loop' = c
  /\ Visits(c, "scanning", Files)
  /\ UNCHANGED <<fileVars, now, cache, lock, holderVars, refresh, asked, answer, seen>>

Scan(c, f) ==
  /\ pc[c] = "scanning" /\ f \in todo
  /\ scanned' = [scanned EXCEPT ![f] = content[f]]
  /\ todo' = todo \ {f}
  /\ UNCHANGED <<fileVars, now, cache, loop, lock, snapshot, attempt, reuse, requestVars,
                 seen>>

(* Mutant: the registry is accepted without a last probe.                  *)
ScannedUnverified(c) ==
  /\ pc[c] = "scanning" /\ todo = {}
  /\ Goes(c, "verifying")
  /\ UNCHANGED <<fileVars, now, cache, loop, lock, todo, holderVars, refresh, asked,
                 answer, seen>>

Scanned(c) ==
  /\ pc[c] = "scanning" /\ todo = {}
  /\ Visits(c, "verifying", Tracked(snapshot))
  /\ UNCHANGED <<fileVars, now, cache, loop, lock, holderVars, refresh, asked, answer,
                 seen>>

Built == [content |-> scanned, born |-> now]

Accept(c) ==
  /\ pc[c] = "verifying" /\ todo = {}
  /\ cache' = [registry |-> Built, snapshot |-> snapshot, at |-> now]
  /\ Answers(c, Built)
  /\ UNCHANGED <<fileVars, now, todo, seen>>

(* The files changed during the build: once more, with a new snapshot.     *)
Again(c) ==
  /\ pc[c] = "verifying" /\ Differs(c) /\ attempt = 1
  /\ attempt' = 2
  /\ reuse' = FALSE
  /\ Walks(c)
  /\ UNCHANGED <<fileVars, now, cache, loop, lock, scanned, refresh, asked, answer, seen>>
-----------------------------------------------------------------------------
(* What may raise: a file that changed while it was hashed or is no skill, *)
(* the second attempt in vain, the ssh call, a request that is cancelled.  *)
MayFail(c) ==
  \/ pc[c] \in {"waiting", "projecting"} /\ loop = Nobody
  \/ pc[c] \in {"walking", "walked", "hashing", "rechecking", "scanning"}
  \/ pc[c] = "verifying" /\ Differs(c) /\ attempt = 2

(* Mutant: the lock is not given back by a request that fails.             *)
FailLocked(c) ==
  /\ MayFail(c)
  /\ Goes(c, "failed")
  /\ todo' = {}
  /\ loop' = Nobody
  /\ UNCHANGED <<fileVars, now, cache, lock, holderVars, refresh, asked, answer, seen>>

Fail(c) ==
  /\ MayFail(c)
  /\ Goes(c, "failed")
  /\ todo' = {}
  /\ Drops(c)
  /\ loop' = Nobody
  /\ UNCHANGED <<fileVars, now, cache, refresh, asked, answer, seen>>

Leave(c) ==
  /\ pc[c] \in {"answered", "failed"}
  /\ Goes(c, "idle")
  /\ answer' = [answer EXCEPT ![c] = NoAnswer]
  /\ asked' = [asked EXCEPT ![c] = 0]
  /\ refresh' = [refresh EXCEPT ![c] = FALSE]
  /\ seen' = [seen EXCEPT ![c] = {}]
  /\ UNCHANGED <<fileVars, now, cache, loop, lock, todo, holderVars>>

(* A file is written in place, added or removed.                           *)
Write(f, v) ==
  /\ writes < MaxWrites
  /\ v = Absent => f \in Entries /\ content[f] # Absent
  /\ writes' = writes + 1
  /\ content' = [content EXCEPT ![f] = v]
  /\ stamp' = [p \in Paths |->
                 IF p = f \/ (p = Dir /\ Absent \in {v, content[f]}) THEN writes' ELSE stamp[p]]
  /\ seen' = [c \in Callers |-> IF pc[c] = "idle" THEN {} ELSE seen[c] \cup {content'}]
  /\ UNCHANGED <<now, cache, loop, lock, todo, holderVars, requestVars>>

Tick ==
  /\ now < MaxTime
  /\ now' = now + 1
  /\ UNCHANGED <<fileVars, cache, loop, lock, todo, holderVars, requestVars, seen>>

Proceed(c) ==
  \/ \E p \in Paths : Probe(c, p) \/ Recheck(c, p)
  \/ \E f \in Files : Hash(c, f) \/ Scan(c, f)
  \/ ProbeHit(c) \/ ProbeMiss(c) \/ Queue(c) \/ ReprobeMiss(c) \/ List(c) \/ Stat(c)
  \/ Hashed(c) \/ Reused(c) \/ Ask(c) \/ Projected(c) \/ Scanned(c)
  \/ Accept(c) \/ Again(c) \/ Fail(c)

Next ==
  \/ \E c \in Callers : Proceed(c) \/ Acquire(c) \/ Leave(c) \/ \E r \in BOOLEAN : Call(c, r)
  \/ \E f \in Files, v \in Contents \cup {Absent} : Write(f, v)
  \/ Tick

Spec == Init /\ [][Next]_vars
-----------------------------------------------------------------------------
(* The files of which the cache always knows: all, if the directory is the *)
(* root; of one below it, an entry that comes between list and stamp is    *)
(* not in the snapshot (skills.py:249-255), so neither it nor a later      *)
(* write of it is noticed.                                                 *)
Certain == IF Nested THEN Files \ Entries ELSE Files

(* However the writers interleave with probes, digests, scans and other    *)
(* requests, an answer holds what these files held together at some moment *)
(* since the request began: no mixture, nothing older; and each of the     *)
(* others was so at such a moment too, if the request was for a refresh    *)
(* (server.py:728-783, skills.py:364-510).                                 *)
AnswersAreCurrent ==
  \A c \in Callers :
    pc[c] = "answered" =>
      \A f \in IF refresh[c] THEN Files ELSE Certain :
        \E state \in seen[c] : \A g \in Certain \cup {f} : answer[c].content[g] = state[g]

(* A change of the sources invalidates the registry before its time is up  *)
(* (docs/skills.md:15), so every answer is what all files held together at *)
(* some moment since the request began.                                    *)
ChangesInvalidate ==
  \A c \in Callers : pc[c] = "answered" => answer[c].content \in seen[c]

(* The remote state leaves no trace in the files, so only time makes it    *)
(* come anew: no answer is older than the time to live, however often the  *)
(* files are touched, and a refresh is not answered from the cache         *)
(* (server.py:735-765).                                                    *)
AnswersExpire ==
  \A c \in Callers :
    pc[c] = "answered" =>
      /\ asked[c] - answer[c].born < TTL
      /\ refresh[c] => answer[c].born >= asked[c]

(* The lock is held by a request at work: failures and cancellations at   *)
(* its awaits, which the other requests depend on, do not leave it locked  *)
(* (server.py:747, 783).                                                   *)
LockedByARequest ==
  lock # Nobody =>
    pc[lock] \in {"reprobing", "walking", "walked", "hashing", "rechecking", "projecting",
                 "scanning", "verifying"}
=============================================================================
