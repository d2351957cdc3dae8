-------------------------- MODULE SkillCache_proofs --------------------------
(***************************************************************************)
(* Proofs about the skill cache, for any files, contents, requests, writes *)
(* and time to live: whatever the writers do between the reads of a        *)
(* request, what it answers was true of all files at one moment, but for   *)
(* the entries of a directory below its root.                              *)
(***************************************************************************)
EXTENDS SkillCache, TLAPS

UnderLock == {"reprobing", "walking", "walked", "hashing", "rechecking", "projecting",
              "scanning", "verifying"}
Snapped == {"rechecking", "projecting", "scanning", "verifying"}

(* Who has the event loop and the lock.                                    *)
Discipline ==
  \A c \in Callers :
    /\ loop = c <=> pc[c] \in Visiting \cup {"locking"}
    /\ lock = c <=> pc[c] \in UnderLock

Unmoved(s, paths) == \A p \in paths : stamp[p] = s.stamp[p]
Shows(s, state) == \A f \in Certain : s.content[f] = state[f]

(* A stamp names one content of a file, and later ones are greater; what   *)
(* has no stamp in a snapshot is not in its digest.                        *)
Past(s) ==
  /\ \A p \in Tracked(s) : s.stamp[p] <= stamp[p]
  /\ \A f \in Tracked(s) \cap Files : s.stamp[f] = stamp[f] => s.content[f] = content[f]
  /\ \A f \in Files \ Tracked(s) : s.content[f] = Absent

Stamps ==
  /\ \A p \in Paths : stamp[p] <= writes
  /\ Past(snapshot)
  /\ cache # NoCache => Past(cache.snapshot)

(* What the walk has not listed is no certain file, or still not there if  *)
(* the root has the stamp that was taken before.                           *)
Statted == IF Nested THEN {"hashing"} ELSE {"walked", "hashing"}
Listed == IF Nested THEN {"walked", "hashing"} ELSE {"hashing"}

WalkSound ==
  \A c \in Callers :
    /\ pc[c] \in Statted => Dir \in Tracked(snapshot)
    /\ pc[c] \in Listed =>
         \A f \in Files \ (todo \cup Tracked(snapshot)) :
           f \in Entries /\ (~Nested /\ stamp[Dir] = snapshot.stamp[Dir] => content[f] = Absent)

(* A whole snapshot shows the certain files as long as no stamp differs.   *)
Whole(s) ==
  /\ Dir \in Tracked(s) /\ Files \ Tracked(s) \subseteq Entries
  /\ Unmoved(s, Tracked(s)) => Shows(s, content)

SnapshotSound ==
  /\ \A c \in Callers : pc[c] \in Snapped => Whole(snapshot)
  /\ cache # NoCache => Whole(cache.snapshot)

(* The cache holds what its snapshot shows, from when it says.             *)
CacheSound ==
  cache # NoCache =>
    /\ Shows(cache.snapshot, cache.registry.content)
    /\ cache.registry.born = cache.at /\ cache.at <= now

(* Why a probe that finds no difference finds a moment: paths that it has  *)
(* checked do not change back, so if the rest agree too, all agreed.       *)
ProbeSound ==
  \A c \in Callers :
    /\ pc[c] \in {"probing", "reprobing"} =>
         /\ cache # NoCache
         /\ Unmoved(cache.snapshot, todo) =>
              \E state \in seen[c] : Shows(cache.snapshot, state)
    /\ pc[c] = "rechecking" /\ Unmoved(snapshot, todo) =>
         \E state \in seen[c] : Shows(snapshot, state)

(* A file was scanned at a moment when the certain ones were as hashed, if *)
(* they still are when the last probe comes to them.                       *)
Read(c, files) ==
  \A f \in files :
    /\ f \in Certain => scanned[f] = snapshot.content[f]
    /\ \E state \in seen[c] : scanned[f] = state[f] /\ Shows(snapshot, state)

ScanSound ==
  \A c \in Callers :
    /\ pc[c] = "scanning" /\ Unmoved(snapshot, Tracked(snapshot)) => Read(c, Files \ todo)
    /\ pc[c] = "verifying" /\ Unmoved(snapshot, todo) => Read(c, Files)

(* The time to live holds from the decision to use the cache to its use.   *)
TimeSound ==
  \A c \in Callers :
    /\ asked[c] <= now
    /\ pc[c] # "idle" => content \in seen[c]
    /\ \/ pc[c] \in {"probing", "reprobing"}
       \/ pc[c] \in {"walking", "walked", "hashing", "rechecking"} /\ reuse
       => ~refresh[c] /\ cache # NoCache /\ asked[c] - cache.at < TTL

CacheInv ==
  /\ TypeOK /\ Discipline /\ Stamps /\ WalkSound /\ SnapshotSound /\ CacheSound
  /\ ProbeSound /\ ScanSound /\ TimeSound
  /\ AnswersAreCurrent /\ AnswersExpire

USE EntriesAssumption, TTLAssumption, BoundsAssumption, NobodyAssumption, BlankAssumption,
    NoneAssumption

LEMMA CacheInvInit == Init => CacheInv
<1> SUFFICES ASSUME Init PROVE CacheInv
  OBVIOUS
<1>1. TypeOK
  <2>1. /\ writes \in 0 .. MaxWrites /\ now \in 0 .. MaxTime
        /\ pc \in [Callers -> Places] /\ seen \in [Callers -> SUBSET State]
    BY DEF Init, Places
  <2>2. NoSnapshot \in Snapshot /\ Unscanned \in [Files -> Contents \cup {Absent, Blank}]
    BY DEF NoSnapshot, Unscanned, Snapshot, State
  <2>3. QED
    BY <2>1, <2>2 DEF Init, TypeOK
<1>2. Past(NoSnapshot)
  BY DEF Past, NoSnapshot, Tracked, Paths
<1>3. Discipline /\ Stamps /\ SnapshotSound /\ CacheSound /\ WalkSound
  BY <1>2 DEF Init, Discipline, Stamps, SnapshotSound, CacheSound, WalkSound, Visiting,
     UnderLock, Snapped, Statted, Listed
<1>4. ProbeSound /\ ScanSound /\ TimeSound /\ AnswersAreCurrent /\ AnswersExpire
  BY DEF Init, ProbeSound, ScanSound, TimeSound, AnswersAreCurrent, AnswersExpire
<1>5. QED
  BY <1>1, <1>3, <1>4 DEF CacheInv

LEMMA NoSnapshotType ==
  /\ NoSnapshot \in Snapshot /\ Past(NoSnapshot)
  /\ Unscanned \in [Files -> Contents \cup {Absent, Blank}]
BY DEF NoSnapshot, Unscanned, Snapshot, State, Past, Tracked, Paths

(* A write gives its paths stamps that no snapshot has yet, so a snapshot  *)
(* that agrees afterwards has none of them.                                *)
LEMMA WriteMoves ==
  ASSUME CacheInv, NEW f \in Files, NEW v \in Contents \cup {Absent}, Write(f, v),
         NEW s \in Snapshot, Past(s), NEW p \in Paths, stamp'[p] = s.stamp[p]
  PROVE  /\ stamp[p] = s.stamp[p] /\ p \in Tracked(s)
         /\ p # f /\ (p = Dir => Absent \notin {v, content[f]})
<1>1. /\ stamp[p] \in Nat /\ writes \in Nat /\ stamp[p] <= writes
      /\ s.stamp[p] \in Nat \cup {Unseen}
  BY DEF CacheInv, TypeOK, Stamps, Snapshot
<1>2. /\ writes' = writes + 1
      /\ stamp'[p] = IF p = f \/ (p = Dir /\ Absent \in {v, content[f]}) THEN writes' ELSE stamp[p]
  BY DEF Write
<1>3. s.stamp[p] # Unseen
  BY <1>1, <1>2
<1>4. p \in Tracked(s) /\ s.stamp[p] <= stamp[p]
  BY <1>3 DEF Tracked, Past
<1>5. QED
  BY <1>1, <1>2, <1>4

LEMMA WriteUnmoved ==
  ASSUME CacheInv, NEW f \in Files, NEW v \in Contents \cup {Absent}, Write(f, v),
         NEW s \in Snapshot, Past(s), NEW paths \in SUBSET Paths,
         \A p \in paths : stamp'[p] = s.stamp[p]
  PROVE  Unmoved(s, paths)
BY WriteMoves DEF Unmoved

LEMMA DropsType ==
  ASSUME TypeOK, NEW c \in Callers, Drops(c)
  PROVE  /\ lock' \in Callers \cup {Nobody}
         /\ snapshot' \in Snapshot
         /\ scanned' \in [Files -> Contents \cup {Absent, Blank}]
         /\ attempt' \in {1, 2}
         /\ reuse' \in BOOLEAN
<1>1. CASE lock = c
  BY <1>1, NoSnapshotType DEF Drops
<1>2. CASE lock # c
  BY <1>2 DEF TypeOK, Drops, holderVars
<1>3. QED
  BY <1>1, <1>2

LEMMA AnswersType ==
  ASSUME TypeOK, NEW c \in Callers, NEW registry \in Registry, Answers(c, registry),
         UNCHANGED <<content, stamp, writes, now, todo, seen>>,
         cache' \in Cache \cup {NoCache}
  PROVE  TypeOK'
BY DropsType DEF TypeOK, Answers, Goes, Places

(* The last probe has come to every path: what was read is what was true.  *)
LEMMA VerifiedScan ==
  ASSUME CacheInv, NEW c \in Callers, pc[c] = "verifying", todo = {}
  PROVE  Read(c, Files) /\ scanned \in State
<1>1. Read(c, Files)
  BY DEF CacheInv, ScanSound, Unmoved
<1>2. seen[c] \subseteq State
  BY DEF CacheInv, TypeOK
<1>3. \A f \in Files : scanned[f] \in Contents \cup {Absent}
  BY <1>1, <1>2 DEF Read, State
<1>4. QED
  BY <1>1, <1>3 DEF CacheInv, TypeOK, State

LEMMA TypeOKStep == CacheInv /\ [Next]_vars => TypeOK'
<1> SUFFICES ASSUME CacheInv, [Next]_vars PROVE TypeOK'
  OBVIOUS
<1>1. ASSUME NEW c \in Callers, NEW p \in Paths, Probe(c, p) \/ Recheck(c, p) PROVE TypeOK'
  BY <1>1 DEF CacheInv, TypeOK, Places, Visiting, Probe, Recheck, Trusted, fileVars,
     holderVars, requestVars
<1>2. ASSUME NEW c \in Callers, NEW f \in Files, Hash(c, f) PROVE TypeOK'
  <2>1. content[f] \in Contents \cup {Absent} /\ stamp[f] \in Nat
    BY DEF CacheInv, TypeOK, State, Paths
  <2>2. snapshot' \in Snapshot
    BY <1>2, <2>1 DEF CacheInv, TypeOK, Hash, Snapshot, State, Paths
  <2>3. QED
    BY <1>2, <2>2 DEF CacheInv, TypeOK, Hash, fileVars, requestVars
<1>3. ASSUME NEW c \in Callers, NEW f \in Files, Scan(c, f) PROVE TypeOK'
  <2>1. content[f] \in Contents \cup {Absent}
    BY DEF CacheInv, TypeOK, State
  <2>2. QED
    BY <1>3, <2>1 DEF CacheInv, TypeOK, Scan, fileVars, requestVars
<1>4. ASSUME NEW c \in Callers, ProbeMiss(c) PROVE TypeOK'
  BY <1>4 DEF CacheInv, TypeOK, Places, Visiting, ProbeMiss, Goes, fileVars,
     holderVars, requestVars
<1>5. ASSUME NEW c \in Callers, Queue(c) \/ Ask(c) PROVE TypeOK'
  BY <1>5 DEF CacheInv, TypeOK, Places, Visiting, Queue, Ask, Goes, fileVars,
     holderVars, requestVars
<1>6. ASSUME NEW c \in Callers, Projected(c) PROVE TypeOK'
  BY <1>6 DEF CacheInv, TypeOK, Places, Visiting, Projected, Visits, Goes, Paths, fileVars,
     holderVars
<1>7. ASSUME NEW c \in Callers, Hashed(c) PROVE TypeOK'
  BY <1>7 DEF CacheInv, TypeOK, Places, Visiting, Hashed, Visits, Goes, Tracked, fileVars,
     holderVars
<1>8. ASSUME NEW c \in Callers, Scanned(c) PROVE TypeOK'
  BY <1>8 DEF CacheInv, TypeOK, Places, Visiting, Scanned, Visits, Goes, Tracked, fileVars,
     holderVars
<1>9. ASSUME NEW c \in Callers, List(c) PROVE TypeOK'
  BY <1>9 DEF CacheInv, TypeOK, Places, Visiting, List, Visits, Goes, Paths, fileVars,
     holderVars
<1>10. ASSUME NEW c \in Callers, Stat(c) PROVE TypeOK'
  <2>1. stamp[Dir] \in Nat
    BY DEF CacheInv, TypeOK, Paths
  <2>2. snapshot' \in Snapshot
    BY <1>10, <2>1 DEF CacheInv, TypeOK, Stat, Snapshot, Paths
  <2>3. pc' \in [Callers -> Places]
    BY <1>10 DEF CacheInv, TypeOK, Stat, Goes, Places, Visiting
  <2>4. QED
    BY <1>10, <2>2, <2>3 DEF CacheInv, TypeOK, Stat, fileVars
<1>11. ASSUME NEW c \in Callers, ReprobeMiss(c) \/ Again(c) PROVE TypeOK'
  BY <1>11, NoSnapshotType DEF CacheInv, TypeOK, Places, Visiting, ReprobeMiss, Again, Walks,
     Visits, Goes, fileVars
<1>12. ASSUME NEW c \in Callers, ProbeHit(c) PROVE TypeOK'
  <2>1. cache.registry \in Registry
    BY <1>12 DEF CacheInv, TypeOK, ProbeSound, ProbeHit, Cache
  <2>2. QED
    BY <1>12, <2>1, AnswersType DEF CacheInv, TypeOK, ProbeHit, fileVars
<1>13. ASSUME NEW c \in Callers, Reused(c) PROVE TypeOK'
  <2>1. cache \in Cache /\ snapshot \in Snapshot
    BY <1>13 DEF CacheInv, TypeOK, Reused, Same
  <2>2. cache.registry \in Registry /\ cache' \in Cache
    BY <1>13, <2>1 DEF Reused, Cache
  <2>3. QED
    BY <1>13, <2>2, AnswersType DEF CacheInv, TypeOK, Reused, fileVars
<1>14. ASSUME NEW c \in Callers, Acquire(c) PROVE TypeOK'
  BY <1>14, NoSnapshotType DEF CacheInv, TypeOK, Places, Visiting, Acquire, Usable, Walks, Visits,
     Goes, Tracked, fileVars
<1>15. ASSUME NEW c \in Callers, Accept(c) PROVE TypeOK'
  <2>1. Built \in Registry /\ snapshot \in Snapshot
    BY <1>15, VerifiedScan DEF CacheInv, TypeOK, Accept, Built, Registry
  <2>2. cache' \in Cache
    BY <1>15, <2>1 DEF CacheInv, TypeOK, Accept, Cache
  <2>3. QED
    BY <1>15, <2>1, <2>2, AnswersType DEF CacheInv, TypeOK, Accept, fileVars
<1>16. ASSUME NEW c \in Callers, Fail(c) PROVE TypeOK'
  BY <1>16, DropsType DEF CacheInv, TypeOK, Places, Fail, Goes, fileVars
<1>17. ASSUME NEW c \in Callers, Leave(c) PROVE TypeOK'
  BY <1>17 DEF CacheInv, TypeOK, Places, Visiting, Leave, Goes, fileVars, holderVars,
     requestVars
<1>18. ASSUME NEW c \in Callers, NEW r \in BOOLEAN, Call(c, r) PROVE TypeOK'
  <2>1. todo' \subseteq Paths /\ pc' \in [Callers -> Places]
    BY <1>18 DEF CacheInv, TypeOK, Call, Visits, Goes, Tracked, Places, Visiting
  <2>2. /\ refresh' \in [Callers -> BOOLEAN] /\ asked' \in [Callers -> Nat]
        /\ seen' \in [Callers -> SUBSET State]
    BY <1>18 DEF CacheInv, TypeOK, Call
  <2>3. QED
    BY <1>18, <2>1, <2>2 DEF CacheInv, TypeOK, Call, fileVars, holderVars
<1>19. ASSUME NEW f \in Files, NEW v \in Contents \cup {Absent}, Write(f, v) PROVE TypeOK'
  <2>1. content' \in State /\ \A g \in Files \ Entries : content'[g] # Absent
    BY <1>19 DEF CacheInv, TypeOK, Write, State
  <2>2. writes' \in 0 .. MaxWrites /\ stamp' \in [Paths -> Nat]
    BY <1>19 DEF CacheInv, TypeOK, Write
  <2>3. seen' \in [Callers -> SUBSET State]
    BY <1>19, <2>1 DEF CacheInv, TypeOK, Write
  <2>4. QED
    BY <1>19, <2>1, <2>2, <2>3 DEF CacheInv, TypeOK, Write, holderVars, requestVars
<1>20. CASE Tick
  BY <1>20 DEF CacheInv, TypeOK, Places, Visiting, Tick, fileVars, holderVars,
     requestVars
<1>21. CASE UNCHANGED vars
  BY <1>21 DEF CacheInv, TypeOK, Places, Visiting, vars, fileVars, holderVars,
     requestVars
<1>22. QED
  BY <1>1, <1>2, <1>3, <1>4, <1>5, <1>6, <1>7, <1>8, <1>9, <1>10, <1>11, <1>12, <1>13,
     <1>14, <1>15, <1>16, <1>17, <1>18, <1>19, <1>20, <1>21
     DEF Next, Proceed

LEMMA DisciplineStep == CacheInv /\ [Next]_vars => Discipline'
<1> SUFFICES ASSUME CacheInv, [Next]_vars PROVE Discipline'
  OBVIOUS
<1>1. ASSUME NEW c \in Callers, NEW p \in Paths, Probe(c, p) \/ Recheck(c, p) PROVE Discipline'
  BY <1>1 DEF CacheInv, TypeOK, Discipline, Places, Visiting, UnderLock, Probe,
     Recheck, Trusted, fileVars, holderVars, requestVars
<1>2. ASSUME NEW c \in Callers, NEW f \in Files, Hash(c, f) PROVE Discipline'
  BY <1>2 DEF CacheInv, TypeOK, Discipline, Places, Visiting, UnderLock, Hash,
     fileVars, holderVars, requestVars
<1>3. ASSUME NEW c \in Callers, NEW f \in Files, Scan(c, f) PROVE Discipline'
  BY <1>3 DEF CacheInv, TypeOK, Discipline, Places, Visiting, UnderLock, Scan,
     fileVars, holderVars, requestVars
<1>4. ASSUME NEW c \in Callers, ProbeMiss(c) PROVE Discipline'
  BY <1>4 DEF CacheInv, TypeOK, Discipline, Places, Visiting, UnderLock, ProbeMiss,
     Goes, fileVars, holderVars, requestVars
<1>5. ASSUME NEW c \in Callers, Queue(c) \/ Ask(c) PROVE Discipline'
  BY <1>5 DEF CacheInv, TypeOK, Discipline, Places, Visiting, UnderLock, Queue, Ask,
     Goes, fileVars, holderVars, requestVars
<1>6. ASSUME NEW c \in Callers, Projected(c) PROVE Discipline'
  BY <1>6 DEF CacheInv, TypeOK, Discipline, Places, Visiting, UnderLock, Projected,
     Visits, Goes, fileVars, holderVars, requestVars
<1>7. ASSUME NEW c \in Callers, Hashed(c) PROVE Discipline'
  BY <1>7 DEF CacheInv, TypeOK, Discipline, Places, Visiting, UnderLock, Hashed,
     Visits, Goes, fileVars, holderVars, requestVars
<1>8. ASSUME NEW c \in Callers, Scanned(c) PROVE Discipline'
  BY <1>8 DEF CacheInv, TypeOK, Discipline, Places, Visiting, UnderLock, Scanned,
     Visits, Goes, fileVars, holderVars, requestVars
<1>9. ASSUME NEW c \in Callers, List(c) PROVE Discipline'
  BY <1>9 DEF CacheInv, TypeOK, Discipline, Places, Visiting, UnderLock, List, Visits,
     Goes, fileVars, holderVars, requestVars
<1>10. ASSUME NEW c \in Callers, Stat(c) PROVE Discipline'
  BY <1>10 DEF CacheInv, TypeOK, Discipline, Places, Visiting, UnderLock, Stat, Goes,
     fileVars, holderVars, requestVars
<1>11. ASSUME NEW c \in Callers, ReprobeMiss(c) \/ Again(c) PROVE Discipline'
  BY <1>11 DEF CacheInv, TypeOK, Discipline, Places, Visiting, UnderLock, ReprobeMiss,
     Again, Walks, Visits, Goes, fileVars, holderVars, requestVars
<1>12. ASSUME NEW c \in Callers, ProbeHit(c) PROVE Discipline'
  BY <1>12 DEF CacheInv, TypeOK, Discipline, Places, Visiting, UnderLock, ProbeHit,
     Answers, Drops, Goes, fileVars, holderVars, requestVars
<1>13. ASSUME NEW c \in Callers, Reused(c) PROVE Discipline'
  BY <1>13 DEF CacheInv, TypeOK, Discipline, Places, Visiting, UnderLock, Reused,
     Same, Answers, Drops, Goes, fileVars, holderVars, requestVars
<1>14. ASSUME NEW c \in Callers, Acquire(c) PROVE Discipline'
  BY <1>14 DEF CacheInv, TypeOK, Discipline, Places, Visiting, UnderLock, Acquire,
     Walks, Visits, Goes, Usable, fileVars, holderVars, requestVars
<1>15. ASSUME NEW c \in Callers, Accept(c) PROVE Discipline'
  BY <1>15 DEF CacheInv, TypeOK, Discipline, Places, Visiting, UnderLock, Accept,
     Built, Answers, Drops, Goes, fileVars, holderVars, requestVars
<1>16. ASSUME NEW c \in Callers, Fail(c) PROVE Discipline'
  BY <1>16 DEF CacheInv, TypeOK, Discipline, Places, Visiting, UnderLock, Fail,
     MayFail, Drops, Goes, fileVars, holderVars, requestVars
<1>17. ASSUME NEW c \in Callers, Leave(c) PROVE Discipline'
  BY <1>17 DEF CacheInv, TypeOK, Discipline, Places, Visiting, UnderLock, Leave, Goes,
     fileVars, holderVars, requestVars
<1>18. ASSUME NEW c \in Callers, NEW r \in BOOLEAN, Call(c, r) PROVE Discipline'
  BY <1>18 DEF CacheInv, TypeOK, Discipline, Places, Visiting, UnderLock, Call,
     Usable, Visits, Goes, fileVars, holderVars, requestVars
<1>19. ASSUME NEW f \in Files, NEW v \in Contents \cup {Absent}, Write(f, v) PROVE Discipline'
  BY <1>19 DEF CacheInv, TypeOK, Discipline, Places, Visiting, UnderLock, Write,
     fileVars, holderVars, requestVars
<1>20. CASE Tick
  BY <1>20 DEF CacheInv, TypeOK, Discipline, Places, Visiting, UnderLock, Tick,
     fileVars, holderVars, requestVars
<1>21. CASE UNCHANGED vars
  BY <1>21 DEF CacheInv, TypeOK, Discipline, Places, Visiting, UnderLock, vars,
     fileVars, holderVars, requestVars
<1>22. QED
  BY <1>1, <1>2, <1>3, <1>4, <1>5, <1>6, <1>7, <1>8, <1>9, <1>10, <1>11, <1>12, <1>13,
     <1>14, <1>15, <1>16, <1>17, <1>18, <1>19, <1>20, <1>21
     DEF Next, Proceed

LEMMA StampsStep == CacheInv /\ [Next]_vars => Stamps'
<1> SUFFICES ASSUME CacheInv, [Next]_vars PROVE Stamps'
  OBVIOUS
<1>1. ASSUME NEW c \in Callers, NEW p \in Paths, Probe(c, p) \/ Recheck(c, p) PROVE Stamps'
  BY <1>1 DEF CacheInv, TypeOK, Stamps, Past, Tracked, Probe, Recheck, Trusted,
     fileVars, holderVars, requestVars
<1>2. ASSUME NEW c \in Callers, NEW f \in Files, Hash(c, f) PROVE Stamps'
  <2>1. snapshot' = [snapshot EXCEPT !.content[f] = content[f], !.stamp[f] = stamp[f]]
    BY <1>2 DEF Hash
  <2>2. /\ \A p \in Paths : snapshot'.stamp[p] = IF p = f THEN stamp[f] ELSE snapshot.stamp[p]
        /\ \A g \in Files : snapshot'.content[g] = IF g = f THEN content[f] ELSE snapshot.content[g]
    BY <2>1 DEF CacheInv, TypeOK, Snapshot, State, Paths
  <2>3. stamp[f] \in Nat
    BY DEF CacheInv, TypeOK, Paths
  <2>4. Past(snapshot)'
    BY <1>2, <2>2, <2>3 DEF CacheInv, Stamps, Past, Tracked, Hash, Paths, fileVars
  <2>5. QED
    BY <1>2, <2>4 DEF CacheInv, Stamps, Past, Tracked, Hash, fileVars
<1>3. ASSUME NEW c \in Callers, NEW f \in Files, Scan(c, f) PROVE Stamps'
  BY <1>3 DEF CacheInv, TypeOK, Stamps, Past, Tracked, Scan, fileVars, holderVars,
     requestVars
<1>4. ASSUME NEW c \in Callers, ProbeMiss(c) PROVE Stamps'
  BY <1>4 DEF CacheInv, TypeOK, Stamps, Past, Tracked, ProbeMiss, Goes, fileVars,
     holderVars, requestVars
<1>5. ASSUME NEW c \in Callers, Queue(c) \/ Ask(c) PROVE Stamps'
  BY <1>5 DEF CacheInv, TypeOK, Stamps, Past, Tracked, Queue, Ask, Goes, fileVars,
     holderVars, requestVars
<1>6. ASSUME NEW c \in Callers, Projected(c) PROVE Stamps'
  BY <1>6 DEF CacheInv, TypeOK, Stamps, Past, Tracked, Projected, Visits, Goes,
     fileVars, holderVars, requestVars
<1>7. ASSUME NEW c \in Callers, Hashed(c) PROVE Stamps'
  BY <1>7 DEF CacheInv, TypeOK, Stamps, Past, Tracked, Hashed, Visits, Goes, fileVars,
     holderVars, requestVars
<1>8. ASSUME NEW c \in Callers, Scanned(c) PROVE Stamps'
  BY <1>8 DEF CacheInv, TypeOK, Stamps, Past, Tracked, Scanned, Visits, Goes,
     fileVars, holderVars, requestVars
<1>9. ASSUME NEW c \in Callers, List(c) PROVE Stamps'
  BY <1>9 DEF CacheInv, TypeOK, Stamps, Past, Tracked, List, Visits, Goes, fileVars,
     holderVars, requestVars
<1>10. ASSUME NEW c \in Callers, Stat(c) PROVE Stamps'
  <2>1. snapshot' = [snapshot EXCEPT !.stamp[Dir] = stamp[Dir]]
    BY <1>10 DEF Stat
  <2>2. /\ \A p \in Paths : snapshot'.stamp[p] = IF p = Dir THEN stamp[Dir] ELSE snapshot.stamp[p]
        /\ snapshot'.content = snapshot.content
    BY <2>1 DEF CacheInv, TypeOK, Snapshot
  <2>3. stamp[Dir] \in Nat
    BY DEF CacheInv, TypeOK, Paths
  <2>4. Past(snapshot)'
    BY <1>10, <2>2, <2>3 DEF CacheInv, Stamps, Past, Tracked, Stat, Paths, fileVars
  <2>5. QED
    BY <1>10, <2>4 DEF CacheInv, Stamps, Past, Tracked, Stat, fileVars
<1>11. ASSUME NEW c \in Callers, ReprobeMiss(c) \/ Again(c) PROVE Stamps'
  BY <1>11, NoSnapshotType DEF CacheInv, Stamps, Past, ReprobeMiss, Again, Walks, fileVars
<1>12. ASSUME NEW c \in Callers, ProbeHit(c) PROVE Stamps'
  BY <1>12, NoSnapshotType DEF CacheInv, Stamps, Past, ProbeHit, Answers, Drops, fileVars, holderVars
<1>13. ASSUME NEW c \in Callers, Reused(c) PROVE Stamps'
  <2>1. cache \in Cache /\ cache'.snapshot = snapshot
    BY <1>13 DEF CacheInv, TypeOK, Reused, Same, Cache
  <2>2. Past(snapshot)' /\ Past(cache.snapshot)'
    BY <1>13, <2>1, NoSnapshotType DEF CacheInv, Stamps, Past, Reused, Answers, Drops, fileVars,
       holderVars
  <2>3. QED
    BY <1>13, <2>2 DEF CacheInv, Stamps, Reused, fileVars
<1>14. ASSUME NEW c \in Callers, Acquire(c) PROVE Stamps'
  BY <1>14, NoSnapshotType DEF CacheInv, Stamps, Past, Acquire, Walks, fileVars
<1>15. ASSUME NEW c \in Callers, Accept(c) PROVE Stamps'
  <2>1. cache'.snapshot = snapshot
    BY <1>15 DEF Accept
  <2>2. Past(snapshot)' /\ Past(cache.snapshot)'
    BY <1>15, <2>1, NoSnapshotType DEF CacheInv, Stamps, Past, Accept, Answers, Drops, fileVars,
       holderVars
  <2>3. QED
    BY <1>15, <2>2 DEF CacheInv, Stamps, Accept, fileVars
<1>16. ASSUME NEW c \in Callers, Fail(c) PROVE Stamps'
  BY <1>16, NoSnapshotType DEF CacheInv, Stamps, Past, Fail, Drops, fileVars, holderVars
<1>17. ASSUME NEW c \in Callers, Leave(c) PROVE Stamps'
  BY <1>17 DEF CacheInv, TypeOK, Stamps, Past, Tracked, Leave, Goes, fileVars,
     holderVars, requestVars
<1>18. ASSUME NEW c \in Callers, NEW r \in BOOLEAN, Call(c, r) PROVE Stamps'
  BY <1>18 DEF CacheInv, TypeOK, Stamps, Past, Tracked, Call, Usable, Visits, Goes,
     fileVars, holderVars, requestVars
<1>19. ASSUME NEW f \in Files, NEW v \in Contents \cup {Absent}, Write(f, v) PROVE Stamps'
  <2>1. \A s \in Snapshot : Past(s) => Past(s)'
    <3> SUFFICES ASSUME NEW s \in Snapshot, Past(s) PROVE Past(s)'
      OBVIOUS
    <3>1. \A p \in Tracked(s) : s.stamp[p] <= stamp'[p]
      BY <1>19 DEF CacheInv, TypeOK, Stamps, Past, Tracked, Snapshot, Write
    <3>2. \A g \in Tracked(s) \cap Files : s.stamp[g] = stamp'[g] => s.content[g] = content'[g]
      <4> SUFFICES ASSUME NEW g \in Tracked(s) \cap Files, s.stamp[g] = stamp'[g]
                   PROVE  s.content[g] = content'[g]
        OBVIOUS
      <4>1. stamp[g] = s.stamp[g] /\ g # f
        BY <1>19, WriteMoves DEF Paths
      <4>2. content'[g] = content[g]
        BY <1>19, <4>1 DEF CacheInv, TypeOK, State, Write
      <4>3. QED
        BY <4>1, <4>2 DEF Past
    <3>3. QED
      BY <3>1, <3>2 DEF Past, Tracked
  <2>2. \A p \in Paths : stamp'[p] <= writes'
    BY <1>19 DEF CacheInv, TypeOK, Stamps, Write
  <2>3. cache # NoCache => cache.snapshot \in Snapshot
    BY DEF CacheInv, TypeOK, Cache
  <2>4. QED
    BY <1>19, <2>1, <2>2, <2>3 DEF CacheInv, TypeOK, Stamps, Past, Tracked, Write, holderVars
<1>20. CASE Tick
  BY <1>20 DEF CacheInv, TypeOK, Stamps, Past, Tracked, Tick, fileVars, holderVars,
     requestVars
<1>21. CASE UNCHANGED vars
  BY <1>21 DEF CacheInv, TypeOK, Stamps, Past, Tracked, vars, fileVars, holderVars,
     requestVars
<1>22. QED
  BY <1>1, <1>2, <1>3, <1>4, <1>5, <1>6, <1>7, <1>8, <1>9, <1>10, <1>11, <1>12, <1>13,
     <1>14, <1>15, <1>16, <1>17, <1>18, <1>19, <1>20, <1>21
     DEF Next, Proceed

LEMMA WalkSoundStep == CacheInv /\ [Next]_vars => WalkSound'
<1> SUFFICES ASSUME CacheInv, [Next]_vars PROVE WalkSound'
  OBVIOUS
<1>1. ASSUME NEW c \in Callers, NEW p \in Paths, Probe(c, p) \/ Recheck(c, p) PROVE WalkSound'
  BY <1>1 DEF CacheInv, TypeOK, Discipline, WalkSound, Statted, Listed, Visiting,
     UnderLock, Probe, Recheck, Trusted, fileVars, holderVars, requestVars
<1>2. ASSUME NEW c \in Callers, NEW f \in Files, Hash(c, f) PROVE WalkSound'
  <2>1. snapshot' = [snapshot EXCEPT !.content[f] = content[f], !.stamp[f] = stamp[f]]
    BY <1>2 DEF Hash
  <2>2. /\ \A p \in Paths : snapshot'.stamp[p] = IF p = f THEN stamp[f] ELSE snapshot.stamp[p]
        /\ stamp[f] \in Nat /\ f # Dir
    BY <2>1 DEF CacheInv, TypeOK, Snapshot, Paths
  <2>3. Tracked(snapshot)' = Tracked(snapshot) \cup {f}
    BY <2>2 DEF Tracked, Paths
  <2>4. snapshot'.stamp[Dir] = snapshot.stamp[Dir]
    BY <2>2 DEF Paths
  <2>5. /\ pc[c] = "hashing" /\ todo' = todo \ {f} /\ UNCHANGED <<content, stamp, pc>>
        /\ \A d \in Callers \ {c} : pc[d] \notin UnderLock
    BY <1>2 DEF CacheInv, Discipline, Hash, UnderLock, fileVars, requestVars
  <2>6. QED
    BY <2>3, <2>4, <2>5 DEF CacheInv, WalkSound, Statted, Listed, UnderLock
<1>3. ASSUME NEW c \in Callers, NEW f \in Files, Scan(c, f) PROVE WalkSound'
  BY <1>3 DEF CacheInv, TypeOK, Discipline, WalkSound, Statted, Listed, Visiting,
     UnderLock, Scan, fileVars, holderVars, requestVars
<1>4. ASSUME NEW c \in Callers, ProbeMiss(c) PROVE WalkSound'
  BY <1>4 DEF CacheInv, TypeOK, Discipline, WalkSound, Statted, Listed, Visiting,
     UnderLock, ProbeMiss, Goes, fileVars, holderVars, requestVars
<1>5. ASSUME NEW c \in Callers, Queue(c) \/ Ask(c) PROVE WalkSound'
  BY <1>5 DEF CacheInv, TypeOK, Discipline, WalkSound, Statted, Listed, Visiting,
     UnderLock, Queue, Ask, Goes, fileVars, holderVars, requestVars
<1>6. ASSUME NEW c \in Callers, Projected(c) PROVE WalkSound'
  BY <1>6 DEF CacheInv, TypeOK, Discipline, WalkSound, Statted, Listed, Visiting,
     UnderLock, Projected, Visits, Goes, fileVars, holderVars, requestVars
<1>7. ASSUME NEW c \in Callers, Hashed(c) PROVE WalkSound'
  BY <1>7 DEF CacheInv, TypeOK, Discipline, WalkSound, Statted, Listed, Visiting,
     UnderLock, Hashed, Visits, Goes, fileVars, holderVars, requestVars
<1>8. ASSUME NEW c \in Callers, Scanned(c) PROVE WalkSound'
  BY <1>8 DEF CacheInv, TypeOK, Discipline, WalkSound, Statted, Listed, Visiting,
     UnderLock, Scanned, Visits, Goes, fileVars, holderVars, requestVars
<1>9. ASSUME NEW c \in Callers, List(c) PROVE WalkSound'
  <2>1. \A f \in Files : content[f] = Absent => f \in Entries
    BY DEF CacheInv, TypeOK
  <2>2. /\ todo' = {f \in Files : content[f] # Absent}
        /\ pc' = [pc EXCEPT ![c] = IF Nested THEN "walked" ELSE "hashing"]
        /\ UNCHANGED <<content, stamp, snapshot>>
        /\ pc[c] = IF Nested THEN "walking" ELSE "walked"
    BY <1>9 DEF List, Visits, Goes, fileVars, holderVars
  <2>3. \A d \in Callers \ {c} : pc'[d] = pc[d] /\ pc[d] \notin UnderLock
    BY <1>9, <2>2 DEF CacheInv, TypeOK, Discipline, UnderLock
  <2>4. /\ pc'[c] = IF Nested THEN "walked" ELSE "hashing"
        /\ Tracked(snapshot)' = Tracked(snapshot)
    BY <2>2 DEF CacheInv, TypeOK, Tracked
  <2>5. QED
    BY <2>1, <2>2, <2>3, <2>4 DEF CacheInv, WalkSound, Statted, Listed, UnderLock
<1>10. ASSUME NEW c \in Callers, Stat(c) PROVE WalkSound'
  <2>1. /\ snapshot' = [snapshot EXCEPT !.stamp[Dir] = stamp[Dir]] /\ stamp[Dir] \in Nat
        /\ pc' = [pc EXCEPT ![c] = IF Nested THEN "hashing" ELSE "walked"]
        /\ UNCHANGED <<content, stamp, todo>>
        /\ pc[c] = IF Nested THEN "walked" ELSE "walking"
    BY <1>10 DEF CacheInv, TypeOK, Paths, Stat, Goes, fileVars
  <2>2. \A p \in Paths : snapshot'.stamp[p] = IF p = Dir THEN stamp[Dir] ELSE snapshot.stamp[p]
    BY <2>1 DEF CacheInv, TypeOK, Snapshot
  <2>3. Tracked(snapshot)' = Tracked(snapshot) \cup {Dir}
    BY <2>1, <2>2 DEF Tracked, Paths
  <2>4. \A d \in Callers \ {c} : pc'[d] = pc[d] /\ pc[d] \notin UnderLock
    BY <2>1 DEF CacheInv, TypeOK, Discipline, UnderLock
  <2>5. pc'[c] = IF Nested THEN "hashing" ELSE "walked"
    BY <2>1 DEF CacheInv, TypeOK
  <2>6. QED
    BY <2>1, <2>3, <2>4, <2>5 DEF CacheInv, WalkSound, Statted, Listed, UnderLock
<1>11. ASSUME NEW c \in Callers, ReprobeMiss(c) \/ Again(c) PROVE WalkSound'
  BY <1>11 DEF CacheInv, TypeOK, Discipline, WalkSound, Statted, Listed, Visiting,
     UnderLock, ReprobeMiss, Again, Walks, Visits, Goes, fileVars, holderVars,
     requestVars
<1>12. ASSUME NEW c \in Callers, ProbeHit(c) PROVE WalkSound'
  BY <1>12 DEF CacheInv, TypeOK, Discipline, WalkSound, Statted, Listed, Visiting,
     UnderLock, ProbeHit, Answers, Drops, Goes, fileVars, holderVars, requestVars
<1>13. ASSUME NEW c \in Callers, Reused(c) PROVE WalkSound'
  BY <1>13 DEF CacheInv, TypeOK, Discipline, WalkSound, Statted, Listed, Visiting,
     UnderLock, Reused, Same, Answers, Drops, Goes, fileVars, holderVars, requestVars
<1>14. ASSUME NEW c \in Callers, Acquire(c) PROVE WalkSound'
  BY <1>14 DEF CacheInv, TypeOK, Discipline, WalkSound, Statted, Listed, Visiting,
     UnderLock, Acquire, Walks, Visits, Goes, Usable, fileVars, holderVars,
     requestVars
<1>15. ASSUME NEW c \in Callers, Accept(c) PROVE WalkSound'
  BY <1>15 DEF CacheInv, TypeOK, Discipline, WalkSound, Statted, Listed, Visiting,
     UnderLock, Accept, Built, Answers, Drops, Goes, fileVars, holderVars, requestVars
<1>16. ASSUME NEW c \in Callers, Fail(c) PROVE WalkSound'
  BY <1>16 DEF CacheInv, TypeOK, Discipline, WalkSound, Statted, Listed, Visiting,
     UnderLock, Fail, MayFail, Drops, Goes, fileVars, holderVars, requestVars
<1>17. ASSUME NEW c \in Callers, Leave(c) PROVE WalkSound'
  BY <1>17 DEF CacheInv, TypeOK, Discipline, WalkSound, Statted, Listed, Visiting,
     UnderLock, Leave, Goes, fileVars, holderVars, requestVars
<1>18. ASSUME NEW c \in Callers, NEW r \in BOOLEAN, Call(c, r) PROVE WalkSound'
  BY <1>18 DEF CacheInv, TypeOK, Discipline, WalkSound, Statted, Listed, Visiting,
     UnderLock, Call, Usable, Visits, Goes, fileVars, holderVars, requestVars
<1>19. ASSUME NEW f \in Files, NEW v \in Contents \cup {Absent}, Write(f, v) PROVE WalkSound'
  <2>1. ASSUME NEW g \in Files \ (todo \cup Tracked(snapshot)),
               stamp'[Dir] = snapshot.stamp[Dir],
               stamp[Dir] = snapshot.stamp[Dir] => content[g] = Absent
        PROVE  content'[g] = Absent
    <3>1. stamp[Dir] = snapshot.stamp[Dir] /\ Absent \notin {v, content[f]}
      BY <1>19, <2>1, WriteMoves DEF CacheInv, TypeOK, Stamps, Paths
    <3>2. QED
      BY <1>19, <2>1, <3>1 DEF CacheInv, TypeOK, State, Write
  <2>2. UNCHANGED <<pc, todo, snapshot>> /\ Tracked(snapshot)' = Tracked(snapshot)
    BY <1>19 DEF Write, holderVars, requestVars, Tracked
  <2>3. QED
    BY <2>1, <2>2 DEF CacheInv, WalkSound
<1>20. CASE Tick
  BY <1>20 DEF CacheInv, TypeOK, Discipline, WalkSound, Statted, Listed, Visiting,
     UnderLock, Tick, fileVars, holderVars, requestVars
<1>21. CASE UNCHANGED vars
  BY <1>21 DEF CacheInv, TypeOK, Discipline, WalkSound, Statted, Listed, Visiting,
     UnderLock, vars, fileVars, holderVars, requestVars
<1>22. QED
  BY <1>1, <1>2, <1>3, <1>4, <1>5, <1>6, <1>7, <1>8, <1>9, <1>10, <1>11, <1>12, <1>13,
     <1>14, <1>15, <1>16, <1>17, <1>18, <1>19, <1>20, <1>21
     DEF Next, Proceed

LEMMA SnapshotSoundStep == CacheInv /\ [Next]_vars => SnapshotSound'
<1> SUFFICES ASSUME CacheInv, [Next]_vars PROVE SnapshotSound'
  OBVIOUS
<1>1. ASSUME NEW c \in Callers, NEW p \in Paths, Probe(c, p) \/ Recheck(c, p)
      PROVE  SnapshotSound'
  BY <1>1 DEF CacheInv, TypeOK, Discipline, SnapshotSound, Whole, Unmoved, Shows,
     Tracked, Snapped, UnderLock, Visiting, Probe, Recheck, Trusted, fileVars,
     holderVars, requestVars
<1>2. ASSUME NEW c \in Callers, NEW f \in Files, Hash(c, f) PROVE SnapshotSound'
  BY <1>2 DEF CacheInv, Discipline, SnapshotSound, Whole, Unmoved, Shows, Tracked, Snapped,
     UnderLock, Hash, fileVars, requestVars
<1>3. ASSUME NEW c \in Callers, NEW f \in Files, Scan(c, f) PROVE SnapshotSound'
  BY <1>3 DEF CacheInv, TypeOK, Discipline, SnapshotSound, Whole, Unmoved, Shows,
     Tracked, Snapped, UnderLock, Visiting, Scan, fileVars, holderVars, requestVars
<1>4. ASSUME NEW c \in Callers, ProbeMiss(c) PROVE SnapshotSound'
  BY <1>4 DEF CacheInv, TypeOK, Discipline, SnapshotSound, Whole, Unmoved, Shows,
     Tracked, Snapped, UnderLock, Visiting, ProbeMiss, Goes, fileVars, holderVars,
     requestVars
<1>5. ASSUME NEW c \in Callers, Queue(c) \/ Ask(c) PROVE SnapshotSound'
  BY <1>5 DEF CacheInv, TypeOK, Discipline, SnapshotSound, Whole, Unmoved, Shows,
     Tracked, Snapped, UnderLock, Visiting, Queue, Ask, Goes, fileVars, holderVars,
     requestVars
<1>6. ASSUME NEW c \in Callers, Projected(c) PROVE SnapshotSound'
  BY <1>6 DEF CacheInv, TypeOK, Discipline, SnapshotSound, Whole, Unmoved, Shows,
     Tracked, Snapped, UnderLock, Visiting, Projected, Visits, Goes, fileVars,
     holderVars, requestVars
<1>7. ASSUME NEW c \in Callers, Hashed(c) PROVE SnapshotSound'
  <2>1. /\ Dir \in Tracked(snapshot)
        /\ \A f \in Files \ Tracked(snapshot) :
             f \in Entries /\ (~Nested /\ stamp[Dir] = snapshot.stamp[Dir] => content[f] = Absent)
    BY <1>7 DEF CacheInv, WalkSound, Statted, Listed, Hashed
  <2>2. ASSUME Unmoved(snapshot, Tracked(snapshot)), NEW f \in Certain
        PROVE  snapshot.content[f] = content[f]
    <3>1. CASE f \in Tracked(snapshot)
      BY <2>2, <3>1 DEF CacheInv, Stamps, Past, Unmoved, Certain
    <3>2. CASE f \notin Tracked(snapshot)
      BY <2>1, <2>2, <3>2 DEF CacheInv, Stamps, Past, Unmoved, Certain
    <3>3. QED
      BY <3>1, <3>2
  <2>3. Whole(snapshot)
    BY <2>1, <2>2 DEF Whole, Shows
  <2>4. Whole(snapshot)' = Whole(snapshot) /\ UNCHANGED cache
    BY <1>7 DEF Whole, Unmoved, Shows, Tracked, Hashed, fileVars, holderVars
  <2>5. cache # NoCache => Whole(cache.snapshot)' = Whole(cache.snapshot)
    BY <1>7 DEF Whole, Unmoved, Shows, Tracked, Hashed, fileVars, holderVars
  <2>6. QED
    BY <2>3, <2>4, <2>5 DEF CacheInv, SnapshotSound
<1>8. ASSUME NEW c \in Callers, Scanned(c) PROVE SnapshotSound'
  BY <1>8 DEF CacheInv, TypeOK, Discipline, SnapshotSound, Whole, Unmoved, Shows,
     Tracked, Snapped, UnderLock, Visiting, Scanned, Visits, Goes, fileVars,
     holderVars, requestVars
<1>9. ASSUME NEW c \in Callers, List(c) PROVE SnapshotSound'
  BY <1>9 DEF CacheInv, TypeOK, Discipline, SnapshotSound, Whole, Unmoved, Shows,
     Tracked, Snapped, UnderLock, Visiting, List, Visits, Goes, fileVars, holderVars,
     requestVars
<1>10. ASSUME NEW c \in Callers, Stat(c) PROVE SnapshotSound'
  BY <1>10 DEF CacheInv, TypeOK, Discipline, SnapshotSound, Whole, Unmoved, Shows, Tracked,
     Snapped, UnderLock, Stat, Goes, fileVars
<1>11. ASSUME NEW c \in Callers, ReprobeMiss(c) \/ Again(c) PROVE SnapshotSound'
  BY <1>11 DEF CacheInv, TypeOK, Discipline, SnapshotSound, Whole, Unmoved, Shows,
     Tracked, Snapped, UnderLock, Visiting, ReprobeMiss, Again, Walks, Visits, Goes,
     fileVars, holderVars, requestVars
<1>12. ASSUME NEW c \in Callers, ProbeHit(c) PROVE SnapshotSound'
  BY <1>12 DEF CacheInv, TypeOK, Discipline, SnapshotSound, Whole, Unmoved, Shows,
     Tracked, Snapped, UnderLock, Visiting, ProbeHit, Answers, Drops, Goes, fileVars,
     holderVars, requestVars
<1>13. ASSUME NEW c \in Callers, Reused(c) PROVE SnapshotSound'
  <2>1. cache \in Cache /\ cache'.snapshot = snapshot /\ Whole(snapshot)
    BY <1>13 DEF CacheInv, TypeOK, SnapshotSound, Snapped, Reused, Same, Cache
  <2>2. Whole(cache.snapshot)'
    BY <1>13, <2>1 DEF Whole, Unmoved, Shows, Tracked, Reused, fileVars
  <2>3. \A d \in Callers : pc'[d] \notin Snapped
    BY <1>13 DEF CacheInv, TypeOK, Discipline, Reused, Answers, Goes, Snapped, UnderLock
  <2>4. QED
    BY <2>2, <2>3 DEF SnapshotSound
<1>14. ASSUME NEW c \in Callers, Acquire(c) PROVE SnapshotSound'
  BY <1>14 DEF CacheInv, TypeOK, Discipline, SnapshotSound, Whole, Unmoved, Shows,
     Tracked, Snapped, UnderLock, Visiting, Acquire, Walks, Visits, Goes, Usable,
     fileVars, holderVars, requestVars
<1>15. ASSUME NEW c \in Callers, Accept(c) PROVE SnapshotSound'
  <2>1. cache'.snapshot = snapshot /\ Whole(snapshot)
    BY <1>15 DEF CacheInv, SnapshotSound, Snapped, Accept
  <2>2. Whole(cache.snapshot)'
    BY <1>15, <2>1 DEF Whole, Unmoved, Shows, Tracked, Accept, fileVars
  <2>3. \A d \in Callers : pc'[d] \notin Snapped
    BY <1>15 DEF CacheInv, TypeOK, Discipline, Accept, Answers, Goes, Snapped, UnderLock
  <2>4. QED
    BY <2>2, <2>3 DEF SnapshotSound
<1>16. ASSUME NEW c \in Callers, Fail(c) PROVE SnapshotSound'
  BY <1>16 DEF CacheInv, TypeOK, Discipline, SnapshotSound, Whole, Unmoved, Shows,
     Tracked, Snapped, UnderLock, Visiting, Fail, MayFail, Drops, Goes, fileVars,
     holderVars, requestVars
<1>17. ASSUME NEW c \in Callers, Leave(c) PROVE SnapshotSound'
  BY <1>17 DEF CacheInv, TypeOK, Discipline, SnapshotSound, Whole, Unmoved, Shows,
     Tracked, Snapped, UnderLock, Visiting, Leave, Goes, fileVars, holderVars,
     requestVars
<1>18. ASSUME NEW c \in Callers, NEW r \in BOOLEAN, Call(c, r) PROVE SnapshotSound'
  BY <1>18 DEF CacheInv, TypeOK, Discipline, SnapshotSound, Whole, Unmoved, Shows,
     Tracked, Snapped, UnderLock, Visiting, Call, Usable, Visits, Goes, fileVars,
     holderVars, requestVars
<1>19. ASSUME NEW f \in Files, NEW v \in Contents \cup {Absent}, Write(f, v)
      PROVE  SnapshotSound'
  <2>1. \A s \in Snapshot : Past(s) /\ Whole(s) => Whole(s)'
    <3> SUFFICES ASSUME NEW s \in Snapshot, Past(s), Whole(s), Unmoved(s, Tracked(s))'
                 PROVE  Shows(s, content)'
      BY DEF Whole, Tracked
    <3>1. \A p \in Tracked(s) : stamp'[p] = s.stamp[p] /\ p \in Paths
      BY DEF Unmoved, Tracked
    <3>2. /\ Unmoved(s, Tracked(s)) /\ f \notin Tracked(s)
          /\ Absent \notin {v, content[f]}
      BY <1>19, <3>1, WriteMoves DEF Whole, Unmoved
    <3>3. Shows(s, content)
      BY <3>2 DEF Whole
    <3>4. f \notin Certain
      BY <3>2, <3>3 DEF Past, Shows
    <3>5. QED
      BY <1>19, <3>3, <3>4 DEF CacheInv, TypeOK, State, Shows, Certain, Write
  <2>2. cache # NoCache => cache.snapshot \in Snapshot
    BY DEF CacheInv, TypeOK, Cache
  <2>3. UNCHANGED <<pc, snapshot, cache>>
    BY <1>19 DEF Write, holderVars, requestVars
  <2>4. \A c \in Callers : pc[c] \in Snapped => Whole(snapshot)'
    BY <2>1, <2>3 DEF CacheInv, TypeOK, Stamps, SnapshotSound, Whole, Unmoved, Shows, Tracked
  <2>5. cache # NoCache => Whole(cache.snapshot)'
    BY <2>1, <2>2, <2>3 DEF CacheInv, Stamps, SnapshotSound, Whole, Unmoved, Shows, Tracked
  <2>6. QED
    BY <2>3, <2>4, <2>5 DEF SnapshotSound
<1>20. CASE Tick
  BY <1>20 DEF CacheInv, TypeOK, Discipline, SnapshotSound, Whole, Unmoved, Shows,
     Tracked, Snapped, UnderLock, Visiting, Tick, fileVars, holderVars, requestVars
<1>21. CASE UNCHANGED vars
  BY <1>21 DEF CacheInv, TypeOK, Discipline, SnapshotSound, Whole, Unmoved, Shows,
     Tracked, Snapped, UnderLock, Visiting, vars, fileVars, holderVars, requestVars
<1>22. QED
  BY <1>1, <1>2, <1>3, <1>4, <1>5, <1>6, <1>7, <1>8, <1>9, <1>10, <1>11, <1>12, <1>13,
     <1>14, <1>15, <1>16, <1>17, <1>18, <1>19, <1>20, <1>21
     DEF Next, Proceed

LEMMA CacheSoundStep == CacheInv /\ [Next]_vars => CacheSound'
<1> SUFFICES ASSUME CacheInv, [Next]_vars PROVE CacheSound'
  OBVIOUS
<1>1. ASSUME NEW c \in Callers, NEW p \in Paths, Probe(c, p) \/ Recheck(c, p) PROVE CacheSound'
  BY <1>1 DEF CacheInv, TypeOK, CacheSound, Cache, Shows, Probe, Recheck, Trusted,
     fileVars, holderVars, requestVars
<1>2. ASSUME NEW c \in Callers, NEW f \in Files, Hash(c, f) PROVE CacheSound'
  BY <1>2 DEF CacheInv, TypeOK, CacheSound, Cache, Shows, Hash, fileVars, holderVars,
     requestVars
<1>3. ASSUME NEW c \in Callers, NEW f \in Files, Scan(c, f) PROVE CacheSound'
  BY <1>3 DEF CacheInv, TypeOK, CacheSound, Cache, Shows, Scan, fileVars, holderVars,
     requestVars
<1>4. ASSUME NEW c \in Callers, ProbeMiss(c) PROVE CacheSound'
  BY <1>4 DEF CacheInv, TypeOK, CacheSound, Cache, Shows, ProbeMiss, Goes, fileVars,
     holderVars, requestVars
<1>5. ASSUME NEW c \in Callers, Queue(c) \/ Ask(c) PROVE CacheSound'
  BY <1>5 DEF CacheInv, TypeOK, CacheSound, Cache, Shows, Queue, Ask, Goes, fileVars,
     holderVars, requestVars
<1>6. ASSUME NEW c \in Callers, Projected(c) PROVE CacheSound'
  BY <1>6 DEF CacheInv, TypeOK, CacheSound, Cache, Shows, Projected, Visits, Goes,
     fileVars, holderVars, requestVars
<1>7. ASSUME NEW c \in Callers, Hashed(c) PROVE CacheSound'
  BY <1>7 DEF CacheInv, TypeOK, CacheSound, Cache, Shows, Hashed, Visits, Goes,
     fileVars, holderVars, requestVars
<1>8. ASSUME NEW c \in Callers, Scanned(c) PROVE CacheSound'
  BY <1>8 DEF CacheInv, TypeOK, CacheSound, Cache, Shows, Scanned, Visits, Goes,
     fileVars, holderVars, requestVars
<1>9. ASSUME NEW c \in Callers, List(c) PROVE CacheSound'
  BY <1>9 DEF CacheInv, TypeOK, CacheSound, Cache, Shows, List, Visits, Goes,
     fileVars, holderVars, requestVars
<1>10. ASSUME NEW c \in Callers, Stat(c) PROVE CacheSound'
  BY <1>10 DEF CacheInv, TypeOK, CacheSound, Cache, Shows, Stat, Goes, fileVars,
     holderVars, requestVars
<1>11. ASSUME NEW c \in Callers, ReprobeMiss(c) \/ Again(c) PROVE CacheSound'
  BY <1>11 DEF CacheInv, TypeOK, CacheSound, Cache, Shows, ReprobeMiss, Again, Walks,
     Visits, Goes, fileVars, holderVars, requestVars
<1>12. ASSUME NEW c \in Callers, ProbeHit(c) PROVE CacheSound'
  BY <1>12 DEF CacheInv, TypeOK, CacheSound, Cache, Shows, ProbeHit, Answers, Drops,
     Goes, fileVars, holderVars, requestVars
<1>13. ASSUME NEW c \in Callers, Reused(c) PROVE CacheSound'
  BY <1>13 DEF CacheInv, TypeOK, CacheSound, Cache, Shows, Reused, Same, Answers,
     Drops, Goes, fileVars, holderVars, requestVars
<1>14. ASSUME NEW c \in Callers, Acquire(c) PROVE CacheSound'
  BY <1>14 DEF CacheInv, TypeOK, CacheSound, Cache, Shows, Acquire, Walks, Visits,
     Goes, Usable, fileVars, holderVars, requestVars
<1>15. ASSUME NEW c \in Callers, Accept(c) PROVE CacheSound'
  <2>1. \A f \in Certain : scanned[f] = snapshot.content[f]
    BY <1>15, VerifiedScan DEF Accept, Read, Certain
  <2>2. QED
    BY <1>15, <2>1 DEF CacheInv, TypeOK, CacheSound, Shows, Accept, Built
<1>16. ASSUME NEW c \in Callers, Fail(c) PROVE CacheSound'
  BY <1>16 DEF CacheInv, TypeOK, CacheSound, Cache, Shows, Fail, MayFail, Drops, Goes,
     fileVars, holderVars, requestVars
<1>17. ASSUME NEW c \in Callers, Leave(c) PROVE CacheSound'
  BY <1>17 DEF CacheInv, TypeOK, CacheSound, Cache, Shows, Leave, Goes, fileVars,
     holderVars, requestVars
<1>18. ASSUME NEW c \in Callers, NEW r \in BOOLEAN, Call(c, r) PROVE CacheSound'
  BY <1>18 DEF CacheInv, TypeOK, CacheSound, Cache, Shows, Call, Usable, Visits, Goes,
     fileVars, holderVars, requestVars
<1>19. ASSUME NEW f \in Files, NEW v \in Contents \cup {Absent}, Write(f, v) PROVE CacheSound'
  BY <1>19 DEF CacheInv, TypeOK, CacheSound, Cache, Shows, Write, fileVars,
     holderVars, requestVars
<1>20. CASE Tick
  BY <1>20 DEF CacheInv, TypeOK, CacheSound, Cache, Shows, Tick, fileVars, holderVars,
     requestVars
<1>21. CASE UNCHANGED vars
  BY <1>21 DEF CacheInv, TypeOK, CacheSound, Cache, Shows, vars, fileVars, holderVars,
     requestVars
<1>22. QED
  BY <1>1, <1>2, <1>3, <1>4, <1>5, <1>6, <1>7, <1>8, <1>9, <1>10, <1>11, <1>12, <1>13,
     <1>14, <1>15, <1>16, <1>17, <1>18, <1>19, <1>20, <1>21
     DEF Next, Proceed

(* A write can only make a probe fail; a probe begins with all paths to go.*)
LEMMA ProbeSoundStep == CacheInv /\ [Next]_vars => ProbeSound'
<1> SUFFICES ASSUME CacheInv, [Next]_vars PROVE ProbeSound'
  OBVIOUS
<1>1. ASSUME NEW c \in Callers, NEW p \in Paths, Probe(c, p) \/ Recheck(c, p) PROVE ProbeSound'
  <2>1. \A paths \in SUBSET Paths : \A s \in Snapshot :
          Unmoved(s, paths \ {p}) /\ stamp[p] = s.stamp[p] => Unmoved(s, paths)
    BY DEF Unmoved
  <2>2. /\ pc[c] \in {"probing", "reprobing"} => stamp[p] = cache.snapshot.stamp[p]
        /\ pc[c] = "rechecking" => stamp[p] = snapshot.stamp[p]
        /\ todo' = todo \ {p}
        /\ UNCHANGED <<stamp, cache, snapshot, pc, seen>>
    BY <1>1 DEF Probe, Recheck, Trusted, fileVars, holderVars, requestVars
  <2>3. \A d \in Callers \ {c} : pc[d] \notin Visiting
    BY <1>1 DEF CacheInv, Discipline, Probe, Recheck, Visiting
  <2>4. cache # NoCache => cache.snapshot \in Snapshot
    BY DEF CacheInv, TypeOK, Cache
  <2>5. QED
    BY <2>1, <2>2, <2>3, <2>4 DEF CacheInv, TypeOK, ProbeSound, Unmoved, Shows, Visiting
<1>2. ASSUME NEW c \in Callers, NEW f \in Files, Hash(c, f) PROVE ProbeSound'
  BY <1>2 DEF CacheInv, TypeOK, Discipline, ProbeSound, Unmoved, Shows, Visiting,
     UnderLock, Hash, fileVars, holderVars, requestVars
<1>3. ASSUME NEW c \in Callers, NEW f \in Files, Scan(c, f) PROVE ProbeSound'
  BY <1>3 DEF CacheInv, TypeOK, Discipline, ProbeSound, Unmoved, Shows, Visiting,
     UnderLock, Scan, fileVars, holderVars, requestVars
<1>4. ASSUME NEW c \in Callers, ProbeMiss(c) PROVE ProbeSound'
  BY <1>4 DEF CacheInv, TypeOK, Discipline, ProbeSound, Unmoved, Shows, Visiting,
     UnderLock, ProbeMiss, Goes, fileVars, holderVars, requestVars
<1>5. ASSUME NEW c \in Callers, Queue(c) \/ Ask(c) PROVE ProbeSound'
  BY <1>5 DEF CacheInv, TypeOK, Discipline, ProbeSound, Unmoved, Shows, Visiting,
     UnderLock, Queue, Ask, Goes, fileVars, holderVars, requestVars
<1>6. ASSUME NEW c \in Callers, Projected(c) PROVE ProbeSound'
  BY <1>6 DEF CacheInv, TypeOK, Discipline, ProbeSound, Unmoved, Shows, Visiting,
     UnderLock, Projected, Visits, Goes, fileVars, holderVars, requestVars
<1>7. ASSUME NEW c \in Callers, Hashed(c) PROVE ProbeSound'
  <2>1. Whole(snapshot)'
    BY <1>7, SnapshotSoundStep DEF CacheInv, TypeOK, SnapshotSound, Snapped, Hashed, Visits, Goes
  <2>2. Unmoved(snapshot, Tracked(snapshot)) => Shows(snapshot, content)
    BY <1>7, <2>1 DEF Whole, Unmoved, Shows, Tracked, Hashed, fileVars, holderVars
  <2>3. /\ pc'[c] = "rechecking" /\ todo' = Tracked(snapshot) /\ content \in seen[c]
        /\ \A d \in Callers \ {c} : pc'[d] = pc[d] /\ pc[d] \notin Visiting
    BY <1>7 DEF CacheInv, TypeOK, Discipline, TimeSound, Hashed, Visits, Goes, Visiting
  <2>4. QED
    BY <1>7, <2>2, <2>3 DEF ProbeSound, Unmoved, Shows, Hashed, Visiting, fileVars, holderVars
<1>8. ASSUME NEW c \in Callers, Scanned(c) PROVE ProbeSound'
  BY <1>8 DEF CacheInv, TypeOK, Discipline, ProbeSound, Unmoved, Shows, Visiting,
     UnderLock, Scanned, Visits, Goes, fileVars, holderVars, requestVars
<1>9. ASSUME NEW c \in Callers, List(c) PROVE ProbeSound'
  BY <1>9 DEF CacheInv, TypeOK, Discipline, ProbeSound, Unmoved, Shows, Visiting,
     UnderLock, List, Visits, Goes, fileVars, holderVars, requestVars
<1>10. ASSUME NEW c \in Callers, Stat(c) PROVE ProbeSound'
  BY <1>10 DEF CacheInv, TypeOK, Discipline, ProbeSound, Unmoved, Shows, Visiting,
     UnderLock, Stat, Goes, fileVars, holderVars, requestVars
<1>11. ASSUME NEW c \in Callers, ReprobeMiss(c) \/ Again(c) PROVE ProbeSound'
  BY <1>11 DEF CacheInv, TypeOK, Discipline, ProbeSound, Unmoved, Shows, Visiting,
     UnderLock, ReprobeMiss, Again, Walks, Visits, Goes, fileVars, holderVars,
     requestVars
<1>12. ASSUME NEW c \in Callers, ProbeHit(c) PROVE ProbeSound'
  BY <1>12 DEF CacheInv, TypeOK, Discipline, ProbeSound, Unmoved, Shows, Visiting,
     UnderLock, ProbeHit, Answers, Drops, Goes, fileVars, holderVars, requestVars
<1>13. ASSUME NEW c \in Callers, Reused(c) PROVE ProbeSound'
  BY <1>13 DEF CacheInv, TypeOK, Discipline, ProbeSound, Unmoved, Shows, Visiting,
     UnderLock, Reused, Same, Answers, Drops, Goes, fileVars, holderVars, requestVars
<1>14. ASSUME NEW c \in Callers, Acquire(c) PROVE ProbeSound'
  <2>1. pc'[c] = "reprobing" => cache # NoCache /\ todo' = Tracked(cache.snapshot)
    BY <1>14 DEF CacheInv, TypeOK, Acquire, Walks, Visits, Goes, Usable
  <2>2. /\ pc'[c] \in {"reprobing", "walking"} /\ content \in seen[c]
        /\ \A d \in Callers \ {c} : pc'[d] = pc[d] /\ pc[d] \notin Visiting
    BY <1>14 DEF CacheInv, TypeOK, Discipline, TimeSound, Acquire, Walks, Visits, Goes, Visiting
  <2>3. cache # NoCache /\ Unmoved(cache.snapshot, Tracked(cache.snapshot)) =>
          Shows(cache.snapshot, content)
    BY DEF CacheInv, SnapshotSound, Whole
  <2>4. QED
    BY <1>14, <2>1, <2>2, <2>3 DEF ProbeSound, Unmoved, Shows, Acquire, Visiting, fileVars
<1>15. ASSUME NEW c \in Callers, Accept(c) PROVE ProbeSound'
  BY <1>15 DEF CacheInv, TypeOK, Discipline, ProbeSound, Unmoved, Shows, Visiting,
     UnderLock, Accept, Built, Answers, Drops, Goes, fileVars, holderVars, requestVars
<1>16. ASSUME NEW c \in Callers, Fail(c) PROVE ProbeSound'
  BY <1>16 DEF CacheInv, TypeOK, Discipline, ProbeSound, Unmoved, Shows, Visiting,
     UnderLock, Fail, MayFail, Drops, Goes, fileVars, holderVars, requestVars
<1>17. ASSUME NEW c \in Callers, Leave(c) PROVE ProbeSound'
  BY <1>17 DEF CacheInv, TypeOK, Discipline, ProbeSound, Unmoved, Shows, Visiting,
     UnderLock, Leave, Goes, fileVars, holderVars, requestVars
<1>18. ASSUME NEW c \in Callers, NEW r \in BOOLEAN, Call(c, r) PROVE ProbeSound'
  <2>1. pc'[c] = "probing" => cache # NoCache /\ todo' = Tracked(cache.snapshot)
    BY <1>18 DEF CacheInv, TypeOK, Call, Visits, Goes, Usable
  <2>2. /\ pc'[c] \in {"probing", "locking"} /\ content \in seen'[c]
        /\ \A d \in Callers \ {c} : pc'[d] = pc[d] /\ pc[d] \notin Visiting
    BY <1>18 DEF CacheInv, TypeOK, Discipline, Call, Visits, Goes, Visiting
  <2>3. cache # NoCache /\ Unmoved(cache.snapshot, Tracked(cache.snapshot)) =>
          Shows(cache.snapshot, content)
    BY DEF CacheInv, SnapshotSound, Whole
  <2>4. QED
    BY <1>18, <2>1, <2>2, <2>3 DEF ProbeSound, Unmoved, Shows, Call, Visiting, fileVars, holderVars
<1>19. ASSUME NEW f \in Files, NEW v \in Contents \cup {Absent}, Write(f, v) PROVE ProbeSound'
  <2>1. \A s \in Snapshot : Past(s) /\ (\A p \in todo : stamp'[p] = s.stamp[p]) => Unmoved(s, todo)
    BY <1>19, WriteUnmoved DEF CacheInv, TypeOK
  <2>2. \A d \in Callers : pc[d] # "idle" => seen[d] \subseteq seen'[d]
    BY <1>19 DEF CacheInv, TypeOK, Write
  <2>3. cache # NoCache => cache.snapshot \in Snapshot /\ Past(cache.snapshot)
    BY DEF CacheInv, TypeOK, Cache, Stamps
  <2>4. snapshot \in Snapshot /\ Past(snapshot)
    BY DEF CacheInv, TypeOK, Stamps
  <2>5. UNCHANGED <<pc, cache, snapshot, todo>>
    BY <1>19 DEF Write, holderVars, requestVars
  <2>6. ASSUME NEW d \in Callers, pc[d] \in {"probing", "reprobing"}
        PROVE  /\ cache # NoCache
               /\ Unmoved(cache.snapshot, todo)' => \E state \in seen'[d] : Shows(cache.snapshot, state)
    BY <2>1, <2>2, <2>3, <2>5, <2>6 DEF CacheInv, ProbeSound, Unmoved
  <2>7. ASSUME NEW d \in Callers, pc[d] = "rechecking", Unmoved(snapshot, todo)'
        PROVE  \E state \in seen'[d] : Shows(snapshot, state)
    BY <2>1, <2>2, <2>4, <2>5, <2>7 DEF CacheInv, ProbeSound, Unmoved
  <2>8. QED
    BY <2>5, <2>6, <2>7 DEF ProbeSound, Unmoved, Shows
<1>20. CASE Tick
  BY <1>20 DEF CacheInv, TypeOK, Discipline, ProbeSound, Unmoved, Shows, Visiting,
     UnderLock, Tick, fileVars, holderVars, requestVars
<1>21. CASE UNCHANGED vars
  BY <1>21 DEF CacheInv, TypeOK, Discipline, ProbeSound, Unmoved, Shows, Visiting,
     UnderLock, vars, fileVars, holderVars, requestVars
<1>22. QED
  BY <1>1, <1>2, <1>3, <1>4, <1>5, <1>6, <1>7, <1>8, <1>9, <1>10, <1>11, <1>12, <1>13,
     <1>14, <1>15, <1>16, <1>17, <1>18, <1>19, <1>20, <1>21
     DEF Next, Proceed

LEMMA ScanSoundStep == CacheInv /\ [Next]_vars => ScanSound'
<1> SUFFICES ASSUME CacheInv, [Next]_vars PROVE ScanSound'
  OBVIOUS
<1>1. ASSUME NEW c \in Callers, NEW p \in Paths, Probe(c, p) \/ Recheck(c, p) PROVE ScanSound'
  <2>1. pc[c] = "verifying" => stamp[p] = snapshot.stamp[p]
    BY <1>1 DEF Probe, Recheck, Trusted
  <2>2. /\ pc[c] # "scanning" /\ todo' = todo \ {p}
        /\ UNCHANGED <<stamp, snapshot, scanned, pc, seen>>
        /\ \A d \in Callers \ {c} : pc[d] \notin Visiting
    BY <1>1 DEF CacheInv, Discipline, Probe, Recheck, Visiting, fileVars, holderVars, requestVars
  <2>3. QED
    BY <2>1, <2>2 DEF CacheInv, ScanSound, Read, Unmoved, Shows, Visiting
<1>2. ASSUME NEW c \in Callers, NEW f \in Files, Hash(c, f) PROVE ScanSound'
  BY <1>2 DEF CacheInv, Discipline, ScanSound, Visiting, Hash, requestVars
<1>3. ASSUME NEW c \in Callers, NEW f \in Files, Scan(c, f) PROVE ScanSound'
  <2>1. scanned' = [scanned EXCEPT ![f] = content[f]] /\ content \in seen[c]
    BY <1>3 DEF CacheInv, TimeSound, Scan
  <2>2. /\ pc[c] = "scanning" /\ todo' = todo \ {f}
        /\ UNCHANGED <<stamp, snapshot, pc, seen>>
        /\ \A d \in Callers \ {c} : pc[d] \notin Visiting
    BY <1>3 DEF CacheInv, Discipline, Scan, Visiting, fileVars, requestVars
  <2>3. Unmoved(snapshot, Tracked(snapshot)) => Shows(snapshot, content) /\ Read(c, Files \ todo)
    BY <2>2 DEF CacheInv, SnapshotSound, Snapped, Whole, ScanSound
  <2>4. \A g \in Files : scanned'[g] = IF g = f THEN content[f] ELSE scanned[g]
    BY <2>1 DEF CacheInv, TypeOK
  <2>5. Unmoved(snapshot, Tracked(snapshot)) => Read(c, Files \ todo)'
    BY <2>1, <2>2, <2>3, <2>4 DEF Read, Shows
  <2>6. QED
    BY <2>2, <2>5 DEF ScanSound, Unmoved, Tracked, Visiting
<1>4. ASSUME NEW c \in Callers, ProbeMiss(c) PROVE ScanSound'
  BY <1>4 DEF CacheInv, TypeOK, Discipline, ScanSound, Read, Unmoved, Shows, Tracked,
     Visiting, UnderLock, ProbeMiss, Goes, fileVars, holderVars, requestVars
<1>5. ASSUME NEW c \in Callers, Queue(c) \/ Ask(c) PROVE ScanSound'
  BY <1>5 DEF CacheInv, TypeOK, Discipline, ScanSound, Read, Unmoved, Shows, Tracked,
     Visiting, UnderLock, Queue, Ask, Goes, fileVars, holderVars, requestVars
<1>6. ASSUME NEW c \in Callers, Projected(c) PROVE ScanSound'
  BY <1>6 DEF CacheInv, TypeOK, Discipline, ScanSound, Read, Unmoved, Shows, Tracked,
     Visiting, UnderLock, Projected, Visits, Goes, fileVars, holderVars, requestVars
<1>7. ASSUME NEW c \in Callers, Hashed(c) PROVE ScanSound'
  BY <1>7 DEF CacheInv, TypeOK, Discipline, ScanSound, Read, Unmoved, Shows, Tracked,
     Visiting, UnderLock, Hashed, Visits, Goes, fileVars, holderVars, requestVars
<1>8. ASSUME NEW c \in Callers, Scanned(c) PROVE ScanSound'
  <2>1. pc[c] = "scanning" /\ todo = {} /\ todo' = Tracked(snapshot) /\ pc'[c] = "verifying"
    BY <1>8 DEF CacheInv, TypeOK, Scanned, Visits, Goes
  <2>2. /\ UNCHANGED <<stamp, snapshot, scanned, seen>>
        /\ \A d \in Callers \ {c} : pc'[d] = pc[d] /\ pc[d] \notin Visiting
    BY <1>8 DEF CacheInv, TypeOK, Discipline, Scanned, Visits, Goes, Visiting, fileVars, holderVars
  <2>3. QED
    BY <2>1, <2>2 DEF CacheInv, ScanSound, Read, Unmoved, Shows, Visiting
<1>9. ASSUME NEW c \in Callers, List(c) PROVE ScanSound'
  BY <1>9 DEF CacheInv, TypeOK, Discipline, ScanSound, Read, Unmoved, Shows, Tracked,
     Visiting, UnderLock, List, Visits, Goes, fileVars, holderVars, requestVars
<1>10. ASSUME NEW c \in Callers, Stat(c) PROVE ScanSound'
  BY <1>10 DEF CacheInv, TypeOK, Discipline, ScanSound, Visiting, Stat, Goes
<1>11. ASSUME NEW c \in Callers, ReprobeMiss(c) \/ Again(c) PROVE ScanSound'
  BY <1>11 DEF CacheInv, TypeOK, Discipline, ScanSound, Read, Unmoved, Shows, Tracked,
     Visiting, UnderLock, ReprobeMiss, Again, Walks, Visits, Goes, fileVars,
     holderVars, requestVars
<1>12. ASSUME NEW c \in Callers, ProbeHit(c) PROVE ScanSound'
  BY <1>12 DEF CacheInv, TypeOK, Discipline, ScanSound, Read, Unmoved, Shows, Tracked,
     Visiting, UnderLock, ProbeHit, Answers, Drops, Goes, fileVars, holderVars,
     requestVars
<1>13. ASSUME NEW c \in Callers, Reused(c) PROVE ScanSound'
  BY <1>13 DEF CacheInv, TypeOK, Discipline, ScanSound, Read, Unmoved, Shows, Tracked,
     Visiting, UnderLock, Reused, Same, Answers, Drops, Goes, fileVars, holderVars,
     requestVars
<1>14. ASSUME NEW c \in Callers, Acquire(c) PROVE ScanSound'
  BY <1>14 DEF CacheInv, TypeOK, Discipline, ScanSound, Read, Unmoved, Shows, Tracked,
     Visiting, UnderLock, Acquire, Walks, Visits, Goes, Usable, fileVars, holderVars,
     requestVars
<1>15. ASSUME NEW c \in Callers, Accept(c) PROVE ScanSound'
  BY <1>15 DEF CacheInv, TypeOK, Discipline, ScanSound, Read, Unmoved, Shows, Tracked,
     Visiting, UnderLock, Accept, Built, Answers, Drops, Goes, fileVars, holderVars,
     requestVars
<1>16. ASSUME NEW c \in Callers, Fail(c) PROVE ScanSound'
  BY <1>16 DEF CacheInv, TypeOK, Discipline, ScanSound, Read, Unmoved, Shows, Tracked,
     Visiting, UnderLock, Fail, MayFail, Drops, Goes, fileVars, holderVars,
     requestVars
<1>17. ASSUME NEW c \in Callers, Leave(c) PROVE ScanSound'
  BY <1>17 DEF CacheInv, TypeOK, Discipline, ScanSound, Read, Unmoved, Shows, Tracked,
     Visiting, UnderLock, Leave, Goes, fileVars, holderVars, requestVars
<1>18. ASSUME NEW c \in Callers, NEW r \in BOOLEAN, Call(c, r) PROVE ScanSound'
  BY <1>18 DEF CacheInv, TypeOK, Discipline, ScanSound, Read, Unmoved, Shows, Tracked,
     Visiting, UnderLock, Call, Usable, Visits, Goes, fileVars, holderVars,
     requestVars
<1>19. ASSUME NEW f \in Files, NEW v \in Contents \cup {Absent}, Write(f, v) PROVE ScanSound'
  <2>1. snapshot \in Snapshot /\ Past(snapshot) /\ todo \subseteq Paths
        /\ Tracked(snapshot) \subseteq Paths
    BY DEF CacheInv, TypeOK, Stamps, Tracked
  <2>2. UNCHANGED <<pc, snapshot, scanned, todo>>
    BY <1>19 DEF Write, holderVars, requestVars
  <2>3. \A paths \in SUBSET Paths : Unmoved(snapshot, paths)' => Unmoved(snapshot, paths)
    BY <1>19, <2>1, <2>2, WriteUnmoved DEF Unmoved
  <2>4. \A d \in Callers : pc[d] # "idle" => seen[d] \subseteq seen'[d]
    BY <1>19 DEF CacheInv, TypeOK, Write
  <2>5. \A d \in Callers : \A files \in SUBSET Files :
          pc[d] # "idle" /\ Read(d, files) => Read(d, files)'
    BY <2>2, <2>4 DEF Read, Shows
  <2>6. Tracked(snapshot)' = Tracked(snapshot)
    BY <2>2 DEF Tracked
  <2>7. QED
    BY <2>1, <2>2, <2>3, <2>5, <2>6 DEF CacheInv, ScanSound
<1>20. CASE Tick
  BY <1>20 DEF CacheInv, TypeOK, Discipline, ScanSound, Read, Unmoved, Shows, Tracked,
     Visiting, UnderLock, Tick, fileVars, holderVars, requestVars
<1>21. CASE UNCHANGED vars
  BY <1>21 DEF CacheInv, TypeOK, Discipline, ScanSound, Read, Unmoved, Shows, Tracked,
     Visiting, UnderLock, vars, fileVars, holderVars, requestVars
<1>22. QED
  BY <1>1, <1>2, <1>3, <1>4, <1>5, <1>6, <1>7, <1>8, <1>9, <1>10, <1>11, <1>12, <1>13,
     <1>14, <1>15, <1>16, <1>17, <1>18, <1>19, <1>20, <1>21
     DEF Next, Proceed

LEMMA TimeSoundStep == CacheInv /\ [Next]_vars => TimeSound'
<1> SUFFICES ASSUME CacheInv, [Next]_vars PROVE TimeSound'
  OBVIOUS
<1>1. ASSUME NEW c \in Callers, NEW p \in Paths, Probe(c, p) \/ Recheck(c, p) PROVE TimeSound'
  BY <1>1 DEF CacheInv, TypeOK, Discipline, TimeSound, Visiting, UnderLock, Probe,
     Recheck, Trusted, fileVars, holderVars, requestVars
<1>2. ASSUME NEW c \in Callers, NEW f \in Files, Hash(c, f) PROVE TimeSound'
  BY <1>2 DEF CacheInv, TypeOK, Discipline, TimeSound, Visiting, UnderLock, Hash,
     fileVars, holderVars, requestVars
<1>3. ASSUME NEW c \in Callers, NEW f \in Files, Scan(c, f) PROVE TimeSound'
  BY <1>3 DEF CacheInv, TypeOK, Discipline, TimeSound, Visiting, UnderLock, Scan,
     fileVars, holderVars, requestVars
<1>4. ASSUME NEW c \in Callers, ProbeMiss(c) PROVE TimeSound'
  BY <1>4 DEF CacheInv, TypeOK, Discipline, TimeSound, Visiting, UnderLock, ProbeMiss,
     Goes, fileVars, holderVars, requestVars
<1>5. ASSUME NEW c \in Callers, Queue(c) \/ Ask(c) PROVE TimeSound'
  BY <1>5 DEF CacheInv, TypeOK, Discipline, TimeSound, Visiting, UnderLock, Queue,
     Ask, Goes, fileVars, holderVars, requestVars
<1>6. ASSUME NEW c \in Callers, Projected(c) PROVE TimeSound'
  BY <1>6 DEF CacheInv, TypeOK, Discipline, TimeSound, Visiting, UnderLock, Projected,
     Visits, Goes, fileVars, holderVars, requestVars
<1>7. ASSUME NEW c \in Callers, Hashed(c) PROVE TimeSound'
  BY <1>7 DEF CacheInv, TypeOK, Discipline, TimeSound, Visiting, UnderLock, Hashed,
     Visits, Goes, fileVars, holderVars, requestVars
<1>8. ASSUME NEW c \in Callers, Scanned(c) PROVE TimeSound'
  BY <1>8 DEF CacheInv, TypeOK, Discipline, TimeSound, Visiting, UnderLock, Scanned,
     Visits, Goes, fileVars, holderVars, requestVars
<1>9. ASSUME NEW c \in Callers, List(c) PROVE TimeSound'
  BY <1>9 DEF CacheInv, TypeOK, Discipline, TimeSound, Visiting, UnderLock, List,
     Visits, Goes, fileVars, holderVars, requestVars
<1>10. ASSUME NEW c \in Callers, Stat(c) PROVE TimeSound'
  BY <1>10 DEF CacheInv, TypeOK, Discipline, TimeSound, Visiting, UnderLock, Stat,
     Goes, fileVars, holderVars, requestVars
<1>11. ASSUME NEW c \in Callers, ReprobeMiss(c) \/ Again(c) PROVE TimeSound'
  BY <1>11 DEF CacheInv, TypeOK, Discipline, TimeSound, Visiting, UnderLock,
     ReprobeMiss, Again, Walks, Visits, Goes, fileVars, holderVars, requestVars
<1>12. ASSUME NEW c \in Callers, ProbeHit(c) PROVE TimeSound'
  BY <1>12 DEF CacheInv, TypeOK, Discipline, TimeSound, Visiting, UnderLock, ProbeHit,
     Answers, Drops, Goes, fileVars, holderVars, requestVars
<1>13. ASSUME NEW c \in Callers, Reused(c) PROVE TimeSound'
  BY <1>13 DEF CacheInv, TypeOK, Discipline, TimeSound, Visiting, UnderLock, Reused,
     Same, Answers, Drops, Goes, fileVars, holderVars, requestVars
<1>14. ASSUME NEW c \in Callers, Acquire(c) PROVE TimeSound'
  <2>1. /\ pc[c] # "idle" /\ asked' = [asked EXCEPT ![c] = now]
        /\ UNCHANGED <<content, now, cache, seen, refresh>>
    BY <1>14 DEF Acquire, fileVars
  <2>2. /\ pc'[c] \in {"reprobing", "walking"}
        /\ pc'[c] = "reprobing" \/ reuse' =>
             ~refresh[c] /\ cache # NoCache /\ now - cache.at < TTL
    BY <1>14 DEF CacheInv, TypeOK, Acquire, Walks, Visits, Goes, Usable
  <2>3. \A d \in Callers \ {c} :
          pc'[d] = pc[d] /\ pc[d] \notin Visiting
    BY <1>14 DEF CacheInv, TypeOK, Discipline, Acquire, Walks, Visits, Goes, Visiting
  <2>4. QED
    BY <2>1, <2>2, <2>3 DEF CacheInv, TypeOK, TimeSound, Visiting
<1>15. ASSUME NEW c \in Callers, Accept(c) PROVE TimeSound'
  BY <1>15 DEF CacheInv, TypeOK, Discipline, TimeSound, Visiting, UnderLock, Accept,
     Built, Answers, Drops, Goes, fileVars, holderVars, requestVars
<1>16. ASSUME NEW c \in Callers, Fail(c) PROVE TimeSound'
  BY <1>16 DEF CacheInv, TypeOK, Discipline, TimeSound, Visiting, UnderLock, Fail,
     MayFail, Drops, Goes, fileVars, holderVars, requestVars
<1>17. ASSUME NEW c \in Callers, Leave(c) PROVE TimeSound'
  BY <1>17 DEF CacheInv, TypeOK, Discipline, TimeSound, Visiting, UnderLock, Leave,
     Goes, fileVars, holderVars, requestVars
<1>18. ASSUME NEW c \in Callers, NEW r \in BOOLEAN, Call(c, r) PROVE TimeSound'
  BY <1>18 DEF CacheInv, TypeOK, Discipline, TimeSound, Visiting, UnderLock, Call,
     Usable, Visits, Goes, fileVars, holderVars, requestVars
<1>19. ASSUME NEW f \in Files, NEW v \in Contents \cup {Absent}, Write(f, v) PROVE TimeSound'
  BY <1>19 DEF CacheInv, TypeOK, Discipline, TimeSound, Visiting, UnderLock, Write,
     fileVars, holderVars, requestVars
<1>20. CASE Tick
  BY <1>20 DEF CacheInv, TypeOK, Discipline, TimeSound, Visiting, UnderLock, Tick,
     fileVars, holderVars, requestVars
<1>21. CASE UNCHANGED vars
  BY <1>21 DEF CacheInv, TypeOK, Discipline, TimeSound, Visiting, UnderLock, vars,
     fileVars, holderVars, requestVars
<1>22. QED
  BY <1>1, <1>2, <1>3, <1>4, <1>5, <1>6, <1>7, <1>8, <1>9, <1>10, <1>11, <1>12, <1>13,
     <1>14, <1>15, <1>16, <1>17, <1>18, <1>19, <1>20, <1>21
     DEF Next, Proceed

LEMMA AnswersAreCurrentStep == CacheInv /\ [Next]_vars => AnswersAreCurrent'
<1> SUFFICES ASSUME CacheInv, [Next]_vars PROVE AnswersAreCurrent'
  OBVIOUS
<1>1. ASSUME NEW c \in Callers, NEW p \in Paths, Probe(c, p) \/ Recheck(c, p)
      PROVE  AnswersAreCurrent'
  BY <1>1 DEF CacheInv, TypeOK, Discipline, CacheSound, ProbeSound, AnswersAreCurrent,
     Probe, Recheck, Trusted, fileVars, holderVars, requestVars
<1>2. ASSUME NEW c \in Callers, NEW f \in Files, Hash(c, f) PROVE AnswersAreCurrent'
  BY <1>2 DEF CacheInv, TypeOK, Discipline, CacheSound, ProbeSound, AnswersAreCurrent,
     Hash, fileVars, holderVars, requestVars
<1>3. ASSUME NEW c \in Callers, NEW f \in Files, Scan(c, f) PROVE AnswersAreCurrent'
  BY <1>3 DEF CacheInv, TypeOK, Discipline, CacheSound, ProbeSound, AnswersAreCurrent,
     Scan, fileVars, holderVars, requestVars
<1>4. ASSUME NEW c \in Callers, ProbeMiss(c) PROVE AnswersAreCurrent'
  BY <1>4 DEF CacheInv, TypeOK, Discipline, CacheSound, ProbeSound, AnswersAreCurrent,
     ProbeMiss, Goes, fileVars, holderVars, requestVars
<1>5. ASSUME NEW c \in Callers, Queue(c) \/ Ask(c) PROVE AnswersAreCurrent'
  BY <1>5 DEF CacheInv, TypeOK, Discipline, CacheSound, ProbeSound, AnswersAreCurrent,
     Queue, Ask, Goes, fileVars, holderVars, requestVars
<1>6. ASSUME NEW c \in Callers, Projected(c) PROVE AnswersAreCurrent'
  BY <1>6 DEF CacheInv, TypeOK, Discipline, CacheSound, ProbeSound, AnswersAreCurrent,
     Projected, Visits, Goes, fileVars, holderVars, requestVars
<1>7. ASSUME NEW c \in Callers, Hashed(c) PROVE AnswersAreCurrent'
  BY <1>7 DEF CacheInv, TypeOK, Discipline, CacheSound, ProbeSound, AnswersAreCurrent,
     Hashed, Visits, Goes, fileVars, holderVars, requestVars
<1>8. ASSUME NEW c \in Callers, Scanned(c) PROVE AnswersAreCurrent'
  BY <1>8 DEF CacheInv, TypeOK, Discipline, CacheSound, ProbeSound, AnswersAreCurrent,
     Scanned, Visits, Goes, fileVars, holderVars, requestVars
<1>9. ASSUME NEW c \in Callers, List(c) PROVE AnswersAreCurrent'
  BY <1>9 DEF CacheInv, TypeOK, Discipline, CacheSound, ProbeSound, AnswersAreCurrent,
     List, Visits, Goes, fileVars, holderVars, requestVars
<1>10. ASSUME NEW c \in Callers, Stat(c) PROVE AnswersAreCurrent'
  BY <1>10 DEF CacheInv, TypeOK, Discipline, CacheSound, ProbeSound,
     AnswersAreCurrent, Stat, Goes, fileVars, holderVars, requestVars
<1>11. ASSUME NEW c \in Callers, ReprobeMiss(c) \/ Again(c) PROVE AnswersAreCurrent'
  BY <1>11 DEF CacheInv, TypeOK, Discipline, CacheSound, ProbeSound,
     AnswersAreCurrent, ReprobeMiss, Again, Walks, Visits, Goes, fileVars, holderVars,
     requestVars
<1>12. ASSUME NEW c \in Callers, ProbeHit(c) PROVE AnswersAreCurrent'
  <2>1. /\ answer'[c] = cache.registry /\ pc' = [pc EXCEPT ![c] = "answered"]
        /\ \A d \in Callers \ {c} : answer'[d] = answer[d]
        /\ UNCHANGED <<seen, refresh>>
    BY <1>12 DEF CacheInv, TypeOK, ProbeHit, Answers, Goes
  <2>2. /\ ~refresh[c] /\ Shows(cache.snapshot, cache.registry.content)
        /\ \E state \in seen[c] : Shows(cache.snapshot, state)
    BY <1>12 DEF CacheInv, TimeSound, ProbeSound, CacheSound, Unmoved, ProbeHit
  <2>3. \E state \in seen[c] : \A g \in Certain : cache.registry.content[g] = state[g]
    BY <2>2 DEF Shows
  <2>4. \A d \in Callers : pc'[d] = "answered" => d = c \/ pc[d] = "answered"
    BY <2>1 DEF CacheInv, TypeOK
  <2>5. QED
    BY <2>1, <2>2, <2>3, <2>4 DEF CacheInv, AnswersAreCurrent
<1>13. ASSUME NEW c \in Callers, Reused(c) PROVE AnswersAreCurrent'
  <2>1. /\ answer'[c] = cache.registry /\ pc' = [pc EXCEPT ![c] = "answered"]
        /\ \A d \in Callers \ {c} : answer'[d] = answer[d]
        /\ UNCHANGED <<seen, refresh>>
    BY <1>13 DEF CacheInv, TypeOK, Reused, Answers, Goes
  <2>2. /\ ~refresh[c] /\ Shows(cache.snapshot, cache.registry.content)
        /\ \E state \in seen[c] : Shows(snapshot, state)
        /\ snapshot.content = cache.snapshot.content
    BY <1>13 DEF CacheInv, TimeSound, ProbeSound, CacheSound, Unmoved, Reused, Same
  <2>3. \E state \in seen[c] : \A g \in Certain : cache.registry.content[g] = state[g]
    BY <2>2 DEF Shows
  <2>4. \A d \in Callers : pc'[d] = "answered" => d = c \/ pc[d] = "answered"
    BY <2>1 DEF CacheInv, TypeOK
  <2>5. QED
    BY <2>1, <2>2, <2>3, <2>4 DEF CacheInv, AnswersAreCurrent
<1>14. ASSUME NEW c \in Callers, Acquire(c) PROVE AnswersAreCurrent'
  BY <1>14 DEF CacheInv, TypeOK, Discipline, CacheSound, ProbeSound,
     AnswersAreCurrent, Acquire, Walks, Visits, Goes, Usable, fileVars, holderVars,
     requestVars
<1>15. ASSUME NEW c \in Callers, Accept(c) PROVE AnswersAreCurrent'
  <2>1. /\ answer'[c].content = scanned /\ pc' = [pc EXCEPT ![c] = "answered"]
        /\ \A d \in Callers \ {c} : answer'[d] = answer[d]
        /\ UNCHANGED <<seen, refresh>>
    BY <1>15 DEF CacheInv, TypeOK, Accept, Built, Answers, Goes
  <2>2. Read(c, Files)
    BY <1>15, VerifiedScan DEF Accept
  <2>3. \A f \in Files : \E state \in seen[c] : \A g \in Certain \cup {f} : scanned[g] = state[g]
    BY <2>2 DEF Read, Shows, Certain
  <2>4. \A d \in Callers : pc'[d] = "answered" => d = c \/ pc[d] = "answered"
    BY <2>1 DEF CacheInv, TypeOK
  <2>5. QED
    BY <2>1, <2>3, <2>4 DEF CacheInv, AnswersAreCurrent, Certain
<1>16. ASSUME NEW c \in Callers, Fail(c) PROVE AnswersAreCurrent'
  BY <1>16 DEF CacheInv, TypeOK, Discipline, CacheSound, ProbeSound,
     AnswersAreCurrent, Fail, MayFail, Drops, Goes, fileVars, holderVars, requestVars
<1>17. ASSUME NEW c \in Callers, Leave(c) PROVE AnswersAreCurrent'
  BY <1>17 DEF CacheInv, TypeOK, Discipline, CacheSound, ProbeSound,
     AnswersAreCurrent, Leave, Goes, fileVars, holderVars, requestVars
<1>18. ASSUME NEW c \in Callers, NEW r \in BOOLEAN, Call(c, r) PROVE AnswersAreCurrent'
  BY <1>18 DEF CacheInv, TypeOK, Discipline, CacheSound, ProbeSound,
     AnswersAreCurrent, Call, Usable, Visits, Goes, fileVars, holderVars, requestVars
<1>19. ASSUME NEW f \in Files, NEW v \in Contents \cup {Absent}, Write(f, v)
      PROVE  AnswersAreCurrent'
  <2>1. \A d \in Callers : pc[d] # "idle" => seen[d] \subseteq seen'[d]
    BY <1>19 DEF CacheInv, TypeOK, Write
  <2>2. UNCHANGED <<pc, refresh, answer>>
    BY <1>19 DEF Write, requestVars
  <2>3. QED
    BY <2>1, <2>2 DEF CacheInv, AnswersAreCurrent
<1>20. CASE Tick
  BY <1>20 DEF CacheInv, TypeOK, Discipline, CacheSound, ProbeSound,
     AnswersAreCurrent, Tick, fileVars, holderVars, requestVars
<1>21. CASE UNCHANGED vars
  BY <1>21 DEF CacheInv, TypeOK, Discipline, CacheSound, ProbeSound,
     AnswersAreCurrent, vars, fileVars, holderVars, requestVars
<1>22. QED
  BY <1>1, <1>2, <1>3, <1>4, <1>5, <1>6, <1>7, <1>8, <1>9, <1>10, <1>11, <1>12, <1>13,
     <1>14, <1>15, <1>16, <1>17, <1>18, <1>19, <1>20, <1>21
     DEF Next, Proceed

LEMMA AnswersExpireStep == CacheInv /\ [Next]_vars => AnswersExpire'
<1> SUFFICES ASSUME CacheInv, [Next]_vars PROVE AnswersExpire'
  OBVIOUS
<1>1. ASSUME NEW c \in Callers, NEW p \in Paths, Probe(c, p) \/ Recheck(c, p)
      PROVE  AnswersExpire'
  BY <1>1 DEF CacheInv, TypeOK, Discipline, CacheSound, TimeSound, AnswersExpire,
     Probe, Recheck, Trusted, fileVars, holderVars, requestVars
<1>2. ASSUME NEW c \in Callers, NEW f \in Files, Hash(c, f) PROVE AnswersExpire'
  BY <1>2 DEF CacheInv, TypeOK, Discipline, CacheSound, TimeSound, AnswersExpire,
     Hash, fileVars, holderVars, requestVars
<1>3. ASSUME NEW c \in Callers, NEW f \in Files, Scan(c, f) PROVE AnswersExpire'
  BY <1>3 DEF CacheInv, TypeOK, Discipline, CacheSound, TimeSound, AnswersExpire,
     Scan, fileVars, holderVars, requestVars
<1>4. ASSUME NEW c \in Callers, ProbeMiss(c) PROVE AnswersExpire'
  BY <1>4 DEF CacheInv, TypeOK, Discipline, CacheSound, TimeSound, AnswersExpire,
     ProbeMiss, Goes, fileVars, holderVars, requestVars
<1>5. ASSUME NEW c \in Callers, Queue(c) \/ Ask(c) PROVE AnswersExpire'
  BY <1>5 DEF CacheInv, TypeOK, Discipline, CacheSound, TimeSound, AnswersExpire,
     Queue, Ask, Goes, fileVars, holderVars, requestVars
<1>6. ASSUME NEW c \in Callers, Projected(c) PROVE AnswersExpire'
  BY <1>6 DEF CacheInv, TypeOK, Discipline, CacheSound, TimeSound, AnswersExpire,
     Projected, Visits, Goes, fileVars, holderVars, requestVars
<1>7. ASSUME NEW c \in Callers, Hashed(c) PROVE AnswersExpire'
  BY <1>7 DEF CacheInv, TypeOK, Discipline, CacheSound, TimeSound, AnswersExpire,
     Hashed, Visits, Goes, fileVars, holderVars, requestVars
<1>8. ASSUME NEW c \in Callers, Scanned(c) PROVE AnswersExpire'
  BY <1>8 DEF CacheInv, TypeOK, Discipline, CacheSound, TimeSound, AnswersExpire,
     Scanned, Visits, Goes, fileVars, holderVars, requestVars
<1>9. ASSUME NEW c \in Callers, List(c) PROVE AnswersExpire'
  BY <1>9 DEF CacheInv, TypeOK, Discipline, CacheSound, TimeSound, AnswersExpire,
     List, Visits, Goes, fileVars, holderVars, requestVars
<1>10. ASSUME NEW c \in Callers, Stat(c) PROVE AnswersExpire'
  BY <1>10 DEF CacheInv, TypeOK, Discipline, CacheSound, TimeSound, AnswersExpire,
     Stat, Goes, fileVars, holderVars, requestVars
<1>11. ASSUME NEW c \in Callers, ReprobeMiss(c) \/ Again(c) PROVE AnswersExpire'
  BY <1>11 DEF CacheInv, TypeOK, Discipline, CacheSound, TimeSound, AnswersExpire,
     ReprobeMiss, Again, Walks, Visits, Goes, fileVars, holderVars, requestVars
<1>12. ASSUME NEW c \in Callers, ProbeHit(c) PROVE AnswersExpire'
  BY <1>12 DEF CacheInv, TypeOK, Discipline, CacheSound, TimeSound, AnswersExpire,
     ProbeHit, Answers, Drops, Goes, fileVars, holderVars, requestVars
<1>13. ASSUME NEW c \in Callers, Reused(c) PROVE AnswersExpire'
  BY <1>13 DEF CacheInv, TypeOK, Discipline, CacheSound, TimeSound, AnswersExpire,
     Reused, Same, Answers, Drops, Goes, fileVars, holderVars, requestVars
<1>14. ASSUME NEW c \in Callers, Acquire(c) PROVE AnswersExpire'
  BY <1>14 DEF CacheInv, TypeOK, Discipline, CacheSound, TimeSound, AnswersExpire,
     Acquire, Walks, Visits, Goes, Usable, fileVars, holderVars, requestVars
<1>15. ASSUME NEW c \in Callers, Accept(c) PROVE AnswersExpire'
  BY <1>15 DEF CacheInv, TypeOK, Discipline, CacheSound, TimeSound, AnswersExpire,
     Accept, Built, Answers, Drops, Goes, fileVars, holderVars, requestVars
<1>16. ASSUME NEW c \in Callers, Fail(c) PROVE AnswersExpire'
  BY <1>16 DEF CacheInv, TypeOK, Discipline, CacheSound, TimeSound, AnswersExpire,
     Fail, MayFail, Drops, Goes, fileVars, holderVars, requestVars
<1>17. ASSUME NEW c \in Callers, Leave(c) PROVE AnswersExpire'
  BY <1>17 DEF CacheInv, TypeOK, Discipline, CacheSound, TimeSound, AnswersExpire,
     Leave, Goes, fileVars, holderVars, requestVars
<1>18. ASSUME NEW c \in Callers, NEW r \in BOOLEAN, Call(c, r) PROVE AnswersExpire'
  BY <1>18 DEF CacheInv, TypeOK, Discipline, CacheSound, TimeSound, AnswersExpire,
     Call, Usable, Visits, Goes, fileVars, holderVars, requestVars
<1>19. ASSUME NEW f \in Files, NEW v \in Contents \cup {Absent}, Write(f, v)
      PROVE  AnswersExpire'
  BY <1>19 DEF CacheInv, TypeOK, Discipline, CacheSound, TimeSound, AnswersExpire,
     Write, fileVars, holderVars, requestVars
<1>20. CASE Tick
  BY <1>20 DEF CacheInv, TypeOK, Discipline, CacheSound, TimeSound, AnswersExpire,
     Tick, fileVars, holderVars, requestVars
<1>21. CASE UNCHANGED vars
  BY <1>21 DEF CacheInv, TypeOK, Discipline, CacheSound, TimeSound, AnswersExpire,
     vars, fileVars, holderVars, requestVars
<1>22. QED
  BY <1>1, <1>2, <1>3, <1>4, <1>5, <1>6, <1>7, <1>8, <1>9, <1>10, <1>11, <1>12, <1>13,
     <1>14, <1>15, <1>16, <1>17, <1>18, <1>19, <1>20, <1>21
     DEF Next, Proceed
-----------------------------------------------------------------------------
(* The cache keeps its invariant.                                          *)
THEOREM CacheInvariant == Spec => []CacheInv
<1>1. CacheInv /\ [Next]_vars => CacheInv'
  BY TypeOKStep, DisciplineStep, StampsStep, WalkSoundStep, SnapshotSoundStep,
     CacheSoundStep, ProbeSoundStep, ScanSoundStep, TimeSoundStep, AnswersAreCurrentStep,
     AnswersExpireStep DEF CacheInv
<1>2. QED
  BY <1>1, CacheInvInit, PTL DEF Spec

(* The state of the skill cache is well formed (server.py:728-783).        *)
THEOREM CacheTypeCorrect == Spec => []TypeOK
<1>1. CacheInv => TypeOK
  BY DEF CacheInv
<1>2. QED
  BY <1>1, CacheInvariant, PTL

(* An answer is what the certain files held together at a moment of the    *)
(* request, all of them if no directory lies below the root (server.py:    *)
(* 728-783, skills.py:364-510).                                            *)
THEOREM AnswersAreNeverMixed == Spec => []AnswersAreCurrent
<1>1. CacheInv => AnswersAreCurrent
  BY DEF CacheInv
<1>2. QED
  BY <1>1, CacheInvariant, PTL

(* No answer outlives the time to live, and a refresh is fresh             *)
(* (server.py:735-765).                                                    *)
THEOREM AnswersAreNeverStale == Spec => []AnswersExpire
<1>1. CacheInv => AnswersExpire
  BY DEF CacheInv
<1>2. QED
  BY <1>1, CacheInvariant, PTL

(* Whoever holds the lock is at work under it (server.py:747, 783).        *)
THEOREM LockHasAnOwner == Spec => []LockedByARequest
<1>1. CacheInv => LockedByARequest
  BY DEF CacheInv, TypeOK, Discipline, UnderLock, LockedByARequest
<1>2. QED
  BY <1>1, CacheInvariant, PTL
=============================================================================
