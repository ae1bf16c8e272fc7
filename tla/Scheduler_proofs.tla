-------------------------- MODULE Scheduler_proofs ---------------------------
(***************************************************************************)
(* Of the scheduler, for every set of jobs, caches and budgets: its types, *)
(* that leases, slots and the running counter follow the jobs, and that    *)
(* no wake-up is lost.                                                     *)
(***************************************************************************)
EXTENDS Scheduler, FiniteSetTheorems, TLAPS

SchedulerInv == TypeOK /\ LeasesFollowJobs /\ NoLostWakeup

LEMMA JobsAndRequests ==
  /\ IsFiniteSet(Jobs) /\ Jobs \subseteq Holders /\ Residents \subseteq Holders
  /\ \A h \in Holders : Request[h].bytes \in Nat /\ Request[h].classes \in [Classes -> Nat]
  /\ FreeJobs \subseteq Jobs /\ Residents \cap Jobs = {}
<1>1. Jobs \subseteq Holders /\ IsFiniteSet(Holders)
  BY SchedulerAssumption, GovernorAssumption
<1> QED BY <1>1, SchedulerAssumption, GovernorAssumption, FS_Subset DEF Requests

LEMMA SchedulerInit ==
  Init => SchedulerInv
<1> SUFFICES ASSUME Init PROVE SchedulerInv
  OBVIOUS
<1> USE DEF Init, LedgerInit
<1>1. Queued = {} /\ {j \in Jobs : state[j] = "running"} = {}
  BY DEF Queued
<1>2. TypeOK
  <2>1. LedgerType /\ state \in [Jobs -> {"new", "queued", "running"} \cup Settled]
    BY DEF LedgerType
  <2>2. DOMAIN queue = {}
    OBVIOUS
  <2>3. 0 \in 0 .. Len(Ladder) + 1
    BY DEF Ladder
  <2> QED BY <1>1, <2>1, <2>2, <2>3 DEF TypeOK
<1>3. LeasesFollowJobs
  <2>1. Cardinality({j \in Jobs : state[j] = "running"}) = 0
    BY <1>1, FS_EmptySet
  <2>2. \A c \in Classes : 0 <= Slots[c]
    BY GovernorAssumption
  <2>3. held \cap Jobs = {j \in Jobs \ FreeJobs : state[j] = "running"}
    BY <1>1
  <2> QED BY <2>1, <2>2, <2>3, SchedulerAssumption DEF LeasesFollowJobs
<1> QED BY <1>1, <1>2, <1>3 DEF SchedulerInv, NoLostWakeup

-----------------------------------------------------------------------------
(* The operations of the ledger. *)

LEMMA TakeKeeps ==
  ASSUME LedgerType, NEW h \in Holders, Fits(h), Take(h), \A c \in Classes : used[c] <= Slots[c]
  PROVE  LedgerType' /\ held' = held \cup {h} /\ memoryUsed' >= memoryUsed
         /\ \A c \in Classes : used'[c] >= used[c] /\ used'[c] <= Slots[c]
BY JobsAndRequests, GovernorAssumption DEF LedgerType, Fits, Take

LEMMA GiveBackKeeps ==
  ASSUME LedgerType, NEW h \in Holders, GiveBack(h), \A c \in Classes : used[c] <= Slots[c]
  PROVE  LedgerType' /\ held' = held \ {h} /\ \A c \in Classes : used'[c] <= Slots[c]
BY JobsAndRequests, GovernorAssumption DEF LedgerType, GiveBack, AtLeastZero, ledger

LEMMA CountKeeps ==
  ASSUME LedgerType, NEW delta \in Int, CountCacheBytes(delta)
  PROVE  LedgerType' /\ UNCHANGED <<held, used>> /\ (memoryUsed' >= memoryUsed \/ memoryUsed' < memoryUsed)
BY DEF LedgerType, CountCacheBytes, AtLeastZero

\* Who does not fit does not fit either when more is out.
LEMMA FitsLess ==
  ASSUME LedgerType, LedgerType', NEW j \in Jobs, memoryUsed' >= memoryUsed,
         \A c \in Classes : used'[c] >= used[c], Admissible(j)'
  PROVE  Admissible(j)
<1>1. j \in Holders /\ Request[j].bytes \in Nat /\ Request[j].classes \in [Classes -> Nat]
  BY JobsAndRequests
<1>2. CASE j \in FreeJobs
  BY <1>2 DEF Admissible
<1>3. CASE Fits(j)'
  BY <1>1, <1>3, GovernorAssumption DEF Admissible, Fits, LedgerType
<1> QED BY <1>2, <1>3 DEF Admissible

LEMMA StaysAwake ==
  ASSUME LedgerType, LedgerType', NoLostWakeup, memoryUsed' >= memoryUsed,
         \A c \in Classes : used'[c] >= used[c], Queued' \subseteq Queued,
         running' = running, pumping' = pumping, ~shrunk' => ~shrunk
  PROVE  NoLostWakeup'
<1>1. \A j \in Queued' : j \in Jobs /\ (Admissible(j)' => Admissible(j))
  BY FitsLess DEF Queued
<1> QED BY <1>1 DEF NoLostWakeup

-----------------------------------------------------------------------------
(* What a job does, for the leases and the counter. *)

\* The set of running jobs changes by j alone.
Running == {j \in Jobs : state[j] = "running"}

LEMMA RunningIsFinite ==
  IsFiniteSet(Running)
BY JobsAndRequests, FS_Subset DEF Running

LEMMA LeaveKeeps ==
  ASSUME TypeOK, NEW S \in SUBSET Queued, NEW how \in {"running"} \cup Settled, Leave(S, how)
  PROVE  /\ state' \in [Jobs -> {"new", "queued", "running"} \cup Settled]
         /\ Queued' = Queued \ S /\ DOMAIN queue' = Queued'
         /\ \A j \in Queued' : queue'[j] \in Entries
         /\ Running' = IF how = "running" THEN Running \cup S ELSE Running
<1>1. \A j \in Jobs : state'[j] = IF j \in S THEN how ELSE state[j]
  BY DEF Leave
<1>2. state' \in [Jobs -> {"new", "queued", "running"} \cup Settled]
  BY DEF Leave, TypeOK
<1>3. Queued' = Queued \ S /\ Running' = IF how = "running" THEN Running \cup S ELSE Running
  BY <1>1 DEF Queued, Running, Settled
<1>4. queue' = [j \in Queued \ S |-> queue[j]]
  BY DEF Leave, Restrict
<1> QED BY <1>2, <1>3, <1>4 DEF TypeOK

LEMMA LeasesStay ==
  ASSUME LeasesFollowJobs, Running' = Running, running' = running, UNCHANGED used, held' \cap Jobs = held \cap Jobs
  PROVE  LeasesFollowJobs'
BY DEF LeasesFollowJobs, Running

\* The entries of TypeOK that most steps leave alone, the cache sizes apart.
LEMMA SameJobs ==
  ASSUME TypeOK, UNCHANGED jobVars, LedgerType', pumping' \in BOOLEAN, shrunk' \in BOOLEAN,
         cacheBytes' \in [Caches -> Nat], relief' \in 0 .. Len(Ladder) + 1
  PROVE  TypeOK' /\ Queued' = Queued /\ Running' = Running
BY DEF TypeOK, jobVars, Queued, Running

LEMMA RungsAreTyped ==
  0 \in 0 .. Len(Ladder) + 1 /\ 2 \in 0 .. Len(Ladder) + 1
  /\ \A i \in 1 .. Len(Ladder) : i + 1 \in 0 .. Len(Ladder) + 1
BY DEF Ladder

LEMMA SubmitKeeps ==
  ASSUME SchedulerInv, NEW j \in Jobs, NEW p \in Priorities, Submit(j, p)
  PROVE  SchedulerInv'
<1> DEFINE full == Cardinality(Lane(p)) >= MaxQueuePerPriority
           drop == {i \in Lane(p) : full /\ \A k \in Lane(p) \ {i} : Before(i, k)}
<1>1. /\ state' = [i \in Jobs |-> IF i = j THEN "queued"
                                  ELSE IF i \in drop THEN "rejected" ELSE state[i]]
      /\ queue' = [i \in (Queued \ drop) \cup {j} |->
                      IF i = j THEN [prio |-> p, at |-> submitted + 1] ELSE queue[i]]
      /\ submitted' = submitted + 1 /\ pumping' = TRUE /\ state[j] = "new"
      /\ UNCHANGED <<held, used, memoryUsed, stale, running, cacheBytes, relief, shrunk>>
  BY DEF Submit, ledger
<1>2. drop \subseteq Queued
  BY DEF Lane
<1> HIDE DEF drop
<1>3. \A i \in Jobs : state'[i] = IF i = j THEN "queued"
                                  ELSE IF i \in drop THEN "rejected" ELSE state[i]
  BY <1>1
<1>4. state' \in [Jobs -> {"new", "queued", "running"} \cup Settled]
  <2>1. "rejected" \in Settled /\ \A i \in Jobs : state[i] \in {"new", "queued", "running"} \cup Settled
    BY DEF SchedulerInv, TypeOK, Settled
  <2> HIDE DEF Settled
  <2> QED BY <1>1, <2>1
<1>5. Queued' = (Queued \ drop) \cup {j} /\ Running' = Running
  BY <1>1, <1>2, <1>3 DEF Queued, Running
<1>6. DOMAIN queue' = Queued' /\ \A i \in Queued' : queue'[i] \in Entries
  <2>1. [prio |-> p, at |-> submitted + 1] \in Entries
    BY DEF Entries, SchedulerInv, TypeOK
  <2>2. \A i \in Queued : queue[i] \in Entries
    BY DEF SchedulerInv, TypeOK
  <2> QED BY <1>1, <1>5, <2>1, <2>2
<1>7. TypeOK'
  <2>1. submitted' \in Nat /\ pumping' \in BOOLEAN
    BY <1>1 DEF SchedulerInv, TypeOK
  <2> HIDE DEF Settled, Entries, Queued
  <2> QED BY <1>1, <1>4, <1>6, <2>1 DEF SchedulerInv, TypeOK, LedgerType
<1>8. LeasesFollowJobs'
  BY <1>1, <1>5, LeasesStay DEF SchedulerInv
<1> QED BY <1>1, <1>7, <1>8 DEF SchedulerInv, NoLostWakeup

LEMMA PromoteKeeps ==
  ASSUME SchedulerInv, NEW j \in Jobs, NEW p \in Priorities, Promote(j, p)
  PROVE  SchedulerInv'
<1>1. /\ queue' = [queue EXCEPT ![j].prio = p] /\ j \in Queued /\ pumping' = TRUE
      /\ UNCHANGED <<held, used, memoryUsed, state, submitted, stale, running, cacheBytes, relief, shrunk>>
  BY DEF Promote, ledger, Queued
<1>2. Queued' = Queued /\ Running' = Running
  BY <1>1 DEF Queued, Running
<1>3. DOMAIN queue' = Queued' /\ \A i \in Queued' : queue'[i] \in Entries
  <2>1. DOMAIN queue = Queued /\ \A i \in Queued : queue[i] \in Entries
    BY DEF SchedulerInv, TypeOK
  <2>2. [queue[j] EXCEPT !.prio = p] \in Entries
    BY <1>1, <2>1 DEF Entries
  <2> QED BY <1>1, <1>2, <2>1, <2>2
<1>4. TypeOK'
  BY <1>1, <1>3 DEF SchedulerInv, TypeOK, LedgerType
<1> QED BY <1>1, <1>2, <1>4, LeasesStay DEF SchedulerInv, NoLostWakeup

\* cancel and cancelWhere.
LEMMA CancelsKeep ==
  ASSUME SchedulerInv, NEW S \in SUBSET Queued, Leave(S, "rejected"),
         UNCHANGED <<ledger, submitted, stale, running, pumping, cacheBytes, relief, shrunk>>
  PROVE  SchedulerInv'
<1>1. /\ state' \in [Jobs -> {"new", "queued", "running"} \cup Settled]
      /\ Queued' = Queued \ S /\ DOMAIN queue' = Queued'
      /\ \A j \in Queued' : queue'[j] \in Entries
      /\ Running' = Running
  BY LeaveKeeps DEF SchedulerInv, Settled
<1>2. UNCHANGED <<held, used, memoryUsed>> /\ LedgerType
  BY DEF ledger, SchedulerInv, TypeOK
<1>3. TypeOK'
  BY <1>1, <1>2 DEF SchedulerInv, TypeOK, LedgerType
<1>4. LeasesFollowJobs'
  BY <1>1, <1>2, LeasesStay DEF SchedulerInv
<1>5. NoLostWakeup'
  <2>1. \A c \in Classes : used'[c] >= used[c]
    BY <1>2 DEF LedgerType
  <2> QED BY <1>1, <1>2, <1>3, <2>1, StaysAwake DEF SchedulerInv, TypeOK, LedgerType
<1> QED BY <1>3, <1>4, <1>5 DEF SchedulerInv

LEMMA StartKeeps ==
  ASSUME SchedulerInv, NEW j \in Jobs, Start(j)
  PROVE  SchedulerInv'
<1>1. /\ Leave({j}, "running") /\ running' = running + 1 /\ pumping /\ running < MaxConcurrent
      /\ j \in Queued /\ Admissible(j)
      /\ IF j \in FreeJobs THEN UNCHANGED ledger ELSE Take(j)
      /\ UNCHANGED <<submitted, stale, pumping, cacheBytes, relief, shrunk>>
  BY DEF Start, Picked, Queued
<1>2. /\ state' \in [Jobs -> {"new", "queued", "running"} \cup Settled]
      /\ DOMAIN queue' = Queued' /\ \A i \in Queued' : queue'[i] \in Entries
      /\ Running' = Running \cup {j}
  BY <1>1, LeaveKeeps DEF SchedulerInv
<1>3. /\ LedgerType' /\ held' = held \cup (IF j \in FreeJobs THEN {} ELSE {j})
      /\ \A c \in Classes : used'[c] <= Slots[c]
  <2>1. LedgerType /\ (\A c \in Classes : used[c] <= Slots[c]) /\ j \in Holders
    BY JobsAndRequests DEF SchedulerInv, TypeOK, LeasesFollowJobs
  <2>2. CASE j \in FreeJobs
    BY <1>1, <2>1, <2>2 DEF ledger, LedgerType
  <2>3. CASE j \notin FreeJobs
    BY <1>1, <2>1, <2>3, TakeKeeps DEF Admissible
  <2> QED BY <2>2, <2>3
<1>4. TypeOK'
  BY <1>1, <1>2, <1>3 DEF SchedulerInv, TypeOK
<1>5. LeasesFollowJobs'
  <2>1. j \notin Running /\ running = Cardinality(Running)
    BY <1>1 DEF Queued, Running, SchedulerInv, LeasesFollowJobs
  <2>2. Cardinality(Running') = Cardinality(Running) + 1
    BY <1>2, <2>1, RunningIsFinite, FS_AddElement
  <2>3. held' \cap Jobs = {i \in Jobs \ FreeJobs : state'[i] = "running"}
    <3>1. held \cap Jobs = Running \ FreeJobs
      BY DEF SchedulerInv, LeasesFollowJobs, Running
    <3>2. held' \cap Jobs = Running' \ FreeJobs
      BY <1>2, <1>3, <3>1
    <3> QED BY <3>2 DEF Running
  <2>4. running' <= MaxConcurrent
    BY <1>1, SchedulerAssumption DEF SchedulerInv, TypeOK
  <2> QED BY <1>1, <1>3, <2>1, <2>2, <2>3, <2>4 DEF LeasesFollowJobs, Running
<1> QED BY <1>1, <1>4, <1>5 DEF SchedulerInv, NoLostWakeup

LEMMA DropStaleKeeps ==
  ASSUME SchedulerInv, NEW j \in Jobs, DropStale(j)
  PROVE  SchedulerInv'
<1>1. /\ Leave({j}, "stale") /\ pumping /\ j \in Queued
      /\ UNCHANGED <<held, used, memoryUsed, submitted, stale, running, pumping, cacheBytes, relief, shrunk>>
  BY DEF DropStale, Picked, Queued, ledger
<1>2. /\ state' \in [Jobs -> {"new", "queued", "running"} \cup Settled]
      /\ DOMAIN queue' = Queued' /\ \A i \in Queued' : queue'[i] \in Entries
      /\ Running' = Running
  BY <1>1, LeaveKeeps DEF SchedulerInv, Settled
<1>3. TypeOK'
  BY <1>1, <1>2 DEF SchedulerInv, TypeOK, LedgerType
<1>4. LeasesFollowJobs'
  BY <1>1, <1>2, LeasesStay DEF SchedulerInv
<1> QED BY <1>1, <1>3, <1>4 DEF SchedulerInv, NoLostWakeup

LEMMA SettleKeeps ==
  ASSUME SchedulerInv, NEW j \in Jobs, NEW how \in Settled, Settle(j, how)
  PROVE  SchedulerInv'
<1>1. /\ state' = [state EXCEPT ![j] = how] /\ state[j] = "running" /\ running' = running - 1
      /\ GiveBack(j) /\ pumping' = TRUE
      /\ UNCHANGED <<queue, submitted, stale, cacheBytes, relief, shrunk>>
  BY DEF Settle
<1>2. state' \in [Jobs -> {"new", "queued", "running"} \cup Settled]
      /\ \A i \in Jobs : state'[i] = IF i = j THEN how ELSE state[i]
  BY <1>1 DEF SchedulerInv, TypeOK
<1>3. Queued' = Queued /\ Running' = Running \ {j} /\ j \in Running
  BY <1>1, <1>2 DEF Queued, Running, Settled
<1>4. LedgerType' /\ held' = held \ {j} /\ \A c \in Classes : used'[c] <= Slots[c]
  BY <1>1, GiveBackKeeps, JobsAndRequests DEF SchedulerInv, TypeOK, LeasesFollowJobs
<1>5. running = Cardinality(Running) /\ Cardinality(Running') = Cardinality(Running) - 1
      /\ Cardinality(Running') \in Nat
  <2>1. running = Cardinality(Running)
    BY DEF SchedulerInv, LeasesFollowJobs, Running
  <2>2. IsFiniteSet(Running \ {j})
    BY RunningIsFinite, FS_RemoveElement
  <2> QED BY <1>3, <2>1, <2>2, RunningIsFinite, FS_RemoveElement, FS_CardinalityType
<1>6. TypeOK'
  BY <1>1, <1>2, <1>3, <1>4, <1>5 DEF SchedulerInv, TypeOK
<1>7. LeasesFollowJobs'
  <2>1. held' \cap Jobs = {i \in Jobs \ FreeJobs : state'[i] = "running"}
    <3>1. held \cap Jobs = Running \ FreeJobs
      BY DEF SchedulerInv, LeasesFollowJobs, Running
    <3>2. held' \cap Jobs = Running' \ FreeJobs
      BY <1>3, <1>4, <3>1
    <3> QED BY <3>2 DEF Running
  <2>2. running' <= MaxConcurrent
    BY <1>1, SchedulerAssumption DEF SchedulerInv, TypeOK, LeasesFollowJobs
  <2> QED BY <1>1, <1>4, <1>5, <2>1, <2>2 DEF LeasesFollowJobs, Running
<1> QED BY <1>1, <1>6, <1>7 DEF SchedulerInv, NoLostWakeup

-----------------------------------------------------------------------------
(* The caches, the relief and the residents. *)

\* Memory counted for the caches: shrunk is set when it comes back.
LEMMA CountedKeeps ==
  ASSUME SchedulerInv, ~pumping, NEW delta \in Int, CountCacheBytes(delta),
         shrunk' \in BOOLEAN, memoryUsed' < memoryUsed \/ shrunk => shrunk',
         cacheBytes' \in [Caches -> Nat], relief' \in 0 .. Len(Ladder) + 1,
         UNCHANGED <<jobVars, pumping>>
  PROVE  SchedulerInv'
<1>1. LedgerType' /\ UNCHANGED <<held, used>> /\ memoryUsed \in Nat /\ memoryUsed' \in Nat
      /\ (memoryUsed' >= memoryUsed \/ memoryUsed' < memoryUsed)
  BY CountKeeps DEF SchedulerInv, TypeOK, LedgerType
<1>2. TypeOK' /\ Queued' = Queued /\ Running' = Running
  <2>1. pumping' \in BOOLEAN
    BY DEF SchedulerInv, TypeOK
  <2> QED BY <1>1, <2>1, SameJobs DEF SchedulerInv
<1>3. LeasesFollowJobs'
  BY <1>1, <1>2, LeasesStay DEF SchedulerInv, jobVars
<1>4. NoLostWakeup'
  <2>1. CASE shrunk'
    BY <2>1 DEF NoLostWakeup
  <2>2. CASE ~shrunk'
    <3>1. memoryUsed' >= memoryUsed /\ ~shrunk
      BY <1>1, <2>2
    <3>2. \A c \in Classes : used'[c] >= used[c]
      BY <1>1 DEF LedgerType
    <3> QED BY <1>1, <1>2, <3>1, <3>2, StaysAwake DEF SchedulerInv, TypeOK, jobVars
  <2> QED BY <2>1, <2>2
<1> QED BY <1>2, <1>3, <1>4 DEF SchedulerInv

LEMMA ChangeCacheKeeps ==
  ASSUME SchedulerInv, NEW c \in Caches, NEW n \in CacheSizes[c], ChangeCache(c, n)
  PROVE  SchedulerInv'
<1> DEFINE filled == [cacheBytes EXCEPT ![c] = n]
<1>1. /\ n \in Nat /\ cacheBytes \in [Caches -> Nat] /\ "previews" \in Caches
      /\ memoryUsed \in Nat /\ relief \in 0 .. Len(Ladder) + 1 /\ shrunk \in BOOLEAN
  BY SchedulerAssumption DEF SchedulerInv, TypeOK, LedgerType, TrimmedWhole
<1>2. filled \in [Caches -> Nat] /\ [filled EXCEPT !["previews"] = 0] \in [Caches -> Nat]
      /\ filled["previews"] \in Nat
  BY <1>1
<1>3. /\ ~pumping /\ UNCHANGED <<jobVars, pumping>> /\ shrunk' = (shrunk \/ memoryUsed' < memoryUsed)
      /\ \/ /\ cacheBytes' = [filled EXCEPT !["previews"] = 0] /\ relief' = 2
            /\ CountCacheBytes(n - cacheBytes[c] - filled["previews"])
         \/ /\ cacheBytes' = filled /\ UNCHANGED relief
            /\ CountCacheBytes(n - cacheBytes[c])
  BY DEF ChangeCache
<1> HIDE DEF filled
<1>4. /\ n - cacheBytes[c] \in Int /\ n - cacheBytes[c] - filled["previews"] \in Int
      /\ cacheBytes' \in [Caches -> Nat] /\ relief' \in 0 .. Len(Ladder) + 1
  <2>1. cacheBytes[c] \in Nat /\ n \in Int
    BY <1>1
  <2>2. n - cacheBytes[c] \in Int
    BY <2>1
  <2>3. n - cacheBytes[c] - filled["previews"] \in Int
    BY <1>2, <2>2
  <2>4. cacheBytes' \in [Caches -> Nat]
    BY <1>2, <1>3
  <2>5. relief' \in 0 .. Len(Ladder) + 1
    BY <1>1, <1>3, RungsAreTyped
  <2> QED BY <2>2, <2>3, <2>4, <2>5
<1>5. shrunk' \in BOOLEAN /\ (memoryUsed' < memoryUsed \/ shrunk => shrunk')
  BY <1>1, <1>3, Zenon
<1> QED BY <1>3, <1>4, <1>5, CountedKeeps

LEMMA ReliefKeeps ==
  ASSUME SchedulerInv, Relief
  PROVE  SchedulerInv'
<1>0. /\ cacheBytes \in [Caches -> Nat] /\ memoryUsed \in Nat /\ shrunk \in BOOLEAN
  BY DEF SchedulerInv, TypeOK, LedgerType
<1>1. ASSUME NEW c \in Caches, TrimCache(c) PROVE SchedulerInv'
  <2>1. PICK kept \in CacheSizes[c] :
            /\ cacheBytes' = [cacheBytes EXCEPT ![c] = kept]
            /\ CountCacheBytes(kept - cacheBytes[c])
            /\ shrunk' = (shrunk \/ memoryUsed' < memoryUsed)
    BY <1>1 DEF TrimCache
  <2>2. /\ ~pumping /\ UNCHANGED <<jobVars, pumping>> /\ relief' = relief + 1
        /\ relief \in 1 .. Len(Ladder)
    BY <1>1 DEF TrimCache
  <2>3. /\ kept \in Nat /\ kept - cacheBytes[c] \in Int /\ cacheBytes' \in [Caches -> Nat]
        /\ relief' \in 0 .. Len(Ladder) + 1
    BY <1>0, <2>1, <2>2, SchedulerAssumption, RungsAreTyped
  <2>4. shrunk' \in BOOLEAN /\ (memoryUsed' < memoryUsed \/ shrunk => shrunk')
    BY <1>0, <2>1, Zenon
  <2> QED BY <2>1, <2>2, <2>3, <2>4, CountedKeeps
<1>2. CASE TrimResidents \/ ReliefEnds
  <2>1. /\ UNCHANGED <<held, used, memoryUsed, state, queue, submitted, stale, running,
                       pumping, cacheBytes, shrunk>>
        /\ relief' \in 0 .. Len(Ladder) + 1
    BY <1>2, RungsAreTyped DEF TrimResidents, ReliefEnds, ledger, jobVars
  <2>2. TypeOK' /\ LeasesFollowJobs'
    BY <2>1 DEF SchedulerInv, TypeOK, LedgerType, Queued, LeasesFollowJobs
  <2>3. NoLostWakeup'
    BY <2>1 DEF SchedulerInv, NoLostWakeup, Queued, Admissible, Fits
  <2> QED BY <2>2, <2>3 DEF SchedulerInv
<1> QED BY <1>1, <1>2 DEF Relief

LEMMA ResidentsKeep ==
  ASSUME SchedulerInv, NEW r \in Residents,
         AcquireResident(r) \/ RefuseResident(r) \/ EvictResident(r)
  PROVE  SchedulerInv'
<1>0. /\ r \in Holders /\ r \notin Jobs /\ LedgerType /\ (\A c \in Classes : used[c] <= Slots[c])
      /\ pumping \in BOOLEAN /\ shrunk \in BOOLEAN /\ cacheBytes \in [Caches -> Nat]
      /\ relief \in 0 .. Len(Ladder) + 1 /\ "previews" \in Caches
  BY JobsAndRequests, SchedulerAssumption DEF SchedulerInv, TypeOK, LeasesFollowJobs, TrimmedWhole
<1>1. CASE AcquireResident(r)
  <2>1. Fits(r) /\ Take(r) /\ UNCHANGED <<jobVars, pumping, cacheBytes, relief, shrunk>>
    BY <1>1 DEF AcquireResident
  <2>2. LedgerType' /\ held' = held \cup {r} /\ memoryUsed' >= memoryUsed
        /\ \A c \in Classes : used'[c] >= used[c] /\ used'[c] <= Slots[c]
    BY <1>0, <2>1, TakeKeeps
  <2>3. TypeOK' /\ Queued' = Queued /\ Running' = Running
    BY <1>0, <2>1, <2>2, SameJobs DEF SchedulerInv
  <2>4. LeasesFollowJobs'
    BY <1>0, <2>1, <2>2, <2>3 DEF SchedulerInv, LeasesFollowJobs, jobVars
  <2>5. NoLostWakeup'
    BY <1>0, <2>1, <2>2, <2>3, StaysAwake DEF SchedulerInv, jobVars
  <2> QED BY <2>3, <2>4, <2>5 DEF SchedulerInv
<1>2. CASE RefuseResident(r)
  <2>1. /\ ~pumping /\ cacheBytes' = [cacheBytes EXCEPT !["previews"] = 0]
        /\ CountCacheBytes(-cacheBytes["previews"]) /\ relief' = 2
        /\ shrunk' = (shrunk \/ cacheBytes["previews"] > 0)
        /\ UNCHANGED <<jobVars, pumping>>
    BY <1>2 DEF RefuseResident
  <2>2. /\ -cacheBytes["previews"] \in Int /\ cacheBytes' \in [Caches -> Nat]
        /\ relief' \in 0 .. Len(Ladder) + 1 /\ shrunk' \in BOOLEAN
    BY <1>0, <2>1, RungsAreTyped
  <2>3. memoryUsed' < memoryUsed \/ shrunk => shrunk'
    <3>1. cacheBytes["previews"] \in Nat /\ memoryUsed \in Nat
      BY <1>0 DEF LedgerType
    <3>2. memoryUsed' < memoryUsed => cacheBytes["previews"] > 0
      BY <2>1, <3>1 DEF CountCacheBytes, AtLeastZero
    <3> QED BY <1>0, <2>1, <3>2, Zenon
  <2> QED BY <2>1, <2>2, <2>3, CountedKeeps
<1>3. CASE EvictResident(r)
  <2>1. GiveBack(r) /\ pumping' = TRUE /\ UNCHANGED <<jobVars, cacheBytes, relief, shrunk>>
    BY <1>3 DEF EvictResident
  <2>2. LedgerType' /\ held' = held \ {r} /\ \A c \in Classes : used'[c] <= Slots[c]
    BY <1>0, <2>1, GiveBackKeeps
  <2>3. TypeOK' /\ Queued' = Queued /\ Running' = Running
    BY <1>0, <2>1, <2>2, SameJobs DEF SchedulerInv
  <2>4. LeasesFollowJobs'
    BY <1>0, <2>1, <2>2, <2>3 DEF SchedulerInv, LeasesFollowJobs, jobVars
  <2> QED BY <2>1, <2>3, <2>4 DEF SchedulerInv, NoLostWakeup
<1> QED BY <1>1, <1>2, <1>3

-----------------------------------------------------------------------------
LEMMA QuietKeeps ==
  ASSUME SchedulerInv, PumpReturns \/ (\E j \in Jobs : GoStale(j)) \/ UNCHANGED vars
  PROVE  SchedulerInv'
<1>1. /\ UNCHANGED <<held, used, memoryUsed, state, queue, submitted, running, cacheBytes, relief>>
      /\ stale' \subseteq Tracked /\ pumping' \in BOOLEAN /\ shrunk' \in BOOLEAN
  BY DEF PumpReturns, GoStale, vars, ledger, jobVars, SchedulerInv, TypeOK
<1>2. TypeOK' /\ LeasesFollowJobs'
  BY <1>1 DEF SchedulerInv, TypeOK, LedgerType, Queued, LeasesFollowJobs
<1>3. NoLostWakeup'
  <2>1. CASE PumpReturns
    BY <1>1, <2>1 DEF PumpReturns, NoLostWakeup, Queued, Admissible, Fits
  <2>2. CASE (\E j \in Jobs : GoStale(j)) \/ UNCHANGED vars
    <3>1. UNCHANGED <<pumping, shrunk>>
      BY <2>2 DEF GoStale, vars
    <3> QED BY <1>1, <3>1 DEF SchedulerInv, NoLostWakeup, Queued, Admissible, Fits
  <2> QED BY <2>1, <2>2
<1> QED BY <1>2, <1>3 DEF SchedulerInv

LEMMA SchedulerNext ==
  SchedulerInv /\ [Next]_vars => SchedulerInv'
<1> SUFFICES ASSUME SchedulerInv, [Next]_vars PROVE SchedulerInv'
  OBVIOUS
<1>1. ASSUME NEW j \in Jobs, NEW p \in Priorities, Submit(j, p) \/ Promote(j, p) PROVE SchedulerInv'
  BY <1>1, SubmitKeeps, PromoteKeeps
<1>2. ASSUME NEW j \in Jobs, Cancel(j) PROVE SchedulerInv'
  <2>1. {j} \in SUBSET Queued
    BY <1>2 DEF Cancel, Queued
  <2> QED BY <1>2, <2>1, CancelsKeep DEF Cancel
<1>3. CASE CancelSuperseded
  BY <1>3, CancelsKeep DEF CancelSuperseded
<1>4. ASSUME NEW j \in Jobs, Finish(j) \/ Fail(j) PROVE SchedulerInv'
  BY <1>4, SettleKeeps DEF Finish, Fail, Settled
<1>5. ASSUME NEW j \in Jobs, Start(j) \/ DropStale(j) PROVE SchedulerInv'
  BY <1>5, StartKeeps, DropStaleKeeps
<1>6. ASSUME NEW c \in Caches, NEW n \in CacheSizes[c], ChangeCache(c, n) PROVE SchedulerInv'
  BY <1>6, ChangeCacheKeeps
<1>7. CASE Relief
  BY <1>7, ReliefKeeps
<1>8. ASSUME NEW r \in Residents, AcquireResident(r) \/ RefuseResident(r) \/ EvictResident(r)
      PROVE SchedulerInv'
  BY <1>8, ResidentsKeep
<1>9. CASE PumpReturns \/ (\E j \in Jobs : GoStale(j)) \/ UNCHANGED vars
  BY <1>9, QuietKeeps
<1> QED BY <1>1, <1>2, <1>3, <1>4, <1>5, <1>6, <1>7, <1>8, <1>9 DEF Next, Pump

-----------------------------------------------------------------------------
(* The counters of the ledger are sums. *)

\* The units of everybody but x.
Rest(f, x) == UNION {{y} \X (1 .. f[y]) : y \in DOMAIN f \ {x}}

At(f, x) == IF x \in DOMAIN f THEN f[x] ELSE 0

LEMMA TotalAt ==
  ASSUME NEW f, NEW x, At(f, x) \in Nat
  PROVE  /\ IsFiniteSet(Units(f)) <=> IsFiniteSet(Rest(f, x))
         /\ IsFiniteSet(Units(f)) => /\ Total(f) = Cardinality(Rest(f, x)) + At(f, x)
                                     /\ Cardinality(Rest(f, x)) \in Nat
<1>1. CASE x \notin DOMAIN f
  <2>1. Units(f) = Rest(f, x) /\ At(f, x) = 0
    BY <1>1 DEF Units, Rest, At
  <2> QED BY <2>1, FS_CardinalityType DEF Total
<1>2. CASE x \in DOMAIN f
  <2> DEFINE own == {x} \X (1 .. f[x])
  <2>1. Units(f) = Rest(f, x) \cup own /\ Rest(f, x) \cap own = {}
    BY <1>2 DEF Units, Rest
  <2>2. IsFiniteSet(own) /\ Cardinality(own) = f[x] /\ At(f, x) = f[x]
    <3>1. f[x] \in Nat /\ At(f, x) = f[x]
      BY <1>2 DEF At
    <3>2. IsFiniteSet(1 .. f[x]) /\ Cardinality(1 .. f[x]) = f[x]
      BY SMTT(30), <3>1, FS_Interval
    <3>3. IsFiniteSet({x}) /\ Cardinality({x}) = 1
      BY FS_Singleton
    <3>4. IsFiniteSet(own) /\ Cardinality(own) = Cardinality({x}) * Cardinality(1 .. f[x])
      BY <3>2, <3>3, FS_Product
    <3>5. Cardinality(own) = 1 * f[x]
      BY <3>2, <3>3, <3>4
    <3> QED BY <3>1, <3>4, <3>5
  <2> HIDE DEF own
  <2>3. IsFiniteSet(Units(f)) => IsFiniteSet(Rest(f, x))
    BY <2>1, FS_Subset
  <2>4. ASSUME IsFiniteSet(Rest(f, x))
        PROVE  /\ IsFiniteSet(Units(f)) /\ Total(f) = Cardinality(Rest(f, x)) + f[x]
               /\ Cardinality(Rest(f, x)) \in Nat
    <3>1. IsFiniteSet(Units(f)) /\ Total(f) = Cardinality(Rest(f, x)) + Cardinality(own) - Cardinality({})
      BY <2>1, <2>2, <2>4, FS_Union DEF Total
    <3>2. Cardinality({}) = 0 /\ Cardinality(Rest(f, x)) \in Nat /\ f[x] \in Nat
      BY <1>2, <2>4, FS_EmptySet, FS_CardinalityType DEF At
    <3> QED BY <2>2, <3>1, <3>2
  <2> QED BY <2>2, <2>3, <2>4
<1> QED BY <1>1, <1>2

\* A change at one place changes the sum by as much.
LEMMA TotalChanges ==
  ASSUME NEW f, NEW g, NEW x, DOMAIN f \ {x} = DOMAIN g \ {x}, \A y \in DOMAIN f \ {x} : f[y] = g[y],
         At(f, x) \in Nat, At(g, x) \in Nat, IsFiniteSet(Units(f))
  PROVE  /\ IsFiniteSet(Units(g)) /\ Total(f) \in Nat /\ Total(g) \in Nat
         /\ Total(g) = Total(f) - At(f, x) + At(g, x) /\ At(f, x) <= Total(f)
<1>1. Rest(f, x) = Rest(g, x)
  BY DEF Rest
<1>2. IsFiniteSet(Units(g))
  BY <1>1, TotalAt
<1>3. /\ Total(f) = Cardinality(Rest(f, x)) + At(f, x) /\ Total(g) = Cardinality(Rest(f, x)) + At(g, x)
      /\ Cardinality(Rest(f, x)) \in Nat
  BY <1>1, <1>2, TotalAt
<1> QED BY <1>2, <1>3

FiniteLedger ==
    /\ IsFiniteSet(Units(Reserved)) /\ IsFiniteSet(Units(cacheBytes))
    /\ \A c \in Classes : IsFiniteSet(Units(Taken(c)))

CountersExact ==
    /\ FiniteLedger
    /\ memoryUsed = Total(Reserved) + Total(cacheBytes)
    /\ \A c \in Classes : used[c] = Total(Taken(c))

LEMMA CountersInit == Init => CountersExact
<1> SUFFICES ASSUME Init PROVE CountersExact
  OBVIOUS
<1>1. /\ held = {} /\ memoryUsed = 0 /\ (\A c \in Classes : used[c] = 0)
      /\ cacheBytes = [c \in Caches |-> 0]
  BY DEF Init, LedgerInit
<1>2. Units(Reserved) = {} /\ \A c \in Classes : Units(Taken(c)) = {}
  BY <1>1 DEF Units, Reserved, Taken
<1>3. Units(cacheBytes) = {}
  BY <1>1 DEF Units
<1> QED BY <1>1, <1>2, <1>3, FS_EmptySet DEF CountersExact, FiniteLedger, Total

LEMMA CountersStay ==
  ASSUME CountersExact, UNCHANGED <<held, used, memoryUsed, cacheBytes>>
  PROVE  CountersExact'
BY DEF CountersExact, FiniteLedger, Reserved, Taken

LEMMA TakeCounts ==
  ASSUME CountersExact, NEW h \in Holders, h \notin held, Take(h), UNCHANGED cacheBytes
  PROVE  CountersExact'
<1>1. /\ held' = held \cup {h} /\ memoryUsed' = memoryUsed + Request[h].bytes
      /\ \A c \in Classes : used'[c] = used[c] + Request[h].classes[c]
  BY DEF Take
<1>2. Request[h].bytes \in Nat /\ \A c \in Classes : Request[h].classes[c] \in Nat
  BY JobsAndRequests
<1>3. /\ IsFiniteSet(Units(Reserved')) /\ Total(Reserved') = Total(Reserved) + Request[h].bytes
      /\ Total(Reserved) \in Nat
  <2>1. /\ At(Reserved, h) = 0 /\ At(Reserved', h) = Request[h].bytes
        /\ DOMAIN Reserved \ {h} = DOMAIN Reserved' \ {h}
        /\ \A y \in DOMAIN Reserved \ {h} : Reserved[y] = Reserved'[y]
    BY <1>1 DEF Reserved, At
  <2> QED BY <1>2, <2>1, TotalChanges DEF CountersExact, FiniteLedger
<1>4. ASSUME NEW c \in Classes
      PROVE  /\ IsFiniteSet(Units(Taken(c)')) /\ Total(Taken(c)') = Total(Taken(c)) + Request[h].classes[c]
  <2>1. /\ At(Taken(c), h) = 0 /\ At(Taken(c)', h) = Request[h].classes[c]
        /\ DOMAIN Taken(c) \ {h} = DOMAIN Taken(c)' \ {h}
        /\ \A y \in DOMAIN Taken(c) \ {h} : Taken(c)[y] = Taken(c)'[y]
    BY <1>1 DEF Taken, At
  <2> QED BY <1>2, <2>1, TotalChanges DEF CountersExact, FiniteLedger
<1>5. Total(cacheBytes) \in Nat
  BY FS_CardinalityType DEF CountersExact, FiniteLedger, Total
<1>6. memoryUsed' = Total(Reserved') + Total(cacheBytes)
  BY <1>1, <1>2, <1>3, <1>5 DEF CountersExact
<1>7. \A c \in Classes : used'[c] = Total(Taken(c)')
  BY <1>1, <1>4 DEF CountersExact
<1> QED BY <1>3, <1>4, <1>6, <1>7 DEF CountersExact, FiniteLedger, Total, Units

LEMMA GiveBackCounts ==
  ASSUME CountersExact, NEW h \in Holders, GiveBack(h), UNCHANGED cacheBytes
  PROVE  CountersExact'
<1>1. CASE h \notin held
  BY <1>1, CountersStay DEF GiveBack, ledger
<1>2. CASE h \in held
  <2>1. /\ held' = held \ {h} /\ memoryUsed' = AtLeastZero(memoryUsed - Request[h].bytes)
        /\ \A c \in Classes : used'[c] = AtLeastZero(used[c] - Request[h].classes[c])
    BY <1>2 DEF GiveBack
  <2>2. Request[h].bytes \in Nat /\ \A c \in Classes : Request[h].classes[c] \in Nat
    BY JobsAndRequests
  <2>3. /\ IsFiniteSet(Units(Reserved')) /\ Total(Reserved') = Total(Reserved) - Request[h].bytes
        /\ Total(Reserved) \in Nat /\ Request[h].bytes <= Total(Reserved)
    <3>1. /\ At(Reserved, h) = Request[h].bytes /\ At(Reserved', h) = 0
          /\ DOMAIN Reserved \ {h} = DOMAIN Reserved' \ {h}
          /\ \A y \in DOMAIN Reserved \ {h} : Reserved[y] = Reserved'[y]
      BY <1>2, <2>1 DEF Reserved, At
    <3> QED BY <2>2, <3>1, TotalChanges DEF CountersExact, FiniteLedger
  <2>4. ASSUME NEW c \in Classes
        PROVE  /\ IsFiniteSet(Units(Taken(c)')) /\ Total(Taken(c)') = Total(Taken(c)) - Request[h].classes[c]
               /\ Total(Taken(c)) \in Nat /\ Request[h].classes[c] <= Total(Taken(c))
    <3>1. /\ At(Taken(c), h) = Request[h].classes[c] /\ At(Taken(c)', h) = 0
          /\ DOMAIN Taken(c) \ {h} = DOMAIN Taken(c)' \ {h}
          /\ \A y \in DOMAIN Taken(c) \ {h} : Taken(c)[y] = Taken(c)'[y]
      BY <1>2, <2>1 DEF Taken, At
    <3> QED BY <2>2, <3>1, TotalChanges DEF CountersExact, FiniteLedger
  <2>5. Total(cacheBytes) \in Nat
    BY FS_CardinalityType DEF CountersExact, FiniteLedger, Total
  <2>6. memoryUsed' = Total(Reserved') + Total(cacheBytes)
    BY <2>1, <2>2, <2>3, <2>5 DEF CountersExact, AtLeastZero
  <2>7. \A c \in Classes : used'[c] = Total(Taken(c)')
    BY <2>1, <2>2, <2>4 DEF CountersExact, AtLeastZero
  <2> QED BY <2>3, <2>4, <2>6, <2>7 DEF CountersExact, FiniteLedger, Total, Units
<1> QED BY <1>1, <1>2

LEMMA CacheCounts ==
  ASSUME CountersExact, NEW delta \in Int, CountCacheBytes(delta),
         IsFiniteSet(Units(cacheBytes')), Total(cacheBytes') = Total(cacheBytes) + delta
  PROVE  CountersExact'
<1>1. /\ Total(cacheBytes) \in Nat /\ Total(cacheBytes') \in Nat /\ Total(Reserved) \in Nat
  BY FS_CardinalityType DEF CountersExact, FiniteLedger, Total
<1>2. memoryUsed' = Total(Reserved) + Total(cacheBytes')
  BY <1>1 DEF CountersExact, CountCacheBytes, AtLeastZero
<1>3. Reserved' = Reserved /\ used' = used /\ \A c \in Classes : Taken(c)' = Taken(c)
  BY DEF CountCacheBytes, Reserved, Taken
<1> QED BY <1>2, <1>3 DEF CountersExact, FiniteLedger, Total, Units

LEMMA CacheChanges ==
  ASSUME NEW f \in [Caches -> Nat], NEW c \in Caches, NEW n \in Nat, IsFiniteSet(Units(f))
  PROVE  /\ IsFiniteSet(Units([f EXCEPT ![c] = n])) /\ [f EXCEPT ![c] = n] \in [Caches -> Nat]
         /\ Total([f EXCEPT ![c] = n]) = Total(f) + (n - f[c])
         /\ Total(f) \in Nat
<1> DEFINE g == [f EXCEPT ![c] = n]
<1>1. /\ g \in [Caches -> Nat] /\ DOMAIN f = Caches /\ f[c] \in Nat
      /\ At(f, c) = f[c] /\ At(g, c) = n
      /\ DOMAIN f \ {c} = DOMAIN g \ {c} /\ \A y \in DOMAIN f \ {c} : f[y] = g[y]
  BY DEF At
<1> HIDE DEF g
<1>2. /\ IsFiniteSet(Units(g)) /\ Total(f) \in Nat /\ Total(g) = Total(f) - At(f, c) + At(g, c)
  BY <1>1, TotalChanges
<1> QED BY <1>1, <1>2 DEF g

LEMMA CountersNext ==
  ASSUME SchedulerInv, CountersExact, [Next]_vars
  PROVE  CountersExact'
<1>0. /\ cacheBytes \in [Caches -> Nat] /\ IsFiniteSet(Units(cacheBytes)) /\ "previews" \in Caches
      /\ \A c \in Caches : CacheSizes[c] \subseteq Nat
  BY SchedulerAssumption DEF SchedulerInv, TypeOK, CountersExact, FiniteLedger, TrimmedWhole
<1>1. ASSUME NEW j \in Jobs, Start(j) PROVE CountersExact'
  <2>1. j \notin held /\ j \in Holders
    BY <1>1, JobsAndRequests DEF Start, Picked, SchedulerInv, LeasesFollowJobs
  <2> QED BY <1>1, <2>1, CountersStay, TakeCounts DEF Start, ledger
<1>2. ASSUME NEW j \in Jobs, Finish(j) \/ Fail(j) PROVE CountersExact'
  BY <1>2, JobsAndRequests, GiveBackCounts DEF Finish, Fail, Settle
<1>3. ASSUME NEW r \in Residents, AcquireResident(r) \/ EvictResident(r) PROVE CountersExact'
  BY <1>3, JobsAndRequests, TakeCounts, GiveBackCounts DEF AcquireResident, EvictResident
<1>4. ASSUME NEW r \in Residents, RefuseResident(r) PROVE CountersExact'
  <2>1. /\ cacheBytes' = [cacheBytes EXCEPT !["previews"] = 0]
        /\ CountCacheBytes(-cacheBytes["previews"])
    BY <1>4 DEF RefuseResident
  <2>2. /\ IsFiniteSet(Units(cacheBytes')) /\ Total(cacheBytes') = Total(cacheBytes) + (0 - cacheBytes["previews"])
    BY <1>0, <2>1, CacheChanges
  <2>3. -cacheBytes["previews"] \in Int /\ 0 - cacheBytes["previews"] = -cacheBytes["previews"]
    BY <1>0
  <2> QED BY <2>1, <2>2, <2>3, CacheCounts
<1>5. ASSUME NEW c \in Caches, TrimCache(c) PROVE CountersExact'
  <2>1. PICK kept \in CacheSizes[c] : /\ cacheBytes' = [cacheBytes EXCEPT ![c] = kept]
                                      /\ CountCacheBytes(kept - cacheBytes[c])
    BY <1>5 DEF TrimCache
  <2>2. kept \in Nat /\ kept - cacheBytes[c] \in Int
    BY <1>0
  <2>3. /\ IsFiniteSet(Units(cacheBytes')) /\ Total(cacheBytes') = Total(cacheBytes) + (kept - cacheBytes[c])
    BY <1>0, <2>1, <2>2, CacheChanges
  <2> QED BY <2>1, <2>2, <2>3, CacheCounts
<1>6. ASSUME NEW c \in Caches, NEW n \in CacheSizes[c], ChangeCache(c, n) PROVE CountersExact'
  <2> DEFINE filled == [cacheBytes EXCEPT ![c] = n]
             cleared == [filled EXCEPT !["previews"] = 0]
  <2>1. \/ cacheBytes' = cleared /\ CountCacheBytes(n - cacheBytes[c] - filled["previews"])
        \/ cacheBytes' = filled /\ CountCacheBytes(n - cacheBytes[c])
    BY <1>6 DEF ChangeCache
  <2>2. n \in Nat /\ cacheBytes[c] \in Nat
    BY <1>0
  <2>3. /\ IsFiniteSet(Units(filled)) /\ filled \in [Caches -> Nat]
        /\ Total(filled) = Total(cacheBytes) + (n - cacheBytes[c]) /\ Total(cacheBytes) \in Nat
    BY <1>0, <2>2, CacheChanges
  <2> HIDE DEF filled
  <2>4. IsFiniteSet(Units(cleared)) /\ Total(cleared) = Total(filled) + (0 - filled["previews"])
    BY <1>0, <2>3, CacheChanges
  <2> HIDE DEF cleared
  <2>5. /\ n - cacheBytes[c] \in Int /\ n - cacheBytes[c] - filled["previews"] \in Int
        /\ Total(cleared) = Total(cacheBytes) + (n - cacheBytes[c] - filled["previews"])
    <3>1. filled["previews"] \in Nat
      BY <1>0, <2>3
    <3> QED BY <2>2, <2>3, <2>4, <3>1
  <2>6. CASE cacheBytes' = cleared /\ CountCacheBytes(n - cacheBytes[c] - filled["previews"])
    BY <2>4, <2>5, <2>6, CacheCounts
  <2>7. CASE cacheBytes' = filled /\ CountCacheBytes(n - cacheBytes[c])
    BY <2>3, <2>5, <2>7, CacheCounts
  <2> QED BY <2>1, <2>6, <2>7
<1>7. CASE TrimResidents \/ ReliefEnds \/ PumpReturns \/ CancelSuperseded \/ UNCHANGED vars
  BY <1>7, CountersStay DEF TrimResidents, ReliefEnds, PumpReturns, CancelSuperseded, vars, ledger
<1>8. ASSUME NEW j \in Jobs, Cancel(j) \/ GoStale(j) \/ DropStale(j) PROVE CountersExact'
  BY <1>8, CountersStay DEF Cancel, GoStale, DropStale, ledger
<1>9. ASSUME NEW j \in Jobs, NEW p \in Priorities, Submit(j, p) \/ Promote(j, p) PROVE CountersExact'
  BY <1>9, CountersStay DEF Submit, Promote, ledger
<1> QED BY <1>1, <1>2, <1>3, <1>4, <1>5, <1>6, <1>7, <1>8, <1>9 DEF Next, Pump, Relief

\* Types, leases and wake-ups together are inductive.
THEOREM SchedulerInvariant == Spec => []SchedulerInv
BY SchedulerInit, SchedulerNext, PTL DEF Spec

\* Every reachable state of the scheduler and the ledger is well typed: entries and
\* queue agree, and no counter goes below zero.
THEOREM SchedulerTypeCorrect == Spec => []TypeOK
BY SchedulerInvariant, PTL DEF SchedulerInv

\* The running counter is the number of running jobs, each with its lease and nobody else
\* with one, and no class of the ledger is handed out beyond its slots.
THEOREM LeasesOfRunningJobs == Spec => []LeasesFollowJobs
BY SchedulerInvariant, PTL DEF SchedulerInv

\* The counters of the ledger are the sums of what the live leases reserve and of what the
\* caches hold: no order of starts, ends, trims and evictions leaves anything in them.
THEOREM LedgerOfLeases == Spec => []LedgerIsExact
<1>1. SchedulerInv /\ CountersExact /\ [Next]_vars => (SchedulerInv /\ CountersExact)'
  BY SchedulerNext, CountersNext
<1>2. SchedulerInv /\ CountersExact => LedgerIsExact
  BY DEF SchedulerInv, CountersExact, LedgerIsExact
<1> QED BY SchedulerInit, CountersInit, <1>1, <1>2, PTL DEF Spec

\* While the event loop is idle no queued job could start, unless a cache shrank since the
\* last pump: every other way that frees something ends in a pump.
THEOREM WakeupsAreKept == Spec => []NoLostWakeup
BY SchedulerInvariant, PTL DEF SchedulerInv

=============================================================================
