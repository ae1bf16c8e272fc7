------------------------------ MODULE Scheduler ------------------------------
(***************************************************************************)
(* Scheduler: jobs wait in priority order, start when a running slot and   *)
(* their resources are free, and settle once.  Beside it run the other     *)
(* users of the governor's ledger: the byte-budget caches, the relief that *)
(* trims them under pressure, and the engine residents.                    *)
(*                                                                         *)
(* queue maps every queued job to its priorityIndex and enqueueAt; the     *)
(* order is Before, because the code re-sorts after every insertion and    *)
(* promotion.  enqueueAt is the submission number, as if no two            *)
(* submissions fell into one millisecond.                                  *)
(*                                                                         *)
(* pump() is synchronous: while `pumping` holds nothing but its own steps  *)
(* can happen, one step per iteration of the loop.                         *)
(***************************************************************************)
EXTENDS ResourceGovernor, Sequences

CONSTANTS
    Jobs, Residents,
    FreeJobs,        \* jobs submitted without `resources`
    Tracked,         \* jobs with an identity that can go stale
    Superseded,      \* the jobs that the label given to cancelWhere matches
    Priorities,      \* 1..n, 1 is INTERACTIVE
    MaxConcurrent, MaxQueuePerPriority,
    Caches,          \* the byte-budget caches, previews first on the ladder
    CacheSizes       \* CacheSizes[c]: the byte counts cache c takes in the instance

VARIABLES
    state,           \* state[j]: new, queued, running, or how its promise settled
    queue,           \* queue[j]: the entry of a queued job
    submitted,       \* number of submissions so far
    stale,           \* jobs whose identity has been superseded
    running,         \* the counter `running`
    pumping,         \* the re-entrancy guard of pump
    cacheBytes,      \* cacheBytes[c]: bytes held by cache c
    relief,          \* 0, or the rung applyPressureRelief tries next
    shrunk           \* history: memory was given back since the last pump, without one

jobVars == <<state, queue, submitted, stale, running>>
vars == <<ledger, jobVars, pumping, cacheBytes, relief, shrunk>>

\* EVICTION_LADDER as registerTrimTargets fills it; the raster cache is on no rung.
Ladder == <<"previews", "residents", "scans", "contexts">>
TrimmedWhole == {"previews", "scans"}

ASSUME SchedulerAssumption ==
    /\ Holders = Jobs \cup Residents /\ Jobs \cap Residents = {}
    /\ FreeJobs \subseteq Jobs /\ Tracked \subseteq Jobs /\ Superseded \subseteq Jobs
    /\ Priorities \subseteq Nat /\ Priorities # {}
    /\ MaxConcurrent \in Nat \ {0} /\ MaxQueuePerPriority \in Nat \ {0}
    /\ TrimmedWhole \cup {"contexts"} \subseteq Caches
    /\ \A c \in Caches : CacheSizes[c] \subseteq Nat /\ 0 \in CacheSizes[c]

\* A promise resolved with a result, resolved with undefined because the work was
\* stale, or rejected: by an error, a cancellation or backpressure.
Settled == {"resolved", "stale", "rejected"}

Entries == [prio : Priorities, at : Nat]

Queued == {j \in Jobs : state[j] = "queued"}

TypeOK ==
    /\ LedgerType
    /\ state \in [Jobs -> {"new", "queued", "running"} \cup Settled]
    /\ DOMAIN queue = Queued /\ \A j \in Queued : queue[j] \in Entries
    /\ submitted \in Nat
    /\ stale \subseteq Tracked
    /\ running \in Nat
    /\ pumping \in BOOLEAN /\ shrunk \in BOOLEAN
    /\ cacheBytes \in [Caches -> Nat]
    /\ relief \in 0 .. Len(Ladder) + 1

Init ==
    /\ LedgerInit
    /\ state = [j \in Jobs |-> "new"]
    /\ queue = [j \in {} |-> 0]
    /\ submitted = 0
    /\ stale = {}
    /\ running = 0
    /\ pumping = FALSE
    /\ cacheBytes = [c \in Caches |-> 0]
    /\ relief = 0
    /\ shrunk = FALSE

\* The order of the queue: priorityIndex, then enqueueAt.
Before(i, j) ==
    \/ queue[i].prio < queue[j].prio
    \/ queue[i].prio = queue[j].prio /\ queue[i].at < queue[j].at

Lane(p) == {j \in Queued : queue[j].prio = p}

\* The jobs of S leave the queue, with the given state.
Leave(S, how) ==
    /\ state' = [j \in Jobs |-> IF j \in S THEN how ELSE state[j]]
    /\ queue' = Restrict(queue, Queued \ S)

\* Can the pump start j now, a running slot given?
Admissible(j) == j \in FreeJobs \/ Fits(j)

-----------------------------------------------------------------------------
\* submit: a full lane loses its oldest job first; then the pump runs.
Submit(j, p) ==
    LET full == Cardinality(Lane(p)) >= MaxQueuePerPriority
        drop == {i \in Lane(p) : full /\ \A k \in Lane(p) \ {i} : Before(i, k)}
    IN  /\ ~pumping /\ state[j] = "new"
        /\ state' = [i \in Jobs |-> IF i = j THEN "queued"
                                    ELSE IF i \in drop THEN "rejected" ELSE state[i]]
        /\ queue' = [i \in (Queued \ drop) \cup {j} |->
                        IF i = j THEN [prio |-> p, at |-> submitted + 1] ELSE queue[i]]
        /\ submitted' = submitted + 1
        /\ pumping' = TRUE
        /\ UNCHANGED <<ledger, stale, running, cacheBytes, relief, shrunk>>

\* Faulty: the entry stays in the queue.
CancelInPlace(j) ==
    /\ ~pumping /\ state[j] = "queued"
    /\ state' = [state EXCEPT ![j] = "rejected"]
    /\ UNCHANGED <<ledger, queue, submitted, stale, running, pumping, cacheBytes, relief, shrunk>>

\* cancel of a queued job.  On a running one it only raises the signal, which the
\* run may answer with Fail or ignore; a queued job is never signalled, so the
\* pump's branch for it never runs.
Cancel(j) ==
    /\ ~pumping /\ state[j] = "queued"
    /\ Leave({j}, "rejected")
    /\ UNCHANGED <<ledger, submitted, stale, running, pumping, cacheBytes, relief, shrunk>>

\* cancelWhere, with the label of superseded preview work.
CancelSuperseded ==
    /\ ~pumping /\ Superseded \cap Queued # {}
    /\ Leave(Superseded \cap Queued, "rejected")
    /\ UNCHANGED <<ledger, submitted, stale, running, pumping, cacheBytes, relief, shrunk>>

\* promote: upward, queued jobs only; the place in the new lane is that of enqueueAt.
Promote(j, p) ==
    /\ ~pumping /\ state[j] = "queued" /\ p < queue[j].prio
    /\ queue' = [queue EXCEPT ![j].prio = p]
    /\ pumping' = TRUE
    /\ UNCHANGED <<ledger, state, submitted, stale, running, cacheBytes, relief, shrunk>>

\* The job that pumpInner picks.
Picked(j) ==
    /\ pumping /\ running < MaxConcurrent
    /\ state[j] = "queued" /\ Admissible(j)
    /\ \A k \in Queued : Before(k, j) => ~Admissible(k)

\* pumpInner starts a job, lease taken.
Start(j) ==
    /\ Picked(j) /\ j \notin stale
    /\ Leave({j}, "running")
    /\ running' = running + 1
    /\ IF j \in FreeJobs THEN UNCHANGED ledger ELSE Take(j)
    /\ UNCHANGED <<submitted, stale, pumping, cacheBytes, relief, shrunk>>

\* Faulty: bails out without giving back the slots that the pump took.
DropStaleAndKeepSlots(j) ==
    /\ Picked(j) /\ j \in stale
    /\ Leave({j}, "stale")
    /\ used' = [c \in Classes |-> used[c] + IF j \in FreeJobs THEN 0 ELSE Request[j].classes[c]]
    /\ UNCHANGED <<held, memoryUsed, submitted, stale, running, pumping, cacheBytes, relief, shrunk>>

\* execute finds the job stale before it runs: the lease just taken and the slot are
\* given back at once.  The pump that this release asks for is the one under way.
DropStale(j) ==
    /\ Picked(j) /\ j \in stale
    /\ Leave({j}, "stale")
    /\ UNCHANGED <<ledger, submitted, stale, running, pumping, cacheBytes, relief, shrunk>>

\* No job can start: the pump returns.
PumpReturns ==
    /\ pumping
    /\ running >= MaxConcurrent \/ \A j \in Queued : ~Admissible(j)
    /\ pumping' = FALSE /\ shrunk' = FALSE
    /\ UNCHANGED <<ledger, jobVars, cacheBytes, relief>>

\* The end of execute: settle, release, count down, pump.
Settle(j, how) ==
    /\ ~pumping /\ state[j] = "running"
    /\ state' = [state EXCEPT ![j] = how]
    /\ running' = running - 1
    /\ GiveBack(j)
    /\ pumping' = TRUE
    /\ UNCHANGED <<queue, submitted, stale, cacheBytes, relief, shrunk>>

Finish(j) == Settle(j, IF j \in stale THEN "stale" ELSE "resolved")
Fail(j) == Settle(j, "rejected")

\* The session, lease or candidate that the job was submitted for moves on.
GoStale(j) ==
    /\ ~pumping /\ j \in Tracked \ stale /\ state[j] \in {"queued", "running"}
    /\ stale' = stale \cup {j}
    /\ UNCHANGED <<ledger, state, queue, submitted, running, pumping, cacheBytes, relief, shrunk>>

-----------------------------------------------------------------------------
\* applyPressureRelief up to its first await: above normal, it clears the previews.
ReliefStarts(bytes) == relief = 0 /\ LevelOf(used, bytes) # "normal"

\* set, delete or clear of a cache, reported to the governor.  Only a rise out of
\* the normal level starts the relief.
ChangeCache(c, n) ==
    LET after  == memoryUsed + n - cacheBytes[c]
        starts == Pressure = "normal" /\ ReliefStarts(AtLeastZero(after))
        filled == [cacheBytes EXCEPT ![c] = n]
    IN  /\ ~pumping /\ n # cacheBytes[c]
        /\ IF starts
           THEN /\ cacheBytes' = [filled EXCEPT !["previews"] = 0]
                /\ CountCacheBytes(n - cacheBytes[c] - filled["previews"])
                /\ relief' = 2
           ELSE /\ cacheBytes' = filled
                /\ CountCacheBytes(n - cacheBytes[c])
                /\ UNCHANGED relief
        /\ shrunk' = (shrunk \/ memoryUsed' < memoryUsed)
        /\ UNCHANGED <<jobVars, pumping>>

\* One rung of the relief: a whole cache, or the contexts that no lease pins.
TrimCache(c) ==
    /\ ~pumping /\ relief \in 1 .. Len(Ladder) /\ Ladder[relief] = c /\ Pressure # "normal"
    /\ \E kept \in CacheSizes[c] :
        /\ kept <= cacheBytes[c] /\ (c \in TrimmedWhole => kept = 0)
        /\ cacheBytes' = [cacheBytes EXCEPT ![c] = kept]
        /\ CountCacheBytes(kept - cacheBytes[c])
        /\ shrunk' = (shrunk \/ memoryUsed' < memoryUsed)
    /\ relief' = relief + 1
    /\ UNCHANGED <<jobVars, pumping>>

\* The rung of the idle residents: those evicted are separate steps, EvictResident.
TrimResidents ==
    /\ ~pumping /\ relief \in 1 .. Len(Ladder) /\ Ladder[relief] = "residents" /\ Pressure # "normal"
    /\ relief' = relief + 1
    /\ UNCHANGED <<ledger, jobVars, pumping, cacheBytes, shrunk>>

ReliefEnds ==
    /\ ~pumping /\ relief # 0
    /\ Pressure = "normal" \/ relief > Len(Ladder)
    /\ relief' = 0
    /\ UNCHANGED <<ledger, jobVars, pumping, cacheBytes, shrunk>>

\* One attempt of governor.acquire for a resident: the lease, or relief and another
\* attempt later.  (A caller gives up after 200 attempts: it then just stops asking.)
AcquireResident(r) ==
    /\ ~pumping /\ r \notin held /\ Fits(r)
    /\ Take(r)
    /\ UNCHANGED <<jobVars, pumping, cacheBytes, relief, shrunk>>

RefuseResident(r) ==
    /\ ~pumping /\ r \notin held /\ ~Fits(r)
    /\ ReliefStarts(memoryUsed)
    /\ cacheBytes' = [cacheBytes EXCEPT !["previews"] = 0]
    /\ CountCacheBytes(-cacheBytes["previews"])
    /\ relief' = 2
    /\ shrunk' = (shrunk \/ cacheBytes["previews"] > 0)
    /\ UNCHANGED <<jobVars, pumping>>

\* Faulty: a release outside the scheduler does not reach the pump.
EvictSilently(r) ==
    /\ ~pumping /\ r \in held
    /\ GiveBack(r)
    /\ UNCHANGED <<jobVars, pumping, cacheBytes, relief, shrunk>>

\* evict, by the sweeper, the ladder or the agent, or an open that failed.
EvictResident(r) ==
    /\ ~pumping /\ r \in held
    /\ GiveBack(r)
    /\ pumping' = TRUE
    /\ UNCHANGED <<jobVars, cacheBytes, relief, shrunk>>

Relief == (\E c \in Caches : TrimCache(c)) \/ TrimResidents \/ ReliefEnds

Pump == PumpReturns \/ \E j \in Jobs : Start(j) \/ DropStale(j)

Next ==
    \/ \E j \in Jobs, p \in Priorities : Submit(j, p) \/ Promote(j, p)
    \/ \E j \in Jobs : Cancel(j) \/ Finish(j) \/ Fail(j) \/ GoStale(j)
    \/ CancelSuperseded
    \/ Pump
    \/ \E c \in Caches : \E n \in CacheSizes[c] : ChangeCache(c, n)
    \/ Relief
    \/ \E r \in Residents : AcquireResident(r) \/ RefuseResident(r) \/ EvictResident(r)

Spec == Init /\ [][Next]_vars

\* The loop runs, work that was started ends, a relief goes on, and the sweeper gets to
\* idle residents.
\* Nobody is obliged to submit, cancel, or touch a cache.  Strong fairness stands for
\* the event loop's queue: a continuation waits while a pump runs, but is not skipped.
Fairness ==
    /\ WF_vars(Pump)
    /\ SF_vars(\E j \in Jobs : Finish(j) \/ Fail(j))
    /\ SF_vars(Relief)
    /\ \A r \in Residents : SF_vars(EvictResident(r))

FairSpec == Spec /\ Fairness

-----------------------------------------------------------------------------
\* Leases of jobs and the running counter follow the jobs that run, on every way a
\* job can end, and no class is handed out beyond its slots.
LeasesFollowJobs ==
    /\ held \cap Jobs = {j \in Jobs \ FreeJobs : state[j] = "running"}
    /\ running = Cardinality({j \in Jobs : state[j] = "running"})
    /\ running <= MaxConcurrent
    /\ \A c \in Classes : used[c] <= Slots[c]

\* The sum of f, as the number of units that it hands out to the members of its domain.
Units(f) == UNION {{x} \X (1 .. f[x]) : x \in DOMAIN f}
Total(f) == Cardinality(Units(f))

\* The bytes and the slots of class c that the live leases reserve.
Reserved == [h \in held |-> Request[h].bytes]
Taken(c) == [h \in held |-> Request[h].classes[c]]

\* The governor's counters are what is really out: the reservations of live leases
\* and the bytes in the caches.  Overlapping releases, trims and failures, the stale
\* job that gives back what it never used among them, leave no residue.
LedgerIsExact ==
    /\ LeasesFollowJobs
    /\ memoryUsed = Total(Reserved) + Total(cacheBytes)
    /\ \A c \in Classes : used[c] = Total(Taken(c))

\* No wake-up is lost: while the event loop is idle, no queued job could start, unless
\* memory came back by a cache that shrank, which asks for no pump.
NoLostWakeup ==
    ~pumping /\ ~shrunk => running >= MaxConcurrent \/ \A j \in Queued : ~Admissible(j)

\* A job that reserves no memory settles, whatever the caches and residents do
\* meanwhile: only memory can keep a job waiting, and the caches alone leave room
\* for a request of zero bytes.
LightJobsSettle ==
    \A j \in Jobs : (Request[j].bytes = 0 /\ state[j] = "queued") ~> state[j] \in Settled

=============================================================================
