---------------------------- MODULE ResidentPool ----------------------------
(***************************************************************************)
(* ResidentPool for the file of one candidate, and OfficeCLI as the        *)
(* adapter uses it: a process per command, and at most one resident that   *)
(* keeps the file in memory between open and close.  The operators are     *)
(* conjoined to the actions of their callers.                              *)
(*                                                                         *)
(* An edit is the call that asked for it; the resident holds edits that    *)
(* are not on disk yet.  A command that fails has had its effect or not:   *)
(* the adapter kills the client on a timeout and knows no more.            *)
(***************************************************************************)
EXTENDS Integers, FiniteSets, Sequences, Functions

CONSTANTS Calls          \* the mutations that are asked for

VARIABLES
    pool,                \* residents has an entry for the file
    opening,             \* the calls whose openResident is going on
    closers,             \* the evictions that wait for the engine's close
    governed,            \* governor leases held for the file
    live,                \* the engine has a resident
    unsaved,             \* edits in its memory only
    disk                 \* edits in the file

poolVars == <<pool, opening, closers, governed>>
engineVars == <<live, unsaved, disk>>

Evictors == {"sweeper", "flush", "finalize", "abort"} \cup Calls

\* One governor lease for the entry, one for an open and for every close in progress.
PoolType ==
    /\ pool \in BOOLEAN
    /\ opening \subseteq Calls
    /\ closers \subseteq Evictors
    /\ governed = Cardinality(opening) + Cardinality(closers) + (IF pool THEN 1 ELSE 0)
    /\ live \in BOOLEAN
    /\ unsaved \subseteq Calls /\ disk \subseteq Calls
    /\ unsaved # {} => live

PoolInit ==
    /\ pool = FALSE /\ opening = {} /\ closers = {} /\ governed = 0
    /\ live = FALSE /\ unsaved = {} /\ disk = {}

-----------------------------------------------------------------------------
\* The engine's commands.
Batch(c) ==
    /\ IF live THEN unsaved' = unsaved \cup {c} /\ UNCHANGED disk
       ELSE disk' = disk \cup {c} /\ UNCHANGED unsaved
    /\ UNCHANGED live

Save ==
    /\ disk' = disk \cup unsaved /\ unsaved' = {}
    /\ UNCHANGED live

Close ==
    /\ disk' = disk \cup unsaved /\ unsaved' = {}
    /\ live' = FALSE

Open ==
    /\ live' = TRUE
    /\ UNCHANGED <<unsaved, disk>>

-----------------------------------------------------------------------------
\* openResident: a governor lease, then the engine's open.
StartOpening(c) ==
    /\ opening' = opening \cup {c}
    /\ governed' = governed + 1
    /\ UNCHANGED <<pool, closers>>

FailOpening(c) ==
    /\ opening' = opening \ {c}
    /\ governed' = governed - 1
    /\ UNCHANGED <<pool, closers>>

\* The entry takes the lease of the open over; evict follows at once in a task that is
\* closing.
Opened(c, evicted) ==
    /\ opening' = opening \ {c}
    /\ pool' = ~evicted
    /\ closers' = IF evicted THEN closers \cup {c} ELSE closers
    /\ UNCHANGED governed

\* evict: the entry goes first, then the engine is told; without an entry it is a no-op,
\* even while another eviction's close has not come back.
Evict(e) ==
    /\ pool' = FALSE
    /\ closers' = IF pool THEN closers \cup {e} ELSE closers
    /\ UNCHANGED <<opening, governed>>

\* Faulty: an eviction whose close fails, the retry included, keeps the lease.
EvictedUnlessFailed(e, ok) ==
    /\ closers' = closers \ {e}
    /\ governed' = IF ok THEN governed - 1 ELSE governed
    /\ UNCHANGED <<pool, opening>>
    /\ Close \/ (~ok /\ UNCHANGED engineVars)

\* The end of an eviction, close and one retry: whatever came of it, the lease is back.
Evicted(e, ok) ==
    /\ closers' = closers \ {e}
    /\ governed' = governed - 1
    /\ UNCHANGED <<pool, opening>>
    /\ Close \/ (~ok /\ UNCHANGED engineVars)

=============================================================================
