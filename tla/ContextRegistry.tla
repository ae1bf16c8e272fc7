--------------------------- MODULE ContextRegistry ---------------------------
(***************************************************************************)
(* ArtifactRegistry for one artifact: parsed contexts by file version and  *)
(* profile, builds shared by their consumers, and the leases that are out. *)
(* A context's content is the version of the file that the parser read,    *)
(* which may be newer than the version in its key.                         *)
(*                                                                         *)
(* A build is one scheduler job: queued, running, settled.  The stat that  *)
(* opens acquire and its continuation are one step (StatVersion is the     *)
(* version at the stat): nothing the continuation uses can tell a file     *)
(* that changes between the two from one that changes right after.         *)
(***************************************************************************)
EXTENDS Integers, FiniteSets, Functions

CONSTANTS
    Versions,      \* fingerprints of the file, in the order it takes them
    Profiles,      \* metadata, full
    Tickets        \* acquires: of shared renders and of preview calls

VARIABLES
    contexts,      \* completed: context key -> content
    build,         \* inFlight: build[x] of context key x
    orphans,       \* builds that were cancelled while they ran and run on
    leases         \* live leases: ticket -> content of the context held

registryVars == <<contexts, build, orphans, leases>>

ContextKeys == Versions \X Profiles
Nothing == [x \in {} |-> 0]

\* Map.set for every key in S.
With(f, S, v) == [x \in DOMAIN f \cup S |-> IF x \in S THEN v ELSE f[x]]

NoBuild == [phase |-> "none", read |-> 0, waiters |-> {}]
Builds == [phase : {"none", "queued", "running"}, read : Versions \cup {0}, waiters : SUBSET Tickets]

RegistryType ==
    /\ DOMAIN contexts \subseteq ContextKeys /\ Range(contexts) \subseteq Versions
    /\ build \in [ContextKeys -> Builds]
    /\ orphans \subseteq ContextKeys
    /\ DOMAIN leases \subseteq Tickets /\ Range(leases) \subseteq Versions

RegistryInit ==
    /\ contexts = Nothing
    /\ build = [x \in ContextKeys |-> NoBuild]
    /\ orphans = {}
    /\ leases = Nothing

Cached(x) == x \in DOMAIN contexts

\* acquire, after its stat: a lease on the cached context, or a place among the
\* consumers of the build, which is submitted when there is none.
Join(t, x) ==
    IF Cached(x)
    THEN /\ leases' = With(leases, {t}, contexts[x])
         /\ UNCHANGED <<contexts, build, orphans>>
    ELSE /\ build' = [build EXCEPT ![x].waiters = @ \cup {t},
                                   ![x].phase = IF @ = "none" THEN "queued" ELSE @]
         /\ UNCHANGED <<contexts, orphans, leases>>

\* detachInFlightConsumer for the tickets T: a build without consumers leaves inFlight;
\* queued it is dequeued, running it goes on as an orphan.
Abandoned(T) == {x \in ContextKeys : build[x].waiters # {} /\ build[x].waiters \subseteq T}

Detach(T) ==
    /\ build' = [x \in ContextKeys |-> IF x \in Abandoned(T) THEN NoBuild
                                       ELSE [build[x] EXCEPT !.waiters = @ \ T]]
    /\ orphans' = orphans \cup {x \in Abandoned(T) : build[x].phase = "running"}

BuildStarts(x, version) ==
    /\ build[x].phase = "queued"
    /\ build' = [build EXCEPT ![x].phase = "running", ![x].read = version]
    /\ UNCHANGED <<contexts, orphans, leases>>

\* landed, and the consumers' continuations: each takes its lease.
BuildLands(x) ==
    /\ build[x].phase = "running"
    /\ contexts' = With(contexts, {x}, build[x].read)
    /\ build' = [build EXCEPT ![x] = NoBuild]
    /\ leases' = With(leases, build[x].waiters, build[x].read)
    /\ UNCHANGED orphans

\* The job fails, or backpressure drops it: every consumer gets the error.
BuildFails(x) ==
    /\ build[x].phase # "none"
    /\ build' = [build EXCEPT ![x] = NoBuild]
    /\ UNCHANGED <<contexts, orphans>>

\* Faulty: what a cancelled build comes back with is cached all the same, read or not.
OrphanIsCached(x) ==
    /\ x \in orphans
    /\ orphans' = orphans \ {x}
    /\ contexts' = With(contexts, {x}, build[x].read)
    /\ UNCHANGED <<build, leases>>

\* Faulty: the cancelled build lands like any other, on whatever has its key by now.
OrphanTakesOver(x) ==
    /\ x \in orphans
    /\ orphans' = orphans \ {x}
    /\ build' = [build EXCEPT ![x] = NoBuild]
    /\ UNCHANGED <<contexts, leases>>

\* The end of a cancelled build: not cached, and the entry of its key is not its own.
OrphanLands(x) ==
    /\ x \in orphans
    /\ orphans' = orphans \ {x}
    /\ UNCHANGED <<contexts, build, leases>>

\* trim, or an eviction by the byte budget, drops a context; leases keep theirs.
DropContext(x) ==
    /\ Cached(x)
    /\ contexts' = Restrict(contexts, DOMAIN contexts \ {x})
    /\ UNCHANGED <<build, orphans, leases>>

Without(T) == Restrict(leases, DOMAIN leases \ T)

=============================================================================
