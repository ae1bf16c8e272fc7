--------------------------- MODULE PreviewService ---------------------------
(***************************************************************************)
(* PreviewService on one artifact whose file changes: calls read the       *)
(* fingerprint, join or start the shared render of their key, probe the    *)
(* file again and retry once.  A render holds a context of the registry    *)
(* and runs its own jobs; the jobs of both are queued, run and settle in   *)
(* any order (priorities are in Scheduler).                                *)
(*                                                                         *)
(* Content is the set of versions that the pieces of a model were read     *)
(* from.                                                                   *)
(***************************************************************************)
EXTENDS ContextRegistry

CONSTANTS
    Calls,         \* preview calls
    Signalled,     \* the calls that bring an AbortSignal
    MaxVersion,    \* bound: how often the file changes
    NoKey

VARIABLES
    format,        \* of the artifact
    version,       \* of the file
    models,        \* the preview cache: key -> content
    call,          \* call[c]: where the call stands
    render,        \* inflightDedup: render[k], and what the shared render is doing
    unhandled      \* a promise was rejected while nobody awaited it

vars == <<registryVars, format, version, models, call, render, unhandled>>

\* A kind is the part of the cache key that is not the fingerprint: visual or not,
\* and the scope.
Kinds == {"plain", "visual"}
KindsOf(f) == IF f = "pptx" THEN Kinds ELSE {"plain"}
Keys == Versions \X Kinds
ProfileOf(k) == IF k[2] = "visual" THEN "full" ELSE "metadata"

ASSUME PreviewAssumption ==
    /\ MaxVersion \in Nat \ {0} /\ Versions = 1 .. MaxVersion
    /\ Profiles = {"metadata", "full"}
    /\ Tickets = Calls \cup Keys
    /\ Calls \cap Keys = {}
    /\ Signalled \subseteq Calls
    /\ NoKey \notin Keys

NoRender == [phase |-> "none", job |-> "none", live |-> FALSE, consumers |-> {}, content |-> {}]

\* seed: inside registry.acquire's stat.  context: waiting for the build.  The others
\* are the three jobs of a render.
Renders == [phase : {"none", "seed", "context", "sidecar", "outline", "slides"},
            job : {"none", "queued", "running"}, live : BOOLEAN,
            consumers : SUBSET Calls, content : SUBSET Versions]

\* check: between the first stat and its continuation.  joining: in the stat of its
\* own acquire.  building: in the build it joined.  waiting: for the render alone.
\* restat: render done, in the second stat.
Final == {"returned", "aborted", "failed"}
CallRecords == [pc : {"idle", "check", "joining", "building", "waiting", "restat"} \cup Final,
                key : Keys \cup {NoKey}, asked : Versions \cup {0},
                aborted : BOOLEAN, retried : BOOLEAN, hit : BOOLEAN,
                heard : {"nothing", "model", "rejection"}, content : SUBSET Versions]

TypeOK ==
    /\ RegistryType
    /\ format \in {"pptx", "xlsx"}
    /\ version \in Versions
    /\ DOMAIN models \subseteq Keys /\ Range(models) \subseteq SUBSET Versions
    /\ call \in [Calls -> CallRecords]
    /\ render \in [Keys -> Renders]
    /\ unhandled \in BOOLEAN

Init ==
    /\ RegistryInit
    /\ format \in {"pptx", "xlsx"}
    /\ version = 1
    /\ models = Nothing
    /\ call = [c \in Calls |-> [pc |-> "idle", key |-> NoKey, asked |-> 0,
                                aborted |-> FALSE, retried |-> FALSE, hit |-> FALSE,
                                heard |-> "nothing", content |-> {}]]
    /\ render = [k \in Keys |-> NoRender]
    /\ unhandled = FALSE

-----------------------------------------------------------------------------
\* The calls whose promise a render settles are its consumers.  One that still waits for
\* its own acquire hears of it only then; a rejection it has no handler for yet, because
\* its signal made it a race, is an unhandled one.
Consumers(R) == UNION {render[k].consumers : k \in R}
Waiting(R) == {c \in Consumers(R) : call[c].pc = "waiting"}
Busy(R) == Consumers(R) \ Waiting(R)

\* After the render of a call returned: the second stat, or after the retry the end.
AfterRender(c, content) ==
    [c EXCEPT !.pc = IF c.retried THEN "returned" ELSE "restat", !.content = content]

\* runSharedRender returns a model for k: cached, lease given back, consumers resumed.
Resolves(k, content) ==
    /\ models' = With(models, {k}, content)
    /\ render' = [render EXCEPT ![k] = NoRender]
    /\ call' = [c \in Calls |->
                  IF c \in Waiting({k}) THEN AfterRender(call[c], content)
                  ELSE IF c \in Busy({k}) THEN [call[c] EXCEPT !.heard = "model", !.content = content]
                  ELSE call[c]]
    /\ leases' = Without({k} \cup Waiting({k}))
    /\ UNCHANGED unhandled

\* Faulty: the context is given back when a render succeeds only.
RejectsKeepingLeases(R, F) ==
    /\ render' = [k \in Keys |-> IF k \in R THEN NoRender
                                 ELSE [render[k] EXCEPT !.consumers = @ \ F]]
    /\ call' = [c \in Calls |->
                  IF c \in Waiting(R) \cup F THEN [call[c] EXCEPT !.pc = "failed"]
                  ELSE IF c \in Busy(R) THEN [call[c] EXCEPT !.heard = "rejection"]
                  ELSE call[c]]
    /\ leases' = Without(Waiting(R))
    /\ unhandled' = (unhandled \/ Busy(R) \cap Signalled # {})

\* The shared renders R reject; F are calls that fail in the same step by themselves.
Rejects(R, F) ==
    /\ render' = [k \in Keys |-> IF k \in R THEN NoRender
                                 ELSE [render[k] EXCEPT !.consumers = @ \ F]]
    /\ call' = [c \in Calls |->
                  IF c \in Waiting(R) \cup F THEN [call[c] EXCEPT !.pc = "failed"]
                  ELSE IF c \in Busy(R) THEN [call[c] EXCEPT !.heard = "rejection"]
                  ELSE call[c]]
    /\ leases' = Without(R \cup Waiting(R))
    /\ unhandled' = (unhandled \/ Busy(R) \cap Signalled # {})

-----------------------------------------------------------------------------
\* preview(): up to the first stat, and its continuation.
Begin(c) ==
    /\ call[c].pc = "idle"
    /\ \E kind \in KindsOf(format) :
         call' = [call EXCEPT ![c].pc = "check", ![c].asked = version, ![c].key = <<version, kind>>]
    /\ UNCHANGED <<registryVars, format, version, models, render, unhandled>>

\* Faulty: the cache is asked for the artifact and not for the version of the file.
CacheHitAnyVersion(c) ==
    /\ call[c].pc = "check"
    /\ \E k \in DOMAIN models :
         /\ k[2] = call[c].key[2]
         /\ call' = [call EXCEPT ![c].pc = "returned", ![c].hit = TRUE, ![c].content = models[k]]
    /\ UNCHANGED <<registryVars, format, version, models, render, unhandled>>

CacheHit(c) ==
    /\ call[c].pc = "check" /\ call[c].key \in DOMAIN models
    /\ call' = [call EXCEPT ![c].pc = "returned", ![c].hit = TRUE,
                            ![c].content = models[call[c].key]]
    /\ UNCHANGED <<registryVars, format, version, models, render, unhandled>>

\* render() up to its first await: join the render of the key or start one.  A call
\* aborted before detaches at once, and takes the render with it if it was alone.
Enter(c, k, before) ==
    LET joined == [render[k] EXCEPT !.consumers = @ \cup {c}]
        first  == [NoRender EXCEPT !.phase = "seed", !.live = TRUE, !.consumers = {c}]
        fresh  == render[k].phase = "none"
    IN  IF ~before.aborted
        THEN /\ render' = [render EXCEPT ![k] = IF fresh THEN first ELSE joined]
             /\ call' = [call EXCEPT ![c] = [before EXCEPT !.key = k, !.heard = "nothing",
                                               !.pc = IF fresh THEN "waiting" ELSE "joining"]]
        ELSE /\ render' = IF fresh THEN [render EXCEPT ![k] = [first EXCEPT !.live = FALSE, !.consumers = {}]]
                          ELSE render
             /\ call' = [call EXCEPT ![c] = [before EXCEPT !.key = k, !.pc = "aborted"]]

CacheMiss(c) ==
    /\ call[c].pc = "check" /\ call[c].key \notin DOMAIN models
    /\ Enter(c, call[c].key, call[c])
    /\ UNCHANGED <<registryVars, format, version, models, unhandled>>

\* Faulty: a model is answered without a look at what the file is by then.
RestatTrusts(c) ==
    /\ call[c].pc = "restat"
    /\ call' = [call EXCEPT ![c].pc = "returned"]
    /\ UNCHANGED <<registryVars, format, version, models, render, unhandled>>

\* The second stat: the answer, or the one retry, which goes past the cache.
Restat(c) ==
    /\ call[c].pc = "restat"
    /\ IF call[c].key[1] = version
       THEN call' = [call EXCEPT ![c].pc = "returned"] /\ UNCHANGED render
       ELSE Enter(c, <<version, call[c].key[2]>>, [call[c] EXCEPT !.retried = TRUE])
    /\ UNCHANGED <<registryVars, format, version, models, unhandled>>

\* A joiner's own acquire, after its stat.
OwnAcquire(c) ==
    LET x == <<version, ProfileOf(call[c].key)>>
    IN  /\ call[c].pc = "joining"
        /\ Join(c, x)
        /\ call' = [call EXCEPT ![c].pc = IF Cached(x) THEN "waiting" ELSE "building"]
        /\ UNCHANGED <<format, version, models, render, unhandled>>

\* A joiner whose render settled meanwhile takes the result once it has its lease,
\* which the finally gives back.
TakeResult(c) ==
    /\ call[c].pc = "waiting" /\ call[c].heard # "nothing"
    /\ call' = [call EXCEPT ![c] = IF @.heard = "model" THEN AfterRender(@, @.content)
                                   ELSE [@ EXCEPT !.pc = "failed"]]
    /\ leases' = Without({c})
    /\ UNCHANGED <<contexts, build, orphans, format, version, models, render, unhandled>>

-----------------------------------------------------------------------------
\* runSharedRender with its context in hand.  The job it submits is cancelled at once
\* when everybody has left: the slides are then simply missing, the rest rejects.
Advance(k) ==
    LET phase == IF k[2] = "visual" THEN "slides" ELSE IF format = "xlsx" THEN "sidecar" ELSE "outline"
        content == IF k[2] = "visual" THEN {leases[k]} ELSE {}
    IN  render' = [render EXCEPT ![k].phase = phase, ![k].job = "queued", ![k].content = content]

\* The seed acquire, after its stat.
Seed(k) ==
    LET x == <<version, ProfileOf(k)>>
    IN  /\ render[k].phase = "seed"
        /\ IF Cached(x) \/ render[k].live
           THEN /\ Join(k, x)
                /\ render' = [render EXCEPT ![k].phase = "context"]
                /\ UNCHANGED <<call, unhandled>>
           ELSE Rejects({k}, {}) /\ UNCHANGED <<contexts, build, orphans>>
        /\ UNCHANGED <<format, version, models>>

\* Its context is there: the first job, or the end when nobody is left to want it.
Seeded(k) ==
    /\ render[k].phase = "context" /\ k \in DOMAIN leases
    /\ IF render[k].consumers # {}
       THEN /\ Advance(k)
            /\ UNCHANGED <<leases, models, call, unhandled>>
       ELSE IF k[2] = "visual"
       THEN Resolves(k, {leases[k]})
       ELSE Rejects({k}, {}) /\ UNCHANGED models
    /\ UNCHANGED <<contexts, build, orphans, format, version>>

JobStarts(k) ==
    /\ render[k].job = "queued"
    /\ render' = [render EXCEPT ![k].job = "running",
                                ![k].content = IF render[k].phase = "slides" THEN @ ELSE {version}]
    /\ UNCHANGED <<registryVars, format, version, models, call, unhandled>>

JobDone(k) ==
    /\ render[k].job = "running"
    /\ Resolves(k, render[k].content)
    /\ UNCHANGED <<contexts, build, orphans, format, version>>

\* A job fails or is dropped: the sidecar falls back to the renderer in this process,
\* slides are left out, an outline is the end of the render.
JobFails(k) ==
    /\ render[k].job # "none"
    /\ CASE render[k].phase = "slides" -> Resolves(k, render[k].content)
         [] render[k].phase = "sidecar" /\ render[k].consumers # {} ->
                /\ render' = [render EXCEPT ![k].phase = "outline", ![k].job = "queued", ![k].content = {}]
                /\ UNCHANGED <<leases, models, call, unhandled>>
         [] OTHER -> Rejects({k}, {}) /\ UNCHANGED models
    /\ UNCHANGED <<contexts, build, orphans, format, version>>

RegistryBuildStarts(x) ==
    /\ BuildStarts(x, version)
    /\ UNCHANGED <<format, version, models, call, render, unhandled>>

RegistryBuildLands(x) ==
    /\ BuildLands(x)
    /\ call' = [c \in Calls |-> IF c \in build[x].waiters THEN [call[c] EXCEPT !.pc = "waiting"]
                                ELSE call[c]]
    /\ UNCHANGED <<format, version, models, render, unhandled>>

\* The error reaches the renders and the joiners that wait for the build; a joiner that
\* fails so never awaits its render.
RegistryBuildFails(x) ==
    /\ BuildFails(x)
    /\ Rejects(build[x].waiters \cap Keys, build[x].waiters \cap Calls)
    /\ UNCHANGED <<format, version, models>>

RegistryOrphanLands(x) ==
    /\ OrphanLands(x)
    /\ UNCHANGED <<format, version, models, call, render, unhandled>>

-----------------------------------------------------------------------------
\* The signal of a call fires.  Before it has joined a render, or after, this is only
\* remembered; a consumer detaches, and the last one ends what is still queued.
AbortEarly(c) ==
    /\ c \in Signalled /\ call[c].pc \in {"check", "restat"} /\ ~call[c].aborted
    /\ call' = [call EXCEPT ![c].aborted = TRUE]
    /\ UNCHANGED <<registryVars, format, version, models, render, unhandled>>

\* What onAbort of the last consumer of k ends at once: the wait for the context, or a
\* queued job.  Anything else goes on and finds out later.
Stoppable(k) ==
    \/ render[k].phase = "context" /\ k \notin DOMAIN leases
    \/ render[k].job = "queued"

Abort(c) ==
    LET k     == call[c].key
        last  == render[k].consumers = {c}
        stops == last /\ Stoppable(k)
        cut   == stops /\ render[k].phase = "slides"
    IN  /\ c \in Signalled /\ call[c].pc \in {"joining", "building", "waiting"}
        /\ call' = [call EXCEPT ![c].pc = "aborted"]
        /\ render' = [render EXCEPT ![k] = IF stops THEN NoRender
                                           ELSE [render[k] EXCEPT !.consumers = @ \ {c}, !.live = @ /\ ~last]]
        /\ Detach(IF stops THEN {c, k} ELSE {c})
        /\ leases' = Without(IF stops THEN {c, k} ELSE {c})
        /\ models' = IF cut THEN With(models, {k}, render[k].content) ELSE models
        /\ unhandled' = (unhandled \/ (call[c].pc # "waiting" /\ call[c].heard = "nothing"))
        /\ UNCHANGED <<contexts, format, version>>

\* bindCommittedRevision and rejectCandidate: the artifact's models go, and with a new
\* revision the queued outline jobs, whose label cancelWhere knows.
Invalidate ==
    /\ models # Nothing
    /\ models' = Nothing
    /\ UNCHANGED <<registryVars, format, version, call, render, unhandled>>

Supersede ==
    LET R == {k \in Keys : render[k].phase = "outline" /\ render[k].job = "queued"}
    IN  /\ R # {}
        /\ Rejects(R, {})
        /\ models' = Nothing
        /\ UNCHANGED <<contexts, build, orphans, format, version>>

FileChanges ==
    /\ version < MaxVersion
    /\ version' = version + 1
    /\ UNCHANGED <<registryVars, format, models, call, render, unhandled>>

\* A cache entry goes: trim, eviction, or it was too large to be admitted.
RegistryDropsContext(x) ==
    /\ DropContext(x)
    /\ UNCHANGED <<format, version, models, call, render, unhandled>>

DropModel(k) ==
    /\ k \in DOMAIN models
    /\ models' = Restrict(models, DOMAIN models \ {k})
    /\ UNCHANGED <<registryVars, format, version, call, render, unhandled>>

CallStep(c) == CacheHit(c) \/ CacheMiss(c) \/ Restat(c) \/ OwnAcquire(c) \/ TakeResult(c)
RenderStep(k) == Seed(k) \/ Seeded(k) \/ JobStarts(k) \/ JobDone(k) \/ JobFails(k)
BuildStep(x) == RegistryBuildStarts(x) \/ RegistryBuildLands(x) \/ RegistryBuildFails(x)

Next ==
    \/ \E c \in Calls : Begin(c) \/ CallStep(c) \/ AbortEarly(c) \/ Abort(c)
    \/ \E k \in Keys : RenderStep(k) \/ DropModel(k)
    \/ \E x \in ContextKeys : BuildStep(x) \/ RegistryOrphanLands(x) \/ RegistryDropsContext(x)
    \/ Invalidate \/ Supersede \/ FileChanges

Spec == Init /\ [][Next]_vars

\* Stats complete, continuations run, queued jobs start and running ones end.
Fairness ==
    /\ \A c \in Calls : WF_vars(CallStep(c))
    /\ \A k \in Keys : WF_vars(RenderStep(k))
    /\ \A x \in ContextKeys : WF_vars(BuildStep(x))

FairSpec == Spec /\ Fairness

-----------------------------------------------------------------------------
\* No answer is older than the question: whatever caches, joins and retries contributed,
\* every piece was read after the call began.
AnswersAreFresh ==
    \A c \in Calls : call[c].pc = "returned" => \A v \in call[c].content : v >= call[c].asked

\* An answer that was rendered and not retried is one version of the file, the one that
\* its key names, although stat, context and outline were read at different times and
\* partly for somebody else.  (A cached answer can be newer than its key: the file moved
\* on while it was rendered.)
UnretriedIsOneVersion ==
    \A c \in Calls : call[c].pc = "returned" /\ ~call[c].retried /\ ~call[c].hit
        => call[c].content = {call[c].key[1]}

\* Work lasts as long as somebody wants it: a build in the registry has consumers, a queued
\* job of a render too unless the last one failed in a build of its own (only an abort
\* cancels), consumers are calls that still wait, and no lease outlives its holder.
NothingOutlivesItsConsumers ==
    /\ \A x \in ContextKeys : build[x].phase = "none" <=> build[x].waiters = {}
    /\ \A k \in Keys : render[k].job = "queued" =>
          render[k].consumers # {} \/ \E c \in Calls : call[c].key = k /\ call[c].pc = "failed"
    /\ \A k \in Keys : \A c \in render[k].consumers :
          call[c].key = k /\ call[c].pc \in {"joining", "building", "waiting"} /\ call[c].heard = "nothing"
    /\ \A k \in Keys : k \in DOMAIN leases => render[k].phase \notin {"none", "seed"}
    /\ \A c \in Calls : c \in DOMAIN leases => call[c].pc = "waiting"

\* Every preview call comes to an end, the ones that joined a render somebody else
\* started and left included.
EveryPreviewSettles ==
    \A c \in Calls : call[c].pc = "check" ~> call[c].pc \in Final

\* The service takes care that a rejected wait is never an unhandled rejection.
NoUnhandledRejection == ~unhandled

=============================================================================
