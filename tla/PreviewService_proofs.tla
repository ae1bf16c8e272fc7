------------------------ MODULE PreviewService_proofs -----------------------
(***************************************************************************)
(* Theorems about PreviewService for any number of calls and of versions:  *)
(* whose versions an answer is made of, and what is left behind when       *)
(* everybody has gone.                                                     *)
(***************************************************************************)
EXTENDS PreviewService, TLAPS

\* Between the two, both included, and not nothing.
Within(content, lowest, highest) ==
    content # {} /\ \A v \in content : lowest <= v /\ v <= highest

\* Who waits for a build waits for nothing else.
WaitersInv ==
    \A x \in ContextKeys : \A t \in build[x].waiters :
        /\ t \in Keys => render[t].phase = "context" /\ t \notin DOMAIN leases /\ t[1] <= x[1]
        /\ t \in Calls => call[t].pc = "building"
        /\ \A y \in ContextKeys : t \in build[y].waiters => x = y

\* The stages of a render.
RendersInv ==
    \A k \in Keys :
        /\ render[k].phase = "none" => render[k].consumers = {}
        /\ render[k].phase \in {"none", "seed", "context"} <=> render[k].job = "none"
        /\ render[k].phase # "none" => k[1] <= version
        /\ render[k].phase = "slides" \/ render[k].job = "running" => Within(render[k].content, k[1], version)

\* Nothing is read from a version to come, nor from one before the version in its key.
VersionsInv ==
    /\ \A x \in ContextKeys :
         /\ build[x].phase # "none" => x[1] <= version
         /\ build[x].phase = "running" => x[1] <= build[x].read /\ build[x].read <= version
    /\ \A x \in DOMAIN contexts : x[1] <= contexts[x] /\ contexts[x] <= version
    /\ \A k \in Keys : k \in DOMAIN leases => k[1] <= leases[k] /\ leases[k] <= version
    /\ \A k \in DOMAIN models : Within(models[k], k[1], version)

\* What a call was given is not older than its key, and its key not than its question.
CallInv(c) ==
    /\ call[c].pc # "idle" => call[c].key \in Keys /\ call[c].asked <= call[c].key[1]
                              /\ call[c].key[1] <= version
    /\ call[c].pc \in {"idle", "check"} => ~call[c].retried
    /\ call[c].pc = "restat" => ~call[c].retried /\ Within(call[c].content, call[c].key[1], version)
    /\ call[c].pc \in {"joining", "building", "waiting"} /\ call[c].heard = "model" =>
         Within(call[c].content, call[c].key[1], version)
    /\ call[c].pc = "returned" => \A v \in call[c].content : v >= call[c].asked

CallsInv == \A c \in Calls : CallInv(c)

\* The parts of NothingOutlivesItsConsumers.
BuildsWanted == \A x \in ContextKeys : build[x].phase = "none" <=> build[x].waiters = {}

JobsWanted ==
    \A k \in Keys : render[k].job = "queued" =>
        render[k].consumers # {} \/ \E c \in Calls : call[c].key = k /\ call[c].pc = "failed"

ConsumersWait ==
    \A k \in Keys : \A c \in render[k].consumers :
        call[c].key = k /\ call[c].pc \in {"joining", "building", "waiting"} /\ call[c].heard = "nothing"

LeasesHeld ==
    /\ \A k \in Keys : k \in DOMAIN leases => render[k].phase \notin {"none", "seed"}
    /\ \A c \in Calls : c \in DOMAIN leases => call[c].pc = "waiting"

PreviewInv ==
    /\ TypeOK /\ WaitersInv /\ RendersInv /\ VersionsInv /\ CallsInv /\ UnretriedIsOneVersion
    /\ BuildsWanted /\ JobsWanted /\ ConsumersWait /\ LeasesHeld

-----------------------------------------------------------------------------
(* Keys *)

LEMMA VersionFacts ==
  /\ Versions \subseteq Nat /\ Versions \subseteq Int /\ 1 \in Versions /\ 0 \notin Versions
  /\ \A v \in Versions : v < MaxVersion => v + 1 \in Versions
  /\ MaxVersion \in Nat
BY PreviewAssumption

LEMMA KeyFacts ==
  /\ \A k \in Keys : k[1] \in Versions /\ k[1] \in Nat /\ k[2] \in Kinds
  /\ \A v \in Versions, kind \in Kinds : /\ <<v, kind>> \in Keys
                                         /\ <<v, kind>>[1] = v /\ <<v, kind>>[2] = kind
BY VersionFacts DEF Keys

LEMMA ContextKeyFacts ==
  /\ \A x \in ContextKeys : x[1] \in Versions /\ x[1] \in Nat
  /\ \A v \in Versions, k \in Keys : /\ <<v, ProfileOf(k)>> \in ContextKeys
                                     /\ <<v, ProfileOf(k)>>[1] = v
<1>1. \A k \in Keys : ProfileOf(k) \in Profiles
  BY PreviewAssumption DEF ProfileOf
<1> QED BY <1>1, VersionFacts DEF ContextKeys

LEMMA TicketFacts ==
  /\ Calls \subseteq Tickets /\ Keys \subseteq Tickets
  /\ \A t \in Tickets : t \in Calls \/ t \in Keys
  /\ \A c \in Calls : c \notin Keys
BY PreviewAssumption

\* What Map.delete leaves.
LEMMA WithoutFacts ==
  ASSUME NEW T
  PROVE  /\ DOMAIN Without(T) = DOMAIN leases \ T
         /\ \A t \in DOMAIN Without(T) : Without(T)[t] = leases[t]
         /\ Range(Without(T)) \subseteq Range(leases)
BY DEF Without, Restrict, Range

LEMMA InitialState == Init => PreviewInv
<1> SUFFICES ASSUME Init PROVE PreviewInv
  OBVIOUS
<1> USE VersionFacts DEF Init, RegistryInit
<1>1. /\ DOMAIN Nothing = {} /\ Range(Nothing) = {}
      /\ \A x \in ContextKeys : build[x] = NoBuild
      /\ \A k \in Keys : render[k] = NoRender
      /\ \A c \in Calls : call[c] = [pc |-> "idle", key |-> NoKey, asked |-> 0, aborted |-> FALSE,
                                     retried |-> FALSE, hit |-> FALSE, heard |-> "nothing", content |-> {}]
  BY DEF Nothing, Range
<1>2. NoBuild \in Builds /\ NoRender \in Renders
  BY DEF NoBuild, Builds, NoRender, Renders
<1>3. [pc |-> "idle", key |-> NoKey, asked |-> 0, aborted |-> FALSE, retried |-> FALSE, hit |-> FALSE,
       heard |-> "nothing", content |-> {}] \in CallRecords
  BY DEF CallRecords, Final
<1>4. TypeOK
  BY <1>1, <1>2, <1>3 DEF TypeOK, RegistryType
<1>5. WaitersInv /\ VersionsInv
  BY <1>1 DEF WaitersInv, VersionsInv, NoBuild
<1>6. RendersInv /\ CallsInv
  BY <1>1 DEF RendersInv, CallsInv, CallInv, NoRender
<1>7. UnretriedIsOneVersion /\ BuildsWanted /\ JobsWanted /\ ConsumersWait /\ LeasesHeld
  BY <1>1 DEF UnretriedIsOneVersion, BuildsWanted, JobsWanted, ConsumersWait, LeasesHeld, NoBuild, NoRender
<1> QED BY <1>4, <1>5, <1>6, <1>7 DEF PreviewInv

Pcs == {"idle", "check", "joining", "building", "waiting", "restat"} \cup Final

\* An assignment to one field of a call, a render or a build.
LEMMA RecordFacts ==
  /\ \A r \in CallRecords :
       /\ \A p \in Pcs : [r EXCEPT !.pc = p] \in CallRecords
       /\ \A k \in Keys : [r EXCEPT !.key = k] \in CallRecords
       /\ \A v \in Versions : [r EXCEPT !.asked = v] \in CallRecords
       /\ \A b \in BOOLEAN : /\ [r EXCEPT !.aborted = b] \in CallRecords
                             /\ [r EXCEPT !.retried = b] \in CallRecords
                             /\ [r EXCEPT !.hit = b] \in CallRecords
       /\ \A h \in {"nothing", "model", "rejection"} : [r EXCEPT !.heard = h] \in CallRecords
       /\ \A s \in SUBSET Versions : [r EXCEPT !.content = s] \in CallRecords
  /\ \A r \in Renders :
       /\ \A p \in {"none", "seed", "context", "sidecar", "outline", "slides"} : [r EXCEPT !.phase = p] \in Renders
       /\ \A j \in {"none", "queued", "running"} : [r EXCEPT !.job = j] \in Renders
       /\ \A b \in BOOLEAN : [r EXCEPT !.live = b] \in Renders
       /\ \A s \in SUBSET Calls : [r EXCEPT !.consumers = s] \in Renders
       /\ \A s \in SUBSET Versions : [r EXCEPT !.content = s] \in Renders
  /\ \A b \in Builds :
       /\ \A p \in {"none", "queued", "running"} : [b EXCEPT !.phase = p] \in Builds
       /\ \A v \in Versions : [b EXCEPT !.read = v] \in Builds
       /\ \A s \in SUBSET Tickets : [b EXCEPT !.waiters = s] \in Builds
  /\ NoRender \in Renders /\ NoBuild \in Builds
<1>1. ASSUME NEW r \in CallRecords
      PROVE  /\ \A p \in Pcs : [r EXCEPT !.pc = p] \in CallRecords
             /\ \A k \in Keys : [r EXCEPT !.key = k] \in CallRecords
             /\ \A v \in Versions : [r EXCEPT !.asked = v] \in CallRecords
             /\ \A b \in BOOLEAN : /\ [r EXCEPT !.aborted = b] \in CallRecords
                                   /\ [r EXCEPT !.retried = b] \in CallRecords
                                   /\ [r EXCEPT !.hit = b] \in CallRecords
             /\ \A h \in {"nothing", "model", "rejection"} : [r EXCEPT !.heard = h] \in CallRecords
             /\ \A s \in SUBSET Versions : [r EXCEPT !.content = s] \in CallRecords
  BY DEF CallRecords, Pcs
<1>2. ASSUME NEW r \in Renders
      PROVE  /\ \A p \in {"none", "seed", "context", "sidecar", "outline", "slides"} : [r EXCEPT !.phase = p] \in Renders
             /\ \A j \in {"none", "queued", "running"} : [r EXCEPT !.job = j] \in Renders
             /\ \A b \in BOOLEAN : [r EXCEPT !.live = b] \in Renders
             /\ \A s \in SUBSET Calls : [r EXCEPT !.consumers = s] \in Renders
             /\ \A s \in SUBSET Versions : [r EXCEPT !.content = s] \in Renders
  BY DEF Renders
<1>3. ASSUME NEW b \in Builds
      PROVE  /\ \A p \in {"none", "queued", "running"} : [b EXCEPT !.phase = p] \in Builds
             /\ \A v \in Versions : [b EXCEPT !.read = v] \in Builds
             /\ \A s \in SUBSET Tickets : [b EXCEPT !.waiters = s] \in Builds
  BY DEF Builds
<1>4. NoRender \in Renders /\ NoBuild \in Builds
  BY DEF NoRender, Renders, NoBuild, Builds
<1> QED BY <1>1, <1>2, <1>3, <1>4

\* What the type says of one call, one render, one build.
LEMMA Typed ==
  ASSUME TypeOK
  PROVE  /\ version \in Versions /\ version \in Nat
         /\ \A c \in Calls : /\ call[c] \in CallRecords /\ call[c].pc \in Pcs /\ call[c].asked \in Nat
                             /\ call[c].content \subseteq Versions /\ call[c].content \subseteq Nat
                             /\ call[c].retried \in BOOLEAN /\ call[c].hit \in BOOLEAN
         /\ \A k \in Keys : /\ render[k] \in Renders /\ render[k].content \subseteq Versions
                            /\ render[k].consumers \subseteq Calls /\ render[k].live \in BOOLEAN
         /\ \A x \in ContextKeys : /\ build[x] \in Builds /\ build[x].waiters \subseteq Tickets
                                   /\ build[x].read \in Versions \cup {0} /\ build[x].read \in Nat
         /\ \A x \in DOMAIN contexts : contexts[x] \in Versions /\ x \in ContextKeys
         /\ \A t \in DOMAIN leases : leases[t] \in Versions /\ t \in Tickets
         /\ \A k \in DOMAIN models : models[k] \subseteq Versions /\ k \in Keys
<1>1. /\ version \in Versions /\ call \in [Calls -> CallRecords] /\ render \in [Keys -> Renders]
      /\ build \in [ContextKeys -> Builds] /\ Versions \subseteq Nat
      /\ DOMAIN contexts \subseteq ContextKeys /\ DOMAIN leases \subseteq Tickets /\ DOMAIN models \subseteq Keys
  BY VersionFacts DEF TypeOK, RegistryType
<1>2. \A c \in Calls : /\ call[c] \in CallRecords /\ call[c].pc \in Pcs /\ call[c].asked \in Versions \cup {0}
                       /\ call[c].content \subseteq Versions
                       /\ call[c].retried \in BOOLEAN /\ call[c].hit \in BOOLEAN
  BY <1>1 DEF CallRecords, Pcs
<1>3. \A k \in Keys : /\ render[k] \in Renders /\ render[k].content \subseteq Versions
                      /\ render[k].consumers \subseteq Calls /\ render[k].live \in BOOLEAN
  BY <1>1 DEF Renders
<1>4. \A x \in ContextKeys : /\ build[x] \in Builds /\ build[x].waiters \subseteq Tickets
                             /\ build[x].read \in Versions \cup {0}
  BY <1>1 DEF Builds
<1>5. /\ \A x \in DOMAIN contexts : contexts[x] \in Versions
      /\ \A t \in DOMAIN leases : leases[t] \in Versions
      /\ \A k \in DOMAIN models : models[k] \subseteq Versions
  BY DEF TypeOK, RegistryType, Range
<1>6. version \in Nat /\ \A v \in Versions \cup {0} : v \in Nat
  BY <1>1
<1>7. \A c \in Calls : call[c].asked \in Nat /\ call[c].content \subseteq Nat
  BY <1>1, <1>2, <1>6
<1>8. \A x \in ContextKeys : build[x].read \in Nat
  BY <1>4, <1>6
<1> QED BY <1>1, <1>2, <1>3, <1>4, <1>5, <1>6, <1>7, <1>8

-----------------------------------------------------------------------------
(***************************************************************************)
(* Calls by themselves                                                     *)
(***************************************************************************)
\* A call that is in no render, and waits for nothing.
LEMMA CallAlone ==
  ASSUME PreviewInv, NEW c \in Calls, call[c].pc \notin {"joining", "building", "waiting", "failed"},
         UNCHANGED <<registryVars, format, version, models, render, unhandled>>,
         \A d \in Calls : d # c => call'[d] = call[d],
         call' \in [Calls -> CallRecords],
         call'[c].pc \notin {"joining", "building", "waiting"},
         CallInv(c)',
         call'[c].pc = "returned" /\ ~call'[c].retried /\ ~call'[c].hit => call'[c].content = {call'[c].key[1]}
  PROVE  PreviewInv'
<1> USE DEF PreviewInv, registryVars
<1>1. TypeOK'
  BY DEF TypeOK, RegistryType
<1>2. WaitersInv' /\ RendersInv' /\ VersionsInv'
  BY DEF WaitersInv, RendersInv, VersionsInv
<1>3. CallsInv'
  BY DEF CallsInv, CallInv
<1>4. UnretriedIsOneVersion'
  BY DEF UnretriedIsOneVersion
<1>5. \A k \in Keys : c \notin render[k].consumers
  BY DEF ConsumersWait
<1>6. BuildsWanted' /\ LeasesHeld'
  BY DEF BuildsWanted, LeasesHeld
<1>7. ConsumersWait'
  BY <1>5, Typed DEF ConsumersWait
<1>8. JobsWanted'
  <2> SUFFICES ASSUME NEW k \in Keys, render[k].job = "queued", render[k].consumers = {}
               PROVE  \E d \in Calls : call'[d].key = k /\ call'[d].pc = "failed"
    BY DEF JobsWanted
  <2> QED BY DEF JobsWanted
<1> QED BY <1>1, <1>2, <1>3, <1>4, <1>6, <1>7, <1>8

LEMMA BeginKeeps ==
  ASSUME PreviewInv, NEW c \in Calls, Begin(c)
  PROVE  PreviewInv'
<1> USE DEF PreviewInv
<1>1. PICK kind \in Kinds : call' = [call EXCEPT ![c].pc = "check", ![c].asked = version, ![c].key = <<version, kind>>]
  BY DEF Begin, KindsOf, Kinds
<1>2. call' \in [Calls -> CallRecords]
  BY ZenonT(40), <1>1, RecordFacts, Typed, KeyFacts DEF Pcs, TypeOK
<1>3. /\ call'[c].pc = "check" /\ call'[c].asked = version /\ call'[c].key = <<version, kind>>
      /\ call'[c].retried = call[c].retried
      /\ \A d \in Calls : d # c => call'[d] = call[d]
  BY <1>1, Typed DEF TypeOK, CallRecords
<1>4. call[c].pc = "idle" /\ UNCHANGED <<registryVars, format, version, models, render, unhandled>>
  BY DEF Begin
<1>5. CallInv(c)'
  <2>1. version' = version /\ ~call[c].retried /\ version \in Nat
    BY <1>4, Typed, VersionFacts DEF CallInv, CallsInv
  <2>2. <<version, kind>> \in Keys /\ <<version, kind>>[1] = version
    BY Typed, KeyFacts
  <2> QED BY <1>3, <2>1, <2>2 DEF CallInv
<1> QED BY <1>2, <1>3, <1>4, <1>5, CallAlone

LEMMA CacheHitKeeps ==
  ASSUME PreviewInv, NEW c \in Calls, CacheHit(c)
  PROVE  PreviewInv'
<1> USE DEF PreviewInv
<1>1. /\ call[c].pc = "check" /\ call[c].key \in DOMAIN models
      /\ call' = [call EXCEPT ![c].pc = "returned", ![c].hit = TRUE, ![c].content = models[call[c].key]]
      /\ UNCHANGED <<registryVars, format, version, models, render, unhandled>>
  BY DEF CacheHit
<1>2. call' \in [Calls -> CallRecords]
  BY <1>1, RecordFacts, Typed DEF Pcs, Final, TypeOK
<1>3. /\ call'[c].pc = "returned" /\ call'[c].asked = call[c].asked /\ call'[c].key = call[c].key
      /\ call'[c].content = models[call[c].key] /\ call'[c].hit
      /\ \A d \in Calls : d # c => call'[d] = call[d]
  BY <1>1, Typed DEF TypeOK, CallRecords
<1>4. CallInv(c)'
  <2>1. /\ version' = version /\ call[c].key \in Keys /\ call[c].asked <= call[c].key[1]
        /\ call[c].key[1] <= version
    BY <1>1 DEF CallInv, CallsInv
  <2>2. \A v \in models[call[c].key] : v \in Nat /\ v >= call[c].key[1]
    BY <1>1, Typed, VersionFacts, <2>1, KeyFacts DEF VersionsInv, Within
  <2>3. call[c].asked \in Nat /\ call[c].key[1] \in Nat
    BY Typed, VersionFacts, <2>1, KeyFacts
  <2>4. \A v \in models[call[c].key] : v >= call[c].asked
    BY <2>1, <2>2, <2>3
  <2> QED BY <1>3, <2>1, <2>4 DEF CallInv
<1> QED BY <1>1, <1>2, <1>3, <1>4, CallAlone

LEMMA AbortEarlyKeeps ==
  ASSUME PreviewInv, NEW c \in Calls, AbortEarly(c)
  PROVE  PreviewInv'
<1> USE DEF PreviewInv
<1>1. /\ call[c].pc \in {"check", "restat"} /\ call' = [call EXCEPT ![c].aborted = TRUE]
      /\ UNCHANGED <<registryVars, format, version, models, render, unhandled>>
  BY DEF AbortEarly
<1>2. call' \in [Calls -> CallRecords]
  BY <1>1, RecordFacts, Typed DEF TypeOK
<1>3. /\ call'[c].pc = call[c].pc /\ call'[c].asked = call[c].asked /\ call'[c].key = call[c].key
      /\ call'[c].content = call[c].content /\ call'[c].retried = call[c].retried
      /\ call'[c].heard = call[c].heard
      /\ \A d \in Calls : d # c => call'[d] = call[d]
  BY <1>1, Typed DEF TypeOK, CallRecords
<1>4. CallInv(c)'
  BY <1>1, <1>3 DEF CallInv, CallsInv
<1> QED BY <1>1, <1>2, <1>3, <1>4, CallAlone

-----------------------------------------------------------------------------
(***************************************************************************)
(* Calls and the render they join                                          *)
(***************************************************************************)
LEMMA EnterKeeps ==
  ASSUME PreviewInv, NEW c \in Calls, call[c].pc \in {"check", "restat"},
         NEW k \in Keys, call[c].asked <= k[1], k[1] <= version,
         NEW before \in CallRecords, before.asked = call[c].asked,
         Enter(c, k, before), UNCHANGED <<registryVars, format, version, models, unhandled>>
  PROVE  PreviewInv'
<1> USE DEF PreviewInv, registryVars
<1>1. /\ call' \in [Calls -> CallRecords]
      /\ call'[c].asked = call[c].asked /\ call'[c].key = k
      /\ call'[c].pc \in {"waiting", "joining", "aborted"}
      /\ ~before.aborted => call'[c].pc # "aborted"
      /\ call'[c].pc \in {"waiting", "joining"} => call'[c].heard = "nothing"
      /\ \A d \in Calls : d # c => call'[d] = call[d]
  <2>1. call \in [Calls -> CallRecords]
    BY DEF TypeOK
  <2>2. ASSUME NEW p \in {"waiting", "joining"}
        PROVE  /\ [before EXCEPT !.key = k, !.heard = "nothing", !.pc = p] \in CallRecords
               /\ [before EXCEPT !.key = k, !.heard = "nothing", !.pc = p].asked = before.asked
               /\ [before EXCEPT !.key = k, !.heard = "nothing", !.pc = p].key = k
               /\ [before EXCEPT !.key = k, !.heard = "nothing", !.pc = p].pc = p
               /\ [before EXCEPT !.key = k, !.heard = "nothing", !.pc = p].heard = "nothing"
    <3>1. [before EXCEPT !.key = k, !.heard = "nothing", !.pc = p] \in CallRecords
      BY RecordFacts DEF Pcs
    <3> QED BY <3>1 DEF CallRecords
  <2>3. /\ [before EXCEPT !.key = k, !.pc = "aborted"] \in CallRecords
        /\ [before EXCEPT !.key = k, !.pc = "aborted"].asked = before.asked
        /\ [before EXCEPT !.key = k, !.pc = "aborted"].key = k
        /\ [before EXCEPT !.key = k, !.pc = "aborted"].pc = "aborted"
    <3>1. [before EXCEPT !.key = k, !.pc = "aborted"] \in CallRecords
      BY RecordFacts DEF Pcs, Final
    <3> QED BY <3>1 DEF CallRecords
  <2>4. \/ \E p \in {"waiting", "joining"} :
             call' = [call EXCEPT ![c] = [before EXCEPT !.key = k, !.heard = "nothing", !.pc = p]]
        \/ before.aborted /\ call' = [call EXCEPT ![c] = [before EXCEPT !.key = k, !.pc = "aborted"]]
    BY DEF Enter
  <2> QED BY <2>1, <2>2, <2>3, <2>4
<1>2. /\ render' \in [Keys -> Renders]
      /\ \A j \in Keys : j # k => render'[j] = render[j]
      /\ render[k].phase # "none" =>
           /\ render'[k].phase = render[k].phase /\ render'[k].job = render[k].job
           /\ render'[k].content = render[k].content
      /\ render[k].phase = "none" => render'[k].phase = "seed" /\ render'[k].job = "none"
      /\ render[k].consumers \subseteq render'[k].consumers
      /\ \/ render'[k].consumers \subseteq render[k].consumers
         \/ render'[k].consumers \subseteq render[k].consumers \cup {c} /\ call'[c].pc # "aborted"
  <2>1. render \in [Keys -> Renders] /\ render[k] \in Renders /\ call \in [Calls -> CallRecords]
    BY DEF TypeOK
  <2>2. render[k].phase = "none" => render[k].consumers = {}
    BY DEF RendersInv, NoRender
  <2>3. CASE before.aborted
    <3>1. CASE render[k].phase = "none"
      <4> DEFINE first == [phase |-> "seed", job |-> "none", live |-> FALSE, consumers |-> {}, content |-> {}]
      <4>1. render' = [render EXCEPT ![k] = first]
        BY <2>3, <3>1 DEF Enter, NoRender
      <4>2. first \in Renders /\ first.phase = "seed" /\ first.job = "none" /\ first.consumers = {}
        BY DEF Renders
      <4> HIDE DEF first
      <4> QED BY <2>1, <2>2, <3>1, <4>1, <4>2
    <3>2. CASE render[k].phase # "none"
      <4>1. render' = render
        BY <2>3, <3>2 DEF Enter
      <4> QED BY <2>1, <3>2, <4>1
    <3> QED BY <3>1, <3>2
  <2>4. CASE ~before.aborted
    <3>1. call'[c].pc # "aborted"
      BY <1>1, <2>4
    <3>2. CASE render[k].phase = "none"
      <4> DEFINE first == [phase |-> "seed", job |-> "none", live |-> TRUE, consumers |-> {c}, content |-> {}]
      <4>1. render' = [render EXCEPT ![k] = first]
        BY <2>4, <3>2 DEF Enter, NoRender
      <4>2. first \in Renders
        BY DEF Renders
      <4> QED BY <2>1, <2>2, <3>1, <3>2, <4>1, <4>2
    <3>3. CASE render[k].phase # "none"
      <4> DEFINE joined == [render[k] EXCEPT !.consumers = @ \cup {c}]
      <4>1. render' = [render EXCEPT ![k] = joined]
        BY <2>4, <3>3 DEF Enter
      <4>2. joined \in Renders /\ joined.consumers = render[k].consumers \cup {c}
            /\ joined.phase = render[k].phase /\ joined.job = render[k].job /\ joined.content = render[k].content
        BY <2>1 DEF Renders
      <4> HIDE DEF joined
      <4> QED BY <2>1, <3>1, <3>3, <4>1, <4>2
    <3> QED BY <3>2, <3>3
  <2> QED BY <2>3, <2>4
<1>3. TypeOK'
  BY <1>1, <1>2 DEF TypeOK, RegistryType
<1>4. c \notin DOMAIN leases /\ (\A j \in Keys : c \notin render[j].consumers)
      /\ (\A x \in ContextKeys : c \notin build[x].waiters)
  BY DEF LeasesHeld, ConsumersWait, WaitersInv
<1>5. WaitersInv'
  BY <1>1, <1>2, <1>4 DEF WaitersInv
<1>6. RendersInv'
  BY <1>2 DEF RendersInv, Within, NoRender
<1>7. VersionsInv'
  BY DEF VersionsInv
<1>8. CallsInv'
  BY <1>1 DEF CallsInv, CallInv
<1>9. UnretriedIsOneVersion'
  BY <1>1 DEF UnretriedIsOneVersion
<1>10. BuildsWanted' /\ LeasesHeld'
  BY <1>1, <1>2, <1>4 DEF BuildsWanted, LeasesHeld
<1>11. JobsWanted'
  <2> SUFFICES ASSUME NEW j \in Keys, render'[j].job = "queued", render'[j].consumers = {}
               PROVE  \E d \in Calls : call'[d].key = j /\ call'[d].pc = "failed"
    BY DEF JobsWanted
  <2>1. render[j].job = "queued" /\ render[j].consumers = {}
    BY <1>2 DEF RendersInv
  <2> QED BY <1>1, <2>1 DEF JobsWanted
<1>12. ConsumersWait'
  <2> SUFFICES ASSUME NEW j \in Keys, NEW d \in render'[j].consumers
               PROVE  call'[d].key = j /\ call'[d].pc \in {"joining", "building", "waiting"} /\ call'[d].heard = "nothing"
    BY DEF ConsumersWait
  <2>1. CASE d = c
    BY <1>1, <1>2, <1>4, <2>1
  <2>2. CASE d # c
    BY <1>1, <1>2, <2>2, Typed DEF ConsumersWait
  <2> QED BY <2>1, <2>2
<1> QED BY <1>3, <1>5, <1>6, <1>7, <1>8, <1>9, <1>10, <1>11, <1>12

LEMMA CacheMissKeeps ==
  ASSUME PreviewInv, NEW c \in Calls, CacheMiss(c)
  PROVE  PreviewInv'
<1>1. /\ call[c].pc = "check" /\ call[c] \in CallRecords
      /\ call[c].key \in Keys /\ call[c].asked <= call[c].key[1] /\ call[c].key[1] <= version
  BY Typed DEF PreviewInv, CallsInv, CallInv, CacheMiss
<1> QED BY <1>1, EnterKeeps DEF CacheMiss

LEMMA RestatKeeps ==
  ASSUME PreviewInv, NEW c \in Calls, Restat(c)
  PROVE  PreviewInv'
<1> USE DEF PreviewInv
<1>1. /\ call[c].pc = "restat" /\ call[c] \in CallRecords /\ call \in [Calls -> CallRecords]
      /\ call[c].key \in Keys /\ call[c].asked <= call[c].key[1] /\ call[c].key[1] <= version
      /\ Within(call[c].content, call[c].key[1], version)
      /\ UNCHANGED <<registryVars, format, version, models, unhandled>>
  BY Typed DEF CallsInv, CallInv, Restat, TypeOK
<1>2. CASE call[c].key[1] = version
  <2>1. call' = [call EXCEPT ![c].pc = "returned"] /\ UNCHANGED render
    BY <1>2 DEF Restat
  <2>2. call' \in [Calls -> CallRecords]
    BY <1>1, <2>1, RecordFacts DEF Pcs, Final
  <2>3. /\ call'[c].pc = "returned" /\ call'[c].asked = call[c].asked /\ call'[c].key = call[c].key
        /\ call'[c].content = call[c].content
        /\ \A d \in Calls : d # c => call'[d] = call[d]
    BY <1>1, <2>1 DEF CallRecords
  <2>4. call[c].content = {call[c].key[1]}
    <3>1. call[c].content # {} /\ \A v \in call[c].content : v \in Nat /\ version <= v /\ v <= version
      BY <1>1, <1>2, Typed DEF Within
    <3>2. \A v \in call[c].content : v = version
      BY <3>1, Typed
    <3> QED BY <1>2, <3>1, <3>2
  <2>5. \A v \in call[c].content : v >= call[c].asked
    BY <1>1, <2>4, KeyFacts, Typed
  <2>6. CallInv(c)'
    BY <1>1, <2>3, <2>5 DEF CallInv
  <2> QED BY <1>1, <2>1, <2>2, <2>3, <2>4, <2>6, CallAlone
<1>3. CASE call[c].key[1] # version
  <2> DEFINE k == <<version, call[c].key[2]>>
             before == [call[c] EXCEPT !.retried = TRUE]
  <2>1. Enter(c, k, before)
    BY <1>3 DEF Restat
  <2>2. k \in Keys /\ k[1] = version
    BY <1>1, KeyFacts, Typed
  <2>3. before \in CallRecords /\ before.asked = call[c].asked
    <3>1. before \in CallRecords
      BY <1>1, RecordFacts
    <3> QED BY <1>1 DEF CallRecords
  <2>4. call[c].asked <= k[1] /\ k[1] <= version
    BY <1>1, <2>2, KeyFacts, Typed
  <2> HIDE DEF k, before
  <2> QED BY <1>1, <2>1, <2>2, <2>3, <2>4, EnterKeeps
<1> QED BY <1>2, <1>3

\* acquire: the lease of a context that is there, or a place among those who wait for it.
LEMMA JoinFacts ==
  ASSUME TypeOK, NEW t \in Tickets, NEW x \in ContextKeys, Join(t, x)
  PROVE  /\ RegistryType' /\ contexts' = contexts /\ orphans' = orphans
         /\ Cached(x) => /\ build' = build /\ DOMAIN leases' = DOMAIN leases \cup {t}
                         /\ leases'[t] = contexts[x]
                         /\ \A u \in DOMAIN leases : u # t => leases'[u] = leases[u]
         /\ ~Cached(x) => /\ leases' = leases /\ \A y \in ContextKeys : y # x => build'[y] = build[y]
                          /\ build'[x].waiters = build[x].waiters \cup {t}
                          /\ build'[x].read = build[x].read
                          /\ build'[x].phase = IF build[x].phase = "none" THEN "queued" ELSE build[x].phase
<1> USE DEF TypeOK, RegistryType
<1>1. CASE Cached(x)
  <2>1. leases' = With(leases, {t}, contexts[x]) /\ UNCHANGED <<contexts, build, orphans>>
    BY <1>1 DEF Join
  <2>2. /\ DOMAIN leases' = DOMAIN leases \cup {t}
        /\ leases'[t] = contexts[x]
        /\ \A u \in DOMAIN leases : u # t => leases'[u] = leases[u]
        /\ Range(leases') \subseteq Range(leases) \cup {contexts[x]}
    <3> DEFINE w == With(leases, {t}, contexts[x])
    <3>1. /\ DOMAIN w = DOMAIN leases \cup {t} /\ (\A u \in {t} : w[u] = contexts[x])
          /\ (\A u \in DOMAIN leases \ {t} : w[u] = leases[u])
          /\ Range(w) \subseteq Range(leases) \cup {contexts[x]}
      BY DEF With, Range
    <3> HIDE DEF w
    <3> QED BY <2>1, <3>1 DEF w
  <2>3. contexts[x] \in Versions
    BY <1>1, Typed DEF Cached
  <2> QED BY <1>1, <2>1, <2>2, <2>3
<1>2. CASE ~Cached(x)
  <2> DEFINE b == [build[x] EXCEPT !.waiters = @ \cup {t},
                                   !.phase = IF @ = "none" THEN "queued" ELSE @]
  <2>1. build' = [build EXCEPT ![x] = b] /\ UNCHANGED <<contexts, orphans, leases>>
    BY <1>2 DEF Join
  <2>2. build[x] \in Builds
    BY Typed
  <2>3. /\ b \in Builds /\ b.waiters = build[x].waiters \cup {t} /\ b.read = build[x].read
        /\ b.phase = IF build[x].phase = "none" THEN "queued" ELSE build[x].phase
    BY <2>2 DEF Builds
  <2> HIDE DEF b
  <2> QED BY <1>2, <2>1, <2>3
<1> QED BY <1>1, <1>2

LEMMA OwnAcquireKeeps ==
  ASSUME PreviewInv, NEW c \in Calls, OwnAcquire(c)
  PROVE  PreviewInv'
<1> USE DEF PreviewInv
<1> DEFINE x == <<version, ProfileOf(call[c].key)>>
<1>1. /\ call[c].pc = "joining" /\ Join(c, x) /\ UNCHANGED <<format, version, models, render, unhandled>>
      /\ call' = [call EXCEPT ![c].pc = IF Cached(x) THEN "waiting" ELSE "building"]
  BY DEF OwnAcquire
<1>2. x \in ContextKeys /\ x[1] = version /\ c \in Tickets
  BY <1>1, Typed, ContextKeyFacts, TicketFacts DEF CallsInv, CallInv
<1> HIDE DEF x
<1>3. /\ RegistryType' /\ contexts' = contexts /\ orphans' = orphans
      /\ Cached(x) => /\ build' = build /\ DOMAIN leases' = DOMAIN leases \cup {c}
                      /\ \A u \in DOMAIN leases : u # c => leases'[u] = leases[u]
      /\ ~Cached(x) => /\ leases' = leases /\ \A y \in ContextKeys : y # x => build'[y] = build[y]
                       /\ build'[x].waiters = build[x].waiters \cup {c}
                       /\ build'[x].read = build[x].read
                       /\ build'[x].phase = IF build[x].phase = "none" THEN "queued" ELSE build[x].phase
  BY <1>1, <1>2, JoinFacts
<1>4. /\ call' \in [Calls -> CallRecords]
      /\ call'[c].pc = IF Cached(x) THEN "waiting" ELSE "building"
      /\ call'[c].key = call[c].key /\ call'[c].asked = call[c].asked /\ call'[c].heard = call[c].heard
      /\ call'[c].content = call[c].content
      /\ \A d \in Calls : d # c => call'[d] = call[d]
  <2>1. call' \in [Calls -> CallRecords]
    BY <1>1, RecordFacts, Typed DEF TypeOK, Pcs
  <2> QED BY <1>1, <2>1, Typed DEF CallRecords, TypeOK
<1>5. TypeOK'
  BY <1>1, <1>3, <1>4 DEF TypeOK
<1>6. c \notin DOMAIN leases /\ (\A y \in ContextKeys : c \notin build[y].waiters) /\ c \notin Keys
  BY <1>1, TicketFacts DEF LeasesHeld, WaitersInv
<1>7. WaitersInv'
  <2> SUFFICES ASSUME NEW y \in ContextKeys, NEW t \in build'[y].waiters
               PROVE  /\ t \in Keys => render[t].phase = "context" /\ t \notin DOMAIN leases' /\ t[1] <= y[1]
                      /\ t \in Calls => call'[t].pc = "building"
                      /\ \A z \in ContextKeys : t \in build'[z].waiters => y = z
    BY <1>1 DEF WaitersInv
  <2>1. CASE t = c
    BY <1>3, <1>4, <1>6, <2>1
  <2>2. CASE t # c
    <3>1. t \in build[y].waiters /\ \A z \in ContextKeys : t \in build'[z].waiters => t \in build[z].waiters
      BY <1>3, <2>2
    <3> QED BY <1>3, <1>4, <2>2, <3>1 DEF WaitersInv
  <2> QED BY <2>1, <2>2
<1>8. RendersInv'
  BY <1>1 DEF RendersInv
<1>9. VersionsInv'
  <2>1. \A y \in ContextKeys : build'[y].phase # "none" => y[1] <= version
    BY <1>2, <1>3, Typed DEF VersionsInv
  <2>2. \A y \in ContextKeys : build'[y].phase = "running" => y[1] <= build'[y].read /\ build'[y].read <= version
    BY <1>3 DEF VersionsInv
  <2>3. \A k \in Keys : k \in DOMAIN leases' => k[1] <= leases'[k] /\ leases'[k] <= version
    BY <1>3, <1>6 DEF VersionsInv
  <2> QED BY <1>1, <1>3, <2>1, <2>2, <2>3 DEF VersionsInv
<1>10. CallsInv'
  BY <1>1, <1>4 DEF CallsInv, CallInv
<1>11. UnretriedIsOneVersion'
  BY <1>4 DEF UnretriedIsOneVersion
<1>12. BuildsWanted' /\ LeasesHeld'
  BY <1>1, <1>3, <1>4, <1>6, Typed DEF BuildsWanted, LeasesHeld
<1>13. JobsWanted' /\ ConsumersWait'
  BY <1>1, <1>4, Typed DEF JobsWanted, ConsumersWait
<1> QED BY <1>5, <1>7, <1>8, <1>9, <1>10, <1>11, <1>12, <1>13

LEMMA TakeResultKeeps ==
  ASSUME PreviewInv, NEW c \in Calls, TakeResult(c)
  PROVE  PreviewInv'
<1> USE DEF PreviewInv
<1>1. /\ call[c].pc = "waiting" /\ call[c].heard # "nothing" /\ leases' = Without({c})
      /\ call' = [call EXCEPT ![c] = IF @.heard = "model" THEN AfterRender(@, @.content)
                                     ELSE [@ EXCEPT !.pc = "failed"]]
      /\ UNCHANGED <<contexts, build, orphans, format, version, models, render, unhandled>>
  BY DEF TakeResult
<1>2. /\ call' \in [Calls -> CallRecords]
      /\ call'[c].pc = IF call[c].heard = "model" THEN IF call[c].retried THEN "returned" ELSE "restat"
                       ELSE "failed"
      /\ call'[c].key = call[c].key /\ call'[c].asked = call[c].asked
      /\ call'[c].content = call[c].content /\ call'[c].retried = call[c].retried
      /\ \A d \in Calls : d # c => call'[d] = call[d]
  <2>1. call \in [Calls -> CallRecords] /\ call[c] \in CallRecords
    BY Typed DEF TypeOK
  <2>2. CASE call[c].heard = "model"
    <3> DEFINE r == AfterRender(call[c], call[c].content)
    <3>1. r \in CallRecords
      BY <2>1, RecordFacts, Typed DEF AfterRender, Pcs, Final
    <3>2. /\ r.pc = (IF call[c].retried THEN "returned" ELSE "restat") /\ r.key = call[c].key
          /\ r.asked = call[c].asked /\ r.content = call[c].content /\ r.retried = call[c].retried
      BY <2>1 DEF AfterRender, CallRecords
    <3>3. call' = [call EXCEPT ![c] = r]
      BY <1>1, <2>2
    <3> HIDE DEF r
    <3> QED BY <2>1, <2>2, <3>1, <3>2, <3>3
  <2>3. CASE call[c].heard # "model"
    <3> DEFINE r == [call[c] EXCEPT !.pc = "failed"]
    <3>1. r \in CallRecords
      BY <2>1, RecordFacts DEF Pcs, Final
    <3>2. /\ r.pc = "failed" /\ r.key = call[c].key
          /\ r.asked = call[c].asked /\ r.content = call[c].content /\ r.retried = call[c].retried
      BY <2>1 DEF CallRecords
    <3>3. call' = [call EXCEPT ![c] = r]
      BY <1>1, <2>3
    <3> HIDE DEF r
    <3> QED BY <2>1, <2>3, <3>1, <3>2, <3>3
  <2> QED BY <2>2, <2>3
<1>3. /\ DOMAIN leases' = DOMAIN leases \ {c} /\ \A t \in DOMAIN leases' : leases'[t] = leases[t]
      /\ Range(leases') \subseteq Range(leases)
  BY <1>1, WithoutFacts
<1>4. TypeOK'
  BY <1>1, <1>2, <1>3 DEF TypeOK, RegistryType
<1>5. (\A k \in Keys : c \notin render[k].consumers) /\ (\A y \in ContextKeys : c \notin build[y].waiters)
  BY <1>1 DEF ConsumersWait, WaitersInv
<1>6. WaitersInv'
  BY <1>1, <1>2, <1>3, <1>5 DEF WaitersInv
<1>7. RendersInv' /\ VersionsInv'
  BY <1>1, <1>3 DEF RendersInv, VersionsInv
<1>8. CallsInv'
  <2>1. /\ call[c].key \in Keys /\ call[c].asked <= call[c].key[1] /\ call[c].key[1] <= version
        /\ call[c].heard = "model" => Within(call[c].content, call[c].key[1], version)
    BY <1>1 DEF CallsInv, CallInv
  <2>2. call[c].heard = "model" => \A v \in call[c].content : v >= call[c].asked
    <3>1. call[c].key[1] \in Nat /\ call[c].asked \in Nat /\ \A v \in call[c].content : v \in Nat
      BY <2>1, KeyFacts, Typed
    <3> QED BY <2>1, <3>1 DEF Within
  <2>3. CallInv(c)'
    BY <1>1, <1>2, <2>1, <2>2 DEF CallInv
  <2> QED BY <1>1, <1>2, <2>3 DEF CallsInv, CallInv
<1>9. UnretriedIsOneVersion'
  BY <1>2 DEF UnretriedIsOneVersion
<1>10. BuildsWanted' /\ LeasesHeld'
  BY <1>1, <1>2, <1>3 DEF BuildsWanted, LeasesHeld
<1>11. JobsWanted' /\ ConsumersWait'
  BY <1>1, <1>2, <1>5, Typed DEF JobsWanted, ConsumersWait
<1> QED BY <1>4, <1>6, <1>7, <1>8, <1>9, <1>10, <1>11

-----------------------------------------------------------------------------
(***************************************************************************)
(* The end of a render                                                     *)
(***************************************************************************)
LEMMA ConsumerFacts ==
  ASSUME PreviewInv, NEW R \in SUBSET Keys
  PROVE  /\ Waiting(R) \subseteq Calls /\ Busy(R) \subseteq Calls
         /\ \A c \in Waiting(R) : call[c].pc = "waiting" /\ call[c].key \in R
         /\ \A c \in Busy(R) : call[c].pc \in {"joining", "building"} /\ call[c].key \in R
         /\ \A k \in R : \A c \in render[k].consumers : c \in Waiting(R) \cup Busy(R)
         /\ \A k \in Keys \ R : \A c \in render[k].consumers : c \notin Waiting(R) \cup Busy(R)
<1>1. \A c \in Consumers(R) : \E k \in R : c \in render[k].consumers
  BY DEF Consumers
<1>2. \A c \in Consumers(R) : /\ c \in Calls /\ call[c].key \in R
                              /\ call[c].pc \in {"joining", "building", "waiting"}
  BY <1>1, Typed DEF PreviewInv, ConsumersWait
<1>3. \A k \in R : \A c \in render[k].consumers : c \in Consumers(R)
  BY DEF Consumers
<1>4. \A k \in Keys \ R : \A c \in render[k].consumers : c \notin Consumers(R)
  BY <1>2 DEF PreviewInv, ConsumersWait
<1> QED BY <1>2, <1>3, <1>4 DEF Waiting, Busy

LEMMA ResolvesKeeps ==
  ASSUME PreviewInv, NEW k \in Keys, NEW content \in SUBSET Versions, Within(content, k[1], version),
         \A x \in ContextKeys : k \notin build[x].waiters,
         Resolves(k, content), UNCHANGED <<contexts, build, orphans, format, version>>
  PROVE  PreviewInv'
<1> USE DEF PreviewInv
<1> DEFINE W == Waiting({k})
           B == Busy({k})
<1>1. /\ W \subseteq Calls /\ B \subseteq Calls
      /\ \A c \in W : call[c].pc = "waiting" /\ call[c].key = k
      /\ \A c \in B : call[c].pc \in {"joining", "building"} /\ call[c].key = k
      /\ \A j \in Keys \ {k} : \A c \in render[j].consumers : c \notin W \cup B
  BY ConsumerFacts
<1>2. /\ render' = [render EXCEPT ![k] = NoRender] /\ leases' = Without({k} \cup W)
      /\ models' = With(models, {k}, content) /\ UNCHANGED unhandled
      /\ call' = [c \in Calls |-> IF c \in W THEN AfterRender(call[c], content)
                                  ELSE IF c \in B THEN [call[c] EXCEPT !.heard = "model", !.content = content]
                                  ELSE call[c]]
  BY DEF Resolves
<1> HIDE DEF W, B
<1>3. ASSUME NEW c \in W
      PROVE  /\ call'[c] \in CallRecords
             /\ call'[c].pc = IF call[c].retried THEN "returned" ELSE "restat"
             /\ call'[c].key = k /\ call'[c].asked = call[c].asked
             /\ call'[c].content = content /\ call'[c].retried = call[c].retried
  <2> DEFINE r == AfterRender(call[c], content)
  <2>1. c \in Calls /\ call[c] \in CallRecords
    BY <1>1, Typed
  <2>2. r \in CallRecords
    BY <2>1, RecordFacts, Typed DEF AfterRender, Pcs, Final
  <2>3. /\ r.pc = (IF call[c].retried THEN "returned" ELSE "restat") /\ r.key = call[c].key
        /\ r.asked = call[c].asked /\ r.content = content /\ r.retried = call[c].retried
    BY <2>1 DEF AfterRender, CallRecords
  <2>4. call'[c] = r
    BY <1>2, <2>1
  <2> HIDE DEF r
  <2> QED BY <1>1, <2>2, <2>3, <2>4
<1>4. ASSUME NEW c \in B
      PROVE  /\ call'[c] \in CallRecords
             /\ call'[c].pc = call[c].pc /\ call'[c].key = k /\ call'[c].asked = call[c].asked
             /\ call'[c].content = content
  <2> DEFINE r == [call[c] EXCEPT !.heard = "model", !.content = content]
  <2>1. c \in Calls /\ call[c] \in CallRecords /\ c \notin W
    BY <1>1, Typed
  <2>2. r \in CallRecords
    BY <2>1, RecordFacts
  <2>3. r.pc = call[c].pc /\ r.key = call[c].key /\ r.asked = call[c].asked /\ r.content = content
    BY <2>1 DEF CallRecords
  <2>4. call'[c] = r
    BY <1>2, <2>1
  <2> HIDE DEF r
  <2> QED BY <1>1, <2>2, <2>3, <2>4
<1>5. \A c \in Calls : c \notin W \cup B => call'[c] = call[c]
  BY <1>2
<1>6. call' \in [Calls -> CallRecords]
  <2>1. \A c \in Calls : call'[c] \in CallRecords
    BY <1>3, <1>4, <1>5, Typed
  <2> QED BY <1>2, <2>1
<1>7. /\ render' \in [Keys -> Renders] /\ render'[k] = NoRender
      /\ \A j \in Keys : j # k => render'[j] = render[j]
  BY <1>2, RecordFacts DEF TypeOK
<1>8. /\ DOMAIN leases' = DOMAIN leases \ ({k} \cup W)
      /\ \A t \in DOMAIN leases' : leases'[t] = leases[t]
      /\ Range(leases') \subseteq Range(leases)
  BY <1>2, WithoutFacts
<1>9. /\ DOMAIN models' = DOMAIN models \cup {k} /\ models'[k] = content
      /\ \A j \in DOMAIN models : j # k => models'[j] = models[j]
      /\ Range(models') \subseteq Range(models) \cup {content}
  BY <1>2 DEF With, Range
<1>10. TypeOK'
  BY <1>2, <1>6, <1>7, <1>8, <1>9 DEF TypeOK, RegistryType
<1>11. WaitersInv'
  <2>1. \A c \in Calls : call[c].pc = "building" => call'[c].pc = "building"
    BY <1>1, <1>4, <1>5
  <2> QED BY <1>7, <1>8, <2>1 DEF WaitersInv
<1>12. RendersInv'
  BY <1>7 DEF RendersInv, NoRender
<1>13. VersionsInv'
  <2>1. \A j \in DOMAIN models' : Within(models'[j], j[1], version)
    BY <1>9 DEF VersionsInv
  <2> QED BY <1>8, <2>1 DEF VersionsInv
<1>14. CallsInv'
  <2>1. ASSUME NEW c \in W \cup B
        PROVE  /\ c \in Calls /\ call[c].pc # "idle" /\ call[c].asked <= k[1] /\ k[1] <= version
               /\ \A v \in content : v >= call[c].asked
    <3>1. c \in Calls /\ call[c].pc # "idle" /\ call[c].asked <= k[1] /\ k[1] <= version
      BY <1>1 DEF CallsInv, CallInv
    <3>2. call[c].asked \in Nat /\ k[1] \in Nat /\ \A v \in content : v \in Nat
      BY <3>1, KeyFacts, Typed, VersionFacts
    <3>3. \A v \in content : k[1] <= v
      BY DEF Within
    <3> QED BY <3>1, <3>2, <3>3
  <2>2. ASSUME NEW c \in W PROVE CallInv(c)'
    BY <1>3, <2>1 DEF CallInv
  <2>3. ASSUME NEW c \in B PROVE CallInv(c)'
    BY <1>1, <1>4, <2>1 DEF CallInv
  <2>4. ASSUME NEW c \in Calls, c \notin W \cup B PROVE CallInv(c)'
    BY <1>5, <2>4 DEF CallsInv, CallInv
  <2> QED BY <2>2, <2>3, <2>4 DEF CallsInv
<1>15. UnretriedIsOneVersion'
  BY <1>1, <1>3, <1>4, <1>5 DEF UnretriedIsOneVersion
<1>16. BuildsWanted' /\ LeasesHeld'
  BY <1>1, <1>4, <1>5, <1>7, <1>8 DEF BuildsWanted, LeasesHeld
<1>17. JobsWanted'
  <2> SUFFICES ASSUME NEW j \in Keys, render'[j].job = "queued", render'[j].consumers = {}
               PROVE  \E d \in Calls : call'[d].key = j /\ call'[d].pc = "failed"
    BY DEF JobsWanted
  <2>1. j # k /\ render[j].job = "queued" /\ render[j].consumers = {}
    BY <1>7 DEF NoRender
  <2>2. PICK d \in Calls : call[d].key = j /\ call[d].pc = "failed"
    BY <2>1 DEF JobsWanted
  <2> QED BY <1>1, <1>5, <2>2
<1>18. ConsumersWait'
  <2> SUFFICES ASSUME NEW j \in Keys, NEW d \in render'[j].consumers
               PROVE  call'[d].key = j /\ call'[d].pc \in {"joining", "building", "waiting"} /\ call'[d].heard = "nothing"
    BY DEF ConsumersWait
  <2>1. j # k /\ d \in render[j].consumers /\ d \in Calls
    BY <1>7, Typed DEF NoRender
  <2> QED BY <1>1, <1>5, <2>1 DEF ConsumersWait
<1> QED BY <1>10, <1>11, <1>12, <1>13, <1>14, <1>15, <1>16, <1>17, <1>18

\* A build may fail in the same step: then F are the calls that waited for it.
LEMMA RejectsKeeps ==
  ASSUME PreviewInv, NEW R \in SUBSET Keys, NEW F \in SUBSET Calls,
         \A c \in F : call[c].pc = "building",
         build' \in [ContextKeys -> Builds],
         \A x \in ContextKeys : \/ build'[x] = NoBuild
                                \/ build'[x] = build[x] /\ build[x].waiters \cap (R \cup F) = {},
         Rejects(R, F), UNCHANGED <<contexts, orphans, format, version>>,
         models' = models \/ models' = Nothing
  PROVE  PreviewInv'
<1> USE DEF PreviewInv
<1> DEFINE W == Waiting(R)
           B == Busy(R)
<1>1. /\ W \subseteq Calls /\ B \subseteq Calls
      /\ \A c \in W : call[c].pc = "waiting" /\ call[c].key \in R
      /\ \A c \in B : call[c].pc \in {"joining", "building"} /\ call[c].key \in R
      /\ \A j \in Keys \ R : \A c \in render[j].consumers : c \notin W \cup B
  BY ConsumerFacts
<1>2. /\ render' = [k \in Keys |-> IF k \in R THEN NoRender ELSE [render[k] EXCEPT !.consumers = @ \ F]]
      /\ leases' = Without(R \cup W) /\ unhandled' \in BOOLEAN
      /\ call' = [c \in Calls |-> IF c \in W \cup F THEN [call[c] EXCEPT !.pc = "failed"]
                                  ELSE IF c \in B THEN [call[c] EXCEPT !.heard = "rejection"]
                                  ELSE call[c]]
  BY DEF Rejects
<1> HIDE DEF W, B
<1>3. ASSUME NEW c \in W \cup F
      PROVE  /\ call'[c] \in CallRecords /\ call'[c].pc = "failed"
             /\ call'[c].key = call[c].key /\ call'[c].asked = call[c].asked
  <2> DEFINE r == [call[c] EXCEPT !.pc = "failed"]
  <2>1. c \in Calls /\ call[c] \in CallRecords
    BY <1>1, Typed
  <2>2. r \in CallRecords
    BY <2>1, RecordFacts DEF Pcs, Final
  <2>3. r.pc = "failed" /\ r.key = call[c].key /\ r.asked = call[c].asked
    BY <2>1 DEF CallRecords
  <2>4. call'[c] = r
    BY <1>2, <2>1
  <2> HIDE DEF r
  <2> QED BY <2>2, <2>3, <2>4
<1>4. ASSUME NEW c \in B, c \notin F
      PROVE  /\ call'[c] \in CallRecords /\ call'[c].heard = "rejection"
             /\ call'[c].pc = call[c].pc /\ call'[c].key = call[c].key /\ call'[c].asked = call[c].asked
  <2> DEFINE r == [call[c] EXCEPT !.heard = "rejection"]
  <2>1. c \in Calls /\ call[c] \in CallRecords /\ c \notin W
    BY <1>1, Typed
  <2>2. r \in CallRecords
    BY <2>1, RecordFacts
  <2>3. r.pc = call[c].pc /\ r.key = call[c].key /\ r.asked = call[c].asked /\ r.heard = "rejection"
    BY <2>1 DEF CallRecords
  <2>4. call'[c] = r
    BY <1>2, <1>4, <2>1
  <2> HIDE DEF r
  <2> QED BY <2>2, <2>3, <2>4
<1>5. \A c \in Calls : c \notin W \cup B \cup F => call'[c] = call[c]
  BY <1>2
<1>6. call' \in [Calls -> CallRecords]
  <2>1. \A c \in Calls : call'[c] \in CallRecords
    BY <1>3, <1>4, <1>5, Typed
  <2> QED BY <1>2, <2>1
<1>7. ASSUME NEW k \in Keys
      PROVE  /\ render'[k] \in Renders
             /\ k \in R => render'[k] = NoRender
             /\ k \notin R => /\ render'[k].consumers = render[k].consumers \ F
                              /\ render'[k].phase = render[k].phase /\ render'[k].job = render[k].job
                              /\ render'[k].content = render[k].content /\ render'[k].live = render[k].live
  <2> DEFINE r == [render[k] EXCEPT !.consumers = @ \ F]
  <2>1. render[k] \in Renders /\ render[k].consumers \ F \in SUBSET Calls
    BY Typed
  <2>2. r \in Renders
    BY <2>1, RecordFacts
  <2>3. /\ r.consumers = render[k].consumers \ F /\ r.phase = render[k].phase /\ r.job = render[k].job
        /\ r.content = render[k].content /\ r.live = render[k].live
    BY <2>1 DEF Renders
  <2>4. render'[k] = IF k \in R THEN NoRender ELSE r
    BY <1>2
  <2> HIDE DEF r
  <2> QED BY <2>2, <2>3, <2>4, RecordFacts
<1>8. render' \in [Keys -> Renders]
  BY <1>2, <1>7
<1>9. /\ DOMAIN leases' = DOMAIN leases \ (R \cup W)
      /\ \A t \in DOMAIN leases' : leases'[t] = leases[t]
      /\ Range(leases') \subseteq Range(leases)
  BY <1>2, WithoutFacts
<1>10. DOMAIN models' \subseteq DOMAIN models /\ Range(models') \subseteq Range(models)
       /\ \A k \in DOMAIN models' : models'[k] = models[k]
  BY DEF Nothing, Range
<1>11. TypeOK'
  BY <1>2, <1>6, <1>8, <1>9, <1>10 DEF TypeOK, RegistryType
<1>12. \A x \in ContextKeys :
          \/ build'[x] = NoBuild /\ NoBuild.waiters = {} /\ NoBuild.phase = "none"
          \/ build'[x] = build[x] /\ build[x].waiters \cap (R \cup F) = {}
  BY DEF NoBuild
<1>13. WaitersInv'
  <2> SUFFICES ASSUME NEW x \in ContextKeys, NEW t \in build'[x].waiters
               PROVE  /\ t \in Keys => render'[t].phase = "context" /\ t \notin DOMAIN leases' /\ t[1] <= x[1]
                      /\ t \in Calls => call'[t].pc = "building"
                      /\ \A y \in ContextKeys : t \in build'[y].waiters => x = y
    BY DEF WaitersInv
  <2>1. t \in build[x].waiters /\ t \notin R \cup F /\ \A y \in ContextKeys : t \in build'[y].waiters => t \in build[y].waiters
    BY <1>12
  <2>2. t \in Calls => call'[t].pc = "building"
    BY <1>1, <1>4, <1>5, <2>1 DEF WaitersInv
  <2> QED BY <1>7, <1>9, <2>1, <2>2 DEF WaitersInv
<1>14. RendersInv'
  <2> SUFFICES ASSUME NEW k \in Keys
               PROVE  /\ render'[k].phase = "none" => render'[k].consumers = {}
                      /\ render'[k].phase \in {"none", "seed", "context"} <=> render'[k].job = "none"
                      /\ render'[k].phase # "none" => k[1] <= version
                      /\ render'[k].phase = "slides" \/ render'[k].job = "running" =>
                           Within(render'[k].content, k[1], version)
    BY DEF RendersInv
  <2>1. CASE k \in R
    BY <1>7, <2>1 DEF NoRender
  <2>2. CASE k \notin R
    BY <1>7, <2>2 DEF RendersInv
  <2> QED BY <2>1, <2>2
<1>15. VersionsInv'
  BY <1>9, <1>10, <1>12 DEF VersionsInv
<1>16. CallsInv'
  <2>1. ASSUME NEW c \in W \cup F PROVE CallInv(c)'
    BY <1>1, <1>3 DEF CallsInv, CallInv
  <2>2. ASSUME NEW c \in B, c \notin F PROVE CallInv(c)'
    BY <1>1, <1>4, <2>2 DEF CallsInv, CallInv
  <2>3. ASSUME NEW c \in Calls, c \notin W \cup B \cup F PROVE CallInv(c)'
    BY <1>5, <2>3 DEF CallsInv, CallInv
  <2> QED BY <2>1, <2>2, <2>3 DEF CallsInv
<1>17. UnretriedIsOneVersion'
  BY <1>1, <1>3, <1>4, <1>5 DEF UnretriedIsOneVersion
<1>18. BuildsWanted'
  BY <1>12 DEF BuildsWanted
<1>19. LeasesHeld'
  <2>1. ASSUME NEW c \in Calls, c \in DOMAIN leases' PROVE call'[c].pc = "waiting"
    BY <1>1, <1>5, <1>9, <2>1 DEF LeasesHeld
  <2> QED BY <1>7, <1>9, <2>1 DEF LeasesHeld
<1>20. JobsWanted'
  <2> SUFFICES ASSUME NEW j \in Keys, render'[j].job = "queued", render'[j].consumers = {}
               PROVE  \E d \in Calls : call'[d].key = j /\ call'[d].pc = "failed"
    BY DEF JobsWanted
  <2>1. j \notin R /\ render[j].job = "queued" /\ render[j].consumers \subseteq F
    BY <1>7 DEF NoRender
  <2>2. CASE render[j].consumers = {}
    <3>1. PICK d \in Calls : call[d].key = j /\ call[d].pc = "failed"
      BY <2>1, <2>2 DEF JobsWanted
    <3> QED BY <1>1, <1>5, <3>1
  <2>3. CASE render[j].consumers # {}
    BY <1>3, <2>1, <2>3 DEF ConsumersWait
  <2> QED BY <2>2, <2>3
<1>21. ConsumersWait'
  <2> SUFFICES ASSUME NEW j \in Keys, NEW d \in render'[j].consumers
               PROVE  call'[d].key = j /\ call'[d].pc \in {"joining", "building", "waiting"} /\ call'[d].heard = "nothing"
    BY DEF ConsumersWait
  <2>1. j \notin R /\ d \in render[j].consumers /\ d \notin F /\ d \in Calls
    BY <1>7, Typed DEF NoRender
  <2> QED BY <1>1, <1>5, <2>1 DEF ConsumersWait
<1> QED BY <1>11, <1>13, <1>14, <1>15, <1>16, <1>17, <1>18, <1>19, <1>20, <1>21

-----------------------------------------------------------------------------
(***************************************************************************)
(* The steps of a render                                                   *)
(***************************************************************************)
\* A render goes from one stage to the next and keeps its consumers.
LEMMA RenderMoves ==
  ASSUME PreviewInv, NEW k \in Keys, render[k].phase # "none",
         \A x \in ContextKeys : k \notin build[x].waiters,
         NEW r \in Renders, r.consumers = render[k].consumers,
         r.phase \in {"sidecar", "outline", "slides"}, r.job \in {"queued", "running"},
         r.job = "queued" => r.consumers # {},
         r.phase = "slides" \/ r.job = "running" => Within(r.content, k[1], version),
         render' = [render EXCEPT ![k] = r],
         UNCHANGED <<registryVars, format, version, models, call, unhandled>>
  PROVE  PreviewInv'
<1> USE DEF PreviewInv, registryVars
<1>1. /\ render' \in [Keys -> Renders] /\ render'[k] = r
      /\ \A j \in Keys : j # k => render'[j] = render[j]
  BY DEF TypeOK
<1>2. TypeOK'
  BY <1>1 DEF TypeOK, RegistryType
<1>3. WaitersInv'
  BY <1>1 DEF WaitersInv
<1>4. RendersInv'
  BY <1>1 DEF RendersInv
<1>5. VersionsInv' /\ CallsInv' /\ UnretriedIsOneVersion'
  BY DEF VersionsInv, CallsInv, CallInv, UnretriedIsOneVersion
<1>6. BuildsWanted' /\ LeasesHeld'
  BY <1>1 DEF BuildsWanted, LeasesHeld
<1>7. JobsWanted' /\ ConsumersWait'
  BY <1>1 DEF JobsWanted, ConsumersWait
<1> QED BY <1>2, <1>3, <1>4, <1>5, <1>6, <1>7

LEMMA NoWaiter ==
  ASSUME PreviewInv, NEW k \in Keys, render[k].phase # "context" \/ k \in DOMAIN leases
  PROVE  \A x \in ContextKeys : k \notin build[x].waiters
BY DEF PreviewInv, WaitersInv

LEMMA RejectsOne ==
  ASSUME PreviewInv, NEW k \in Keys, render[k].phase # "context" \/ k \in DOMAIN leases,
         Rejects({k}, {}), UNCHANGED <<contexts, build, orphans, format, version, models>>
  PROVE  PreviewInv'
<1>1. /\ {k} \in SUBSET Keys /\ {} \in SUBSET Calls /\ build' \in [ContextKeys -> Builds]
      /\ \A c \in {} : call[c].pc = "building"
  BY DEF PreviewInv, TypeOK, RegistryType
<1>2. \A x \in ContextKeys : build'[x] = build[x] /\ build[x].waiters \cap ({k} \cup {}) = {}
  BY NoWaiter
<1> QED BY <1>1, <1>2, RejectsKeeps

LEMMA SeedKeeps ==
  ASSUME PreviewInv, NEW k \in Keys, Seed(k)
  PROVE  PreviewInv'
<1> USE DEF PreviewInv
<1> DEFINE x == <<version, ProfileOf(k)>>
<1>1. render[k].phase = "seed" /\ UNCHANGED <<format, version, models>>
  BY DEF Seed
<1>2. x \in ContextKeys /\ x[1] = version /\ k \in Tickets /\ k \notin Calls
  BY Typed, ContextKeyFacts, TicketFacts
<1>3. \/ Join(k, x) /\ render' = [render EXCEPT ![k].phase = "context"] /\ UNCHANGED <<call, unhandled>>
      \/ Rejects({k}, {}) /\ UNCHANGED <<contexts, build, orphans>>
  BY DEF Seed
<1> HIDE DEF x
<1>4. CASE Rejects({k}, {}) /\ UNCHANGED <<contexts, build, orphans>>
  BY <1>1, <1>4, RejectsOne
<1>5. CASE Join(k, x) /\ render' = [render EXCEPT ![k].phase = "context"] /\ UNCHANGED <<call, unhandled>>
  <2>1. /\ RegistryType' /\ contexts' = contexts /\ orphans' = orphans
        /\ Cached(x) => /\ build' = build /\ DOMAIN leases' = DOMAIN leases \cup {k}
                        /\ leases'[k] = contexts[x]
                        /\ \A u \in DOMAIN leases : u # k => leases'[u] = leases[u]
        /\ ~Cached(x) => /\ leases' = leases /\ \A y \in ContextKeys : y # x => build'[y] = build[y]
                         /\ build'[x].waiters = build[x].waiters \cup {k}
                         /\ build'[x].read = build[x].read
                         /\ build'[x].phase = IF build[x].phase = "none" THEN "queued" ELSE build[x].phase
    BY <1>2, <1>5, JoinFacts
  <2>2. /\ render' \in [Keys -> Renders] /\ render'[k].phase = "context"
        /\ render'[k].job = render[k].job /\ render'[k].consumers = render[k].consumers
        /\ render'[k].content = render[k].content
        /\ \A j \in Keys : j # k => render'[j] = render[j]
    <3>1. render' \in [Keys -> Renders]
      BY <1>5, RecordFacts, Typed DEF TypeOK
    <3> QED BY <1>5, <3>1, Typed DEF TypeOK, Renders
  <2>3. TypeOK'
    BY <1>1, <1>5, <2>1, <2>2 DEF TypeOK
  <2>4. k \notin DOMAIN leases /\ (\A y \in ContextKeys : k \notin build[y].waiters) /\ k[1] <= version
    BY <1>1, NoWaiter DEF LeasesHeld, RendersInv
  <2>5. WaitersInv'
    <3> SUFFICES ASSUME NEW y \in ContextKeys, NEW t \in build'[y].waiters
                 PROVE  /\ t \in Keys => render'[t].phase = "context" /\ t \notin DOMAIN leases' /\ t[1] <= y[1]
                        /\ t \in Calls => call[t].pc = "building"
                        /\ \A z \in ContextKeys : t \in build'[z].waiters => y = z
      BY <1>5 DEF WaitersInv
    <3>1. CASE t = k
      BY <1>2, <2>1, <2>2, <2>4, <3>1
    <3>2. CASE t # k
      <4>1. t \in build[y].waiters /\ \A z \in ContextKeys : t \in build'[z].waiters => t \in build[z].waiters
        BY <2>1, <3>2
      <4> QED BY <2>1, <2>2, <3>2, <4>1 DEF WaitersInv
    <3> QED BY <3>1, <3>2
  <2>6. RendersInv'
    BY <1>1, <2>2 DEF RendersInv
  <2>7. VersionsInv'
    <3>1. \A y \in ContextKeys : build'[y].phase # "none" => y[1] <= version
      BY <1>2, <2>1, Typed DEF VersionsInv
    <3>2. \A y \in ContextKeys : build'[y].phase = "running" => y[1] <= build'[y].read /\ build'[y].read <= version
      BY <2>1 DEF VersionsInv
    <3>3. Cached(x) => version <= contexts[x] /\ contexts[x] <= version /\ contexts[x] \in Nat
      BY <1>2, Typed, VersionFacts DEF VersionsInv, Cached
    <3>4. Cached(x) => k[1] <= contexts[x] /\ contexts[x] <= version
      BY <2>4, <3>3, KeyFacts, Typed
    <3>5. \A j \in Keys : j \in DOMAIN leases' => j[1] <= leases'[j] /\ leases'[j] <= version
      BY <2>1, <3>4 DEF VersionsInv
    <3> QED BY <1>1, <2>1, <3>1, <3>2, <3>5 DEF VersionsInv
  <2>8. CallsInv' /\ UnretriedIsOneVersion'
    BY <1>1, <1>5 DEF CallsInv, CallInv, UnretriedIsOneVersion
  <2>9. BuildsWanted'
    BY <2>1, Typed DEF BuildsWanted
  <2>10. LeasesHeld'
    BY <1>2, <1>5, <2>1, <2>2 DEF LeasesHeld
  <2>11. JobsWanted' /\ ConsumersWait'
    BY <1>5, <2>2 DEF JobsWanted, ConsumersWait
  <2> QED BY <2>3, <2>5, <2>6, <2>7, <2>8, <2>9, <2>10, <2>11
<1> QED BY <1>3, <1>4, <1>5

LEMMA SeededKeeps ==
  ASSUME PreviewInv, NEW k \in Keys, Seeded(k)
  PROVE  PreviewInv'
<1> USE DEF PreviewInv
<1>1. render[k].phase = "context" /\ k \in DOMAIN leases /\ UNCHANGED <<contexts, build, orphans, format, version>>
  BY DEF Seeded
<1>2. leases[k] \in Versions /\ Within({leases[k]}, k[1], version)
  BY <1>1, Typed DEF VersionsInv, Within
<1>3. CASE render[k].consumers # {}
  <2> DEFINE phase == IF k[2] = "visual" THEN "slides" ELSE IF format = "xlsx" THEN "sidecar" ELSE "outline"
             content == IF k[2] = "visual" THEN {leases[k]} ELSE {}
             r == [render[k] EXCEPT !.phase = phase, !.job = "queued", !.content = content]
  <2>1. Advance(k) /\ UNCHANGED <<leases, models, call, unhandled>>
    BY <1>3 DEF Seeded
  <2>2. content \in SUBSET Versions /\ phase \in {"sidecar", "outline", "slides"}
        /\ (phase = "slides" => Within(content, k[1], version))
    BY <1>2
  <2>3. render' = [render EXCEPT ![k] = r]
    BY <2>1, Typed DEF Advance, TypeOK
  <2> HIDE DEF phase, content
  <2>4. r \in Renders
    BY <2>2, RecordFacts, Typed
  <2>5. r.consumers = render[k].consumers /\ r.phase = phase /\ r.job = "queued" /\ r.content = content
    BY Typed DEF Renders
  <2> HIDE DEF r
  <2> QED BY <1>1, <1>3, <2>1, <2>2, <2>3, <2>4, <2>5, NoWaiter, RenderMoves DEF registryVars
<1>4. CASE render[k].consumers = {} /\ k[2] = "visual"
  <2>1. Resolves(k, {leases[k]})
    BY <1>4 DEF Seeded
  <2> QED BY <1>1, <1>2, <2>1, NoWaiter, ResolvesKeeps
<1>5. CASE render[k].consumers = {} /\ k[2] # "visual"
  BY <1>1, <1>5, RejectsOne DEF Seeded
<1> QED BY <1>3, <1>4, <1>5

LEMMA JobStartsKeeps ==
  ASSUME PreviewInv, NEW k \in Keys, JobStarts(k)
  PROVE  PreviewInv'
<1> USE DEF PreviewInv
<1> DEFINE content == IF render[k].phase = "slides" THEN render[k].content ELSE {version}
           r == [render[k] EXCEPT !.job = "running", !.content = content]
<1>1. /\ render[k].job = "queued" /\ UNCHANGED <<registryVars, format, version, models, call, unhandled>>
      /\ render' = [render EXCEPT ![k] = r]
  BY Typed DEF JobStarts, TypeOK
<1>2. render[k].phase \notin {"none", "seed", "context"} /\ render[k] \in Renders /\ k[1] <= version
  BY <1>1, Typed DEF RendersInv
<1>3. content \in SUBSET Versions /\ Within(content, k[1], version)
  BY <1>2, Typed DEF RendersInv, Within
<1> HIDE DEF content
<1>4. r \in Renders
  BY <1>2, <1>3, RecordFacts
<1>5. /\ r.consumers = render[k].consumers /\ r.phase = render[k].phase /\ r.job = "running"
      /\ r.content = content
  BY <1>2 DEF Renders
<1>6. render[k].phase \in {"sidecar", "outline", "slides"}
  BY <1>2 DEF Renders
<1> HIDE DEF r
<1> QED BY <1>1, <1>2, <1>3, <1>4, <1>5, <1>6, NoWaiter, RenderMoves

LEMMA JobDoneKeeps ==
  ASSUME PreviewInv, NEW k \in Keys, JobDone(k)
  PROVE  PreviewInv'
<1>1. /\ Resolves(k, render[k].content) /\ UNCHANGED <<contexts, build, orphans, format, version>>
      /\ render[k].content \in SUBSET Versions /\ Within(render[k].content, k[1], version)
      /\ render[k].phase # "context"
  BY Typed DEF JobDone, PreviewInv, RendersInv
<1> QED BY <1>1, NoWaiter, ResolvesKeeps

LEMMA JobFailsKeeps ==
  ASSUME PreviewInv, NEW k \in Keys, JobFails(k)
  PROVE  PreviewInv'
<1> USE DEF PreviewInv
<1>1. render[k].job # "none" /\ UNCHANGED <<contexts, build, orphans, format, version>>
  BY DEF JobFails
<1>2. render[k].phase \notin {"none", "context"} /\ render[k] \in Renders /\ render[k].content \in SUBSET Versions
  BY <1>1, Typed DEF RendersInv
<1>3. CASE render[k].phase = "slides"
  <2>1. Resolves(k, render[k].content)
    BY <1>3 DEF JobFails
  <2>2. Within(render[k].content, k[1], version)
    BY <1>3 DEF RendersInv
  <2> QED BY <1>1, <1>2, <2>1, <2>2, NoWaiter, ResolvesKeeps
<1>4. CASE render[k].phase = "sidecar" /\ render[k].consumers # {}
  <2> DEFINE r == [render[k] EXCEPT !.phase = "outline", !.job = "queued", !.content = {}]
  <2>1. /\ render' = [render EXCEPT ![k].phase = "outline", ![k].job = "queued", ![k].content = {}]
        /\ UNCHANGED <<leases, models, call, unhandled>>
    BY <1>4 DEF JobFails
  <2>2. render' = [render EXCEPT ![k] = r]
    BY <2>1, Typed DEF TypeOK
  <2>3. r \in Renders
    BY <1>2, RecordFacts
  <2>4. r.consumers = render[k].consumers /\ r.phase = "outline" /\ r.job = "queued"
    BY <1>2 DEF Renders
  <2> HIDE DEF r
  <2> QED BY <1>1, <1>2, <1>4, <2>1, <2>2, <2>3, <2>4, NoWaiter, RenderMoves DEF registryVars
<1>5. CASE render[k].phase # "slides" /\ ~(render[k].phase = "sidecar" /\ render[k].consumers # {})
  <2>1. Rejects({k}, {}) /\ UNCHANGED models
    BY <1>5 DEF JobFails
  <2> QED BY <1>1, <1>2, <2>1, RejectsOne
<1> QED BY <1>3, <1>4, <1>5

LEMMA SupersedeKeeps ==
  ASSUME PreviewInv, Supersede
  PROVE  PreviewInv'
<1> DEFINE R == {k \in Keys : render[k].phase = "outline" /\ render[k].job = "queued"}
<1>1. /\ Rejects(R, {}) /\ models' = Nothing /\ UNCHANGED <<contexts, build, orphans, format, version>>
      /\ R \in SUBSET Keys /\ {} \in SUBSET Calls /\ (\A c \in {} : call[c].pc = "building")
      /\ build' \in [ContextKeys -> Builds]
  BY DEF Supersede, PreviewInv, TypeOK, RegistryType
<1>2. \A x \in ContextKeys : build'[x] = build[x] /\ build[x].waiters \cap (R \cup {}) = {}
  BY <1>1 DEF PreviewInv, WaitersInv
<1> HIDE DEF R
<1> QED BY <1>1, <1>2, RejectsKeeps

-----------------------------------------------------------------------------
(***************************************************************************)
(* The registry, the cache and the file                                    *)
(***************************************************************************)
LEMMA BuildStartsKeeps ==
  ASSUME PreviewInv, NEW x \in ContextKeys, RegistryBuildStarts(x)
  PROVE  PreviewInv'
<1> USE DEF PreviewInv
<1> DEFINE b == [build[x] EXCEPT !.phase = "running", !.read = version]
<1>1. /\ build[x].phase = "queued" /\ build' = [build EXCEPT ![x] = b]
      /\ UNCHANGED <<contexts, orphans, leases, format, version, models, call, render, unhandled>>
  BY Typed DEF RegistryBuildStarts, BuildStarts, TypeOK, RegistryType
<1>2. b \in Builds
  BY RecordFacts, Typed
<1>3. b.phase = "running" /\ b.read = version /\ b.waiters = build[x].waiters
  BY Typed DEF Builds
<1> HIDE DEF b
<1>4. build' \in [ContextKeys -> Builds] /\ build'[x] = b /\ \A y \in ContextKeys : y # x => build'[y] = build[y]
  BY <1>1, <1>2 DEF TypeOK, RegistryType
<1>5. TypeOK'
  BY <1>1, <1>4 DEF TypeOK, RegistryType
<1>6. \A y \in ContextKeys : build'[y].waiters = build[y].waiters
  BY <1>3, <1>4
<1>7. WaitersInv'
  BY <1>1, <1>6 DEF WaitersInv
<1>8. VersionsInv'
  <2>1. x[1] <= version /\ version <= version
    BY <1>1, Typed DEF VersionsInv
  <2> QED BY <1>1, <1>3, <1>4, <2>1 DEF VersionsInv
<1>9. RendersInv' /\ CallsInv' /\ UnretriedIsOneVersion' /\ JobsWanted' /\ ConsumersWait' /\ LeasesHeld'
  BY <1>1 DEF RendersInv, CallsInv, CallInv, UnretriedIsOneVersion, JobsWanted, ConsumersWait, LeasesHeld
<1>10. BuildsWanted'
  BY <1>1, <1>3, <1>4, <1>6 DEF BuildsWanted
<1> QED BY <1>5, <1>7, <1>8, <1>9, <1>10

LEMMA BuildLandsKeeps ==
  ASSUME PreviewInv, NEW x \in ContextKeys, RegistryBuildLands(x)
  PROVE  PreviewInv'
<1> USE DEF PreviewInv
<1> DEFINE W == build[x].waiters
<1>1. /\ build[x].phase = "running" /\ build' = [build EXCEPT ![x] = NoBuild]
      /\ contexts' = With(contexts, {x}, build[x].read) /\ leases' = With(leases, W, build[x].read)
      /\ call' = [c \in Calls |-> IF c \in W THEN [call[c] EXCEPT !.pc = "waiting"] ELSE call[c]]
      /\ UNCHANGED <<orphans, format, version, models, render, unhandled>>
  BY DEF RegistryBuildLands, BuildLands
<1>2. /\ x[1] <= build[x].read /\ build[x].read <= version
      /\ build[x].read \in Versions /\ W \subseteq Tickets
  <2>1. /\ x[1] <= build[x].read /\ build[x].read <= version
        /\ build[x].read \in Versions \cup {0} /\ W \subseteq Tickets /\ x[1] \in Versions
    BY <1>1, Typed, ContextKeyFacts DEF VersionsInv
  <2>2. x[1] \in Nat /\ x[1] # 0 /\ build[x].read \in Nat
    <3>1. x[1] # 0
      BY <2>1, VersionFacts
    <3> QED BY <3>1, ContextKeyFacts, Typed
  <2>3. build[x].read # 0
    BY <2>1, <2>2
  <2> QED BY <2>1, <2>3
<1>3. /\ DOMAIN contexts' = DOMAIN contexts \cup {x} /\ contexts'[x] = build[x].read
      /\ \A y \in DOMAIN contexts : y # x => contexts'[y] = contexts[y]
      /\ Range(contexts') \subseteq Range(contexts) \cup {build[x].read}
  BY <1>1 DEF With, Range
<1>4. /\ DOMAIN leases' = DOMAIN leases \cup W /\ \A t \in W : leases'[t] = build[x].read
      /\ \A t \in DOMAIN leases \ W : leases'[t] = leases[t]
      /\ Range(leases') \subseteq Range(leases) \cup {build[x].read}
  BY <1>1 DEF With, Range
<1>5. /\ \A y \in ContextKeys : y # x => build'[y] = build[y]
      /\ build'[x].waiters = {} /\ build'[x].phase = "none" /\ build' \in [ContextKeys -> Builds]
  BY <1>1, RecordFacts DEF NoBuild, TypeOK, RegistryType
<1> HIDE DEF W
<1>6. ASSUME NEW c \in Calls, c \in W
      PROVE  /\ call'[c] \in CallRecords /\ call'[c].pc = "waiting" /\ call[c].pc = "building"
             /\ call'[c].key = call[c].key /\ call'[c].asked = call[c].asked
             /\ call'[c].heard = call[c].heard /\ call'[c].content = call[c].content
  <2> DEFINE r == [call[c] EXCEPT !.pc = "waiting"]
  <2>1. call[c] \in CallRecords
    BY Typed
  <2>2. r \in CallRecords
    BY <2>1, RecordFacts DEF Pcs
  <2>3. /\ r.pc = "waiting" /\ r.key = call[c].key /\ r.asked = call[c].asked
        /\ r.heard = call[c].heard /\ r.content = call[c].content
    BY <2>1 DEF CallRecords
  <2>4. call'[c] = r
    BY <1>1, <1>6
  <2>5. call[c].pc = "building"
    BY <1>6 DEF WaitersInv, W
  <2> HIDE DEF r
  <2> QED BY <2>2, <2>3, <2>4, <2>5
<1>7. \A c \in Calls : c \notin W => call'[c] = call[c]
  BY <1>1
<1>8. call' \in [Calls -> CallRecords]
  <2>1. \A c \in Calls : call'[c] \in CallRecords
    BY <1>6, <1>7, Typed
  <2> QED BY <1>1, <2>1
<1>9. TypeOK'
  BY <1>1, <1>2, <1>3, <1>4, <1>5, <1>8 DEF TypeOK, RegistryType
<1>10. WaitersInv'
  <2> SUFFICES ASSUME NEW y \in ContextKeys, NEW t \in build'[y].waiters
               PROVE  /\ t \in Keys => render[t].phase = "context" /\ t \notin DOMAIN leases' /\ t[1] <= y[1]
                      /\ t \in Calls => call'[t].pc = "building"
                      /\ \A z \in ContextKeys : t \in build'[z].waiters => y = z
    BY <1>1 DEF WaitersInv
  <2>1. /\ y # x /\ t \in build[y].waiters
        /\ \A z \in ContextKeys : t \in build'[z].waiters => t \in build[z].waiters
    BY <1>5
  <2>2. t \notin W
    BY <2>1 DEF WaitersInv, W
  <2> QED BY <1>4, <1>7, <2>1, <2>2 DEF WaitersInv
<1>11. VersionsInv'
  <2>1. \A k \in Keys : k \in W => k[1] <= x[1]
    BY DEF WaitersInv, W
  <2>2. \A k \in Keys : k \in W => k[1] <= build[x].read
    <3>1. x[1] \in Nat /\ build[x].read \in Nat /\ \A k \in Keys : k[1] \in Nat
      BY KeyFacts, ContextKeyFacts, Typed
    <3> QED BY <1>2, <2>1, <3>1
  <2>3. \A k \in Keys : k \in DOMAIN leases' => k[1] <= leases'[k] /\ leases'[k] <= version
    BY <1>2, <1>4, <2>2 DEF VersionsInv
  <2>4. \A y \in DOMAIN contexts' : y[1] <= contexts'[y] /\ contexts'[y] <= version
    BY <1>2, <1>3 DEF VersionsInv
  <2> QED BY <1>1, <1>5, <2>3, <2>4 DEF VersionsInv
<1>12. RendersInv'
  BY <1>1 DEF RendersInv
<1>13. CallsInv'
  <2>1. ASSUME NEW c \in Calls, c \in W PROVE CallInv(c)'
    BY <1>1, <1>6, <2>1 DEF CallsInv, CallInv
  <2>2. ASSUME NEW c \in Calls, c \notin W PROVE CallInv(c)'
    BY <1>1, <1>7, <2>2 DEF CallsInv, CallInv
  <2> QED BY <2>1, <2>2 DEF CallsInv
<1>14. UnretriedIsOneVersion'
  BY <1>6, <1>7 DEF UnretriedIsOneVersion
<1>15. BuildsWanted'
  BY <1>5 DEF BuildsWanted
<1>16. LeasesHeld'
  <2>1. \A k \in Keys : k \in W => render[k].phase = "context"
    BY DEF WaitersInv, W
  <2> QED BY <1>1, <1>4, <1>6, <1>7, <2>1 DEF LeasesHeld
<1>17. JobsWanted' /\ ConsumersWait'
  <2>1. \A c \in Calls : /\ call'[c].key = call[c].key /\ call'[c].heard = call[c].heard
                         /\ call[c].pc = "failed" => call'[c].pc = "failed"
                         /\ call[c].pc \in {"joining", "building", "waiting"} =>
                              call'[c].pc \in {"joining", "building", "waiting"}
    BY <1>6, <1>7
  <2>2. JobsWanted'
    <3> SUFFICES ASSUME NEW k \in Keys, render[k].job = "queued", render[k].consumers = {}
                 PROVE  \E d \in Calls : call'[d].key = k /\ call'[d].pc = "failed"
      BY <1>1 DEF JobsWanted
    <3> QED BY <2>1 DEF JobsWanted
  <2>3. ConsumersWait'
    BY <1>1, <2>1, Typed DEF ConsumersWait
  <2> QED BY <2>2, <2>3
<1> QED BY <1>9, <1>10, <1>11, <1>12, <1>13, <1>14, <1>15, <1>16, <1>17

LEMMA BuildFailsKeeps ==
  ASSUME PreviewInv, NEW x \in ContextKeys, RegistryBuildFails(x)
  PROVE  PreviewInv'
<1> USE DEF PreviewInv
<1> DEFINE R == build[x].waiters \cap Keys
           F == build[x].waiters \cap Calls
<1>1. /\ build' = [build EXCEPT ![x] = NoBuild] /\ Rejects(R, F)
      /\ UNCHANGED <<contexts, orphans, format, version, models>>
  BY DEF RegistryBuildFails, BuildFails
<1>2. R \in SUBSET Keys /\ F \in SUBSET Calls /\ \A c \in F : call[c].pc = "building"
  BY DEF WaitersInv
<1>3. /\ build' \in [ContextKeys -> Builds]
      /\ \A y \in ContextKeys : IF y = x THEN build'[y] = NoBuild ELSE build'[y] = build[y]
  BY <1>1, RecordFacts DEF TypeOK, RegistryType
<1>4. \A y \in ContextKeys : y # x => build[y].waiters \cap (R \cup F) = {}
  BY DEF WaitersInv
<1> HIDE DEF R, F
<1> QED BY <1>1, <1>2, <1>3, <1>4, RejectsKeeps

\* Something goes from a cache.
LEMMA CacheShrinks ==
  ASSUME PreviewInv, orphans' \subseteq orphans,
         DOMAIN contexts' \subseteq DOMAIN contexts, \A x \in DOMAIN contexts' : contexts'[x] = contexts[x],
         DOMAIN models' \subseteq DOMAIN models, \A k \in DOMAIN models' : models'[k] = models[k],
         UNCHANGED <<build, leases, format, version, call, render, unhandled>>
  PROVE  PreviewInv'
<1> USE DEF PreviewInv
<1>1. TypeOK'
  BY DEF TypeOK, RegistryType, Range
<1>2. WaitersInv' /\ RendersInv' /\ VersionsInv'
  BY DEF WaitersInv, RendersInv, VersionsInv
<1>3. CallsInv' /\ UnretriedIsOneVersion'
  BY DEF CallsInv, CallInv, UnretriedIsOneVersion
<1>4. BuildsWanted' /\ JobsWanted' /\ ConsumersWait' /\ LeasesHeld'
  BY DEF BuildsWanted, JobsWanted, ConsumersWait, LeasesHeld
<1> QED BY <1>1, <1>2, <1>3, <1>4

LEMMA DropsKeep ==
  ASSUME PreviewInv,
         \/ Invalidate \/ \E k \in Keys : DropModel(k)
         \/ \E x \in ContextKeys : RegistryOrphanLands(x) \/ RegistryDropsContext(x)
  PROVE  PreviewInv'
<1>1. ASSUME Invalidate PROVE PreviewInv'
  BY <1>1, CacheShrinks DEF Invalidate, Nothing, registryVars
<1>2. ASSUME NEW k \in Keys, DropModel(k) PROVE PreviewInv'
  <2>1. DOMAIN models' \subseteq DOMAIN models /\ \A j \in DOMAIN models' : models'[j] = models[j]
    BY <1>2 DEF DropModel, Restrict
  <2> QED BY <1>2, <2>1, CacheShrinks DEF DropModel, registryVars
<1>3. ASSUME NEW x \in ContextKeys, RegistryOrphanLands(x) PROVE PreviewInv'
  <2>1. orphans' \subseteq orphans /\ UNCHANGED <<contexts, build, leases, format, version, models, call, render, unhandled>>
    BY <1>3 DEF RegistryOrphanLands, OrphanLands
  <2> QED BY <2>1, CacheShrinks
<1>4. ASSUME NEW x \in ContextKeys, RegistryDropsContext(x) PROVE PreviewInv'
  <2>1. DOMAIN contexts' \subseteq DOMAIN contexts /\ \A y \in DOMAIN contexts' : contexts'[y] = contexts[y]
    BY <1>4 DEF RegistryDropsContext, DropContext, Restrict
  <2>2. UNCHANGED <<orphans, build, leases, format, version, models, call, render, unhandled>>
    BY <1>4 DEF RegistryDropsContext, DropContext
  <2> QED BY <2>1, <2>2, CacheShrinks
<1> QED BY <1>1, <1>2, <1>3, <1>4

LEMMA FileChangesKeeps ==
  ASSUME PreviewInv, FileChanges
  PROVE  PreviewInv'
<1> USE DEF PreviewInv
<1>1. /\ version < MaxVersion /\ version' = version + 1
      /\ UNCHANGED <<contexts, build, orphans, leases, format, models, call, render, unhandled>>
  BY DEF FileChanges, registryVars
<1>2. version \in Nat /\ version' \in Versions /\ \A v \in Versions : v \in Nat
  BY <1>1, Typed, VersionFacts
<1>3. \A v \in Nat : v <= version => v <= version'
  BY <1>1, <1>2
<1>4. ASSUME NEW s \in SUBSET Versions, NEW v, Within(s, v, version)
      PROVE  Within(s, v, version')
  BY <1>2, <1>3, <1>4 DEF Within
<1>5. TypeOK'
  BY <1>1, <1>2 DEF TypeOK, RegistryType
<1>6. WaitersInv' /\ UnretriedIsOneVersion' /\ BuildsWanted' /\ JobsWanted' /\ ConsumersWait' /\ LeasesHeld'
  BY <1>1 DEF WaitersInv, UnretriedIsOneVersion, BuildsWanted, JobsWanted, ConsumersWait, LeasesHeld
<1>7. RendersInv'
  BY <1>1, <1>3, <1>4, KeyFacts, Typed DEF RendersInv
<1>8. VersionsInv'
  <2>1. /\ \A x \in ContextKeys : x[1] \in Nat /\ build[x].read \in Nat
        /\ \A x \in DOMAIN contexts : contexts[x] \in Nat
        /\ \A t \in DOMAIN leases : leases[t] \in Nat
        /\ \A k \in DOMAIN models : models[k] \in SUBSET Versions
    BY <1>2, Typed, ContextKeyFacts
  <2> QED BY <1>1, <1>3, <1>4, <2>1 DEF VersionsInv
<1>9. CallsInv'
  <2> SUFFICES ASSUME NEW c \in Calls PROVE CallInv(c)'
    BY DEF CallsInv
  <2>1. CallInv(c) /\ call[c].content \in SUBSET Versions /\ (call[c].key \in Keys => call[c].key[1] \in Nat)
    BY Typed, KeyFacts DEF CallsInv
  <2> QED BY <1>1, <1>3, <1>4, <2>1 DEF CallInv
<1> QED BY <1>5, <1>6, <1>7, <1>8, <1>9

\* detachInFlightConsumer: the tickets are out of every build, and one without any is gone.
LEMMA DetachFacts ==
  ASSUME TypeOK, NEW T, Detach(T)
  PROVE  /\ build' \in [ContextKeys -> Builds] /\ orphans' \subseteq ContextKeys
         /\ \A x \in ContextKeys :
              /\ build'[x].waiters = build[x].waiters \ T
              /\ IF build[x].waiters # {} /\ build[x].waiters \subseteq T
                 THEN build'[x].phase = "none"
                 ELSE build'[x].phase = build[x].phase /\ build'[x].read = build[x].read
<1>1. ASSUME NEW x \in ContextKeys
      PROVE  /\ build'[x] \in Builds
             /\ build'[x].waiters = build[x].waiters \ T
             /\ IF build[x].waiters # {} /\ build[x].waiters \subseteq T
                THEN build'[x].phase = "none"
                ELSE build'[x].phase = build[x].phase /\ build'[x].read = build[x].read
  <2> DEFINE b == [build[x] EXCEPT !.waiters = @ \ T]
  <2>1. build[x] \in Builds /\ build[x].waiters \ T \in SUBSET Tickets
    BY Typed
  <2>2. b \in Builds
    BY <2>1, RecordFacts
  <2>3. b.waiters = build[x].waiters \ T /\ b.phase = build[x].phase /\ b.read = build[x].read
    BY <2>1 DEF Builds
  <2>4. build'[x] = IF x \in Abandoned(T) THEN NoBuild ELSE b
    BY DEF Detach
  <2>5. NoBuild \in Builds /\ NoBuild.waiters = {} /\ NoBuild.phase = "none"
    BY RecordFacts DEF NoBuild
  <2> HIDE DEF b
  <2> QED BY <2>2, <2>3, <2>4, <2>5 DEF Abandoned
<1>2. build' \in [ContextKeys -> Builds]
  BY <1>1 DEF Detach
<1>3. orphans' \subseteq ContextKeys
  BY DEF Detach, Abandoned, TypeOK, RegistryType
<1> QED BY <1>1, <1>2, <1>3

LEMMA AbortKeeps ==
  ASSUME PreviewInv, NEW c \in Calls, Abort(c)
  PROVE  PreviewInv'
<1> USE DEF PreviewInv
<1> DEFINE k     == call[c].key
           last  == render[k].consumers = {c}
           stops == last /\ Stoppable(k)
           T     == IF stops THEN {c, k} ELSE {c}
           r     == [render[k] EXCEPT !.consumers = @ \ {c}, !.live = @ /\ ~last]
<1>1. /\ call[c].pc \in {"joining", "building", "waiting"}
      /\ call' = [call EXCEPT ![c].pc = "aborted"]
      /\ Detach(T) /\ leases' = Without(T) /\ unhandled' \in BOOLEAN
      /\ \/ models' = models
         \/ render[k].phase = "slides" /\ models' = With(models, {k}, render[k].content)
      /\ UNCHANGED <<contexts, format, version>>
  BY DEF Abort, TypeOK
<1>render. render' = [render EXCEPT ![k] = IF stops THEN NoRender ELSE r]
  BY DEF Abort
<1>2. k \in Keys /\ call[c].asked <= k[1] /\ k[1] <= version /\ c \notin Keys /\ last \in BOOLEAN
  BY <1>1, TicketFacts DEF CallsInv, CallInv
<1>3. stops => render[k].consumers = {c}
  OBVIOUS
<1>4. render[k].consumers = {c} /\ render[k].job = "queued" => stops
  BY DEF Stoppable
<1>5. stops \in BOOLEAN /\ T = IF stops THEN {c, k} ELSE {c}
  OBVIOUS
<1> HIDE DEF k, last, stops, T, r
<1>6. /\ call' \in [Calls -> CallRecords]
      /\ call'[c].pc = "aborted" /\ call'[c].key = k /\ call'[c].asked = call[c].asked
      /\ \A d \in Calls : d # c => call'[d] = call[d]
  <2>1. call' \in [Calls -> CallRecords]
    BY <1>1, RecordFacts, Typed DEF TypeOK, Pcs, Final
  <2> QED BY <1>1, <2>1, Typed DEF CallRecords, TypeOK, k
<1>7. /\ render' \in [Keys -> Renders]
      /\ stops => render'[k] = NoRender
      /\ ~stops => /\ render'[k].consumers = render[k].consumers \ {c}
                   /\ render'[k].phase = render[k].phase /\ render'[k].job = render[k].job
                   /\ render'[k].content = render[k].content
      /\ \A j \in Keys : j # k => render'[j] = render[j]
  <2>1. /\ render[k] \in Renders /\ render[k].consumers \ {c} \in SUBSET Calls
        /\ (render[k].live /\ ~last) \in BOOLEAN
    BY <1>2, Typed
  <2>2. r \in Renders
    BY <2>1, RecordFacts DEF r
  <2>3. /\ r.consumers = render[k].consumers \ {c} /\ r.phase = render[k].phase
        /\ r.job = render[k].job /\ r.content = render[k].content
    BY <2>1 DEF Renders, r
  <2>4. render' = [render EXCEPT ![k] = IF stops THEN NoRender ELSE r] /\ render \in [Keys -> Renders]
    BY <1>render DEF TypeOK
  <2> QED BY <1>2, <1>5, <2>2, <2>3, <2>4, RecordFacts
<1>8. /\ build' \in [ContextKeys -> Builds] /\ orphans' \subseteq ContextKeys
      /\ \A x \in ContextKeys :
           /\ build'[x].waiters = build[x].waiters \ T
           /\ IF build[x].waiters # {} /\ build[x].waiters \subseteq T
              THEN build'[x].phase = "none"
              ELSE build'[x].phase = build[x].phase /\ build'[x].read = build[x].read
  BY <1>1, DetachFacts
<1>9. /\ DOMAIN leases' = DOMAIN leases \ T
      /\ \A t \in DOMAIN leases' : leases'[t] = leases[t]
      /\ Range(leases') \subseteq Range(leases)
  BY ZenonT(40), <1>1, WithoutFacts
<1>10. /\ DOMAIN models' \subseteq Keys /\ Range(models') \subseteq SUBSET Versions
       /\ \A j \in DOMAIN models' : Within(models'[j], j[1], version)
  <2>1. CASE models' = models
    BY <2>1 DEF TypeOK, VersionsInv
  <2>2. CASE render[k].phase = "slides" /\ models' = With(models, {k}, render[k].content)
    <3>1. Within(render[k].content, k[1], version) /\ render[k].content \in SUBSET Versions
      BY <1>2, <2>2, Typed DEF RendersInv
    <3>2. /\ DOMAIN models' = DOMAIN models \cup {k} /\ models'[k] = render[k].content
          /\ \A j \in DOMAIN models : j # k => models'[j] = models[j]
          /\ Range(models') \subseteq Range(models) \cup {render[k].content}
      BY <2>2 DEF With, Range
    <3> QED BY <1>2, <3>1, <3>2 DEF TypeOK, VersionsInv
  <2> QED BY <1>1, <2>1, <2>2
<1>11. TypeOK'
  BY <1>1, <1>6, <1>7, <1>8, <1>9, <1>10 DEF TypeOK, RegistryType
<1>12. WaitersInv'
  <2> SUFFICES ASSUME NEW x \in ContextKeys, NEW t \in build'[x].waiters
               PROVE  /\ t \in Keys => render'[t].phase = "context" /\ t \notin DOMAIN leases' /\ t[1] <= x[1]
                      /\ t \in Calls => call'[t].pc = "building"
                      /\ \A y \in ContextKeys : t \in build'[y].waiters => x = y
    BY DEF WaitersInv
  <2>1. /\ t \in build[x].waiters /\ t \notin T /\ t # c
        /\ \A y \in ContextKeys : t \in build'[y].waiters => t \in build[y].waiters
    BY <1>5, <1>8
  <2>2. t \in Keys => render'[t].phase = render[t].phase
    BY <1>5, <1>7, <2>1
  <2> QED BY <1>6, <1>9, <2>1, <2>2 DEF WaitersInv
<1>13. RendersInv'
  <2>1. \A j \in Keys : \/ render'[j] = NoRender
                        \/ /\ render'[j].consumers \subseteq render[j].consumers
                           /\ render'[j].phase = render[j].phase /\ render'[j].job = render[j].job
                           /\ render'[j].content = render[j].content
    BY <1>5, <1>7
  <2> SUFFICES ASSUME NEW j \in Keys
               PROVE  /\ render'[j].phase = "none" => render'[j].consumers = {}
                      /\ render'[j].phase \in {"none", "seed", "context"} <=> render'[j].job = "none"
                      /\ render'[j].phase # "none" => j[1] <= version
                      /\ render'[j].phase = "slides" \/ render'[j].job = "running" =>
                           Within(render'[j].content, j[1], version)
    BY <1>1 DEF RendersInv
  <2>2. CASE render'[j] = NoRender
    BY <2>2 DEF NoRender
  <2>3. CASE render'[j] # NoRender
    BY <2>1, <2>3 DEF RendersInv
  <2> QED BY <2>2, <2>3
<1>14. VersionsInv'
  BY <1>1, <1>8, <1>9, <1>10 DEF VersionsInv
<1>15. CallsInv'
  BY <1>1, <1>2, <1>6 DEF CallsInv, CallInv
<1>16. UnretriedIsOneVersion'
  BY <1>6 DEF UnretriedIsOneVersion
<1>17. BuildsWanted'
  BY <1>8 DEF BuildsWanted
<1>18. LeasesHeld'
  BY <1>5, <1>6, <1>7, <1>9 DEF LeasesHeld
<1>19. JobsWanted'
  <2> SUFFICES ASSUME NEW j \in Keys, render'[j].job = "queued", render'[j].consumers = {}
               PROVE  \E d \in Calls : call'[d].key = j /\ call'[d].pc = "failed"
    BY DEF JobsWanted
  <2>1. render[j].job = "queued" /\ render[j].consumers = {}
    <3>1. CASE j = k
      <4>1. ~stops
        BY <1>7, <3>1 DEF NoRender
      <4>2. render[k].job = "queued" /\ render[k].consumers \subseteq {c} /\ render[k].consumers # {c}
        BY <1>4, <1>7, <3>1, <4>1
      <4> QED BY <3>1, <4>2
    <3>2. CASE j # k
      BY <1>7, <3>2
    <3> QED BY <3>1, <3>2
  <2>2. PICK d \in Calls : call[d].key = j /\ call[d].pc = "failed"
    BY <2>1 DEF JobsWanted
  <2> QED BY <1>1, <1>6, <2>2
<1>20. ConsumersWait'
  <2> SUFFICES ASSUME NEW j \in Keys, NEW d \in render'[j].consumers
               PROVE  call'[d].key = j /\ call'[d].pc \in {"joining", "building", "waiting"} /\ call'[d].heard = "nothing"
    BY DEF ConsumersWait
  <2>1. d \in render[j].consumers /\ d \in Calls /\ (j = k => d # c)
    BY <1>5, <1>7, Typed DEF NoRender
  <2>2. d # c
    BY <2>1 DEF ConsumersWait, k
  <2> QED BY <1>6, <2>1, <2>2 DEF ConsumersWait
<1> QED BY <1>11, <1>12, <1>13, <1>14, <1>15, <1>16, <1>17, <1>18, <1>19, <1>20

-----------------------------------------------------------------------------
(***************************************************************************)
(* The theorems                                                            *)
(***************************************************************************)
LEMMA StepKeeps ==
  ASSUME PreviewInv, [Next]_vars
  PROVE  PreviewInv'
<1>1. ASSUME NEW c \in Calls, Begin(c) \/ CallStep(c) \/ AbortEarly(c) \/ Abort(c)
      PROVE  PreviewInv'
  BY <1>1, BeginKeeps, CacheHitKeeps, CacheMissKeeps, RestatKeeps, OwnAcquireKeeps, TakeResultKeeps,
     AbortEarlyKeeps, AbortKeeps DEF CallStep
<1>2. ASSUME NEW k \in Keys, RenderStep(k) \/ DropModel(k)
      PROVE  PreviewInv'
  BY <1>2, SeedKeeps, SeededKeeps, JobStartsKeeps, JobDoneKeeps, JobFailsKeeps, DropsKeep DEF RenderStep
<1>3. ASSUME NEW x \in ContextKeys, BuildStep(x) \/ RegistryOrphanLands(x) \/ RegistryDropsContext(x)
      PROVE  PreviewInv'
  BY <1>3, BuildStartsKeeps, BuildLandsKeeps, BuildFailsKeeps, DropsKeep DEF BuildStep
<1>4. ASSUME Invalidate \/ Supersede \/ FileChanges
      PROVE  PreviewInv'
  BY <1>4, DropsKeep, SupersedeKeeps, FileChangesKeeps
<1>5. CASE UNCHANGED vars
  BY <1>5, CacheShrinks DEF vars, registryVars
<1> QED BY <1>1, <1>2, <1>3, <1>4, <1>5 DEF Next

\* In every reachable state of the service the parts of the invariant above hold: who waits
\* for what, from which versions everything at hand was read, and for whom it is kept.
THEOREM PreviewInvariant == Spec => []PreviewInv
<1>1. PreviewInv /\ [Next]_vars => PreviewInv'
  BY StepKeeps
<1> QED BY InitialState, <1>1, PTL DEF Spec

\* Every variable of the service and of the registry has its type.
THEOREM PreviewTypes == Spec => []TypeOK
<1>1. PreviewInv => TypeOK
  BY DEF PreviewInv
<1> QED BY <1>1, PreviewInvariant, PTL

\* No preview answers with anything that was read before it was asked for, whatever the
\* caches, the joined renders and the retry contributed.
THEOREM NoStaleAnswer == Spec => []AnswersAreFresh
<1>1. PreviewInv => AnswersAreFresh
  BY DEF PreviewInv, CallsInv, CallInv, AnswersAreFresh
<1> QED BY <1>1, PreviewInvariant, PTL

\* A rendered answer that needed no retry is the version of the file that its key names,
\* and nothing of any other.
THEOREM NoMixedAnswer == Spec => []UnretriedIsOneVersion
<1>1. PreviewInv => UnretriedIsOneVersion
  BY DEF PreviewInv
<1> QED BY <1>1, PreviewInvariant, PTL

\* Builds, queued jobs and leases last no longer than the calls that want them.
THEOREM NothingIsLeftBehind == Spec => []NothingOutlivesItsConsumers
<1>1. PreviewInv => NothingOutlivesItsConsumers
  BY DEF PreviewInv, BuildsWanted, JobsWanted, ConsumersWait, LeasesHeld, NothingOutlivesItsConsumers
<1> QED BY <1>1, PreviewInvariant, PTL

=============================================================================
