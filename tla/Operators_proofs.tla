-------------------------- MODULE Operators_proofs --------------------------
(***************************************************************************)
(* Theorems about the modules without variables, for every input: what a   *)
(* batch that the operation policy lets through can do, what a verification*)
(* report means for every package, validation and layer, and what a ref    *)
(* stands for after any operations of the artifact store.                  *)
(***************************************************************************)
EXTENDS OperationPolicy, Verification, ArtifactStore, TLAPS

LEMMA RiskLadder ==
  ASSUME NEW item \in Items
  PROVE  /\ Classify(item) \in {"low", "medium", "high", "critical", "denied"}
         /\ Classify(item) = "denied" <=> item.command \in DeniedCommands
         /\ Classify(item) \in {"low", "medium"} <=>
              \/ item.command \in {"move", "swap", "add", "other"}
              \/ item.command = "set" /\ ~item.restyles
<1>1. item.command \in EditCommands /\ item.restyles \in BOOLEAN
  BY DEF Items
<1> QED
  BY <1>1 DEF Classify, Restyling, EditCommands, DeniedCommands, DestructiveCommands, CriticalCommands

-----------------------------------------------------------------------------
\* Approval never lifts a denial: a batch that is let through on approval is within every
\* fence and executes nothing.
THEOREM ApprovalLiftsNoDenial ==
  ASSUME NEW payload \in Seq(Items), NEW scope \in Scopes, NEW approved \in BOOLEAN,
         NEW threshold \in Thresholds, Permits(payload, scope, approved, threshold),
         NEW i \in DOMAIN payload
  PROVE  /\ payload[i].command \notin DeniedCommands
         /\ payload[i].command \in DestructiveCommands => scope.destructiveAllowed
         /\ scope.targets # {} =>
              \A t \in payload[i].targets : \E a \in scope.targets : a \in Within[t]
         /\ scope.parts # {} => payload[i].part \in scope.parts \cup {NoPart}
<1>1. payload[i] \in Items
  OBVIOUS
<1>2. Risk(payload[i], scope) # "denied"
  BY DEF Permits
<1>3. Classify(payload[i]) # "denied" /\ ~DestroysUnasked(payload[i], scope)
      /\ ~LeavesTargets(payload[i], scope) /\ ~LeavesParts(payload[i], scope)
  BY <1>2 DEF Risk
<1> QED BY <1>1, <1>3, RiskLadder DEF DestroysUnasked, LeavesTargets, LeavesParts

\* What runs that nobody approved, at the default threshold: moves, additions, text and
\* commands that the ladder does not know.  No removal, no import, no restyling and no
\* raw part, although the ladder itself asks no approval for a restyling.
THEOREM UnapprovedIsMild ==
  ASSUME NEW payload \in Seq(Items), NEW scope \in Scopes,
         Permits(payload, scope, FALSE, DefaultRiskThreshold), NEW i \in DOMAIN payload
  PROVE  \/ payload[i].command \in {"move", "swap", "add", "other"}
         \/ payload[i].command = "set" /\ ~payload[i].restyles
<1>1. payload[i] \in Items
  OBVIOUS
<1>2. ~RequiresApproval(payload[i], FALSE, "high")
  BY DEF Permits, DefaultRiskThreshold
<1>3. Classify(payload[i]) # "denied"
  BY DEF Permits, Risk
<1>4. Classify(payload[i]) \notin {"high", "critical"}
  BY <1>2 DEF RequiresApproval, RiskRank
<1> QED BY <1>1, <1>3, <1>4, RiskLadder

\* A threshold below "high" is "high": low and medium operations never ask for approval,
\* whatever the engine of the policy is configured with.
THEOREM LowThresholdsAreHigh ==
  ASSUME NEW payload \in Seq(Items), NEW scope \in Scopes, NEW approved \in BOOLEAN,
         NEW threshold \in {"low", "medium"}
  PROVE  Permits(payload, scope, approved, threshold) <=> Permits(payload, scope, approved, "high")
<1>1. ASSUME NEW i \in DOMAIN payload, Risk(payload[i], scope) # "denied"
      PROVE  RequiresApproval(payload[i], approved, threshold)
               <=> RequiresApproval(payload[i], approved, "high")
  <2>1. payload[i] \in Items
    OBVIOUS
  <2>2. Classify(payload[i]) \in {"low", "medium", "high", "critical"}
    BY <1>1, <2>1, RiskLadder DEF Risk
  <2> QED BY <2>2 DEF RequiresApproval, RiskRank
<1> QED BY <1>1 DEF Permits

-----------------------------------------------------------------------------
\* b fences no more than a does.
Wider(b, a) ==
    /\ a.destructiveAllowed => b.destructiveAllowed
    /\ b.targets = {} \/ (a.targets # {} /\ a.targets \subseteq b.targets)
    /\ b.parts = {} \/ (a.parts # {} /\ a.parts \subseteq b.parts)

\* What a scope lets through a wider one lets through, with approval or without: an empty
\* list is the widest, not the narrowest.
THEOREM WiderScopesPermitMore ==
  ASSUME NEW payload \in Seq(Items), NEW a \in Scopes, NEW b \in Scopes, Wider(b, a),
         NEW approved \in BOOLEAN, NEW asked \in BOOLEAN, approved => asked,
         NEW threshold \in Thresholds, Permits(payload, a, approved, threshold)
  PROVE  Permits(payload, b, asked, threshold)
<1>1. ASSUME NEW i \in DOMAIN payload
      PROVE  Risk(payload[i], b) # "denied" /\ ~RequiresApproval(payload[i], asked, threshold)
  <2>1. Risk(payload[i], a) # "denied" /\ ~RequiresApproval(payload[i], approved, threshold)
    BY DEF Permits
  <2>2. Classify(payload[i]) # "denied" /\ ~DestroysUnasked(payload[i], a)
        /\ ~LeavesTargets(payload[i], a) /\ ~LeavesParts(payload[i], a)
    BY <2>1 DEF Risk
  <2>3. ~DestroysUnasked(payload[i], b)
    BY <2>2 DEF DestroysUnasked, Wider
  <2>4. ~LeavesTargets(payload[i], b)
    BY <2>2 DEF LeavesTargets, Wider
  <2>5. ~LeavesParts(payload[i], b)
    BY <2>2 DEF LeavesParts, Wider
  <2>6. ~RequiresApproval(payload[i], asked, threshold)
    BY <2>1 DEF RequiresApproval
  <2> QED BY <2>2, <2>3, <2>4, <2>5, <2>6 DEF Risk
<1> QED BY <1>1 DEF Permits

\* The fence is closed under nesting: a scope may list what lies inside of its targets
\* besides, and lets nothing more through.
THEOREM NestedTargetsAddNothing ==
  ASSUME NEW payload \in Seq(Items), NEW scope \in Scopes, NEW approved \in BOOLEAN,
         NEW threshold \in Thresholds, NEW inner \in Targets,
         Within[inner] \cap scope.targets # {}
  PROVE  Permits(payload, [scope EXCEPT !.targets = @ \cup {inner}], approved, threshold)
           <=> Permits(payload, scope, approved, threshold)
<1> DEFINE more == [scope EXCEPT !.targets = @ \cup {inner}]
<1>1. /\ more.targets = scope.targets \cup {inner} /\ more.parts = scope.parts
      /\ more.destructiveAllowed = scope.destructiveAllowed
  BY DEF Scopes
<1>2. scope.targets # {} /\ more.targets # {}
  BY <1>1
<1> HIDE DEF more
<1>3. ASSUME NEW i \in DOMAIN payload
      PROVE  LeavesTargets(payload[i], more) <=> LeavesTargets(payload[i], scope)
  <2>1. ASSUME NEW t \in payload[i].targets, inner \in Within[t]
        PROVE  Within[t] \cap scope.targets # {}
    <3>1. t \in Targets
      <4>1. payload[i] \in Items
        OBVIOUS
      <4> QED BY <4>1 DEF Items
    <3>2. Within[inner] \subseteq Within[t]
      BY <2>1, <3>1, PolicyAssumption
    <3> QED BY <3>2
  <2>2. ASSUME NEW t \in payload[i].targets
        PROVE  Within[t] \cap more.targets = {} <=> Within[t] \cap scope.targets = {}
    BY <1>1, <2>1
  <2> QED BY <1>2, <2>2 DEF LeavesTargets
<1>4. \A i \in DOMAIN payload : Risk(payload[i], more) = Risk(payload[i], scope)
  BY <1>1, <1>3 DEF Risk, DestroysUnasked, LeavesParts
<1> QED BY <1>4 DEF Permits, more

\* An edit over MCP whose task is live is judged by the fences of the call that opened
\* it: the scope that it asks for itself, narrower or wider, makes no difference.
THEOREM LaterScopesAreNotRead ==
  ASSUME NEW payload \in Seq(Items), NEW own \in Scopes, NEW asked \in Scopes, NEW wide \in Scopes,
         EditPermits(payload, TRUE, own, asked)
  PROVE  /\ EditPermits(payload, TRUE, own, wide)
         /\ \A i \in DOMAIN payload :
              /\ ~LeavesTargets(payload[i], own)
              /\ \/ payload[i].command \in {"move", "swap", "add", "other"}
                 \/ payload[i].command = "set" /\ ~payload[i].restyles
<1>1. Permits(payload, own, FALSE, DefaultRiskThreshold)
  BY DEF EditPermits, EditScope
<1>2. EditPermits(payload, TRUE, own, wide)
  BY <1>1 DEF EditPermits, EditScope
<1>3. \A i \in DOMAIN payload : ~LeavesTargets(payload[i], own)
  BY <1>1 DEF Permits, Risk
<1> QED BY <1>1, <1>2, <1>3, UnapprovedIsMild

-----------------------------------------------------------------------------
(***************************************************************************)
(* Validation                                                              *)
(***************************************************************************)
\* The gate of L1 fails closed against what the mutation added: a refused candidate with
\* a finding that its base does not have, or whose base cannot be validated, fails.
THEOREM NewFindingsFail ==
  ASSUME NEW outcome \in Outcomes, ~outcome.passed, NEW base \in Outcomes \cup {Threw},
         NEW f \in outcome.findings, base = Threw \/ f \notin base.findings
  PROVE  L1(TRUE, outcome, base) = "fail"
<1>1. outcome # Threw
  <2>1. DOMAIN outcome = {"passed", "findings"} /\ DOMAIN Threw = {"passed", "findings", "threw"}
    BY DEF Outcomes, Threw
  <2> QED BY <2>1
<1>2. base # Threw => NewFindings(outcome, base) # {}
  BY DEF NewFindings
<1> QED BY <1>1, <1>2 DEF L1

\* But a refusal that names nothing (the engine's answer carries no warnings, as when it
\* could not open the file) is taken for inherited: it warns, and the candidate is ready.
THEOREM SilentRefusalWarns ==
  ASSUME NEW base, NEW outcome \in Outcomes, ~outcome.passed, outcome.findings = {}
  PROVE  L1(TRUE, outcome, base) = "warn"
<1>1. outcome # Threw
  <2>1. DOMAIN outcome = {"passed", "findings"} /\ DOMAIN Threw = {"passed", "findings", "threw"}
    BY DEF Outcomes, Threw
  <2> QED BY <2>1
<1> QED BY <1>1 DEF L1

-----------------------------------------------------------------------------
(***************************************************************************)
(* The package diff                                                        *)
(***************************************************************************)
\* A part that the comparison is asked about is never high risk by it: its own test comes
\* too late, after the caller's.
LEMMA ComparedPartsAreLowRisk ==
  ASSUME NEW base, NEW candidate, NEW part, part \notin HighRisk
  PROVE  ClassifyModified(base, candidate, part) \in {"NORMALIZATION_ONLY", "UNEXPECTED_LOW_RISK"}
BY DEF ClassifyModified

\* What the class of a part says, in terms of the two packages.
LEMMA ClassMeaning ==
  ASSUME NEW base \in Packages, NEW candidate \in Packages, NEW targets, NEW part \in Parts
  PROVE  LET expected == part \in ExpectedSideParts(targets)
             class    == Class(base, candidate, targets, part)
         IN  /\ class \in {"UNCHANGED", "EXPECTED", "NORMALIZATION_ONLY",
                           "UNEXPECTED_LOW_RISK", "UNEXPECTED_HIGH_RISK"}
             /\ class = "UNCHANGED" <=> Unchanged(base, candidate, part)
             /\ class = "EXPECTED" <=> ~Unchanged(base, candidate, part) /\ expected
             /\ class = "UNEXPECTED_HIGH_RISK" <=>
                   /\ ~Unchanged(base, candidate, part) /\ ~expected
                   /\ part \in HighRisk \cup Relationships
             /\ class = "NORMALIZATION_ONLY" =>
                   /\ ~Unchanged(base, candidate, part) /\ part \in Xml
                   /\ Canonical[base[part]] = Canonical[candidate[part]]
<1>1. CASE Unchanged(base, candidate, part)
  BY <1>1 DEF Class
<1>2. CASE ~Unchanged(base, candidate, part) /\ part \in ExpectedSideParts(targets)
  <2>1. Changed(base, candidate, targets, part) = "EXPECTED"
    BY <1>2 DEF Changed
  <2> QED BY <1>2, <2>1 DEF Class
<1>3. CASE ~Unchanged(base, candidate, part) /\ part \notin ExpectedSideParts(targets)
  <2>1. CASE part \in HighRisk
    <3>1. Changed(base, candidate, targets, part) = "UNEXPECTED_HIGH_RISK"
      BY <1>3, <2>1 DEF Changed
    <3> QED BY <1>3, <2>1, <3>1 DEF Class
  <2>2. CASE part \notin HighRisk
    <3> DEFINE c == Changed(base, candidate, targets, part)
    <3>1. c \in {"NORMALIZATION_ONLY", "UNEXPECTED_LOW_RISK"}
      BY <1>3, <2>2, ComparedPartsAreLowRisk DEF Changed
    <3>2. c = "NORMALIZATION_ONLY" =>
            part \in Xml /\ Canonical[base[part]] = Canonical[candidate[part]]
      BY <1>3, <2>2 DEF Changed, ClassifyModified
    <3>3. Class(base, candidate, targets, part) =
             IF part \in Relationships THEN "UNEXPECTED_HIGH_RISK" ELSE c
      BY <1>3, <3>1 DEF Class
    <3> HIDE DEF c
    <3> QED BY <1>3, <2>2, <3>1, <3>2, <3>3
  <2> QED BY <2>1, <2>2
<1> QED BY <1>1, <1>2, <1>3

\* A change of a theme, a master, styles, settings, numbering, the content types or of any
\* relationships that the declared targets do not explain fails L4, if it is only one of
\* format as well.
THEOREM UndeclaredStructureFails ==
  ASSUME NEW base \in Packages, NEW candidate \in Packages, NEW targets, NEW readable \in BOOLEAN,
         NEW part \in (HighRisk \cup Relationships) \ ExpectedSideParts(targets),
         ~Unchanged(base, candidate, part)
  PROVE  L4(readable, base, candidate, targets) = "fail"
<1>1. part \in Parts
  BY VerificationAssumption
<1>2. part \in InClass(base, candidate, targets, "UNEXPECTED_HIGH_RISK")
  BY <1>1, ClassMeaning DEF InClass
<1> QED BY <1>2 DEF L4

\* L4 passes exactly when every part that changed is a declared side effect, or an
\* ordinary XML part of which only the format changed.
THEOREM WhatADiffMayHold ==
  ASSUME NEW base \in Packages, NEW candidate \in Packages, NEW targets,
         L4(TRUE, base, candidate, targets) = "pass", NEW part \in Parts,
         ~Unchanged(base, candidate, part), part \notin ExpectedSideParts(targets)
  PROVE  /\ part \in Xml \ (HighRisk \cup Relationships)
         /\ Canonical[base[part]] = Canonical[candidate[part]]
<1>1. Class(base, candidate, targets, part) \notin {"UNEXPECTED_HIGH_RISK", "UNEXPECTED_LOW_RISK"}
  BY DEF L4, InClass
<1>2. Class(base, candidate, targets, part) = "NORMALIZATION_ONLY"
  BY <1>1, ClassMeaning
<1>3. part \in Xml /\ Canonical[base[part]] = Canonical[candidate[part]]
  BY <1>2, ClassMeaning
<1>4. part \notin HighRisk \cup Relationships
  BY <1>1, ClassMeaning
<1> QED BY <1>3, <1>4

\* A candidate that holds what its base holds passes.
THEOREM SamePackagePasses ==
  ASSUME NEW base \in Packages, NEW targets
  PROVE  L4(TRUE, base, base, targets) = "pass"
<1>1. ASSUME NEW part \in Parts PROVE Unchanged(base, base, part)
  BY DEF Unchanged
<1>2. \A part \in Parts : Class(base, base, targets, part) = "UNCHANGED"
  BY <1>1 DEF Class
<1> QED BY <1>2 DEF L4, InClass

-----------------------------------------------------------------------------
(***************************************************************************)
(* The report                                                              *)
(***************************************************************************)
\* Confidence is a ladder: where no layer that passed stops passing, it does not fall.
THEOREM ConfidenceIsMonotone ==
  ASSUME NEW r \in Results, NEW q \in Results,
         \A layer \in {"l0", "l1", "l3", "l4", "l5", "l7"} : q[layer] = "pass" => r[layer] = "pass"
  PROVE  Level(q) <= Level(r)
<1>1. /\ q.l0 = "pass" => r.l0 = "pass"
      /\ Engine(q) => Engine(r)
      /\ Visual(q) => Visual(r)
      /\ q.l7 = "pass" => r.l7 = "pass"
  BY DEF Engine, Visual
<1>2. /\ r.l0 \in {"pass", "fail"} /\ q.l0 \in {"pass", "fail"}
      /\ Engine(r) => r.l0 = "pass"
      /\ Engine(q) => q.l0 = "pass"
      /\ Visual(r) => Engine(r)
      /\ Visual(q) => Engine(q)
  BY DEF Results, Engine, Visual
<1> QED BY <1>1, <1>2 DEF Level

\* What keeps a candidate from review is a broken package or new findings of the
\* validation.  A document that does not load, changes outside the declared scope, a
\* blank slide and a host that repairs the copy lower the confidence and no more.
THEOREM WhatBlocksACandidate ==
  ASSUME NEW r \in Results
  PROVE  BecomesReady(r) <=> r.l0 = "pass" /\ r.l1 # "fail"
<1>1. r.l0 \in {"pass", "fail"}
  BY DEF Results
<1>2. Confidence(r) = "unverified" <=> r.l0 = "fail"
  <2>1. CASE r.l0 = "fail"
    BY <2>1 DEF Confidence, Level, Levels, Engine, Visual
  <2>2. CASE r.l0 = "pass"
    <3>1. Level(r) \in 2 .. 5
      BY <2>2 DEF Level, Visual
    <3>2. Levels[2] # "unverified" /\ Levels[3] # "unverified" /\ Levels[4] # "unverified"
          /\ Levels[5] # "unverified"
      BY DEF Levels
    <3>3. Level(r) \in {2, 3, 4, 5}
      BY <3>1
    <3> QED BY <2>2, <3>2, <3>3 DEF Confidence
  <2> QED BY <1>1, <2>1, <2>2
<1> QED BY <1>1, <1>2 DEF BecomesReady, StructuralStatus

\* Without the engine nothing is claimed beyond the integrity of the package, whatever
\* the diff and the host say, and the candidate becomes ready on that alone.
THEOREM NoEngineNoClaim ==
  ASSUME NEW r \in Results, NEW outcome, NEW base, NEW answers,
         r.l1 = L1(FALSE, outcome, base), r.l3 = L3(FALSE, answers)
  PROVE  /\ Level(r) <= 2
         /\ BecomesReady(r) <=> r.l0 = "pass"
<1>1. r.l1 = "skipped" /\ ~Engine(r)
  BY DEF L1, Engine
<1>2. r.l0 \in {"pass", "fail"}
  BY DEF Results
<1>3. Level(r) \in {1, 2}
  <2>1. CASE r.l0 = "fail"
    BY <2>1 DEF Level, Engine, Visual
  <2>2. CASE r.l0 = "pass"
    BY <1>1, <2>2 DEF Level, Visual
  <2> QED BY <1>2, <2>1, <2>2
<1>4. BecomesReady(r) <=> r.l0 = "pass"
  BY <1>1, WhatBlocksACandidate
<1> QED BY <1>3, <1>4

-----------------------------------------------------------------------------
\* What a store is made of.
LEMMA StoreParts ==
  ASSUME NEW st \in Stores
  PROVE  /\ st.files \subseteq Paths /\ \A p \in st.files : RealPath[p] = p
         /\ DOMAIN st.byRef \subseteq Refs /\ DOMAIN st.rows \subseteq Refs
         /\ DOMAIN st.byPath \subseteq Paths
         /\ st.byRef \in [DOMAIN st.byRef -> Artifacts]
         /\ st.rows \in [DOMAIN st.rows -> Artifacts]
         /\ st.byPath \in [DOMAIN st.byPath -> Refs]
         /\ st = [files |-> st.files, byRef |-> st.byRef, byPath |-> st.byPath, rows |-> st.rows]
BY DEF Stores

\* And what makes one.
LEMMA StoreMade ==
  ASSUME NEW files \in SUBSET Paths, \A p \in files : RealPath[p] = p,
         NEW R \in SUBSET Refs, NEW byRef \in [R -> Artifacts],
         NEW P \in SUBSET Paths, NEW byPath \in [P -> Refs],
         NEW Q \in SUBSET Refs, NEW rows \in [Q -> Artifacts]
  PROVE  [files |-> files, byRef |-> byRef, byPath |-> byPath, rows |-> rows] \in Stores
<1>1. /\ byRef \in UNION {[S -> Artifacts] : S \in SUBSET Refs}
      /\ byPath \in UNION {[S -> Refs] : S \in SUBSET Paths}
      /\ rows \in UNION {[S -> Artifacts] : S \in SUBSET Refs}
  OBVIOUS
<1> QED BY <1>1 DEF Stores

\* Put and Drop.
LEMMA PutFacts ==
  ASSUME NEW f, NEW x, NEW y
  PROVE  /\ DOMAIN Put(f, x, y) = DOMAIN f \cup {x}
         /\ Put(f, x, y)[x] = y
         /\ \A z \in DOMAIN f : z # x => Put(f, x, y)[z] = f[z]
         /\ \A D, R : f \in [D -> R] /\ y \in R => Put(f, x, y) \in [D \cup {x} -> R]
BY DEF Put

LEMMA DropFacts ==
  ASSUME NEW f, NEW X
  PROVE  /\ DOMAIN Drop(f, X) = DOMAIN f \ X
         /\ \A z \in DOMAIN f \ X : Drop(f, X)[z] = f[z]
         /\ \A D, R : f \in [D -> R] => Drop(f, X) \in [D \ X -> R]
BY DEF Drop, Restrict

LEMMA KeyFacts ==
  ASSUME NEW st, NEW p \in Paths
  PROVE  /\ Key(st, p) \in Paths /\ RealPath[p] \in Paths
         /\ RealPath[Key(st, p)] = RealPath[p]
         /\ Exists(st, p) => Key(st, p) = RealPath[p]
BY StoreAssumption DEF Key

\* A new artifact whose file is there, and whose real path leads to no other.
LEMMA BindKeeps ==
  ASSUME NEW st, StoreInv(st), NEW r \in Refs, NEW a \in Artifacts,
         r \notin DOMAIN st.byRef, RealPath[StagingPath[r]] \notin DOMAIN st.byPath,
         Exists(st, a.path), ~NamedBy(st, a.path),
         IF a.kind = "staging" THEN a.path = StagingPath[r] ELSE RealPath[a.path] \notin StagingFiles
  PROVE  StoreInv(BoundTo(st, r, a))
<1> DEFINE f == RealPath[a.path]
           byRef == Put(st.byRef, r, a)
           byPath == Put(st.byPath, f, r)
           rows == Put(st.rows, r, a)
           next == [files |-> st.files, byRef |-> byRef, byPath |-> byPath, rows |-> rows]
<1>1. /\ st \in Stores /\ Indexed(st) /\ StagingApart(st) /\ PathsLeadHome(st)
      /\ a.path \in Paths
  BY DEF StoreInv, Artifacts
<1>2. /\ f \in Paths /\ RealPath[f] = f /\ Key(st, a.path) = f /\ f \notin DOMAIN st.byPath
  BY <1>1, StoreAssumption, KeyFacts DEF NamedBy
<1>3. BoundTo(st, r, a) = next
  BY <1>2 DEF BoundTo, Saved
<1>4. /\ DOMAIN byRef = DOMAIN st.byRef \cup {r} /\ byRef[r] = a
      /\ \A s \in DOMAIN st.byRef : byRef[s] = st.byRef[s]
  BY DEF Put
<1>5. /\ DOMAIN byPath = DOMAIN st.byPath \cup {f} /\ byPath[f] = r
      /\ \A p \in DOMAIN st.byPath : byPath[p] = st.byPath[p]
  BY <1>2 DEF Put
<1>6. next \in Stores
  <2>1. /\ byRef \in [DOMAIN st.byRef \cup {r} -> Artifacts]
        /\ rows \in [DOMAIN st.rows \cup {r} -> Artifacts]
        /\ byPath \in [DOMAIN st.byPath \cup {f} -> Refs]
    BY <1>1, StoreParts, PutFacts
  <2>2. /\ DOMAIN st.byRef \cup {r} \in SUBSET Refs /\ DOMAIN st.rows \cup {r} \in SUBSET Refs
        /\ DOMAIN st.byPath \cup {f} \in SUBSET Paths
        /\ st.files \in SUBSET Paths /\ \A p \in st.files : RealPath[p] = p
    BY <1>1, <1>2, StoreParts
  <2> HIDE DEF byRef, rows, byPath, f
  <2> QED BY <2>1, <2>2, StoreMade
<1>7. Indexed(next)
  <2>1. byRef = rows
    BY <1>1 DEF Indexed
  <2>2. ASSUME NEW s \in DOMAIN st.byRef
        PROVE  RealPath[byRef[s].path] \in DOMAIN byPath /\ byPath[RealPath[byRef[s].path]] = s
    BY <1>1, <1>4, <1>5 DEF Indexed
  <2>3. RealPath[byRef[r].path] \in DOMAIN byPath /\ byPath[RealPath[byRef[r].path]] = r
    BY <1>4, <1>5
  <2> HIDE DEF byRef, rows, byPath
  <2> QED BY <1>4, <2>1, <2>2, <2>3 DEF Indexed
<1>8. StagingApart(next)
  <2> HIDE DEF byRef, rows, byPath
  <2> QED BY <1>1, <1>4 DEF StagingApart
<1>9. PathsLeadHome(next)
  <2> SUFFICES ASSUME NEW p \in DOMAIN byPath
               PROVE  p = IF byPath[p] \in DOMAIN byRef THEN RealPath[byRef[byPath[p]].path]
                                                        ELSE RealPath[StagingPath[byPath[p]]]
    BY DEF PathsLeadHome, Resolves
  <2>1. CASE p = f
    BY <1>2, <1>4, <1>5, <2>1
  <2>2. CASE p # f
    <3>1. p \in DOMAIN st.byPath /\ byPath[p] = st.byPath[p]
      BY <1>5, <2>2
    <3>2. st.byPath[p] # r
      BY <1>1, <3>1 DEF PathsLeadHome, Resolves
    <3> HIDE DEF byRef, byPath
    <3> QED BY <1>1, <1>4, <3>1, <3>2 DEF PathsLeadHome, Resolves
  <2> QED BY <2>1, <2>2
<1> QED BY <1>3, <1>6, <1>7, <1>8, <1>9 DEF StoreInv

\* Other programs write and remove files as they like.
LEMMA FilesKeep ==
  ASSUME NEW st, StoreInv(st), NEW files \in SUBSET {RealPath[p] : p \in Paths}
  PROVE  StoreInv([st EXCEPT !.files = files])
<1> DEFINE next == [files |-> files, byRef |-> st.byRef, byPath |-> st.byPath, rows |-> st.rows]
<1>1. st \in Stores /\ Indexed(st) /\ StagingApart(st) /\ PathsLeadHome(st)
  BY DEF StoreInv
<1>2. [st EXCEPT !.files = files] = next
  BY <1>1, StoreParts
<1>3. files \in SUBSET Paths /\ \A p \in files : RealPath[p] = p
  BY StoreAssumption
<1>4. next \in Stores
  BY <1>1, <1>3, StoreParts, StoreMade
<1>5. Indexed(next) /\ StagingApart(next) /\ PathsLeadHome(next)
  BY <1>1 DEF Indexed, StagingApart, PathsLeadHome, Resolves
<1> QED BY <1>2, <1>4, <1>5 DEF StoreInv

\* Artifacts that are forgotten, rows and all, and paths that led to them: what is left
\* is found as before.
LEMMA ForgetKeeps ==
  ASSUME NEW st, StoreInv(st), NEW R \in SUBSET Refs, NEW P \in SUBSET Paths,
         NEW files \in SUBSET st.files,
         \A r \in DOMAIN st.byRef \ R : RealPath[st.byRef[r].path] \notin P,
         \A r \in R \cap DOMAIN st.byRef : st.byRef[r].kind = "staging"
  PROVE  StoreInv([files |-> files, byRef |-> Drop(st.byRef, R), byPath |-> Drop(st.byPath, P),
                   rows |-> Drop(st.rows, R)])
<1> DEFINE byRef == Drop(st.byRef, R)
           byPath == Drop(st.byPath, P)
           rows == Drop(st.rows, R)
           next == [files |-> files, byRef |-> byRef, byPath |-> byPath, rows |-> rows]
<1>1. st \in Stores /\ Indexed(st) /\ StagingApart(st) /\ PathsLeadHome(st)
  BY DEF StoreInv
<1>2. /\ DOMAIN byRef = DOMAIN st.byRef \ R
      /\ \A s \in DOMAIN byRef : byRef[s] = st.byRef[s]
      /\ DOMAIN byPath = DOMAIN st.byPath \ P
      /\ \A p \in DOMAIN byPath : byPath[p] = st.byPath[p]
  BY DEF Drop, Restrict
<1>3. next \in Stores
  <2>1. /\ byRef \in [DOMAIN st.byRef \ R -> Artifacts]
        /\ rows \in [DOMAIN st.rows \ R -> Artifacts]
        /\ byPath \in [DOMAIN st.byPath \ P -> Refs]
    BY <1>1, StoreParts, DropFacts
  <2>2. /\ DOMAIN st.byRef \ R \in SUBSET Refs /\ DOMAIN st.rows \ R \in SUBSET Refs
        /\ DOMAIN st.byPath \ P \in SUBSET Paths
        /\ files \in SUBSET Paths /\ \A p \in files : RealPath[p] = p
    BY <1>1, StoreParts
  <2> HIDE DEF byRef, rows, byPath
  <2> QED BY <2>1, <2>2, StoreMade
<1>4. Indexed(next)
  <2>1. byRef = rows
    BY <1>1 DEF Indexed
  <2> HIDE DEF byRef, rows, byPath
  <2> QED BY <1>1, <1>2, <2>1 DEF Indexed
<1>5. StagingApart(next)
  <2> HIDE DEF byRef, rows, byPath
  <2> QED BY <1>1, <1>2 DEF StagingApart
<1>6. PathsLeadHome(next)
  <2> SUFFICES ASSUME NEW p \in DOMAIN byPath
               PROVE  p = IF byPath[p] \in DOMAIN byRef THEN RealPath[byRef[byPath[p]].path]
                                                        ELSE RealPath[StagingPath[byPath[p]]]
    BY DEF PathsLeadHome, Resolves
  <2> HIDE DEF byRef, rows, byPath
  <2>1. p \in DOMAIN st.byPath /\ byPath[p] = st.byPath[p]
    BY <1>2
  <2>2. CASE byPath[p] \in DOMAIN byRef
    BY <1>1, <1>2, <2>1, <2>2 DEF PathsLeadHome, Resolves
  <2>3. CASE st.byPath[p] \notin DOMAIN st.byRef
    BY <1>1, <1>2, <2>1, <2>3 DEF PathsLeadHome, Resolves
  <2>4. CASE st.byPath[p] \in DOMAIN st.byRef /\ st.byPath[p] \in R
    <3> DEFINE r == st.byPath[p]
    <3>1. st.byRef[r].path = StagingPath[r] /\ p = RealPath[st.byRef[r].path]
      BY <1>1, <2>1, <2>4 DEF StagingApart, PathsLeadHome, Resolves
    <3>2. byPath[p] \notin DOMAIN byRef
      BY <1>2, <2>1, <2>4
    <3> QED BY <2>1, <3>1, <3>2
  <2> QED BY <1>2, <2>1, <2>2, <2>3, <2>4
<1> QED BY <1>3, <1>4, <1>5, <1>6 DEF StoreInv

LEMMA RegisteredKeeps ==
  ASSUME NEW st, StoreInv(st), NEW p \in Sources(st), NEW new \in Refs, Unused(st, new)
  PROVE  StoreInv(Registered(st, p, new))
<1> DEFINE a == [path |-> p, kind |-> "source"]
<1>1. CASE NamedBy(st, p)
  BY <1>1 DEF Registered
<1>2. CASE ~NamedBy(st, p)
  <2>1. /\ a \in Artifacts /\ a.path = p /\ a.kind = "source"
        /\ Exists(st, p) /\ RealPath[p] \notin StagingFiles
    BY DEF Sources, Artifacts
  <2>2. new \notin DOMAIN st.byRef /\ RealPath[StagingPath[new]] \notin DOMAIN st.byPath
    BY DEF Unused, Resolves
  <2>3. Registered(st, p, new) = BoundTo(st, new, a)
    BY <1>2 DEF Registered
  <2> HIDE DEF a
  <2>4. StoreInv(BoundTo(st, new, a))
    BY <1>2, <2>1, <2>2, BindKeeps
  <2> QED BY <2>3, <2>4
<1> QED BY <1>1, <1>2

LEMMA StagedKeeps ==
  ASSUME NEW st, StoreInv(st), NEW new \in Refs, Unused(st, new)
  PROVE  StoreInv(Staged(st, new))
<1> DEFINE a == [path |-> StagingPath[new], kind |-> "staging"]
           files == st.files \cup {RealPath[StagingPath[new]]}
           copied == Cloned(st, new)
<1>1. st \in Stores
  BY DEF StoreInv
<1>2. /\ copied.files = files /\ copied.byRef = st.byRef /\ copied.byPath = st.byPath
      /\ copied = [st EXCEPT !.files = files]
  BY <1>1, StoreParts DEF Cloned
<1>3. StoreInv(copied)
  <2>1. files \in SUBSET {RealPath[p] : p \in Paths}
    BY <1>1, StoreParts, StoreAssumption
  <2> HIDE DEF files, copied
  <2> QED BY <1>2, <2>1, FilesKeep
<1>4. /\ a \in Artifacts /\ a.path = StagingPath[new] /\ a.kind = "staging"
      /\ new \notin DOMAIN st.byRef /\ RealPath[StagingPath[new]] \notin DOMAIN st.byPath
  BY StoreAssumption DEF Artifacts, Unused, Resolves
<1>5. Exists(copied, StagingPath[new]) /\ ~NamedBy(copied, StagingPath[new])
  BY <1>2, <1>4 DEF Exists, NamedBy, Key
<1>6. Staged(st, new) = BoundTo(copied, new, a)
  BY DEF Staged
<1> HIDE DEF a, copied
<1>7. StoreInv(BoundTo(copied, new, a))
  BY <1>2, <1>3, <1>4, <1>5, BindKeeps
<1> QED BY <1>6, <1>7

\* A real path that leads to a copy under another path is not that of the copy.
LEMMA OtherPath ==
  ASSUME NEW st, StoreInv(st), NEW r \in Refs, NEW s \in DOMAIN st.byRef,
         RealPath[st.byRef[s].path] = StagingPath[r]
  PROVE  /\ RealPath[StagingPath[r]] = StagingPath[r]
         /\ StagingPath[r] \in DOMAIN st.byPath /\ st.byPath[StagingPath[r]] = s
<1>1. st.byRef[s].path \in Paths
  BY StoreParts DEF StoreInv, Artifacts
<1> QED BY <1>1, StoreAssumption DEF StoreInv, Indexed

LEMMA ReleasedKeeps ==
  ASSUME NEW st, StoreInv(st), NEW r \in Copies(st)
  PROVE  StoreInv(ReleasedRef(st, r)) /\ StoreInv(ReleasedStaging(st, r))
<1> DEFINE path == StagingPath[r]
           files == st.files \ {RealPath[path]}
           left == Removed(st, path)
<1>1. /\ st \in Stores /\ Indexed(st) /\ StagingApart(st)
      /\ r \in DOMAIN st.byRef /\ r \in Refs /\ Resolves(st, r)
      /\ st.byRef[r].kind = "staging" /\ st.byRef[r].path = path
  BY StoreParts DEF StoreInv, StagingApart, Copies, Resolves
<1>2. left.files = files /\ files \in SUBSET st.files
  BY <1>1, StoreParts DEF Removed
<1>3. Key(left, path) = path
  BY <1>2 DEF Key, Exists
<1>4. ASSUME NEW s \in DOMAIN st.byRef \ {r}
      PROVE  RealPath[st.byRef[s].path] # path
  <2> SUFFICES ASSUME RealPath[st.byRef[s].path] = path PROVE FALSE
    OBVIOUS
  <2>1. RealPath[path] = path /\ st.byPath[path] = s
    BY <1>1, OtherPath
  <2>2. st.byPath[path] = r
    BY <1>1, <2>1 DEF Indexed
  <2> QED BY <2>1, <2>2
<1>5. /\ ReleasedRef(st, r) =
           [files |-> files, byRef |-> Drop(st.byRef, {r}), byPath |-> Drop(st.byPath, {path}),
            rows |-> Drop(st.rows, {r})]
      /\ ReleasedStaging(st, r) =
           [files |-> files, byRef |-> Drop(st.byRef, {r}), byPath |-> st.byPath,
            rows |-> Drop(st.rows, {r})]
  <2> HIDE DEF files, left, path
  <2>1. ReleasedRef(st, r) =
           [files |-> left.files, rows |-> Drop(st.rows, {r}), byRef |-> Drop(st.byRef, {r}),
            byPath |-> Drop(st.byPath, {Key(left, path)})]
    BY <1>1 DEF ReleasedRef, Unsaved, left
  <2>2. ReleasedStaging(st, r) =
           [files |-> left.files, rows |-> Drop(st.rows, {r}), byRef |-> Drop(st.byRef, {r}),
            byPath |-> st.byPath]
    BY <1>1 DEF ReleasedStaging, Unsaved, left
  <2> QED BY <1>2, <1>3, <2>1, <2>2
<1>6. st.byPath = Drop(st.byPath, {})
  BY <1>1, StoreParts DEF Drop, Restrict
<1>7. path \in Paths /\ {path} \in SUBSET Paths /\ {} \in SUBSET Paths /\ {r} \in SUBSET Refs
  BY <1>1, StoreAssumption
<1>8. \A s \in {r} \cap DOMAIN st.byRef : st.byRef[s].kind = "staging"
  BY <1>1
<1> HIDE DEF files, left, path
<1>9. StoreInv([files |-> files, byRef |-> Drop(st.byRef, {r}), byPath |-> Drop(st.byPath, {path}),
                rows |-> Drop(st.rows, {r})])
  <2>1. \A s \in DOMAIN st.byRef \ {r} : RealPath[st.byRef[s].path] \notin {path}
    BY <1>4
  <2> QED BY <1>2, <1>7, <1>8, <2>1, ForgetKeeps
<1>10. StoreInv([files |-> files, byRef |-> Drop(st.byRef, {r}), byPath |-> Drop(st.byPath, {}),
                 rows |-> Drop(st.rows, {r})])
  <2>1. \A s \in DOMAIN st.byRef \ {r} : RealPath[st.byRef[s].path] \notin {}
    OBVIOUS
  <2> QED BY <1>2, <1>7, <1>8, <2>1, ForgetKeeps
<1> QED BY <1>5, <1>6, <1>9, <1>10

LEMMA PurgedKeeps ==
  ASSUME NEW st, StoreInv(st), NEW keep \in SUBSET Refs
  PROVE  StoreInv(Purged(st, keep))
<1> DEFINE gone == {RealPath[StagingPath[r]] : r \in Purgeable(st, keep)}
           named == {r \in Purgeable(st, keep) : RealPath[StagingPath[r]] \in DOMAIN st.byPath}
           refs == {st.byPath[RealPath[StagingPath[r]]] : r \in named}
           raw == {StagingPath[r] : r \in named}
<1>1. /\ st \in Stores /\ Indexed(st) /\ StagingApart(st) /\ PathsLeadHome(st)
      /\ st.byPath \in [DOMAIN st.byPath -> Refs]
  BY StoreParts DEF StoreInv
<1>2. Purged(st, keep) =
        [files |-> st.files \ gone, byRef |-> Drop(st.byRef, refs), byPath |-> Drop(st.byPath, raw),
         rows |-> Drop(st.rows, refs)]
  BY DEF Purged, Unsaved
<1>3. refs \in SUBSET Refs /\ raw \in SUBSET Paths /\ st.files \ gone \in SUBSET st.files
  BY <1>1, StoreAssumption DEF Purgeable
<1>4. ASSUME NEW s \in DOMAIN st.byRef \ refs
      PROVE  RealPath[st.byRef[s].path] \notin raw
  <2> SUFFICES ASSUME NEW r \in named, RealPath[st.byRef[s].path] = StagingPath[r] PROVE FALSE
    OBVIOUS
  <2>1. r \in Refs
    BY DEF Purgeable
  <2>2. RealPath[StagingPath[r]] = StagingPath[r] /\ st.byPath[StagingPath[r]] = s
    BY <2>1, OtherPath
  <2>3. st.byPath[RealPath[StagingPath[r]]] \in refs
    OBVIOUS
  <2> QED BY <2>2, <2>3
<1>5. ASSUME NEW s \in refs \cap DOMAIN st.byRef
      PROVE  st.byRef[s].kind = "staging"
  <2>1. PICK r \in named : s = st.byPath[RealPath[StagingPath[r]]]
    OBVIOUS
  <2>2. RealPath[st.byRef[s].path] = RealPath[StagingPath[r]]
    BY <1>1, <2>1 DEF PathsLeadHome, Resolves
  <2>3. RealPath[st.byRef[s].path] \in StagingFiles
    BY <2>2, StoreAssumption DEF StagingFiles, Purgeable
  <2> QED BY <1>1, <2>3 DEF StagingApart
<1> HIDE DEF gone, named, refs, raw
<1> DEFINE files == st.files \ gone
<1> HIDE DEF files
<1>6. files \in SUBSET st.files
  BY <1>3 DEF files
<1>7. StoreInv([files |-> files, byRef |-> Drop(st.byRef, refs), byPath |-> Drop(st.byPath, raw),
                rows |-> Drop(st.rows, refs)])
  BY <1>3, <1>4, <1>5, <1>6, ForgetKeeps
<1> QED BY <1>2, <1>7 DEF files

LEMMA HydratedKeeps ==
  ASSUME NEW st, StoreInv(st), Rehydrates(st), NEW next \in Hydrations(st)
  PROVE  /\ StoreInv(next)
         /\ next.files = st.files /\ next.byRef = st.byRef
         /\ \A r \in DOMAIN st.byRef : LET f == RealPath[st.byRef[r].path] IN
              Key(st, st.byRef[r].path) = f /\ f \in DOMAIN next.byPath /\ next.byPath[f] = r
         /\ \A k \in DOMAIN next.byPath : next.byPath[k] \in DOMAIN st.byRef
<1> DEFINE keys == {Key(st, st.rows[r].path) : r \in DOMAIN st.rows}
<1>1. /\ st \in Stores /\ Indexed(st) /\ StagingApart(st) /\ PathsLeadHome(st)
      /\ st.byRef = st.rows /\ st.rows \in [DOMAIN st.rows -> Artifacts]
      /\ DOMAIN st.rows \in SUBSET Refs
  BY StoreParts DEF StoreInv, Indexed
<1>2. PICK g \in [keys -> DOMAIN st.rows] :
        /\ \A k \in keys : Key(st, st.rows[g[k]].path) = k
        /\ next = [st EXCEPT !.byRef = st.rows, !.byPath = g]
  BY DEF Hydrations
<1>3. /\ next.files = st.files /\ next.rows = st.rows /\ next.byRef = st.rows /\ next.byPath = g
      /\ next \in [files : SUBSET Paths, byRef : {st.rows}, byPath : {g}, rows : {st.rows}]
  BY <1>1, <1>2 DEF Stores
<1>4. ASSUME NEW r \in DOMAIN st.rows
      PROVE  /\ Key(st, st.rows[r].path) = RealPath[st.rows[r].path]
             /\ RealPath[st.rows[r].path] \in keys
             /\ g[RealPath[st.rows[r].path]] = r
  <2> DEFINE p == st.rows[r].path
             f == RealPath[p]
  <2>1. p \in Paths
    BY <1>1 DEF Artifacts
  <2>2. Key(st, p) = f /\ RealPath[f] = f
    BY <2>1, StoreAssumption DEF Rehydrates, Key
  <2>3. f \in keys
    BY <2>2
  <2>4. g[f] \in DOMAIN st.rows /\ Key(st, st.rows[g[f]].path) = f
    BY <1>2, <2>3
  <2>5. st.rows[g[f]].path \in Paths
    BY <1>1, <2>4 DEF Artifacts
  <2>6. RealPath[Key(st, st.rows[g[f]].path)] = RealPath[st.rows[g[f]].path]
    BY <2>5, KeyFacts
  <2>7. RealPath[st.rows[g[f]].path] = f
    BY <2>2, <2>4, <2>6
  <2>8. \A s \in DOMAIN st.rows : st.byPath[RealPath[st.rows[s].path]] = s
    BY <1>1 DEF Indexed
  <2>9. st.byPath[f] = g[f] /\ st.byPath[f] = r
    BY <2>4, <2>7, <2>8
  <2> QED BY <2>2, <2>3, <2>9
<1>5. keys \in SUBSET Paths
  BY <1>1, KeyFacts DEF Artifacts
<1> HIDE DEF keys
<1>6. next \in Stores
  <2>1. next = [files |-> next.files, byRef |-> st.rows, byPath |-> g, rows |-> st.rows]
    BY <1>3
  <2>2. /\ next.files \in SUBSET Paths /\ \A p \in next.files : RealPath[p] = p
        /\ st.rows \in [DOMAIN st.rows -> Artifacts] /\ g \in [keys -> Refs]
    BY <1>1, <1>2, <1>3, StoreParts
  <2>3. [files |-> next.files, byRef |-> st.rows, byPath |-> g, rows |-> st.rows] \in Stores
    BY <1>1, <1>5, <2>2, StoreMade
  <2> QED BY <2>1, <2>3
<1>7. Indexed(next)
  BY <1>2, <1>3, <1>4 DEF Indexed
<1>8. StagingApart(next)
  BY <1>1, <1>3 DEF StagingApart
<1>9. PathsLeadHome(next)
  <2> SUFFICES ASSUME NEW k \in keys
               PROVE  /\ g[k] \in DOMAIN st.rows
                      /\ RealPath[st.rows[g[k]].path] = k
    BY <1>2, <1>3 DEF PathsLeadHome, Resolves
  <2>1. g[k] \in DOMAIN st.rows /\ Key(st, st.rows[g[k]].path) = k
    BY <1>2
  <2> QED BY <1>4, <2>1
<1>10. StoreInv(next)
  BY <1>6, <1>7, <1>8, <1>9 DEF StoreInv
<1> QED BY <1>1, <1>2, <1>3, <1>4, <1>10

\* Whatever operation comes next, whatever other programs do to the files and however often
\* the process restarts: memory and rows agree, every artifact is found under its real
\* path, copies and sources are apart, and a path leads to no other file than its own.
THEOREM StoreKept ==
  /\ \A files \in SUBSET {RealPath[p] : p \in Paths} : StoreInv(EmptyStore(files))
  /\ \A st : StoreInv(st) => \A next \in Successors(st) : StoreInv(next)
<1>1. ASSUME NEW files \in SUBSET {RealPath[p] : p \in Paths}
      PROVE  StoreInv(EmptyStore(files))
  <2> DEFINE none == [r \in {} |-> r]
  <2>1. none \in [{} -> Artifacts] /\ none \in [{} -> Refs] /\ DOMAIN none = {}
    OBVIOUS
  <2>2. files \in SUBSET Paths /\ \A p \in files : RealPath[p] = p
    BY StoreAssumption
  <2>3. {} \in SUBSET Refs /\ {} \in SUBSET Paths
    OBVIOUS
  <2>4. EmptyStore(files) = [files |-> files, byRef |-> none, byPath |-> none, rows |-> none]
    BY DEF EmptyStore
  <2> HIDE DEF none
  <2>5. [files |-> files, byRef |-> none, byPath |-> none, rows |-> none] \in Stores
    BY <2>1, <2>2, <2>3, StoreMade
  <2> QED BY <2>1, <2>4, <2>5 DEF StoreInv, Indexed, StagingApart, PathsLeadHome
<1>2. ASSUME NEW st, StoreInv(st), NEW next \in Successors(st)
      PROVE  StoreInv(next)
  <2>1. ASSUME NEW new \in Refs, Unused(st, new), NEW p \in Sources(st),
               next = Registered(st, p, new)
        PROVE  StoreInv(next)
    BY <1>2, <2>1, RegisteredKeeps
  <2>2. ASSUME NEW new \in Refs, Unused(st, new), next = Staged(st, new)
        PROVE  StoreInv(next)
    BY <1>2, <2>2, StagedKeeps
  <2>3. ASSUME NEW r \in Copies(st), next \in {ReleasedRef(st, r), ReleasedStaging(st, r)}
        PROVE  StoreInv(next)
    BY <1>2, <2>3, ReleasedKeeps
  <2>4. ASSUME NEW keep \in SUBSET Refs, next = Purged(st, keep)
        PROVE  StoreInv(next)
    BY <1>2, <2>4, PurgedKeeps
  <2>5. ASSUME Rehydrates(st), next \in Hydrations(st)
        PROVE  StoreInv(next)
    BY <1>2, <2>5, HydratedKeeps
  <2>6. ASSUME NEW files \in SUBSET {RealPath[p] : p \in Paths}, next = [st EXCEPT !.files = files]
        PROVE  StoreInv(next)
    BY <1>2, <2>6, FilesKeep
  <2> DEFINE new == {r \in Refs : Unused(st, r)}
  <2>7. \/ next \in {Registered(st, p, r) : p \in Sources(st), r \in new}
        \/ next \in {Staged(st, r) : r \in new}
        \/ next \in {ReleasedRef(st, r) : r \in Copies(st)}
        \/ next \in {ReleasedStaging(st, r) : r \in Copies(st)}
        \/ next \in {Purged(st, keep) : keep \in SUBSET Refs}
        \/ Rehydrates(st) /\ next \in Hydrations(st)
        \/ next \in {[st EXCEPT !.files = files] : files \in SUBSET {RealPath[p] : p \in Paths}}
    BY DEF Successors
  <2> QED BY <2>1, <2>2, <2>3, <2>4, <2>5, <2>6, <2>7
<1> QED BY <1>1, <1>2

\* One file has one ref: two artifacts of one real path are one artifact, so the document
\* two callers opened under two spellings is one document.
THEOREM OneRefPerFile ==
  ASSUME NEW st, StoreInv(st), NEW r \in DOMAIN st.byRef, NEW s \in DOMAIN st.byRef,
         RealPath[st.byRef[r].path] = RealPath[st.byRef[s].path]
  PROVE  r = s
BY DEF StoreInv, Indexed

\* register answers a ref that resolves, to a source, and to the file that was asked for:
\* never to what is left of a released copy.
THEOREM RegisteredResolves ==
  ASSUME NEW st, StoreInv(st), NEW p \in Sources(st), NEW new \in Refs, Unused(st, new)
  PROVE  LET next == Registered(st, p, new)
             r == RefOf(st, p, new)
         IN /\ Resolves(next, r) /\ next.rows[r] = next.byRef[r]
            /\ next.byRef[r].kind = "source"
            /\ RealPath[next.byRef[r].path] = RealPath[p]
<1> DEFINE next == Registered(st, p, new)
           r == RefOf(st, p, new)
<1>1. p \in Paths /\ Exists(st, p) /\ RealPath[p] \notin StagingFiles
  BY DEF Sources
<1>2. Key(st, p) = RealPath[p] /\ RealPath[RealPath[p]] = RealPath[p]
  BY <1>1, StoreAssumption DEF Key
<1>3. st \in Stores /\ Indexed(st) /\ StagingApart(st) /\ PathsLeadHome(st)
  BY DEF StoreInv
<1>4. CASE NamedBy(st, p)
  <2>1. next = st /\ r = st.byPath[RealPath[p]] /\ RealPath[p] \in DOMAIN st.byPath
    BY <1>2, <1>4 DEF Registered, RefOf, NamedBy
  <2>2. r \in Refs
    BY <1>3, <2>1, StoreParts
  <2> HIDE DEF next, r
  <2>3. Resolves(st, r)
    BY <1>1, <1>3, <2>1, <2>2 DEF PathsLeadHome, StagingFiles
  <2>4. RealPath[st.byRef[r].path] = RealPath[p]
    BY <1>2, <1>3, <2>1, <2>3 DEF PathsLeadHome
  <2>5. st.byRef[r].kind = "source"
    <3>1. st.byRef[r] \in Artifacts
      BY <1>3, <2>3, StoreParts DEF Resolves
    <3>2. st.byRef[r].kind # "staging"
      BY <1>1, <1>3, <2>2, <2>3, <2>4 DEF StagingApart, Resolves, StagingFiles
    <3> QED BY <3>1, <3>2 DEF Artifacts
  <2> QED BY <1>3, <2>1, <2>3, <2>4, <2>5 DEF Indexed, next, r
<1>5. CASE ~NamedBy(st, p)
  <2> DEFINE a == [path |-> p, kind |-> "source"]
  <2>1. next.byRef = Put(st.byRef, new, a) /\ next.rows = Put(st.rows, new, a) /\ r = new
    BY <1>5 DEF Registered, RefOf, BoundTo, Saved
  <2> QED BY <2>1 DEF Put, Resolves
<1> QED BY <1>4, <1>5

\* A released copy is gone from memory, from the table and from disk, and nothing else is.
\* After release its path leads nowhere, unless the staging directory lies behind a link;
\* after releaseStaging its path still leads to the ref.
THEOREM ReleaseForgets ==
  ASSUME NEW st, StoreInv(st), NEW r \in Copies(st), NEW next,
         next \in {ReleasedRef(st, r), ReleasedStaging(st, r)}
  PROVE  /\ ~Resolves(next, r) /\ r \notin DOMAIN next.rows /\ ~Exists(next, StagingPath[r])
         /\ \A s \in DOMAIN st.byRef \ {r} :
              /\ Resolves(next, s) /\ next.byRef[s] = st.byRef[s]
              /\ Exists(st, st.byRef[s].path) => Exists(next, st.byRef[s].path)
         /\ RealPath[StagingPath[r]] = StagingPath[r] => ~NamedBy(ReleasedRef(st, r), StagingPath[r])
         /\ NamedBy(ReleasedStaging(st, r), RealPath[StagingPath[r]])
<1> DEFINE f == RealPath[StagingPath[r]]
<1>1. /\ st \in Stores /\ Indexed(st) /\ StagingApart(st)
      /\ r \in DOMAIN st.byRef /\ r \in Refs /\ Resolves(st, r)
      /\ st.byRef[r].kind = "staging" /\ st.byRef[r].path = StagingPath[r]
      /\ f \in Paths /\ RealPath[f] = f
  BY StoreParts, StoreAssumption DEF StoreInv, StagingApart, Copies, Resolves
<1>2. Removed(st, StagingPath[r]).files = st.files \ {f}
  BY <1>1, StoreParts DEF Removed
<1>3. /\ next.files = st.files \ {f} /\ next.byRef = Drop(st.byRef, {r})
      /\ next.rows = Drop(st.rows, {r})
  BY <1>1, <1>2 DEF ReleasedRef, ReleasedStaging, Unsaved
<1>4. /\ ReleasedStaging(st, r).files = st.files \ {f}
      /\ ReleasedStaging(st, r).byPath = st.byPath
  BY <1>1, <1>2 DEF ReleasedStaging
<1>5. f \in DOMAIN st.byPath
  BY <1>1 DEF Indexed
<1>6. ASSUME NEW s \in DOMAIN st.byRef \ {r}
      PROVE  RealPath[st.byRef[s].path] # f
  BY <1>1 DEF Indexed
<1> HIDE DEF f
<1>7. ~Resolves(next, r) /\ r \notin DOMAIN next.rows
  BY <1>3 DEF Resolves, Drop, Restrict
<1>8. ~Exists(next, StagingPath[r])
  BY <1>3 DEF Exists, f
<1>9. \A s \in DOMAIN st.byRef \ {r} : Resolves(next, s) /\ next.byRef[s] = st.byRef[s]
  BY <1>3 DEF Resolves, Drop, Restrict
<1>10. \A s \in DOMAIN st.byRef \ {r} :
         Exists(st, st.byRef[s].path) => Exists(next, st.byRef[s].path)
  BY <1>3, <1>6 DEF Exists
<1>11. NamedBy(ReleasedStaging(st, r), f)
  BY <1>1, <1>4, <1>5 DEF NamedBy, Key, Exists
<1>12. ASSUME f = StagingPath[r] PROVE ~NamedBy(ReleasedRef(st, r), StagingPath[r])
  <2>1. ~Exists(Removed(st, StagingPath[r]), StagingPath[r])
    BY <1>2 DEF Exists, f
  <2>2. /\ ReleasedRef(st, r).files = st.files \ {f}
        /\ ReleasedRef(st, r).byPath = Drop(st.byPath, {StagingPath[r]})
    BY <1>1, <1>2, <2>1 DEF ReleasedRef, Key
  <2>3. Key(ReleasedRef(st, r), StagingPath[r]) = StagingPath[r]
    BY <2>2 DEF Key, Exists, f
  <2> QED BY <2>2, <2>3 DEF NamedBy, Drop, Restrict
<1> QED BY <1>7, <1>8, <1>9, <1>10, <1>11, <1>12 DEF f

\* A restart finds what was there: the same artifacts at the same paths, each again under
\* its real path; and no path leads any more to a copy that was released.
THEOREM RestartResolvesAlike ==
  ASSUME NEW st, StoreInv(st), Rehydrates(st), NEW next \in Hydrations(st)
  PROVE  /\ next.byRef = st.byRef
         /\ \A r \in DOMAIN st.byRef :
              LET f == RealPath[st.byRef[r].path] IN NamedBy(next, f) /\ next.byPath[Key(next, f)] = r
         /\ \A p \in DOMAIN next.byPath : Resolves(next, next.byPath[p])
<1>1. /\ next.byRef = st.byRef
      /\ \A r \in DOMAIN st.byRef : LET f == RealPath[st.byRef[r].path] IN
           f \in DOMAIN next.byPath /\ next.byPath[f] = r
      /\ \A p \in DOMAIN next.byPath : next.byPath[p] \in DOMAIN st.byRef
  BY HydratedKeeps
<1>2. ASSUME NEW r \in DOMAIN st.byRef
      PROVE  Key(next, RealPath[st.byRef[r].path]) = RealPath[st.byRef[r].path]
  <2>1. st.byRef[r].path \in Paths
    BY StoreParts DEF StoreInv, Artifacts
  <2> QED BY <2>1, StoreAssumption DEF Key
<1> QED BY <1>1, <1>2 DEF NamedBy, Resolves

=============================================================================
