------------------------- MODULE MC_AgentMutations --------------------------
(* AgentMutations for TLC, between the policy that judges its payloads and the  *)
(* verification that its flush is for, and beside the store that keeps its copy: a key asked for with two payloads, and    *)
(* a command that leaves the fences of the task's scope.                        *)
EXTENDS AgentMutations, OperationPolicy, Verification, ArtifactStore, TLC

CONSTANTS k1, k2

-----------------------------------------------------------------------------
(* Payloads: two slides, the first of them with a shape.                      *)
TheTargets == {"/slide[1]", "/slide[1]/shape[1]", "/slide[2]"}
LiesWithin == [t \in TheTargets |-> IF t = "/slide[1]/shape[1]" THEN {"/slide[1]", t} ELSE {t}]
TheRawParts == {"slide1.xml"}

Item(name, target) ==
    [command |-> name, restyles |-> FALSE, targets |-> {target}, part |-> NoPart]
SetTitle == <<Item("set", "/slide[1]/shape[1]")>>
SetAndAdd == SetTitle \o <<Item("add", "/slide[1]")>>
Strays == SetTitle \o <<Item("move", "/slide[2]")>>

FirstSlide == [destructiveAllowed |-> FALSE, targets |-> {"/slide[1]"}, parts |-> {}]

TheCommands == {[key |-> k1, payload |-> SetTitle], [key |-> k1, payload |-> SetAndAdd],
                [key |-> k2, payload |-> Strays]}
TheDenied == {payload \in {SetTitle, SetAndAdd, Strays} :
                ~Permits(payload, FirstSlide, FALSE, DefaultRiskThreshold)}

\* Some payload of the run is let through and some other is not, and what the fence of a
\* slide holds back no approval lets through.
ASSUME PolicyIsTried == /\ TheDenied = {Strays}
                        /\ ~Permits(Strays, FirstSlide, TRUE, DefaultRiskThreshold)

-----------------------------------------------------------------------------
(* Verifications: a slide, a sheet, a theme and the relationships of a part.   *)
TheParts == {"slide1", "sheet1", "theme", "rels"}
TheContents == {"a", "a_reformatted", "b", "too_large"}
IdentityOf == [c \in TheContents |-> c]
CanonicalOf == [c \in TheContents |-> IF c = "a_reformatted" THEN "a" ELSE c]
TheSlideParts == <<{"slide1", "rels"}>>
TheTargetSets == SUBSET {[kind |-> "slide", number |-> 1], [kind |-> "sheet"]}

Base == [part \in TheParts |-> "a"]
Edited == [TheParts -> {"a", "a_reformatted", "b"}]

\* Every class of a change happens to some part, and every verdict to some package.
ASSUME DiffsAreTried ==
    /\ {Class(Base, edited, targets, part) :
          edited \in Edited, targets \in TheTargetSets, part \in TheParts}
         = {"UNCHANGED", "EXPECTED", "NORMALIZATION_ONLY", "UNEXPECTED_LOW_RISK",
            "UNEXPECTED_HIGH_RISK"}
    /\ {L4(TRUE, Base, edited, targets) : edited \in Edited, targets \in TheTargetSets}
         = {"pass", "warn", "fail"}

\* Every report has a confidence, and each level is some report's.
ASSUME LadderIsTried == {Confidence(r) : r \in Results} = {Levels[i] : i \in DOMAIN Levels}

-----------------------------------------------------------------------------
(* The artifact store: a document with an alias, another one, and a staging      *)
(* directory behind a link, for the first of two copies.                        *)
ThePaths == {"doc", "alias", "other", "link_copy1", "copy1", "copy2"}
TheRefs == {"ref1", "ref2"}
Resolution ==
    [p \in ThePaths |-> CASE p = "alias" -> "doc" [] p = "link_copy1" -> "copy1" [] OTHER -> p]
CopyOf == [r \in TheRefs |-> IF r = "ref1" THEN "link_copy1" ELSE "copy2"]

\* What becomes of a store in n operations; at StoreDepth nothing new comes up.
StoreDepth == 6
Reached[n \in 0..StoreDepth] ==
    IF n = 0 THEN {EmptyStore({"doc"})}
    ELSE LET before == Reached[n - 1] IN before \cup UNION {Successors(st) : st \in before}
ReachedStores == Reached[StoreDepth]

\* Every store that can be reached is a good one, and the hard cases are among them: a copy
\* whose ref is gone and whose path is left, a row that a restart does not find under its
\* real path, a document under its alias.
ASSUME StoreIsTried ==
    /\ \A st \in ReachedStores : StoreInv(st) /\ Successors(st) \subseteq ReachedStores
    /\ \E st \in ReachedStores : \E p \in DOMAIN st.byPath : ~Resolves(st, st.byPath[p])
    /\ \E st \in ReachedStores : ~Rehydrates(st)
    /\ \E st \in ReachedStores : \E r \in Copies(st), s \in DOMAIN st.byRef :
          st.byRef[s].path = "alias" /\ Exists(st, st.byRef[r].path)

=============================================================================
