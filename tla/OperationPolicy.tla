---------------------------- MODULE OperationPolicy -------------------------
(* What an agent may ask of the engine: the risk ladder, the fences of the     *)
(* task's mutation scope, and the gate that a batch passes before it queues.    *)
EXTENDS Integers, Sequences

CONSTANTS
    Targets,        \* paths, parents and selectors of elements
    Within,         \* [Targets -> SUBSET Targets]: itself, and what it lies under ("/", "[")
    RawParts,       \* names of parts of the package
    NoPart          \* the item names no part

ASSUME PolicyAssumption ==
    /\ Within \in [Targets -> SUBSET Targets]
    /\ \A t \in Targets : t \in Within[t]
    /\ \A t \in Targets : \A a \in Within[t] : Within[a] \subseteq Within[t]
    /\ NoPart \notin RawParts

DeniedCommands == {"run", "exec", "macro", "activate", "watch", "unwatch"}
DestructiveCommands == {"remove", "raw-set"}
CriticalCommands == {"raw-set", "raw", "add-part"}
\* The rest that the ladder names, and one that it does not.
EditCommands == DeniedCommands \cup DestructiveCommands \cup CriticalCommands
            \cup {"move", "swap", "add", "set", "import", "other"}

\* restyles: the properties that a "set" sets hold a style, a theme or a master.
Items == [command : EditCommands, restyles : BOOLEAN, targets : SUBSET Targets,
          part : RawParts \cup {NoPart}]
\* No targets, no parts: the list is missing or empty, and fences nothing.
Scopes == [destructiveAllowed : BOOLEAN, targets : SUBSET Targets, parts : SUBSET RawParts]

RiskRank == [low |-> 0, medium |-> 1, high |-> 2, critical |-> 3]
Thresholds == DOMAIN RiskRank
DefaultRiskThreshold == "high"

-----------------------------------------------------------------------------
Restyling(item) == item.command = "set" /\ item.restyles
Classify(item) ==
    IF item.command \in DeniedCommands THEN "denied"
    ELSE IF item.command \in CriticalCommands THEN "critical"
    ELSE IF item.command \in {"remove", "import"} \/ Restyling(item) THEN "high"
    ELSE IF item.command = "set" THEN "low" ELSE "medium"

\* The three fences, in the order that they are tried.
DestroysUnasked(item, scope) ==
    item.command \in DestructiveCommands /\ ~scope.destructiveAllowed
LeavesTargets(item, scope) ==
    scope.targets # {} /\ \E t \in item.targets : Within[t] \cap scope.targets = {}
LeavesParts(item, scope) ==
    scope.parts # {} /\ item.part \notin scope.parts \cup {NoPart}

Risk(item, scope) ==
    IF \/ DestroysUnasked(item, scope)
       \/ LeavesTargets(item, scope)
       \/ LeavesParts(item, scope)
    THEN "denied" ELSE Classify(item)

\* Of an item that is not denied; what the ladder says of approval is not asked again.
RequiresApproval(item, approved, threshold) ==
    /\ Classify(item) \notin {"low", "medium"}
    /\ RiskRank[Classify(item)] >= RiskRank[threshold]
    /\ ~approved

\* The whole payload is judged before any of it runs: one denial, or one item that
\* lacks its approval, refuses the batch.
Permits(payload, scope, approved, threshold) ==
    /\ \A i \in DOMAIN payload : Risk(payload[i], scope) # "denied"
    /\ \A i \in DOMAIN payload : ~RequiresApproval(payload[i], approved, threshold)

\* The fences of an edit over MCP: those of the call that opened the task.  A call that
\* finds the candidate's task live brings a scope of its own, which nothing reads.
EditScope(live, own, asked) == IF live THEN own ELSE asked
EditPermits(payload, live, own, asked) ==
    Permits(payload, EditScope(live, own, asked), FALSE, DefaultRiskThreshold)

=============================================================================
