-------------------------- MODULE ResourceGovernor --------------------------
(***************************************************************************)
(* The global ledger of ResourceGovernor: slots per resource class, one    *)
(* memory counter for reservations and resident cache bytes together, and  *)
(* the leases that are out.  Its operations are conjoined to the actions   *)
(* of their callers; everything they do is synchronous.                    *)
(*                                                                         *)
(* lastPressure is not a variable: tryAcquire, releaseById and             *)
(* reportCacheBytes all end in refreshPressure, so it always equals the    *)
(* level of the ledger.                                                    *)
(***************************************************************************)
EXTENDS Integers, FiniteSets, Functions, FiniteSetsExt

CONSTANTS
    Holders,       \* who can hold a lease: jobs, and engine residents
    Classes,       \* resource classes with a number of slots
    Slots,         \* Slots[c]: the budget of class c
    MemoryBudget,  \* budgets.memoryBytes, in the unit of the instance
    Request        \* Request[h]: what h asks for, see Requests

VARIABLES
    held,          \* the holders whose lease is out
    used,          \* used[c]: slots of c taken
    memoryUsed     \* reservations and cache bytes

ledger == <<held, used, memoryUsed>>

Requests == [classes : [Classes -> Nat], bytes : Nat]

ASSUME GovernorAssumption ==
    /\ IsFiniteSet(Holders) /\ IsFiniteSet(Classes)
    /\ Slots \in [Classes -> Nat]
    /\ MemoryBudget \in Nat \ {0}
    /\ Request \in [Holders -> Requests]

LedgerType ==
    /\ held \subseteq Holders
    /\ used \in [Classes -> Nat]
    /\ memoryUsed \in Nat

LedgerInit ==
    /\ held = {}
    /\ used = [c \in Classes |-> 0]
    /\ memoryUsed = 0

AtLeastZero(n) == IF n < 0 THEN 0 ELSE n

\* refreshPressure: the highest utilisation decides, in hundredths.
Utilisation(n, budget) == IF budget = 0 THEN 0 ELSE (100 * n) \div budget

LevelOf(u, m) ==
    LET most == Max({Utilisation(m, MemoryBudget)} \cup {Utilisation(u[c], Slots[c]) : c \in Classes})
    IN  IF most >= 95 THEN "critical"
        ELSE IF most >= 80 THEN "high"
        ELSE IF most >= 60 THEN "elevated" ELSE "normal"

Pressure == LevelOf(used, memoryUsed)

\* Faulty: refuses the request that would fill the budget.
FitsWithRoomLeft(h) ==
    /\ memoryUsed + Request[h].bytes < MemoryBudget
    /\ \A c \in Classes : Request[h].classes[c] > 0 => used[c] + Request[h].classes[c] <= Slots[c]

\* tryAcquire's admission.  A request for no memory is refused as well while
\* the counter is over the budget.
Fits(h) ==
    /\ memoryUsed + Request[h].bytes <= MemoryBudget
    /\ \A c \in Classes : Request[h].classes[c] > 0 => used[c] + Request[h].classes[c] <= Slots[c]

\* The rest of tryAcquire, once admitted.
Take(h) ==
    /\ held' = held \cup {h}
    /\ used' = [c \in Classes |-> used[c] + Request[h].classes[c]]
    /\ memoryUsed' = memoryUsed + Request[h].bytes

\* releaseById: nothing for a lease that is not out.
GiveBack(h) ==
    IF h \in held
    THEN /\ held' = held \ {h}
         /\ used' = [c \in Classes |-> AtLeastZero(used[c] - Request[h].classes[c])]
         /\ memoryUsed' = AtLeastZero(memoryUsed - Request[h].bytes)
    ELSE UNCHANGED ledger

\* reportCacheBytes without the relief it may start.
CountCacheBytes(delta) ==
    /\ memoryUsed' = AtLeastZero(memoryUsed + delta)
    /\ UNCHANGED <<held, used>>

=============================================================================
