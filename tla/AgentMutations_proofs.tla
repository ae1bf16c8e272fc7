----------------------- MODULE AgentMutations_proofs -----------------------
(***************************************************************************)
(* Of a task's mutations, for any number of calls, keys and payloads: what *)
(* a receipt stands for, what a flush seals, and what an abort leaves.     *)
(***************************************************************************)
EXTENDS AgentMutations, SequenceTheorems, FiniteSetTheorems, TLAPS

Active(c) == call[c] \in {"queued", "opening", "applying", "evicting"}

\* The lane holds whatever has been asked for and has not ended, once, and what is under
\* way is its head.
LaneInv ==
    /\ lane \in Seq(Calls \cup {"flush"})
    /\ \A i, j \in DOMAIN lane : lane[i] = lane[j] => i = j
    /\ \A c \in Calls : c \in Range(lane) <=> call[c] \in Steps
    /\ "flush" \in Range(lane) <=> flush # "idle"
    /\ \A c \in Calls : Active(c) => Turn(c)
    /\ flush \notin {"idle", "lane"} => Turn("flush")

\* Every close that has not come back belongs to who waits for it.
ClosersInv ==
    /\ \A c \in Calls : /\ c \in opening <=> call[c] = "opening"
                        /\ c \in closers <=> call[c] = "evicting"
    /\ "flush" \in closers <=> flush = "evicting"
    /\ "finalize" \in closers <=> handoff = "evicting"
    /\ "abort" \in closers <=> teardown.pc = "evicting"

\* The task knows of the entry that the pool has; while somebody waits for a close there
\* is none, and none is on its way but for a call that finalize found in the queue.
EntryInv ==
    /\ pool => task.opened
    /\ \A c \in Calls : call[c] = "opening" => ~task.opened
    /\ \A c \in Calls : call[c] = "evicting" => ~pool /\ task.closing
    /\ flush = "evicting" \/ teardown.pc = "evicting" => ~pool
    /\ handoff = "evicting" =>
         /\ ~pool
         /\ \/ task.opened
            \/ /\ \A c \in Calls : call[c] \notin {"queued", "opening"}
               /\ candidate # "mutating" \/ task.closing

\* Which of finalize, abort, flush and reject have been there.
PhaseInv ==
    /\ task.tracked <=> lease = "held"
    /\ lease = "replaced" => candidate = "failed"
    /\ task.closing <=> teardown.pc # "idle"
    /\ teardown.pc = "draining" => \A c \in Calls : Active(c) => c \in teardown.lanes
    /\ teardown.pc \in {"evicting", "done", "failed"} => \A c \in Calls : ~Active(c)
    /\ candidate \in {"flushing", "verifying"} => \A c \in Calls : ~Active(c)
    /\ flush \in {"saving", "evicting", "scanning"} => candidate \in {"flushing", "failed"}
    /\ flush # "idle" /\ ~task.tracked => handoff = "overtook" \/ candidate = "failed"

\* What the engine has applied, and what of it is on disk.
EditsInv ==
    /\ \A c \in disk \cup unsaved : call[c] = "done"
    /\ \A c \in Calls : call[c] # "idle" => command[c] \in Commands
    /\ \A c \in Calls : Active(c) => command[c].key \notin DOMAIN receipts
    /\ task.tracked /\ (~task.opened \/ \E c \in Calls : call[c] = "evicting") => unsaved = {}
    /\ task.tracked => \A c \in Calls : call[c] = "applying" => task.opened
    /\ flush = "evicting" => unsaved = {}
    /\ flush = "scanning" /\ candidate = "flushing" /\ handoff # "overtook" => unsaved = {}

MutationInv ==
    TypeOK /\ LaneInv /\ ClosersInv /\ EntryInv /\ PhaseInv /\ EditsInv
    /\ ReceiptMeansApplied /\ FlushSealsEdits

-----------------------------------------------------------------------------
LEMMA InitialState == Init => MutationInv
<1> SUFFICES ASSUME Init PROVE MutationInv
  OBVIOUS
<1> USE DEF Init, PoolInit
<1>1. Cardinality({}) = 0
  BY FS_EmptySet
<1>2. TypeOK
  <2>1. governed = Cardinality(opening) + Cardinality(closers) + (IF pool THEN 1 ELSE 0)
    BY <1>1
  <2>2. PoolType
    BY <2>1 DEF PoolType
  <2>3. Range(lane) = {} /\ DOMAIN receipts = {}
    BY DEF Range
  <2>4. /\ task \in [tracked : BOOLEAN, opened : BOOLEAN, closing : BOOLEAN]
        /\ teardown \in [pc : {"idle", "draining", "evicting", "done", "failed"},
                         lanes : SUBSET (Calls \cup {"flush"})]
    OBVIOUS
  <2>5. command \in [Calls -> Commands \cup {NoCommand}] /\ call \in [Calls -> {"idle", "done"} \cup Steps]
    OBVIOUS
  <2> QED BY <2>2, <2>3, <2>4, <2>5 DEF TypeOK
<1>3. LaneInv
  BY DEF LaneInv, Active, Range, Steps
<1>4. ClosersInv /\ EntryInv /\ PhaseInv /\ EditsInv
  BY DEF ClosersInv, EntryInv, PhaseInv, EditsInv, Active
<1>5. ReceiptMeansApplied /\ FlushSealsEdits
  BY DEF ReceiptMeansApplied, FlushSealsEdits
<1> QED BY <1>2, <1>3, <1>4, <1>5 DEF MutationInv

-----------------------------------------------------------------------------
(* The lane *)

LEMMA HeadIsListed ==
  ASSUME LaneInv, NEW x, Turn(x)
  PROVE  x \in Range(lane)
BY HeadTailProperties DEF LaneInv, Turn, Range

LEMMA OneTurn ==
  ASSUME NEW x, NEW y, Turn(x), Turn(y)
  PROVE  x = y
BY DEF Turn

LEMMA HeadLeaves ==
  ASSUME LaneInv, NEW x, Turn(x), Leaves
  PROVE  /\ lane' \in Seq(Calls \cup {"flush"})
         /\ \A i, j \in DOMAIN lane' : lane'[i] = lane'[j] => i = j
         /\ Range(lane)' = Range(lane) \ {x}
<1> DEFINE S == Calls \cup {"flush"}
<1>1. lane \in Seq(S) /\ lane # <<>> /\ Head(lane) = x /\ lane' = Tail(lane)
  BY DEF LaneInv, Turn, Leaves
<1>2. /\ lane' \in Seq(S) /\ Len(lane') = Len(lane) - 1
      /\ \A i \in 1 .. Len(lane') : lane'[i] = lane[i + 1]
      /\ lane[1] = x /\ Len(lane) \in Nat \ {0}
  BY <1>1, HeadTailProperties, LenProperties
<1>3. DOMAIN lane = 1 .. Len(lane) /\ DOMAIN lane' = 1 .. Len(lane')
  BY <1>1, <1>2, LenProperties
<1>4. \A i, j \in DOMAIN lane' : lane'[i] = lane'[j] => i = j
  <2> SUFFICES ASSUME NEW i \in DOMAIN lane', NEW j \in DOMAIN lane', lane'[i] = lane'[j]
               PROVE  i = j
    OBVIOUS
  <2>1. i + 1 \in DOMAIN lane /\ j + 1 \in DOMAIN lane /\ lane[i + 1] = lane[j + 1]
    BY <1>2, <1>3
  <2>2. i + 1 = j + 1
    BY <2>1 DEF LaneInv
  <2> QED BY <2>2, <1>2, <1>3
<1>5. Range(lane)' = Range(lane) \ {x}
  <2>1. ASSUME NEW i \in DOMAIN lane'
        PROVE  lane'[i] \in Range(lane) \ {x}
    <3>1. i + 1 \in DOMAIN lane /\ 1 \in DOMAIN lane /\ i + 1 # 1 /\ lane'[i] = lane[i + 1]
      BY <1>2, <1>3, <2>1
    <3>2. lane[i + 1] # lane[1]
      BY <3>1 DEF LaneInv
    <3> QED BY <3>1, <3>2, <1>2 DEF Range
  <2>2. ASSUME NEW i \in DOMAIN lane, lane[i] # x
        PROVE  \E j \in DOMAIN lane' : lane'[j] = lane[i]
    <3>1. i - 1 \in DOMAIN lane' /\ lane'[i - 1] = lane[i]
      BY <1>2, <1>3, <2>2
    <3> QED BY <3>1
  <2> QED BY <2>1, <2>2 DEF Range
<1> QED BY <1>2, <1>4, <1>5

LEMMA LaneGrows ==
  ASSUME LaneInv, NEW x \in Calls \cup {"flush"}, x \notin Range(lane), lane' = Append(lane, x)
  PROVE  /\ lane' \in Seq(Calls \cup {"flush"})
         /\ \A i, j \in DOMAIN lane' : lane'[i] = lane'[j] => i = j
         /\ Range(lane)' = Range(lane) \cup {x}
         /\ \A y : Turn(y) => Turn(y)'
<1> DEFINE S == Calls \cup {"flush"}
<1>1. lane \in Seq(S)
  BY DEF LaneInv
<1>2. /\ lane' \in Seq(S) /\ Len(lane') = Len(lane) + 1 /\ Len(lane) \in Nat
      /\ \A i \in 1 .. Len(lane) : lane'[i] = lane[i]
      /\ lane'[Len(lane) + 1] = x
  BY <1>1, AppendProperties, LenProperties
<1>3. DOMAIN lane = 1 .. Len(lane) /\ DOMAIN lane' = 1 .. Len(lane) + 1
  BY <1>1, <1>2, LenProperties
<1>4. \A i \in DOMAIN lane : lane[i] \in Range(lane) /\ lane[i] # x
  BY DEF Range
<1>5. \A i, j \in DOMAIN lane' : lane'[i] = lane'[j] => i = j
  BY <1>2, <1>3, <1>4 DEF LaneInv
<1>6. Range(lane)' = Range(lane) \cup {x}
  BY <1>2, <1>3 DEF Range
<1>7. \A y : Turn(y) => Turn(y)'
  BY <1>1, <1>2 DEF Turn
<1> QED BY <1>2, <1>5, <1>6, <1>7

LEMMA CallLeaves ==
  ASSUME MutationInv, NEW c \in Calls, Turn(c), Ends(c), UNCHANGED flush
  PROVE  LaneInv'
<1> USE DEF MutationInv, TypeOK, Ends, Steps, Active
<1>1. /\ lane' \in Seq(Calls \cup {"flush"})
      /\ \A i, j \in DOMAIN lane' : lane'[i] = lane'[j] => i = j
      /\ Range(lane)' = Range(lane) \ {c}
  BY HeadLeaves
<1>2. \A d \in Calls : d \in Range(lane)' <=> call'[d] \in Steps
  BY <1>1 DEF LaneInv
<1>3. "flush" \in Range(lane)' <=> flush' # "idle"
  BY <1>1, MutationAssumption DEF LaneInv
<1>4. \A d \in Calls : d # c => ~Active(d)
  BY OneTurn DEF LaneInv
<1>5. \A d \in Calls : ~Active(d)'
  BY <1>4
<1>6. flush' \in {"idle", "lane"}
  BY OneTurn, MutationAssumption DEF LaneInv
<1> QED BY <1>1, <1>2, <1>3, <1>5, <1>6 DEF LaneInv

LEMMA FlushLeaves ==
  ASSUME MutationInv, Turn("flush"), FlushEnds, UNCHANGED call
  PROVE  LaneInv'
<1> USE DEF MutationInv, FlushEnds
<1>1. /\ lane' \in Seq(Calls \cup {"flush"})
      /\ \A i, j \in DOMAIN lane' : lane'[i] = lane'[j] => i = j
      /\ Range(lane)' = Range(lane) \ {"flush"}
  BY HeadLeaves
<1>2. \A d \in Calls : d # "flush"
  BY MutationAssumption
<1>3. \A d \in Calls : d \in Range(lane)' <=> call'[d] \in Steps
  BY <1>1, <1>2 DEF LaneInv
<1>4. \A d \in Calls : ~Active(d)'
  BY OneTurn, <1>2 DEF LaneInv, Active
<1> QED BY <1>1, <1>3, <1>4 DEF LaneInv

LEMMA HeadMoves ==
  ASSUME MutationInv, NEW c \in Calls, Turn(c), call[c] \in Steps, NEW p \in Steps,
         call' = [call EXCEPT ![c] = p], UNCHANGED <<lane, flush>>
  PROVE  LaneInv'
BY DEF MutationInv, LaneInv, TypeOK, Active, Turn

LEMMA FlushMoves ==
  ASSUME MutationInv, Turn("flush"), UNCHANGED <<lane, call>>, flush # "idle", flush' # "idle"
  PROVE  LaneInv'
BY DEF MutationInv, LaneInv, Active, Turn

LEMMA LaneStep ==
  ASSUME MutationInv, [Next]_vars
  PROVE  LaneInv'
<1> USE DEF MutationInv
<1>1. ASSUME NEW c \in Calls, NEW m \in Commands, Ask(c, m)
      PROVE  LaneInv'
  <2>1. c \notin Range(lane)
    BY <1>1 DEF Ask, LaneInv, Steps
  <2>2. /\ lane' \in Seq(Calls \cup {"flush"})
        /\ \A i, j \in DOMAIN lane' : lane'[i] = lane'[j] => i = j
        /\ Range(lane)' = Range(lane) \cup {c}
        /\ \A y : Turn(y) => Turn(y)'
    BY <1>1, <2>1, LaneGrows DEF Ask
  <2>3. \A d \in Calls : Active(d)' => Active(d)
    BY <1>1 DEF Ask, Active, TypeOK
  <2>4. \A d \in Calls : d \in Range(lane)' <=> call'[d] \in Steps
    BY <1>1, <2>2 DEF Ask, LaneInv, TypeOK, Steps
  <2> QED BY <1>1, <2>2, <2>3, <2>4, MutationAssumption DEF Ask, LaneInv, processVars
<1>2. ASSUME AskFlush
      PROVE  LaneInv'
  <2>1. /\ lane' \in Seq(Calls \cup {"flush"})
        /\ \A i, j \in DOMAIN lane' : lane'[i] = lane'[j] => i = j
        /\ Range(lane)' = Range(lane) \cup {"flush"}
        /\ \A y : Turn(y) => Turn(y)'
    BY <1>2, LaneGrows DEF AskFlush, LaneInv
  <2>2. \A d \in Calls : d # "flush"
    BY MutationAssumption
  <2> QED BY <1>2, <2>1, <2>2 DEF AskFlush, LaneInv, Active
<1>3. ASSUME NEW c \in Calls,
             Replay(c) \/ Refuse(c) \/ DropJob(c) \/ OpenFails(c) \/ Apply(c) \/ ApplyFails(c)
             \/ \E ok \in BOOLEAN : CallEvicted(c, ok)
      PROVE  LaneInv'
  <2>1. Turn(c) /\ Ends(c) /\ UNCHANGED flush
    BY <1>3 DEF Replay, Refuse, DropJob, OpenFails, Apply, ApplyFails, CallEvicted, LaneInv, Active,
                processVars
  <2> QED BY <2>1, CallLeaves
<1>4. ASSUME NEW c \in Calls, Dispatch(c) \/ StartJob(c) \/ ResidentOpens(c)
      PROVE  LaneInv'
  <2>1. Turn(c) /\ call[c] \in Steps /\ UNCHANGED <<lane, flush>>
    BY <1>4 DEF Dispatch, StartJob, ResidentOpens, LaneInv, Active, processVars, Steps
  <2>2. \E p \in Steps : call' = [call EXCEPT ![c] = p]
    BY <1>4 DEF Dispatch, StartJob, ResidentOpens, Steps
  <2> QED BY <2>1, <2>2, HeadMoves
<1>5. ASSUME StartFlush \/ SaveFails \/ Scan \/ ScanFails \/ SaveAndEvict
             \/ \E ok \in BOOLEAN : FlushEvicted(ok)
      PROVE  LaneInv'
  <2>1. Turn("flush") /\ UNCHANGED call /\ flush # "idle"
    BY <1>5 DEF StartFlush, SaveFails, Scan, ScanFails, SaveAndEvict, FlushEvicted, LaneInv
  <2>2. FlushEnds \/ (UNCHANGED lane /\ flush' # "idle")
    BY <1>5 DEF StartFlush, SaveFails, Scan, ScanFails, SaveAndEvict, FlushEvicted
  <2> QED BY <2>1, <2>2, FlushLeaves, FlushMoves
<1>6. ASSUME UNCHANGED <<lane, call, flush>>
      PROVE  LaneInv'
  BY <1>6 DEF LaneInv, Active, Turn
<1>7. ASSUME Finalize \/ AbortStart \/ TeardownStep \/ Sweep \/ (\E ok \in BOOLEAN : SweepEvicted(ok))
             \/ ReadReleases \/ RejectCandidate \/ NextWriter \/ UNCHANGED vars
      PROVE  UNCHANGED <<lane, call, flush>>
  BY <1>7 DEF Finalize, AbortStart, TeardownStep, AbortTask, AbortNothing, AbortEvicted, FinalizeEvicted,
              Sweep, SweepEvicted, ReadReleases, RejectCandidate, NextWriter, vars, processVars
<1> QED BY <1>1, <1>2, <1>3, <1>4, <1>5, <1>6, <1>7 DEF Next, CallStep, FlushStep

-----------------------------------------------------------------------------
(* Who has been there, and the entry of the pool *)

LEMMA TaskForgotten ==
  ASSUME TypeOK, Forgotten
  PROVE  ~task'.tracked /\ ~task'.opened /\ task'.closing = task.closing
BY DEF TypeOK, Forgotten

LEMMA PhaseAtFlush ==
  ASSUME MutationInv, StartFlush
  PROVE  PhaseInv'
<1> USE DEF MutationInv, PhaseInv, TypeOK, LaneInv, StartFlush
<1>1. \A c \in Calls : ~Active(c)
  BY MutationAssumption DEF Turn
<1>2. \A c \in Calls : ~Active(c)'
  BY <1>1 DEF Active
<1>3. task' = task /\ lease' = lease /\ teardown' = teardown /\ handoff' = handoff
  OBVIOUS
<1>4. CASE candidate # "mutating"
  BY <1>2, <1>3, <1>4 DEF FlushEnds
<1>5. CASE candidate = "mutating"
  BY <1>2, <1>3, <1>5
<1> QED BY <1>4, <1>5

LEMMA PhaseAtFinalize ==
  ASSUME MutationInv, Finalize
  PROVE  PhaseInv'
<1> USE DEF MutationInv, PhaseInv, Finalize, Active
<1>1. CASE task.opened /\ pool
  BY <1>1 DEF TypeOK
<1>2. CASE ~(task.opened /\ pool)
  BY <1>2, TaskForgotten DEF Released, HandedOff
<1> QED BY <1>1, <1>2

LEMMA PhaseAtHandoff ==
  ASSUME MutationInv, NEW ok \in BOOLEAN, FinalizeEvicted(ok)
  PROVE  PhaseInv'
<1> USE DEF MutationInv, PhaseInv, FinalizeEvicted, Active
<1>1. CASE ok
  BY <1>1, TaskForgotten DEF Released, HandedOff
<1>2. CASE ~ok
  BY <1>2 DEF TypeOK
<1> QED BY <1>1, <1>2

LEMMA PhaseAtAbort ==
  ASSUME MutationInv, AbortTask
  PROVE  PhaseInv'
<1> USE DEF MutationInv, PhaseInv, AbortTask
<1>1. \A c \in Calls : ~Active(c)
  BY DEF Drained, LaneInv, Active, Steps
<1>2. \A c \in Calls : ~Active(c)'
  BY <1>1 DEF Active
<1>3. CASE task.opened /\ pool
  BY <1>2, <1>3 DEF TypeOK
<1>4. CASE ~(task.opened /\ pool)
  BY <1>2, <1>4, TaskForgotten DEF Released, Reclaim
<1> QED BY <1>3, <1>4

LEMMA PhaseStep ==
  ASSUME MutationInv, [Next]_vars
  PROVE  PhaseInv'
<1> USE DEF MutationInv, PhaseInv, TypeOK, PoolType, LaneInv, ClosersInv, EntryInv, Active
<1>1. ASSUME NEW c \in Calls, NEW m \in Commands, Ask(c, m) PROVE PhaseInv'
  BY <1>1 DEF Ask, taskVars, processVars, poolVars, engineVars, Turn
<1>2. ASSUME NEW c \in Calls, Replay(c) PROVE PhaseInv'
  BY <1>2 DEF Replay, Ends, Leaves, taskVars, processVars, poolVars, engineVars, Turn
<1>3. ASSUME NEW c \in Calls, Refuse(c) PROVE PhaseInv'
  BY <1>3 DEF Refuse, Ends, Admits, Leaves, taskVars, processVars, poolVars, engineVars, Turn
<1>4. ASSUME NEW c \in Calls, Dispatch(c) PROVE PhaseInv'
  BY <1>4 DEF Dispatch, Admits, taskVars, processVars, poolVars, engineVars, Turn
<1>5. ASSUME NEW c \in Calls, DropJob(c) PROVE PhaseInv'
  BY <1>5 DEF DropJob, Ends, Acknowledged, Leaves, taskVars, processVars, poolVars, engineVars, Turn
<1>6. ASSUME NEW c \in Calls, StartJob(c) PROVE PhaseInv'
  BY <1>6 DEF StartJob, StartOpening, taskVars, processVars, poolVars, engineVars, Turn
<1>7. ASSUME NEW c \in Calls, ResidentOpens(c) PROVE PhaseInv'
  BY <1>7 DEF ResidentOpens, Open, Opened, processVars, Turn
<1>8. ASSUME NEW c \in Calls, OpenFails(c) PROVE PhaseInv'
  BY <1>8 DEF OpenFails, Ends, Open, FailOpening, Leaves, taskVars, processVars, engineVars, Turn
<1>9. ASSUME NEW c \in Calls, Apply(c) PROVE PhaseInv'
  BY <1>9 DEF Apply, Ends, Acknowledged, Batch, Leaves, taskVars, processVars, poolVars, Turn
<1>10. ASSUME NEW c \in Calls, ApplyFails(c) PROVE PhaseInv'
  BY <1>10 DEF ApplyFails, Ends, Batch, Leaves, taskVars, processVars, poolVars, engineVars, Turn
<1>11. ASSUME NEW c \in Calls, NEW ok \in BOOLEAN, CallEvicted(c, ok) PROVE PhaseInv'
  BY <1>11 DEF CallEvicted, Ends, Evicted, Close, Leaves, processVars, engineVars, Turn
<1>12. ASSUME AskFlush PROVE PhaseInv'
  BY <1>12 DEF AskFlush, taskVars, poolVars, engineVars, Turn
<1>13. ASSUME StartFlush PROVE PhaseInv'
  BY <1>13, PhaseAtFlush
<1>14. ASSUME SaveAndEvict PROVE PhaseInv'
  BY <1>14 DEF SaveAndEvict, Save, Evict, Turn
<1>15. ASSUME SaveFails PROVE PhaseInv'
  BY <1>15 DEF SaveFails, FlushEnds, Save, Leaves, taskVars, poolVars, engineVars, Turn
<1>16. ASSUME NEW ok \in BOOLEAN, FlushEvicted(ok) PROVE PhaseInv'
  BY <1>16 DEF FlushEvicted, FlushEnds, Evicted, Close, Leaves, engineVars, Turn
<1>17. ASSUME Scan PROVE PhaseInv'
  BY <1>17 DEF Scan, FlushEnds, Leaves, poolVars, engineVars, Turn
<1>18. ASSUME ScanFails PROVE PhaseInv'
  BY <1>18 DEF ScanFails, FlushEnds, Leaves, taskVars, poolVars, engineVars, Turn
<1>19. ASSUME Finalize PROVE PhaseInv'
  BY <1>19, PhaseAtFinalize
<1>20. ASSUME NEW ok \in BOOLEAN, FinalizeEvicted(ok) PROVE PhaseInv'
  BY <1>20, PhaseAtHandoff
<1>21. ASSUME AbortStart PROVE PhaseInv'
  BY <1>21 DEF AbortStart, poolVars, engineVars, Turn
<1>22. ASSUME AbortTask PROVE PhaseInv'
  BY <1>22, PhaseAtAbort
<1>23. ASSUME NEW ok \in BOOLEAN, AbortEvicted(ok) PROVE PhaseInv'
  BY <1>23 DEF AbortEvicted, Reclaim, Evicted, Close, Forgotten, Released, engineVars, Turn
<1>24. ASSUME AbortNothing PROVE PhaseInv'
  BY <1>24 DEF AbortNothing, Drained, taskVars, poolVars, engineVars, Turn
<1>25. ASSUME Sweep PROVE PhaseInv'
  BY <1>25 DEF Sweep, Evict, taskVars, processVars, engineVars, Turn
<1>26. ASSUME NEW ok \in BOOLEAN, SweepEvicted(ok) PROVE PhaseInv'
  BY <1>26 DEF SweepEvicted, Evicted, Close, taskVars, processVars, engineVars, Turn
<1>27. ASSUME ReadReleases PROVE PhaseInv'
  BY <1>27 DEF ReadReleases, Close, taskVars, processVars, poolVars, Turn
<1>28. ASSUME RejectCandidate PROVE PhaseInv'
  BY <1>28 DEF RejectCandidate, processVars, poolVars, engineVars, Turn
<1>29. ASSUME NextWriter PROVE PhaseInv'
  BY <1>29 DEF NextWriter, processVars, poolVars, engineVars, Turn
<1>30. CASE UNCHANGED vars
  BY <1>30 DEF vars, taskVars, processVars, poolVars, engineVars, Turn
<1> QED BY <1>1, <1>2, <1>3, <1>4, <1>5, <1>6, <1>7, <1>8, <1>9, <1>10, <1>11, <1>12, <1>13, <1>14, <1>15,
     <1>16, <1>17, <1>18, <1>19, <1>20, <1>21, <1>22, <1>23, <1>24, <1>25, <1>26, <1>27, <1>28, <1>29,
     <1>30 DEF Next, CallStep, FlushStep, TeardownStep

LEMMA ClosersStep ==
  ASSUME MutationInv, [Next]_vars
  PROVE  ClosersInv'
<1> USE DEF MutationInv, ClosersInv, TypeOK, PoolType, LaneInv, EntryInv, PhaseInv, Active
<1>1. ASSUME NEW c \in Calls, NEW m \in Commands, Ask(c, m) PROVE ClosersInv'
  BY <1>1, MutationAssumption DEF Ask, taskVars, processVars, poolVars, engineVars, Turn
<1>2. ASSUME NEW c \in Calls, Replay(c) PROVE ClosersInv'
  BY <1>2, MutationAssumption DEF Replay, Ends, Leaves, taskVars, processVars, poolVars, engineVars, Turn
<1>3. ASSUME NEW c \in Calls, Refuse(c) PROVE ClosersInv'
  BY <1>3, MutationAssumption DEF Refuse, Ends, Admits, Leaves, taskVars, processVars, poolVars,
       engineVars, Turn
<1>4. ASSUME NEW c \in Calls, Dispatch(c) PROVE ClosersInv'
  BY <1>4, MutationAssumption DEF Dispatch, Admits, taskVars, processVars, poolVars, engineVars, Turn
<1>5. ASSUME NEW c \in Calls, DropJob(c) PROVE ClosersInv'
  BY <1>5, MutationAssumption DEF DropJob, Ends, Acknowledged, Leaves, taskVars, processVars, poolVars,
       engineVars, Turn
<1>6. ASSUME NEW c \in Calls, StartJob(c) PROVE ClosersInv'
  BY <1>6, MutationAssumption DEF StartJob, StartOpening, taskVars, processVars, poolVars, engineVars, Turn
<1>7. ASSUME NEW c \in Calls, ResidentOpens(c) PROVE ClosersInv'
  BY <1>7, MutationAssumption DEF ResidentOpens, Open, Opened, processVars, Turn
<1>8. ASSUME NEW c \in Calls, OpenFails(c) PROVE ClosersInv'
  BY <1>8, MutationAssumption DEF OpenFails, Ends, Open, FailOpening, Leaves, taskVars, processVars,
       engineVars, Turn
<1>9. ASSUME NEW c \in Calls, Apply(c) PROVE ClosersInv'
  BY <1>9, MutationAssumption DEF Apply, Ends, Acknowledged, Batch, Leaves, taskVars, processVars,
       poolVars, Turn
<1>10. ASSUME NEW c \in Calls, ApplyFails(c) PROVE ClosersInv'
  BY <1>10, MutationAssumption DEF ApplyFails, Ends, Batch, Leaves, taskVars, processVars, poolVars,
       engineVars, Turn
<1>11. ASSUME NEW c \in Calls, NEW ok \in BOOLEAN, CallEvicted(c, ok) PROVE ClosersInv'
  BY <1>11, MutationAssumption DEF CallEvicted, Ends, Evicted, Close, Leaves, processVars, engineVars, Turn
<1>12. ASSUME AskFlush PROVE ClosersInv'
  BY <1>12, MutationAssumption DEF AskFlush, taskVars, poolVars, engineVars, Turn
<1>13. ASSUME StartFlush PROVE ClosersInv'
  BY <1>13, MutationAssumption DEF StartFlush, FlushEnds, Leaves, poolVars, engineVars, Turn
<1>14. ASSUME SaveAndEvict PROVE ClosersInv'
  BY <1>14, MutationAssumption DEF SaveAndEvict, Save, Evict, Turn
<1>15. ASSUME SaveFails PROVE ClosersInv'
  BY <1>15, MutationAssumption DEF SaveFails, FlushEnds, Save, Leaves, taskVars, poolVars, engineVars, Turn
<1>16. ASSUME NEW ok \in BOOLEAN, FlushEvicted(ok) PROVE ClosersInv'
  BY <1>16, MutationAssumption DEF FlushEvicted, FlushEnds, Evicted, Close, Leaves, engineVars, Turn
<1>17. ASSUME Scan PROVE ClosersInv'
  BY <1>17, MutationAssumption DEF Scan, FlushEnds, Leaves, poolVars, engineVars, Turn
<1>18. ASSUME ScanFails PROVE ClosersInv'
  BY <1>18, MutationAssumption DEF ScanFails, FlushEnds, Leaves, taskVars, poolVars, engineVars, Turn
<1>19. ASSUME Finalize PROVE ClosersInv'
  BY <1>19, MutationAssumption DEF Finalize, Forgotten, Released, HandedOff, Evict, poolVars, engineVars, Turn
<1>20. ASSUME NEW ok \in BOOLEAN, FinalizeEvicted(ok) PROVE ClosersInv'
  BY <1>20, MutationAssumption DEF FinalizeEvicted, Forgotten, Released, HandedOff, Evicted, Close,
       engineVars, Turn
<1>21. ASSUME AbortStart PROVE ClosersInv'
  BY <1>21, MutationAssumption DEF AbortStart, poolVars, engineVars, Turn
<1>22. ASSUME AbortTask PROVE ClosersInv'
  BY <1>22, MutationAssumption DEF AbortTask, Reclaim, Drained, Evict, Forgotten, Released, poolVars,
       engineVars, Turn
<1>23. ASSUME NEW ok \in BOOLEAN, AbortEvicted(ok) PROVE ClosersInv'
  BY <1>23, MutationAssumption DEF AbortEvicted, Reclaim, Evicted, Close, Forgotten, Released, engineVars,
       Turn
<1>24. ASSUME AbortNothing PROVE ClosersInv'
  BY <1>24, MutationAssumption DEF AbortNothing, Drained, taskVars, poolVars, engineVars, Turn
<1>25. ASSUME Sweep PROVE ClosersInv'
  BY <1>25, MutationAssumption DEF Sweep, Evict, taskVars, processVars, engineVars, Turn
<1>26. ASSUME NEW ok \in BOOLEAN, SweepEvicted(ok) PROVE ClosersInv'
  BY <1>26, MutationAssumption DEF SweepEvicted, Evicted, Close, taskVars, processVars, engineVars, Turn
<1>27. ASSUME ReadReleases PROVE ClosersInv'
  BY <1>27, MutationAssumption DEF ReadReleases, Close, taskVars, processVars, poolVars, Turn
<1>28. ASSUME RejectCandidate PROVE ClosersInv'
  BY <1>28, MutationAssumption DEF RejectCandidate, processVars, poolVars, engineVars, Turn
<1>29. ASSUME NextWriter PROVE ClosersInv'
  BY <1>29, MutationAssumption DEF NextWriter, processVars, poolVars, engineVars, Turn
<1>30. CASE UNCHANGED vars
  BY <1>30 DEF vars, taskVars, processVars, poolVars, engineVars, Turn
<1> QED BY <1>1, <1>2, <1>3, <1>4, <1>5, <1>6, <1>7, <1>8, <1>9, <1>10, <1>11, <1>12, <1>13, <1>14, <1>15,
     <1>16, <1>17, <1>18, <1>19, <1>20, <1>21, <1>22, <1>23, <1>24, <1>25, <1>26, <1>27, <1>28, <1>29,
     <1>30 DEF Next, CallStep, FlushStep, TeardownStep

LEMMA EntryAtFinalize ==
  ASSUME MutationInv, Finalize
  PROVE  EntryInv'
<1> USE DEF MutationInv, EntryInv, Finalize
<1>1. CASE task.opened /\ pool
  BY <1>1 DEF Evict
<1>2. CASE ~(task.opened /\ pool)
  BY <1>2, TaskForgotten DEF HandedOff, poolVars
<1> QED BY <1>1, <1>2

LEMMA EntryAtHandoff ==
  ASSUME MutationInv, NEW ok \in BOOLEAN, FinalizeEvicted(ok)
  PROVE  EntryInv'
<1> USE DEF MutationInv, EntryInv, FinalizeEvicted, Evicted
<1>1. CASE ok
  BY <1>1, TaskForgotten DEF HandedOff, TypeOK
<1>2. CASE ~ok
  BY <1>2
<1> QED BY <1>1, <1>2

LEMMA EntryStep ==
  ASSUME MutationInv, [Next]_vars
  PROVE  EntryInv'
<1> USE DEF MutationInv, ClosersInv, TypeOK, PoolType, LaneInv, EntryInv, PhaseInv, Active
<1>1. ASSUME NEW c \in Calls, NEW m \in Commands, Ask(c, m) PROVE EntryInv'
  BY <1>1, MutationAssumption DEF Ask, taskVars, processVars, poolVars, engineVars, Turn
<1>2. ASSUME NEW c \in Calls, Replay(c) PROVE EntryInv'
  BY <1>2, MutationAssumption DEF Replay, Ends, Leaves, taskVars, processVars, poolVars, engineVars, Turn
<1>3. ASSUME NEW c \in Calls, Refuse(c) PROVE EntryInv'
  BY <1>3, MutationAssumption DEF Refuse, Ends, Admits, Leaves, taskVars, processVars, poolVars,
       engineVars, Turn
<1>4. ASSUME NEW c \in Calls, Dispatch(c) PROVE EntryInv'
  BY <1>4, MutationAssumption DEF Dispatch, Admits, taskVars, processVars, poolVars, engineVars, Turn
<1>5. ASSUME NEW c \in Calls, DropJob(c) PROVE EntryInv'
  BY <1>5, MutationAssumption DEF DropJob, Ends, Acknowledged, Leaves, taskVars, processVars, poolVars,
       engineVars, Turn
<1>6. ASSUME NEW c \in Calls, StartJob(c) PROVE EntryInv'
  BY <1>6, MutationAssumption DEF StartJob, StartOpening, taskVars, processVars, poolVars, engineVars, Turn
<1>7. ASSUME NEW c \in Calls, ResidentOpens(c) PROVE EntryInv'
  BY <1>7, MutationAssumption DEF ResidentOpens, Open, Opened, processVars, Turn
<1>8. ASSUME NEW c \in Calls, OpenFails(c) PROVE EntryInv'
  BY <1>8, MutationAssumption DEF OpenFails, Ends, Open, FailOpening, Leaves, taskVars, processVars,
       engineVars, Turn
<1>9. ASSUME NEW c \in Calls, Apply(c) PROVE EntryInv'
  BY <1>9, MutationAssumption DEF Apply, Ends, Acknowledged, Batch, Leaves, taskVars, processVars,
       poolVars, Turn
<1>10. ASSUME NEW c \in Calls, ApplyFails(c) PROVE EntryInv'
  BY <1>10, MutationAssumption DEF ApplyFails, Ends, Batch, Leaves, taskVars, processVars, poolVars,
       engineVars, Turn
<1>11. ASSUME NEW c \in Calls, NEW ok \in BOOLEAN, CallEvicted(c, ok) PROVE EntryInv'
  BY <1>11, MutationAssumption DEF CallEvicted, Ends, Evicted, Close, Leaves, processVars, engineVars, Turn
<1>12. ASSUME AskFlush PROVE EntryInv'
  BY <1>12, MutationAssumption DEF AskFlush, taskVars, poolVars, engineVars, Turn
<1>13. ASSUME StartFlush PROVE EntryInv'
  BY <1>13, MutationAssumption DEF StartFlush, FlushEnds, Leaves, poolVars, engineVars, Turn
<1>14. ASSUME SaveAndEvict PROVE EntryInv'
  BY <1>14, MutationAssumption DEF SaveAndEvict, Save, Evict, Turn
<1>15. ASSUME SaveFails PROVE EntryInv'
  BY <1>15, MutationAssumption DEF SaveFails, FlushEnds, Save, Leaves, taskVars, poolVars, engineVars, Turn
<1>16. ASSUME NEW ok \in BOOLEAN, FlushEvicted(ok) PROVE EntryInv'
  BY <1>16, MutationAssumption DEF FlushEvicted, FlushEnds, Evicted, Close, Leaves, engineVars, Turn
<1>17. ASSUME Scan PROVE EntryInv'
  BY <1>17, MutationAssumption DEF Scan, FlushEnds, Leaves, poolVars, engineVars, Turn
<1>18. ASSUME ScanFails PROVE EntryInv'
  BY <1>18, MutationAssumption DEF ScanFails, FlushEnds, Leaves, taskVars, poolVars, engineVars, Turn
<1>19. ASSUME Finalize PROVE EntryInv'
  BY <1>19, EntryAtFinalize
<1>20. ASSUME NEW ok \in BOOLEAN, FinalizeEvicted(ok) PROVE EntryInv'
  BY <1>20, EntryAtHandoff
<1>21. ASSUME AbortStart PROVE EntryInv'
  BY <1>21, MutationAssumption DEF AbortStart, poolVars, engineVars, Turn
<1>22. ASSUME AbortTask PROVE EntryInv'
  BY <1>22, MutationAssumption DEF AbortTask, Reclaim, Drained, Evict, Forgotten, Released, poolVars,
       engineVars, Turn
<1>23. ASSUME NEW ok \in BOOLEAN, AbortEvicted(ok) PROVE EntryInv'
  BY <1>23, MutationAssumption DEF AbortEvicted, Reclaim, Evicted, Close, Forgotten, Released, engineVars,
       Turn
<1>24. ASSUME AbortNothing PROVE EntryInv'
  BY <1>24, MutationAssumption DEF AbortNothing, Drained, taskVars, poolVars, engineVars, Turn
<1>25. ASSUME Sweep PROVE EntryInv'
  BY <1>25, MutationAssumption DEF Sweep, Evict, taskVars, processVars, engineVars, Turn
<1>26. ASSUME NEW ok \in BOOLEAN, SweepEvicted(ok) PROVE EntryInv'
  BY <1>26, MutationAssumption DEF SweepEvicted, Evicted, Close, taskVars, processVars, engineVars, Turn
<1>27. ASSUME ReadReleases PROVE EntryInv'
  BY <1>27, MutationAssumption DEF ReadReleases, Close, taskVars, processVars, poolVars, Turn
<1>28. ASSUME RejectCandidate PROVE EntryInv'
  BY <1>28, MutationAssumption DEF RejectCandidate, processVars, poolVars, engineVars, Turn
<1>29. ASSUME NextWriter PROVE EntryInv'
  BY <1>29, MutationAssumption DEF NextWriter, processVars, poolVars, engineVars, Turn
<1>30. CASE UNCHANGED vars
  BY <1>30 DEF vars, taskVars, processVars, poolVars, engineVars, Turn
<1> QED BY <1>1, <1>2, <1>3, <1>4, <1>5, <1>6, <1>7, <1>8, <1>9, <1>10, <1>11, <1>12, <1>13, <1>14, <1>15,
     <1>16, <1>17, <1>18, <1>19, <1>20, <1>21, <1>22, <1>23, <1>24, <1>25, <1>26, <1>27, <1>28, <1>29,
     <1>30 DEF Next, CallStep, FlushStep, TeardownStep

-----------------------------------------------------------------------------
(* The edits and their receipts *)

LEMMA EditsAtApply ==
  ASSUME MutationInv, NEW c \in Calls, Apply(c)
  PROVE  EditsInv'
<1> USE DEF MutationInv
<1>1. /\ call[c] = "applying" /\ Turn(c)
      /\ call' = [call EXCEPT ![c] = "done"]
      /\ UNCHANGED <<command, task, candidate, flush, handoff>>
      /\ disk' \cup unsaved' = disk \cup unsaved \cup {c}
      /\ DOMAIN receipts' = DOMAIN receipts \cup {command[c].key}
  BY DEF Apply, Ends, Batch, Acknowledged, LaneInv, Active, taskVars, processVars
<1>2. \A d \in Calls : ~Active(d)'
  BY <1>1, OneTurn DEF LaneInv, Active, TypeOK
<1>3. flush \in {"idle", "lane"}
  BY <1>1, OneTurn, MutationAssumption DEF LaneInv
<1>4. call'[c] = "done" /\ \A d \in Calls : d # c => call'[d] = call[d]
  BY <1>1 DEF TypeOK
<1>5. \A d \in disk' \cup unsaved' : call'[d] = "done"
  BY <1>1, <1>4 DEF EditsInv, TypeOK, PoolType
<1>6. task.tracked => task.opened
  BY <1>1 DEF EditsInv
<1> QED BY <1>1, <1>2, <1>3, <1>4, <1>5, <1>6 DEF EditsInv, Active

LEMMA EditsAtFailure ==
  ASSUME MutationInv, NEW c \in Calls, ApplyFails(c)
  PROVE  EditsInv'
<1> USE DEF MutationInv
<1>1. /\ call[c] = "applying" /\ Turn(c)
      /\ call' = [call EXCEPT ![c] = "done"]
      /\ UNCHANGED <<command, receipts, task, candidate, flush, handoff>>
      /\ disk' \cup unsaved' \subseteq disk \cup unsaved \cup {c}
  BY DEF ApplyFails, Ends, Batch, LaneInv, Active, taskVars, processVars, engineVars
<1>2. \A d \in Calls : ~Active(d)'
  BY <1>1, OneTurn DEF LaneInv, Active, TypeOK
<1>3. flush \in {"idle", "lane"}
  BY <1>1, OneTurn, MutationAssumption DEF LaneInv
<1>4. call'[c] = "done" /\ \A d \in Calls : d # c => call'[d] = call[d]
  BY <1>1 DEF TypeOK
<1>5. \A d \in disk' \cup unsaved' : call'[d] = "done"
  BY <1>1, <1>4 DEF EditsInv, TypeOK, PoolType
<1>6. task.tracked => task.opened
  BY <1>1 DEF EditsInv
<1> QED BY <1>1, <1>2, <1>3, <1>4, <1>5, <1>6 DEF EditsInv, Active

LEMMA EditsAtTeardown ==
  ASSUME MutationInv, Finalize \/ AbortTask
  PROVE  EditsInv'
<1> USE DEF MutationInv
<1>1. /\ UNCHANGED <<command, call, receipts, flush, disk, unsaved>>
      /\ task' = task \/ ~task'.tracked
      /\ candidate' = candidate \/ candidate' = "failed"
      /\ handoff' = handoff \/ handoff' = "overtook" \/ flush = "idle" \/ handoff' = "evicting"
  BY TaskForgotten DEF Finalize, AbortTask, HandedOff, Reclaim, engineVars
<1>2. flush # "scanning" \/ candidate' # "flushing" \/ handoff' = "overtook" \/ handoff # "overtook"
  BY DEF Finalize, AbortTask
<1> QED BY <1>1, <1>2 DEF EditsInv, Active

LEMMA EditsAtHandoff ==
  ASSUME MutationInv, NEW ok \in BOOLEAN, FinalizeEvicted(ok)
  PROVE  EditsInv'
<1> USE DEF MutationInv
<1>1. /\ UNCHANGED <<command, call, receipts, flush, candidate>>
      /\ task' = task \/ ~task'.tracked
      /\ handoff = "evicting"
      /\ disk' \cup unsaved' = disk \cup unsaved /\ unsaved' \subseteq unsaved
  BY TaskForgotten DEF FinalizeEvicted, Evicted, Close, engineVars
<1>2. (unsaved = {}) => (unsaved' = {})
  BY <1>1
<1>3. (\A c \in disk' \cup unsaved' : call'[c] = "done")
  BY <1>1 DEF EditsInv
<1> QED BY <1>1, <1>2, <1>3 DEF EditsInv, Active

LEMMA EditsStep ==
  ASSUME MutationInv, [Next]_vars
  PROVE  EditsInv'
<1> USE DEF MutationInv, EditsInv, TypeOK, PoolType, LaneInv, ClosersInv, EntryInv, PhaseInv, Active
<1>1. ASSUME NEW c \in Calls, NEW m \in Commands, Ask(c, m) PROVE EditsInv'
  BY <1>1, OneTurn, MutationAssumption DEF Ask, taskVars, processVars, poolVars, engineVars
<1>2. ASSUME NEW c \in Calls, Replay(c) PROVE EditsInv'
  BY <1>2, OneTurn, MutationAssumption DEF Replay, Ends, Leaves, taskVars, processVars, poolVars, engineVars
<1>3. ASSUME NEW c \in Calls, Refuse(c) PROVE EditsInv'
  BY <1>3, OneTurn, MutationAssumption DEF Refuse, Ends, Admits, Leaves, taskVars, processVars, poolVars,
       engineVars
<1>4. ASSUME NEW c \in Calls, Dispatch(c) PROVE EditsInv'
  BY <1>4, OneTurn, MutationAssumption DEF Dispatch, Admits, taskVars, processVars, poolVars, engineVars
<1>5. ASSUME NEW c \in Calls, DropJob(c) PROVE EditsInv'
  BY <1>5, OneTurn, MutationAssumption DEF DropJob, Ends, Acknowledged, Leaves, taskVars, processVars,
       poolVars, engineVars
<1>6. ASSUME NEW c \in Calls, StartJob(c) PROVE EditsInv'
  BY <1>6, OneTurn, MutationAssumption DEF StartJob, StartOpening, taskVars, processVars, poolVars, engineVars
<1>7. ASSUME NEW c \in Calls, ResidentOpens(c) PROVE EditsInv'
  BY <1>7, OneTurn, MutationAssumption DEF ResidentOpens, Open, Opened, processVars
<1>8. ASSUME NEW c \in Calls, OpenFails(c) PROVE EditsInv'
  BY <1>8, OneTurn, MutationAssumption DEF OpenFails, Ends, Open, FailOpening, Leaves, taskVars,
       processVars, engineVars
<1>9. ASSUME NEW c \in Calls, Apply(c) PROVE EditsInv'
  BY <1>9, EditsAtApply
<1>10. ASSUME NEW c \in Calls, ApplyFails(c) PROVE EditsInv'
  BY <1>10, EditsAtFailure
<1>11. ASSUME NEW c \in Calls, NEW ok \in BOOLEAN, CallEvicted(c, ok) PROVE EditsInv'
  BY <1>11, OneTurn, MutationAssumption DEF CallEvicted, Ends, Evicted, Close, Leaves, processVars, engineVars
<1>12. ASSUME AskFlush PROVE EditsInv'
  BY <1>12, OneTurn, MutationAssumption DEF AskFlush, taskVars, poolVars, engineVars
<1>13. ASSUME StartFlush PROVE EditsInv'
  BY <1>13, OneTurn, MutationAssumption DEF StartFlush, FlushEnds, Leaves, poolVars, engineVars
<1>14. ASSUME SaveAndEvict PROVE EditsInv'
  BY <1>14, OneTurn, MutationAssumption DEF SaveAndEvict, Save, Evict
<1>15. ASSUME SaveFails PROVE EditsInv'
  BY <1>15, OneTurn, MutationAssumption DEF SaveFails, FlushEnds, Save, Leaves, taskVars, poolVars, engineVars
<1>16. ASSUME NEW ok \in BOOLEAN, FlushEvicted(ok) PROVE EditsInv'
  BY <1>16, OneTurn, MutationAssumption DEF FlushEvicted, FlushEnds, Evicted, Close, Leaves, engineVars
<1>17. ASSUME Scan PROVE EditsInv'
  BY <1>17, OneTurn, MutationAssumption DEF Scan, FlushEnds, Leaves, poolVars, engineVars
<1>18. ASSUME ScanFails PROVE EditsInv'
  BY <1>18, OneTurn, MutationAssumption DEF ScanFails, FlushEnds, Leaves, taskVars, poolVars, engineVars
<1>19. ASSUME Finalize PROVE EditsInv'
  BY <1>19, EditsAtTeardown
<1>20. ASSUME NEW ok \in BOOLEAN, FinalizeEvicted(ok) PROVE EditsInv'
  BY <1>20, EditsAtHandoff
<1>21. ASSUME AbortStart PROVE EditsInv'
  BY <1>21, OneTurn, MutationAssumption DEF AbortStart, poolVars, engineVars
<1>22. ASSUME AbortTask PROVE EditsInv'
  BY <1>22, EditsAtTeardown
<1>23. ASSUME NEW ok \in BOOLEAN, AbortEvicted(ok) PROVE EditsInv'
  BY <1>23, OneTurn, MutationAssumption DEF AbortEvicted, Reclaim, Evicted, Close, Forgotten, Released,
       engineVars
<1>24. ASSUME AbortNothing PROVE EditsInv'
  BY <1>24, OneTurn, MutationAssumption DEF AbortNothing, Drained, taskVars, poolVars, engineVars
<1>25. ASSUME Sweep PROVE EditsInv'
  BY <1>25, OneTurn, MutationAssumption DEF Sweep, Evict, taskVars, processVars, engineVars
<1>26. ASSUME NEW ok \in BOOLEAN, SweepEvicted(ok) PROVE EditsInv'
  BY <1>26, OneTurn, MutationAssumption DEF SweepEvicted, Evicted, Close, taskVars, processVars, engineVars
<1>27. ASSUME ReadReleases PROVE EditsInv'
  BY <1>27, OneTurn, MutationAssumption DEF ReadReleases, Close, taskVars, processVars, poolVars
<1>28. ASSUME RejectCandidate PROVE EditsInv'
  BY <1>28, OneTurn, MutationAssumption DEF RejectCandidate, processVars, poolVars, engineVars
<1>29. ASSUME NextWriter PROVE EditsInv'
  BY <1>29, OneTurn, MutationAssumption DEF NextWriter, processVars, poolVars, engineVars
<1>30. CASE UNCHANGED vars
  BY <1>30 DEF vars, taskVars, processVars, poolVars, engineVars
<1> QED BY SMTT(30), <1>1, <1>2, <1>3, <1>4, <1>5, <1>6, <1>7, <1>8, <1>9, <1>10, <1>11, <1>12, <1>13, <1>14, <1>15,
     <1>16, <1>17, <1>18, <1>19, <1>20, <1>21, <1>22, <1>23, <1>24, <1>25, <1>26, <1>27, <1>28, <1>29,
     <1>30 DEF Next, CallStep, FlushStep, TeardownStep

LEMMA ReceiptAtApply ==
  ASSUME MutationInv, NEW c \in Calls, Apply(c)
  PROVE  ReceiptMeansApplied'
<1> USE DEF MutationInv
<1>1. /\ call[c] = "applying" /\ UNCHANGED <<command, candidate>>
      /\ disk' \cup unsaved' = disk \cup unsaved \cup {c}
      /\ DOMAIN receipts' = DOMAIN receipts \cup {command[c].key}
      /\ receipts'[command[c].key] = command[c].payload
      /\ \A k \in DOMAIN receipts : k # command[c].key => receipts'[k] = receipts[k]
  BY DEF Apply, Batch, Acknowledged, taskVars
<1> SUFFICES ASSUME NEW k \in DOMAIN receipts', candidate' # "failed"
             PROVE  \E d \in disk' \cup unsaved' : command'[d].key = k /\ command'[d].payload = receipts'[k]
  BY DEF ReceiptMeansApplied, AppliedFor
<1>2. CASE k = command[c].key
  BY <1>1, <1>2
<1>3. CASE k # command[c].key
  <2>1. \E d \in disk \cup unsaved : command[d].key = k /\ command[d].payload = receipts[k]
    BY <1>1, <1>3 DEF ReceiptMeansApplied, AppliedFor
  <2> QED BY <1>1, <1>3, <2>1
<1> QED BY <1>2, <1>3

LEMMA ReceiptStep ==
  ASSUME MutationInv, [Next]_vars
  PROVE  ReceiptMeansApplied'
<1> USE DEF MutationInv, ReceiptMeansApplied, AppliedFor, EditsInv, TypeOK, PhaseInv, Active
<1>1. ASSUME NEW c \in Calls, NEW m \in Commands, Ask(c, m) PROVE ReceiptMeansApplied'
  BY <1>1 DEF Ask, taskVars, processVars, poolVars, engineVars
<1>2. ASSUME NEW c \in Calls, Replay(c) PROVE ReceiptMeansApplied'
  BY <1>2 DEF Replay, Ends, Leaves, taskVars, processVars, poolVars, engineVars
<1>3. ASSUME NEW c \in Calls, Refuse(c) PROVE ReceiptMeansApplied'
  BY <1>3 DEF Refuse, Ends, Admits, Leaves, taskVars, processVars, poolVars, engineVars
<1>4. ASSUME NEW c \in Calls, Dispatch(c) PROVE ReceiptMeansApplied'
  BY <1>4 DEF Dispatch, Admits, taskVars, processVars, poolVars, engineVars
<1>5. ASSUME NEW c \in Calls, DropJob(c) PROVE ReceiptMeansApplied'
  BY <1>5 DEF DropJob, Ends, Acknowledged, Leaves, taskVars, processVars, poolVars, engineVars
<1>6. ASSUME NEW c \in Calls, StartJob(c) PROVE ReceiptMeansApplied'
  BY <1>6 DEF StartJob, StartOpening, taskVars, processVars, poolVars, engineVars
<1>7. ASSUME NEW c \in Calls, ResidentOpens(c) PROVE ReceiptMeansApplied'
  BY <1>7 DEF ResidentOpens, Open, Opened, processVars
<1>8. ASSUME NEW c \in Calls, OpenFails(c) PROVE ReceiptMeansApplied'
  BY <1>8 DEF OpenFails, Ends, Open, FailOpening, Leaves, taskVars, processVars, engineVars
<1>9. ASSUME NEW c \in Calls, Apply(c) PROVE ReceiptMeansApplied'
  BY <1>9, ReceiptAtApply
<1>10. ASSUME NEW c \in Calls, ApplyFails(c) PROVE ReceiptMeansApplied'
  BY <1>10 DEF ApplyFails, Ends, Batch, Leaves, taskVars, processVars, poolVars, engineVars
<1>11. ASSUME NEW c \in Calls, NEW ok \in BOOLEAN, CallEvicted(c, ok) PROVE ReceiptMeansApplied'
  BY <1>11 DEF CallEvicted, Ends, Evicted, Close, Leaves, processVars, engineVars
<1>12. ASSUME AskFlush PROVE ReceiptMeansApplied'
  BY <1>12 DEF AskFlush, taskVars, poolVars, engineVars
<1>13. ASSUME StartFlush PROVE ReceiptMeansApplied'
  BY <1>13 DEF StartFlush, FlushEnds, Leaves, poolVars, engineVars
<1>14. ASSUME SaveAndEvict PROVE ReceiptMeansApplied'
  BY <1>14 DEF SaveAndEvict, Save, Evict
<1>15. ASSUME SaveFails PROVE ReceiptMeansApplied'
  BY <1>15 DEF SaveFails, FlushEnds, Save, Leaves, taskVars, poolVars, engineVars
<1>16. ASSUME NEW ok \in BOOLEAN, FlushEvicted(ok) PROVE ReceiptMeansApplied'
  BY <1>16 DEF FlushEvicted, FlushEnds, Evicted, Close, Leaves, engineVars
<1>17. ASSUME Scan PROVE ReceiptMeansApplied'
  BY <1>17 DEF Scan, FlushEnds, Leaves, poolVars, engineVars
<1>18. ASSUME ScanFails PROVE ReceiptMeansApplied'
  BY <1>18 DEF ScanFails, FlushEnds, Leaves, taskVars, poolVars, engineVars
<1>19. ASSUME Finalize PROVE ReceiptMeansApplied'
  BY <1>19 DEF Finalize, Forgotten, Released, HandedOff, Evict, poolVars, engineVars
<1>20. ASSUME NEW ok \in BOOLEAN, FinalizeEvicted(ok) PROVE ReceiptMeansApplied'
  BY <1>20 DEF FinalizeEvicted, Forgotten, Released, HandedOff, Evicted, Close, engineVars
<1>21. ASSUME AbortStart PROVE ReceiptMeansApplied'
  BY <1>21 DEF AbortStart, poolVars, engineVars
<1>22. ASSUME AbortTask PROVE ReceiptMeansApplied'
  BY <1>22 DEF AbortTask, Reclaim, Drained, Evict, Forgotten, Released, poolVars, engineVars
<1>23. ASSUME NEW ok \in BOOLEAN, AbortEvicted(ok) PROVE ReceiptMeansApplied'
  BY <1>23 DEF AbortEvicted, Reclaim, Evicted, Close, Forgotten, Released, engineVars
<1>24. ASSUME AbortNothing PROVE ReceiptMeansApplied'
  BY <1>24 DEF AbortNothing, Drained, taskVars, poolVars, engineVars
<1>25. ASSUME Sweep PROVE ReceiptMeansApplied'
  BY <1>25 DEF Sweep, Evict, taskVars, processVars, engineVars
<1>26. ASSUME NEW ok \in BOOLEAN, SweepEvicted(ok) PROVE ReceiptMeansApplied'
  BY <1>26 DEF SweepEvicted, Evicted, Close, taskVars, processVars, engineVars
<1>27. ASSUME ReadReleases PROVE ReceiptMeansApplied'
  BY <1>27 DEF ReadReleases, Close, taskVars, processVars, poolVars
<1>28. ASSUME RejectCandidate PROVE ReceiptMeansApplied'
  BY <1>28 DEF RejectCandidate, processVars, poolVars, engineVars
<1>29. ASSUME NextWriter PROVE ReceiptMeansApplied'
  BY <1>29 DEF NextWriter, processVars, poolVars, engineVars
<1>30. CASE UNCHANGED vars
  BY <1>30 DEF vars, taskVars, processVars, poolVars, engineVars
<1> QED BY <1>1, <1>2, <1>3, <1>4, <1>5, <1>6, <1>7, <1>8, <1>9, <1>10, <1>11, <1>12, <1>13, <1>14, <1>15,
     <1>16, <1>17, <1>18, <1>19, <1>20, <1>21, <1>22, <1>23, <1>24, <1>25, <1>26, <1>27, <1>28, <1>29,
     <1>30 DEF Next, CallStep, FlushStep, TeardownStep

LEMMA SealStep ==
  ASSUME MutationInv, [Next]_vars
  PROVE  FlushSealsEdits'
<1> USE DEF MutationInv, FlushSealsEdits, EditsInv, TypeOK, PhaseInv, Active
<1>1. ASSUME NEW c \in Calls, NEW m \in Commands, Ask(c, m) PROVE FlushSealsEdits'
  BY <1>1 DEF Ask, taskVars, processVars, poolVars, engineVars
<1>2. ASSUME NEW c \in Calls, Replay(c) PROVE FlushSealsEdits'
  BY <1>2 DEF Replay, Ends, Leaves, taskVars, processVars, poolVars, engineVars
<1>3. ASSUME NEW c \in Calls, Refuse(c) PROVE FlushSealsEdits'
  BY <1>3 DEF Refuse, Ends, Admits, Leaves, taskVars, processVars, poolVars, engineVars
<1>4. ASSUME NEW c \in Calls, Dispatch(c) PROVE FlushSealsEdits'
  BY <1>4 DEF Dispatch, Admits, taskVars, processVars, poolVars, engineVars
<1>5. ASSUME NEW c \in Calls, DropJob(c) PROVE FlushSealsEdits'
  BY <1>5 DEF DropJob, Ends, Acknowledged, Leaves, taskVars, processVars, poolVars, engineVars
<1>6. ASSUME NEW c \in Calls, StartJob(c) PROVE FlushSealsEdits'
  BY <1>6 DEF StartJob, StartOpening, taskVars, processVars, poolVars, engineVars
<1>7. ASSUME NEW c \in Calls, ResidentOpens(c) PROVE FlushSealsEdits'
  BY <1>7 DEF ResidentOpens, Open, Opened, processVars
<1>8. ASSUME NEW c \in Calls, OpenFails(c) PROVE FlushSealsEdits'
  BY <1>8 DEF OpenFails, Ends, Open, FailOpening, Leaves, taskVars, processVars, engineVars
<1>9. ASSUME NEW c \in Calls, Apply(c) PROVE FlushSealsEdits'
  BY <1>9 DEF Apply, Ends, Acknowledged, Batch, Leaves, taskVars, processVars, poolVars
<1>10. ASSUME NEW c \in Calls, ApplyFails(c) PROVE FlushSealsEdits'
  BY <1>10 DEF ApplyFails, Ends, Batch, Leaves, taskVars, processVars, poolVars, engineVars
<1>11. ASSUME NEW c \in Calls, NEW ok \in BOOLEAN, CallEvicted(c, ok) PROVE FlushSealsEdits'
  BY <1>11 DEF CallEvicted, Ends, Evicted, Close, Leaves, processVars, engineVars
<1>12. ASSUME AskFlush PROVE FlushSealsEdits'
  BY <1>12 DEF AskFlush, taskVars, poolVars, engineVars
<1>13. ASSUME StartFlush PROVE FlushSealsEdits'
  BY <1>13 DEF StartFlush, FlushEnds, Leaves, poolVars, engineVars
<1>14. ASSUME SaveAndEvict PROVE FlushSealsEdits'
  BY <1>14 DEF SaveAndEvict, Save, Evict
<1>15. ASSUME SaveFails PROVE FlushSealsEdits'
  BY <1>15 DEF SaveFails, FlushEnds, Save, Leaves, taskVars, poolVars, engineVars
<1>16. ASSUME NEW ok \in BOOLEAN, FlushEvicted(ok) PROVE FlushSealsEdits'
  BY <1>16 DEF FlushEvicted, FlushEnds, Evicted, Close, Leaves, engineVars
<1>17. ASSUME Scan PROVE FlushSealsEdits'
  BY <1>17 DEF Scan, FlushEnds, Leaves, poolVars, engineVars
<1>18. ASSUME ScanFails PROVE FlushSealsEdits'
  BY <1>18 DEF ScanFails, FlushEnds, Leaves, taskVars, poolVars, engineVars
<1>19. ASSUME Finalize PROVE FlushSealsEdits'
  BY <1>19 DEF Finalize, Forgotten, Released, HandedOff, Evict, poolVars, engineVars
<1>20. ASSUME NEW ok \in BOOLEAN, FinalizeEvicted(ok) PROVE FlushSealsEdits'
  BY <1>20 DEF FinalizeEvicted, Forgotten, Released, HandedOff, Evicted, Close, engineVars
<1>21. ASSUME AbortStart PROVE FlushSealsEdits'
  BY <1>21 DEF AbortStart, poolVars, engineVars
<1>22. ASSUME AbortTask PROVE FlushSealsEdits'
  BY <1>22 DEF AbortTask, Reclaim, Drained, Evict, Forgotten, Released, poolVars, engineVars
<1>23. ASSUME NEW ok \in BOOLEAN, AbortEvicted(ok) PROVE FlushSealsEdits'
  BY <1>23 DEF AbortEvicted, Reclaim, Evicted, Close, Forgotten, Released, engineVars
<1>24. ASSUME AbortNothing PROVE FlushSealsEdits'
  BY <1>24 DEF AbortNothing, Drained, taskVars, poolVars, engineVars
<1>25. ASSUME Sweep PROVE FlushSealsEdits'
  BY <1>25 DEF Sweep, Evict, taskVars, processVars, engineVars
<1>26. ASSUME NEW ok \in BOOLEAN, SweepEvicted(ok) PROVE FlushSealsEdits'
  BY <1>26 DEF SweepEvicted, Evicted, Close, taskVars, processVars, engineVars
<1>27. ASSUME ReadReleases PROVE FlushSealsEdits'
  BY <1>27 DEF ReadReleases, Close, taskVars, processVars, poolVars
<1>28. ASSUME RejectCandidate PROVE FlushSealsEdits'
  BY <1>28 DEF RejectCandidate, processVars, poolVars, engineVars
<1>29. ASSUME NextWriter PROVE FlushSealsEdits'
  BY <1>29 DEF NextWriter, processVars, poolVars, engineVars
<1>30. CASE UNCHANGED vars
  BY <1>30 DEF vars, taskVars, processVars, poolVars, engineVars
<1> QED BY <1>1, <1>2, <1>3, <1>4, <1>5, <1>6, <1>7, <1>8, <1>9, <1>10, <1>11, <1>12, <1>13, <1>14, <1>15,
     <1>16, <1>17, <1>18, <1>19, <1>20, <1>21, <1>22, <1>23, <1>24, <1>25, <1>26, <1>27, <1>28, <1>29,
     <1>30 DEF Next, CallStep, FlushStep, TeardownStep

-----------------------------------------------------------------------------
(* Types: the pool's leases are counted. *)

LEMMA Counting ==
  ASSUME PoolType
  PROVE  /\ IsFiniteSet(opening) /\ IsFiniteSet(closers)
         /\ Cardinality(opening) \in Nat /\ Cardinality(closers) \in Nat
         /\ \A e : /\ e \notin opening => Cardinality(opening \cup {e}) = Cardinality(opening) + 1
                   /\ e \in opening => Cardinality(opening \ {e}) = Cardinality(opening) - 1
                   /\ e \notin closers => Cardinality(closers \cup {e}) = Cardinality(closers) + 1
                   /\ e \in closers => Cardinality(closers \ {e}) = Cardinality(closers) - 1
<1>1. IsFiniteSet({"sweeper", "flush", "finalize", "abort"})
  <2>1. IsFiniteSet({"sweeper"} \cup {"flush"} \cup {"finalize"} \cup {"abort"})
    BY FS_Singleton, FS_Union
  <2>2. {"sweeper", "flush", "finalize",
  "abort"} = {"sweeper"} \cup {"flush"} \cup {"finalize"} \cup {"abort"}
    OBVIOUS
  <2> QED BY <2>1, <2>2
<1>2. IsFiniteSet(Evictors)
  BY <1>1, MutationAssumption, FS_Union DEF Evictors
<1>3. IsFiniteSet(opening) /\ IsFiniteSet(closers)
  BY <1>2, MutationAssumption, FS_Subset DEF PoolType
<1> QED BY <1>3, FS_AddElement, FS_RemoveElement, FS_CardinalityType

CountedPool == /\ pool \in BOOLEAN /\ opening \subseteq Calls /\ closers \subseteq Evictors
               /\ governed = Cardinality(opening) + Cardinality(closers) + (IF pool THEN 1 ELSE 0)

LEMMA OpeningStarts ==
  ASSUME PoolType, NEW c \in Calls, c \notin opening, StartOpening(c)
  PROVE  CountedPool'
<1>1. governed' = Cardinality(opening') + Cardinality(closers') + (IF pool' THEN 1 ELSE 0)
  <2>1. Cardinality(opening') = Cardinality(opening) + 1 /\ Cardinality(closers') = Cardinality(closers)
    BY Counting DEF StartOpening
  <2> QED BY <2>1, Counting DEF PoolType, StartOpening
<1> QED BY <1>1 DEF PoolType, StartOpening, CountedPool

LEMMA OpeningFails ==
  ASSUME PoolType, NEW c \in Calls, c \in opening, FailOpening(c)
  PROVE  CountedPool'
<1>1. governed' = Cardinality(opening') + Cardinality(closers') + (IF pool' THEN 1 ELSE 0)
  <2>1. Cardinality(opening') = Cardinality(opening) - 1 /\ Cardinality(closers') = Cardinality(closers)
    BY Counting DEF FailOpening
  <2> QED BY <2>1, Counting DEF PoolType, FailOpening
<1> QED BY <1>1 DEF PoolType, FailOpening, CountedPool

LEMMA OpeningEnds ==
  ASSUME PoolType, NEW c \in Calls, c \in opening, c \notin closers, ~pool, NEW evicted \in BOOLEAN,
         Opened(c, evicted)
  PROVE  CountedPool'
<1>1. governed' = Cardinality(opening') + Cardinality(closers') + (IF pool' THEN 1 ELSE 0)
  <2>1. CASE evicted
    BY <2>1, Counting DEF PoolType, Opened
  <2>2. CASE ~evicted
    <3>1. Cardinality(opening') = Cardinality(opening) - 1 /\ Cardinality(closers') = Cardinality(closers)
      BY <2>2, Counting DEF Opened
    <3>2. (IF pool' THEN 1 ELSE 0) = 1 /\ (IF pool THEN 1 ELSE 0) = 0
      BY <2>2 DEF Opened
    <3>3. governed' = governed /\ governed = Cardinality(opening) + Cardinality(closers)
      BY <3>2, Counting DEF PoolType, Opened
    <3> QED BY <3>1, <3>2, <3>3, Counting
  <2> QED BY <2>1, <2>2
<1> QED BY <1>1 DEF PoolType, Opened, CountedPool, Evictors

LEMMA EvictStarts ==
  ASSUME PoolType, NEW e \in Evictors, e \notin closers, Evict(e)
  PROVE  CountedPool'
<1>1. governed' = Cardinality(opening') + Cardinality(closers') + (IF pool' THEN 1 ELSE 0)
  <2>1. CASE pool
    <3>1. Cardinality(opening') = Cardinality(opening) /\ Cardinality(closers') = Cardinality(closers) + 1
      BY <2>1, Counting DEF Evict
    <3> QED BY <2>1, <3>1, Counting DEF PoolType, Evict
  <2>2. CASE ~pool
    BY <2>2, Counting DEF PoolType, Evict
  <2> QED BY <2>1, <2>2
<1> QED BY <1>1 DEF PoolType, Evict, CountedPool

LEMMA EvictEnds ==
  ASSUME PoolType, NEW e \in closers, NEW ok \in BOOLEAN, Evicted(e, ok)
  PROVE  CountedPool'
<1>1. governed' = Cardinality(opening') + Cardinality(closers') + (IF pool' THEN 1 ELSE 0)
  <2>1. Cardinality(opening') = Cardinality(opening) /\ Cardinality(closers') = Cardinality(closers) - 1
    BY Counting DEF Evicted
  <2> QED BY <2>1, Counting DEF PoolType, Evicted
<1> QED BY <1>1 DEF PoolType, Evicted, CountedPool

LEMMA PoolStays ==
  ASSUME PoolType, UNCHANGED poolVars
  PROVE  CountedPool'
BY DEF PoolType, CountedPool, poolVars

LEMMA PoolStep ==
  ASSUME MutationInv, [Next]_vars
  PROVE  CountedPool'
<1> USE DEF MutationInv, TypeOK
<1>1. ASSUME NEW c \in Calls, StartJob(c)
      PROVE  CountedPool'
  BY <1>1, OpeningStarts, PoolStays DEF StartJob, ClosersInv
<1>2. ASSUME NEW c \in Calls, ResidentOpens(c)
      PROVE  CountedPool'
  <2>1. c \in opening /\ c \notin closers /\ ~pool /\ task.closing \in BOOLEAN
    BY <1>2 DEF ResidentOpens, ClosersInv, EntryInv
  <2> QED BY <1>2, <2>1, OpeningEnds DEF ResidentOpens
<1>3. ASSUME NEW c \in Calls, OpenFails(c)
      PROVE  CountedPool'
  BY <1>3, OpeningFails DEF OpenFails, ClosersInv
<1>4. ASSUME NEW c \in Calls, NEW ok \in BOOLEAN, CallEvicted(c, ok)
      PROVE  CountedPool'
  BY <1>4, EvictEnds DEF CallEvicted, ClosersInv
<1>5. ASSUME SaveAndEvict \/ Finalize \/ AbortTask \/ Sweep
      PROVE  CountedPool'
  <2>1. \E e \in Evictors \ closers : Evict(e) \/ UNCHANGED poolVars
    BY <1>5 DEF SaveAndEvict, Finalize, AbortTask, Sweep, ClosersInv, Evictors
  <2> QED BY <2>1, EvictStarts, PoolStays
<1>6. ASSUME NEW ok \in BOOLEAN,
             FlushEvicted(ok) \/ FinalizeEvicted(ok) \/ AbortEvicted(ok) \/ SweepEvicted(ok)
      PROVE  CountedPool'
  <2>1. \E e \in closers : Evicted(e, ok)
    BY <1>6 DEF FlushEvicted, FinalizeEvicted, AbortEvicted, SweepEvicted, ClosersInv
  <2> QED BY <2>1, EvictEnds
<1>7. ASSUME NEW c \in Calls,
             (\E m \in Commands : Ask(c, m)) \/ Replay(c) \/ Refuse(c) \/ Dispatch(c) \/ DropJob(c)
             \/ Apply(c) \/ ApplyFails(c)
      PROVE  UNCHANGED poolVars
  BY <1>7 DEF Ask, Replay, Refuse, Dispatch, DropJob, Apply, ApplyFails
<1>8. ASSUME AskFlush \/ StartFlush \/ SaveFails \/ Scan \/ ScanFails \/ AbortStart \/ AbortNothing
             \/ ReadReleases \/ RejectCandidate \/ NextWriter \/ UNCHANGED vars
      PROVE  UNCHANGED poolVars
  BY <1>8 DEF AskFlush, StartFlush, SaveFails, Scan, ScanFails, AbortStart, AbortNothing, ReadReleases,
              RejectCandidate, NextWriter, vars
<1> QED BY <1>1, <1>2, <1>3, <1>4, <1>5, <1>6, <1>7, <1>8, PoolStays
        DEF Next, CallStep, FlushStep, TeardownStep

LEMMA EngineOps ==
  ASSUME PoolType, NEW c \in Calls, Batch(c) \/ Save \/ Close \/ Open \/ UNCHANGED engineVars
  PROVE  /\ live' \in BOOLEAN /\ unsaved' \subseteq Calls /\ disk' \subseteq Calls
         /\ unsaved' # {} => live'
<1>1. CASE Batch(c)
  BY <1>1 DEF PoolType, Batch
<1>2. CASE Save
  BY <1>2 DEF PoolType, Save
<1>3. CASE Close
  BY <1>3 DEF PoolType, Close
<1>4. CASE Open
  BY <1>4 DEF PoolType, Open
<1>5. CASE UNCHANGED engineVars
  BY <1>5 DEF PoolType, engineVars
<1> QED BY <1>1, <1>2, <1>3, <1>4, <1>5

LEMMA EngineMoves ==
  ASSUME [Next]_vars
  PROVE  (\E c \in Calls : Batch(c)) \/ Save \/ Close \/ Open \/ UNCHANGED engineVars
<1>1. ASSUME NEW c \in Calls, (\E m \in Commands : Ask(c, m)) \/ CallStep(c)
      PROVE  Batch(c) \/ Close \/ Open \/ UNCHANGED engineVars
  BY <1>1 DEF CallStep, Ask, Replay, Refuse, Dispatch, DropJob, StartJob, ResidentOpens, OpenFails, Apply,
              ApplyFails, CallEvicted, Evicted
<1>2. ASSUME AskFlush \/ FlushStep
      PROVE  Save \/ Close \/ UNCHANGED engineVars
  BY <1>2 DEF FlushStep, AskFlush, StartFlush, SaveAndEvict, SaveFails, FlushEvicted, Scan, ScanFails, Evicted
<1>3. ASSUME Finalize \/ AbortStart \/ TeardownStep \/ Sweep \/ (\E ok \in BOOLEAN : SweepEvicted(ok))
             \/ ReadReleases \/ RejectCandidate \/ NextWriter \/ UNCHANGED vars
      PROVE  Close \/ UNCHANGED engineVars
  BY <1>3 DEF Finalize, AbortStart, TeardownStep, AbortTask, AbortNothing, AbortEvicted, FinalizeEvicted,
              Sweep, SweepEvicted, ReadReleases, RejectCandidate, NextWriter, vars, Evicted
<1> QED BY <1>1, <1>2, <1>3 DEF Next

LEMMA TypeStep ==
  ASSUME MutationInv, [Next]_vars
  PROVE  TypeOK'
<1> USE DEF MutationInv, TypeOK
<1>1. PoolType'
  <2>1. live' \in BOOLEAN /\ unsaved' \subseteq Calls /\ disk' \subseteq Calls /\ (unsaved' # {} => live')
    <3>1. CASE Calls = {}
      BY <3>1, EngineMoves DEF PoolType, Save, Close, Open, engineVars
    <3>2. CASE Calls # {}
      BY <3>2, EngineMoves, EngineOps
    <3> QED BY <3>1, <3>2
  <2> QED BY <2>1, PoolStep DEF PoolType, CountedPool
<1>2. Range(lane)' \subseteq Calls \cup {"flush"}
  <2>1. lane' \in Seq(Calls \cup {"flush"})
    BY LaneStep DEF LaneInv
  <2> QED BY <2>1, RangeOfSeq DEF Range
<1> DEFINE Rest == /\ command \in [Calls -> Commands \cup {NoCommand}]
                   /\ call \in [Calls -> {"idle", "done"} \cup Steps]
                   /\ DOMAIN receipts \subseteq CommandKeys
                   /\ task \in [tracked : BOOLEAN, opened : BOOLEAN, closing : BOOLEAN]
                   /\ lease \in {"held", "released", "replaced"}
                   /\ candidate \in {"mutating", "flushing", "verifying", "failed"}
                   /\ hash \in (SUBSET Calls) \cup {NoHash}
                   /\ flush \in {"idle", "lane", "saving", "evicting", "scanning"}
                   /\ handoff \in {"idle", "evicting", "done", "overtook"}
                   /\ teardown \in [pc : {"idle", "draining", "evicting", "done", "failed"},
                                    lanes : SUBSET (Calls \cup {"flush"})]
<1>3. ASSUME UNCHANGED vars PROVE Rest'
  <2>1. /\ command' = command /\ call' = call /\ receipts' = receipts /\ task' = task
        /\ lease' = lease /\ candidate' = candidate /\ hash' = hash
        /\ flush' = flush /\ handoff' = handoff /\ teardown' = teardown
    BY <1>3 DEF vars, taskVars, processVars
  <2>2. Rest
    OBVIOUS
  <2> QED BY <2>1, <2>2 DEF CommandKeys
<1> USE DEF EditsInv, Active, Steps
<1>4. ASSUME NEW c \in Calls, NEW m \in Commands, Ask(c, m) PROVE Rest'
  BY <1>4 DEF Ask, taskVars, processVars, poolVars, engineVars
<1>5. ASSUME NEW c \in Calls, Replay(c) PROVE Rest'
  BY <1>5 DEF Replay, Ends, taskVars, processVars, poolVars, engineVars
<1>6. ASSUME NEW c \in Calls, Refuse(c) PROVE Rest'
  BY <1>6 DEF Refuse, Ends, Admits, taskVars, processVars, poolVars, engineVars
<1>7. ASSUME NEW c \in Calls, Dispatch(c) PROVE Rest'
  BY <1>7 DEF Dispatch, Admits, taskVars, processVars, poolVars, engineVars
<1>8. ASSUME NEW c \in Calls, DropJob(c) PROVE Rest'
  BY <1>8 DEF CommandKeys, DropJob, Ends, Acknowledged, taskVars, processVars, poolVars, engineVars
<1>9. ASSUME NEW c \in Calls, StartJob(c) PROVE Rest'
  BY <1>9 DEF StartJob, StartOpening, taskVars, processVars, poolVars, engineVars
<1>10. ASSUME NEW c \in Calls, ResidentOpens(c) PROVE Rest'
  <2>1. /\ \/ call' = [call EXCEPT ![c] = "evicting"]
           \/ call' = [call EXCEPT ![c] = "applying"]
        /\ task' = [task EXCEPT !.opened = TRUE]
        /\ command' = command /\ receipts' = receipts /\ lease' = lease /\ candidate' = candidate
        /\ hash' = hash /\ flush' = flush /\ handoff' = handoff /\ teardown' = teardown
    BY <1>10 DEF ResidentOpens, processVars
  <2>2. call' \in [Calls -> {"idle", "done"} \cup Steps]
    BY <2>1
  <2>3. task' \in [tracked : BOOLEAN, opened : BOOLEAN, closing : BOOLEAN]
    BY <2>1
  <2> QED BY <2>1, <2>2, <2>3
<1>11. ASSUME NEW c \in Calls, OpenFails(c) PROVE Rest'
  BY <1>11 DEF OpenFails, Ends, FailOpening, taskVars, processVars, engineVars
<1>12. ASSUME NEW c \in Calls, Apply(c) PROVE Rest'
  BY <1>12 DEF CommandKeys, Apply, Ends, Acknowledged, taskVars, processVars, poolVars
<1>13. ASSUME NEW c \in Calls, ApplyFails(c) PROVE Rest'
  BY <1>13 DEF ApplyFails, Ends, taskVars, processVars, poolVars, engineVars
<1>14. ASSUME NEW c \in Calls, NEW ok \in BOOLEAN, CallEvicted(c, ok) PROVE Rest'
  BY ZenonT(40), <1>14 DEF CallEvicted, Ends, Evicted, processVars, engineVars
<1>15. ASSUME AskFlush PROVE Rest'
  BY <1>15 DEF AskFlush, taskVars, poolVars, engineVars
<1>16. ASSUME StartFlush PROVE Rest'
  BY <1>16 DEF StartFlush, FlushEnds, poolVars, engineVars
<1>17. ASSUME SaveAndEvict PROVE Rest'
  BY <1>17 DEF SaveAndEvict, PoolType
<1>18. ASSUME SaveFails PROVE Rest'
  BY <1>18 DEF SaveFails, FlushEnds, taskVars, poolVars, engineVars
<1>19. ASSUME NEW ok \in BOOLEAN, FlushEvicted(ok) PROVE Rest'
  <2>1. task' = task \/ task' = [task EXCEPT !.opened = FALSE]
    BY <1>19 DEF FlushEvicted
  <2>2. task' \in [tracked : BOOLEAN, opened : BOOLEAN, closing : BOOLEAN]
    BY <2>1
  <2> QED BY <1>19, <2>2 DEF FlushEvicted, FlushEnds
<1>20. ASSUME Scan PROVE Rest'
  BY <1>20 DEF PoolType, Scan, FlushEnds, poolVars, engineVars
<1>21. ASSUME ScanFails PROVE Rest'
  BY <1>21 DEF ScanFails, FlushEnds, taskVars, poolVars, engineVars
<1>22. ASSUME Finalize PROVE Rest'
  BY ZenonT(40), <1>22 DEF Finalize, Forgotten, Released, HandedOff, poolVars, engineVars
<1>23. ASSUME NEW ok \in BOOLEAN, FinalizeEvicted(ok) PROVE Rest'
  <2>1. task' = task \/ Forgotten
    BY <1>23 DEF FinalizeEvicted
  <2>2. task' \in [tracked : BOOLEAN, opened : BOOLEAN, closing : BOOLEAN]
    BY <2>1 DEF Forgotten
  <2> QED BY <1>23, <2>2 DEF FinalizeEvicted, Released, HandedOff
<1>24. ASSUME AbortStart PROVE Rest'
  BY <1>24 DEF AbortStart, poolVars, engineVars
<1>25. ASSUME AbortTask PROVE Rest'
  <2>1. task' = task \/ Forgotten
    BY <1>25 DEF AbortTask, Reclaim
  <2>2. task' \in [tracked : BOOLEAN, opened : BOOLEAN, closing : BOOLEAN]
    BY <2>1 DEF Forgotten
  <2> QED BY <1>25, <2>2 DEF AbortTask, Reclaim, Released
<1>26. ASSUME NEW ok \in BOOLEAN, AbortEvicted(ok) PROVE Rest'
  BY <1>26 DEF AbortEvicted, Reclaim, Evicted, Forgotten, Released, engineVars
<1>27. ASSUME AbortNothing PROVE Rest'
  BY <1>27 DEF AbortNothing, Drained, taskVars, poolVars, engineVars
<1>28. ASSUME Sweep PROVE Rest'
  BY <1>28 DEF Sweep, taskVars, processVars, engineVars
<1>29. ASSUME NEW ok \in BOOLEAN, SweepEvicted(ok) PROVE Rest'
  BY <1>29 DEF SweepEvicted, Evicted, taskVars, processVars, engineVars
<1>30. ASSUME ReadReleases PROVE Rest'
  BY <1>30 DEF ReadReleases, taskVars, processVars, poolVars
<1>31. ASSUME RejectCandidate PROVE Rest'
  BY <1>31 DEF RejectCandidate, processVars, poolVars, engineVars
<1>32. ASSUME NextWriter PROVE Rest'
  BY <1>32 DEF NextWriter, processVars, poolVars, engineVars
<1> QED BY <1>1, <1>2, <1>3, <1>4, <1>5, <1>6, <1>7, <1>8, <1>9, <1>10, <1>11, <1>12, <1>13, <1>14, <1>15,
     <1>16, <1>17, <1>18, <1>19, <1>20, <1>21, <1>22, <1>23, <1>24, <1>25, <1>26, <1>27, <1>28, <1>29,
     <1>30, <1>31, <1>32 DEF Next, CallStep, FlushStep, TeardownStep

-----------------------------------------------------------------------------
(***************************************************************************)
(* What holds                                                              *)
(***************************************************************************)
\* The invariant of the lane, the pool, the task and the edits, through every interleaving
\* of the calls with flush, finalize, abort, sweeper and readers.
THEOREM MutationInvariant == Spec => []MutationInv
<1>1. MutationInv /\ [Next]_vars => MutationInv'
  BY TypeStep, LaneStep, ClosersStep, EntryStep, PhaseStep, EditsStep, ReceiptStep, SealStep DEF MutationInv
<1> QED BY InitialState, <1>1, PTL DEF Spec

\* The variables stay in their types, and the governor's leases are those of the entry, of
\* the opens and of the closes in progress: none is leaked or given back twice.
THEOREM MutationTypes == Spec => []TypeOK
BY MutationInvariant, PTL DEF MutationInv

\* While its candidate has not failed, a receipt stands for an edit that the engine has
\* applied under its key and with its payload.
THEOREM ReceiptsMeanApplied == Spec => []ReceiptMeansApplied
BY MutationInvariant, PTL DEF MutationInv

\* The hash that a flush binds is of bytes with every edit the engine has applied, and none
\* is applied after it, unless a finalize overtook that flush.
THEOREM FlushSeals == Spec => []FlushSealsEdits
BY MutationInvariant, PTL DEF MutationInv

\* Once abortSession has reclaimed the task no mutation of it is with the engine or on its
\* way there.
THEOREM AbortDrains == Spec => []NothingSurvivesAbort
<1>1. MutationInv => NothingSurvivesAbort
  BY DEF MutationInv, NothingSurvivesAbort, PhaseInv, TypeOK, Active, Steps
<1> QED BY <1>1, MutationInvariant, PTL

-----------------------------------------------------------------------------
(* Once and no more *)

LEMMA CommandsStay ==
  ASSUME MutationInv, [Next]_vars, NEW c \in disk \cup unsaved
  PROVE  command'[c] = command[c]
<1>1. call[c] = "done" /\ c \in Calls
  BY DEF MutationInv, EditsInv, TypeOK, PoolType
<1>2. ASSUME NEW d \in Calls, NEW m \in Commands, Ask(d, m)
      PROVE  command'[c] = command[c]
  BY <1>1, <1>2 DEF Ask, MutationInv, TypeOK
<1>3. ASSUME NEW d \in Calls, CallStep(d)
      PROVE  command' = command
  BY <1>3 DEF CallStep, Replay, Refuse, Dispatch, DropJob, StartJob, ResidentOpens, OpenFails, Apply,
              ApplyFails, CallEvicted
<1>4. ASSUME AskFlush \/ FlushStep \/ Finalize \/ AbortStart \/ TeardownStep \/ Sweep
             \/ (\E ok \in BOOLEAN : SweepEvicted(ok)) \/ ReadReleases \/ RejectCandidate \/ NextWriter
             \/ UNCHANGED vars
      PROVE  command' = command
  BY <1>4 DEF FlushStep, AskFlush, StartFlush, SaveAndEvict, SaveFails, FlushEvicted, Scan, ScanFails,
              Finalize, AbortStart, TeardownStep, AbortTask, AbortNothing, AbortEvicted, FinalizeEvicted,
              Sweep, SweepEvicted, ReadReleases, RejectCandidate, NextWriter, vars
<1> QED BY <1>2, <1>3, <1>4 DEF Next

\* The engine applies an edit for the call at the head of the lane only, whose key has no
\* receipt.
LEMMA EditsGrow ==
  ASSUME MutationInv, [Next]_vars
  PROVE  \/ disk' \cup unsaved' = disk \cup unsaved
         \/ \E c \in Calls : /\ call[c] = "applying" /\ command' = command
                             /\ disk' \cup unsaved' = disk \cup unsaved \cup {c}
<1>1. ASSUME NEW c \in Calls, Apply(c) \/ ApplyFails(c)
      PROVE  \/ disk' \cup unsaved' = disk \cup unsaved
             \/ /\ call[c] = "applying" /\ command' = command
                /\ disk' \cup unsaved' = disk \cup unsaved \cup {c}
  BY <1>1 DEF Apply, ApplyFails, Batch, engineVars
<1>2. ASSUME Save \/ Close \/ Open \/ UNCHANGED engineVars
      PROVE  disk' \cup unsaved' = disk \cup unsaved
  BY <1>2 DEF Save, Close, Open, engineVars
<1>3. ASSUME NEW c \in Calls, CallStep(c), ~Apply(c), ~ApplyFails(c)
      PROVE  Close \/ Open \/ UNCHANGED engineVars
  BY <1>3 DEF CallStep, Replay, Refuse, Dispatch, DropJob, StartJob, ResidentOpens, OpenFails, CallEvicted,
              Evicted
<1>4. ASSUME (\E c \in Calls : \E m \in Commands : Ask(c, m)) \/ AskFlush \/ FlushStep
      PROVE  Save \/ Close \/ UNCHANGED engineVars
  BY <1>4 DEF Ask, FlushStep, AskFlush, StartFlush, SaveAndEvict, SaveFails, FlushEvicted, Scan, ScanFails,
              Evicted
<1>5. ASSUME Finalize \/ AbortStart \/ TeardownStep \/ Sweep \/ (\E ok \in BOOLEAN : SweepEvicted(ok))
             \/ ReadReleases \/ RejectCandidate \/ NextWriter \/ UNCHANGED vars
      PROVE  Close \/ UNCHANGED engineVars
  BY <1>5 DEF Finalize, AbortStart, TeardownStep, AbortTask, AbortNothing, AbortEvicted, FinalizeEvicted,
              Sweep, SweepEvicted, ReadReleases, RejectCandidate, NextWriter, vars, Evicted
<1> QED BY <1>1, <1>2, <1>3, <1>4, <1>5 DEF Next

\* Once a key has its receipt nothing is applied under it again.
THEOREM AcknowledgedKeysAreClosed == Spec => AcknowledgedOnce
<1>1. ASSUME MutationInv, [Next]_vars, NEW k \in DOMAIN receipts
      PROVE  AppliedFor(k)' = AppliedFor(k)
  <2>1. \A c \in disk \cup unsaved : command'[c] = command[c]
    BY <1>1, CommandsStay
  <2>2. CASE disk' \cup unsaved' = disk \cup unsaved
    BY <2>1, <2>2 DEF AppliedFor
  <2>3. ASSUME NEW c \in Calls, call[c] = "applying", command' = command,
               disk' \cup unsaved' = disk \cup unsaved \cup {c}
        PROVE  AppliedFor(k)' = AppliedFor(k)
    <3>1. command[c].key # k
      BY <1>1, <2>3 DEF MutationInv, EditsInv, Active
    <3> QED BY <2>3, <3>1 DEF AppliedFor
  <2> QED BY <1>1, <2>2, <2>3, EditsGrow
<1>2. MutationInv /\ [Next]_vars => [\A k \in DOMAIN receipts : AppliedFor(k)' = AppliedFor(k)]_vars
  BY <1>1
<1> QED BY <1>2, MutationInvariant, PTL DEF Spec, AcknowledgedOnce

=============================================================================
