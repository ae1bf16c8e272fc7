--------------------------- MODULE AgentMutations ---------------------------
(***************************************************************************)
(* AgentRuntime on the candidate of one task: the mutations that callers   *)
(* ask for run one at a time on the candidate's lane, the flush is on the  *)
(* same lane, and three others are not: finalize, the abort of a closing   *)
(* session, and the sweeper of the resident pool.                          *)
(*                                                                         *)
(* How the task came about, and what happens to the candidate after the    *)
(* flush, is WriterSession's.  Tasks are resident ones: nothing creates a  *)
(* standalone task.                                                        *)
(***************************************************************************)
EXTENDS ResidentPool

CONSTANTS
    Commands,      \* what can be asked for: [key, payload]
    Denied,        \* the payloads that the operation policy refuses
    NoCommand, NoHash

VARIABLES
    command,       \* command[c]: the idempotency key and payload of call c
    call,          \* call[c]: where it stands
    lane,          \* mutationLanes: what runs, then what waits
    receipts,      \* the persisted ones: key -> payload
    task,          \* the TrackedTask, and whether the map still has it
    lease,         \* the task's writer lease; replaced: another writer has one by now
    candidate,     \* its state
    hash,          \* currentHash: the edits in the bytes that were scanned
    flush,         \* where flushCandidate stands
    handoff,       \* where finalizeAgentTask stands; overtook: it ended during a flush
    teardown       \* where abortSession stands, and the lanes it drains

taskVars == <<task, lease, candidate, hash>>
processVars == <<flush, handoff, teardown>>
vars == <<command, call, lane, receipts, taskVars, processVars, poolVars, engineVars>>

ASSUME MutationAssumption ==
    /\ IsFiniteSet(Calls) /\ Calls \cap {"sweeper", "flush", "finalize", "abort"} = {}
    /\ NoCommand \notin Commands
    /\ \A m \in Commands : DOMAIN m = {"key", "payload"}

CommandKeys == {m.key : m \in Commands}
Steps == {"lane", "queued", "opening", "applying", "evicting"}

TypeOK ==
    /\ PoolType
    /\ command \in [Calls -> Commands \cup {NoCommand}]
    /\ call \in [Calls -> {"idle", "done"} \cup Steps]
    /\ Range(lane) \subseteq Calls \cup {"flush"}
    /\ DOMAIN receipts \subseteq CommandKeys
    /\ task \in [tracked : BOOLEAN, opened : BOOLEAN, closing : BOOLEAN]
    /\ lease \in {"held", "released", "replaced"}
    /\ candidate \in {"mutating", "flushing", "verifying", "failed"}
    /\ hash \in (SUBSET Calls) \cup {NoHash}
    /\ flush \in {"idle", "lane", "saving", "evicting", "scanning"}
    /\ handoff \in {"idle", "evicting", "done", "overtook"}
    /\ teardown \in [pc : {"idle", "draining", "evicting", "done", "failed"},
                     lanes : SUBSET (Calls \cup {"flush"})]

Init ==
    /\ PoolInit
    /\ command = [c \in Calls |-> NoCommand]
    /\ call = [c \in Calls |-> "idle"]
    /\ lane = <<>>
    /\ receipts = [k \in {} |-> NoCommand]
    /\ task = [tracked |-> TRUE, opened |-> FALSE, closing |-> FALSE]
    /\ lease = "held" /\ candidate = "mutating" /\ hash = NoHash
    /\ flush = "idle" /\ handoff = "idle"
    /\ teardown = [pc |-> "idle", lanes |-> {}]

-----------------------------------------------------------------------------
(***************************************************************************)
(* executeMutation                                                         *)
(***************************************************************************)
\* Faulty: no lane, a section runs as soon as it is asked for.
AnyTurn(x) == x \in Range(lane)

Turn(x) == lane # <<>> /\ Head(lane) = x

\* A section that ends, in whatever way, lets the next one start.
Leaves == lane' = Tail(lane)

Ask(c, m) ==
    /\ call[c] = "idle" /\ task.tracked
    /\ command' = [command EXCEPT ![c] = m]
    /\ call' = [call EXCEPT ![c] = "lane"]
    /\ lane' = Append(lane, c)
    /\ UNCHANGED <<receipts, taskVars, processVars, poolVars, engineVars>>

Ends(c) ==
    /\ call' = [call EXCEPT ![c] = "done"]
    /\ Leaves

\* Replayed, or refused because the key was used for another payload.
Replay(c) ==
    /\ call[c] = "lane" /\ Turn(c)
    /\ command[c].key \in DOMAIN receipts
    /\ Ends(c)
    /\ UNCHANGED <<command, receipts, taskVars, processVars, poolVars, engineVars>>

\* Closing gate, mutating window, fencing, policy.
Admits(c) ==
    /\ ~task.closing
    /\ candidate = "mutating"
    /\ lease = "held"
    /\ command[c].payload \notin Denied

Refuse(c) ==
    /\ call[c] = "lane" /\ Turn(c)
    /\ command[c].key \notin DOMAIN receipts /\ ~Admits(c)
    /\ Ends(c)
    /\ UNCHANGED <<command, receipts, taskVars, processVars, poolVars, engineVars>>

Dispatch(c) ==
    /\ call[c] = "lane" /\ Turn(c)
    /\ command[c].key \notin DOMAIN receipts /\ Admits(c)
    /\ call' = [call EXCEPT ![c] = "queued"]
    /\ UNCHANGED <<command, lane, receipts, taskVars, processVars, poolVars, engineVars>>

Acknowledged(c) ==
    receipts' = [k \in DOMAIN receipts \cup {command[c].key} |->
                   IF k = command[c].key THEN command[c].payload ELSE receipts[k]]

\* The scheduler drops the job as stale and resolves it; the receipt is saved as if the
\* engine had answered.
DropJob(c) ==
    /\ call[c] = "queued" /\ lease = "replaced"
    /\ Acknowledged(c)
    /\ Ends(c)
    /\ UNCHANGED <<command, taskVars, processVars, poolVars, engineVars>>

StartJob(c) ==
    /\ call[c] = "queued" /\ lease # "replaced"
    /\ IF task.opened
       THEN call' = [call EXCEPT ![c] = "applying"] /\ UNCHANGED poolVars
       ELSE call' = [call EXCEPT ![c] = "opening"] /\ StartOpening(c)
    /\ UNCHANGED <<command, lane, receipts, taskVars, processVars, engineVars>>

\* A task that closed meanwhile evicts the resident again.
ResidentOpens(c) ==
    /\ call[c] = "opening"
    /\ Open
    /\ Opened(c, task.closing)
    /\ task' = [task EXCEPT !.opened = TRUE]
    /\ call' = [call EXCEPT ![c] = IF task.closing THEN "evicting" ELSE "applying"]
    /\ UNCHANGED <<command, lane, receipts, lease, candidate, hash, processVars>>

\* The governor refuses, or the engine's open fails.
OpenFails(c) ==
    /\ call[c] = "opening"
    /\ FailOpening(c)
    /\ Open \/ UNCHANGED engineVars
    /\ Ends(c)
    /\ UNCHANGED <<command, receipts, taskVars, processVars>>

\* The batch is applied and answered; the receipt follows in the same turn.
Apply(c) ==
    /\ call[c] = "applying"
    /\ Batch(c)
    /\ Acknowledged(c)
    /\ Ends(c)
    /\ UNCHANGED <<command, taskVars, processVars, poolVars>>

\* Faulty: the receipt is saved whatever the engine answered.
FailAcknowledged(c) ==
    /\ call[c] = "applying"
    /\ Batch(c) \/ UNCHANGED engineVars
    /\ Acknowledged(c)
    /\ Ends(c)
    /\ UNCHANGED <<command, taskVars, processVars, poolVars>>

\* Faulty: a section that throws takes the lane with it.
FailBlocksLane(c) ==
    /\ call[c] = "applying"
    /\ Batch(c) \/ UNCHANGED engineVars
    /\ call' = [call EXCEPT ![c] = "done"]
    /\ UNCHANGED <<command, lane, receipts, taskVars, processVars, poolVars>>

\* The engine refuses the batch, or it timed out, applied or not.
ApplyFails(c) ==
    /\ call[c] = "applying"
    /\ Batch(c) \/ UNCHANGED engineVars
    /\ Ends(c)
    /\ UNCHANGED <<command, receipts, taskVars, processVars, poolVars>>

CallEvicted(c, ok) ==
    /\ call[c] = "evicting"
    /\ Evicted(c, ok)
    /\ task' = [task EXCEPT !.opened = FALSE]
    /\ Ends(c)
    /\ UNCHANGED <<command, receipts, lease, candidate, hash, processVars>>

-----------------------------------------------------------------------------
(***************************************************************************)
(* flushCandidate, a step of the lane                                      *)
(***************************************************************************)
AskFlush ==
    /\ flush = "idle" /\ task.tracked /\ lease = "held"
    /\ flush' = "lane"
    /\ lane' = Append(lane, "flush")
    /\ UNCHANGED <<command, call, receipts, taskVars, handoff, teardown, poolVars, engineVars>>

FlushEnds == flush' = "idle" /\ Leaves

StartFlush ==
    /\ flush = "lane" /\ Turn("flush")
    /\ IF candidate # "mutating"
       THEN FlushEnds /\ UNCHANGED candidate
       ELSE /\ candidate' = "flushing"
            /\ flush' = IF task.opened THEN "saving" ELSE "scanning"
            /\ UNCHANGED lane
    /\ UNCHANGED <<command, call, receipts, task, lease, hash, handoff, teardown, poolVars, engineVars>>

\* Faulty: no save, the close will flush.
EvictUnsaved ==
    /\ flush = "saving"
    /\ Evict("flush")
    /\ flush' = IF pool THEN "evicting" ELSE "scanning"
    /\ task' = [task EXCEPT !.opened = pool]
    /\ UNCHANGED <<command, call, lane, receipts, lease, candidate, hash, handoff, teardown, engineVars>>

\* save, then evict; the close need not be the flush's own.
SaveAndEvict ==
    /\ flush = "saving"
    /\ Save
    /\ Evict("flush")
    /\ flush' = IF pool THEN "evicting" ELSE "scanning"
    /\ task' = [task EXCEPT !.opened = pool]
    /\ UNCHANGED <<command, call, lane, receipts, lease, candidate, hash, handoff, teardown>>

SaveFails ==
    /\ flush = "saving"
    /\ Save \/ UNCHANGED engineVars
    /\ FlushEnds
    /\ UNCHANGED <<command, call, receipts, taskVars, handoff, teardown, poolVars>>

FlushEvicted(ok) ==
    /\ flush = "evicting"
    /\ Evicted("flush", ok)
    /\ IF ok THEN flush' = "scanning" /\ task' = [task EXCEPT !.opened = FALSE] /\ UNCHANGED lane
       ELSE FlushEnds /\ UNCHANGED task
    /\ UNCHANGED <<command, call, receipts, lease, candidate, hash, handoff, teardown>>

\* The strong scan and the transition that binds its hash; a candidate that failed
\* meanwhile stays failed.
Scan ==
    /\ flush = "scanning"
    /\ IF candidate = "flushing" THEN candidate' = "verifying" /\ hash' = disk
       ELSE UNCHANGED <<candidate, hash>>
    /\ FlushEnds
    /\ UNCHANGED <<command, call, receipts, task, lease, handoff, teardown, poolVars, engineVars>>

ScanFails ==
    /\ flush = "scanning"
    /\ FlushEnds
    /\ UNCHANGED <<command, call, receipts, taskVars, handoff, teardown, poolVars, engineVars>>

-----------------------------------------------------------------------------
(***************************************************************************)
(* finalizeAgentTask and abortSession, beside the lane                     *)
(***************************************************************************)
\* The task leaves the map with its lease; jobs in flight keep their TrackedTask.
Forgotten == task' = [task EXCEPT !.tracked = FALSE, !.opened = FALSE]
Released == lease' = IF lease = "held" THEN "released" ELSE lease
HandedOff == handoff' = IF flush = "idle" THEN "done" ELSE "overtook"

\* The proposal of a failed candidate has no file any more, which throws.
Finalize ==
    /\ handoff = "idle" /\ task.tracked /\ lease = "held" /\ candidate # "failed"
    /\ IF task.opened /\ pool
       THEN Evict("finalize") /\ handoff' = "evicting" /\ UNCHANGED <<task, lease>>
       ELSE HandedOff /\ Forgotten /\ Released /\ UNCHANGED poolVars
    /\ UNCHANGED <<command, call, lane, receipts, candidate, hash, flush, teardown, engineVars>>

FinalizeEvicted(ok) ==
    /\ handoff = "evicting"
    /\ Evicted("finalize", ok)
    /\ IF ok THEN HandedOff /\ Forgotten /\ Released
       ELSE handoff' = "idle" /\ UNCHANGED <<task, lease>>
    /\ UNCHANGED <<command, call, lane, receipts, candidate, hash, flush, teardown>>

\* Faulty: what runs already is not waited for.
AbortUndrained ==
    /\ teardown.pc = "idle" /\ task.tracked
    /\ task' = [task EXCEPT !.closing = TRUE]
    /\ teardown' = [pc |-> "draining", lanes |-> {}]
    /\ UNCHANGED <<command, call, lane, receipts, lease, candidate, hash, flush, handoff, poolVars, engineVars>>

\* The closing gate, and the lane as it is now.
AbortStart ==
    /\ teardown.pc = "idle" /\ task.tracked
    /\ task' = [task EXCEPT !.closing = TRUE]
    /\ teardown' = [pc |-> "draining", lanes |-> Range(lane)]
    /\ UNCHANGED <<command, call, lane, receipts, lease, candidate, hash, flush, handoff, poolVars, engineVars>>

Drained == teardown.lanes \cap Range(lane) = {}

Reclaim ==
    /\ Forgotten /\ Released
    /\ candidate' = "failed"
    /\ teardown' = [pc |-> "done", lanes |-> {}]

AbortTask ==
    /\ teardown.pc = "draining" /\ Drained
    /\ task.tracked /\ candidate # "failed"
    /\ IF task.opened /\ pool
       THEN /\ Evict("abort")
            /\ teardown' = [pc |-> "evicting", lanes |-> {}]
            /\ UNCHANGED <<task, lease, candidate>>
       ELSE Reclaim /\ UNCHANGED poolVars
    /\ UNCHANGED <<command, call, lane, receipts, hash, flush, handoff, engineVars>>

AbortEvicted(ok) ==
    /\ teardown.pc = "evicting"
    /\ Evicted("abort", ok)
    /\ Reclaim
    /\ UNCHANGED <<command, call, lane, receipts, hash, flush, handoff>>

\* The task was finalized meanwhile; or its candidate was rejected, whose file cannot be
\* resolved: that throws, and the task stays as it is.
AbortNothing ==
    /\ teardown.pc = "draining" /\ Drained
    /\ ~task.tracked \/ candidate = "failed"
    /\ teardown' = [pc |-> IF task.tracked THEN "failed" ELSE "done", lanes |-> {}]
    /\ UNCHANGED <<command, call, lane, receipts, taskVars, flush, handoff, poolVars, engineVars>>

-----------------------------------------------------------------------------
(***************************************************************************)
(* Others                                                                  *)
(***************************************************************************)
\* trimIdle: the resident was not acquired for the idle time, in use or not.
Sweep ==
    /\ pool /\ "sweeper" \notin closers
    /\ Evict("sweeper")
    /\ UNCHANGED <<command, call, lane, receipts, taskVars, processVars, engineVars>>

SweepEvicted(ok) ==
    /\ "sweeper" \in closers
    /\ Evicted("sweeper", ok)
    /\ UNCHANGED <<command, call, lane, receipts, taskVars, processVars>>

\* get, query and validate of the candidate end in releaseAutoResident, a close that the
\* pool does not know of.
ReadReleases ==
    /\ live /\ candidate # "failed"
    /\ Close
    /\ UNCHANGED <<command, call, lane, receipts, taskVars, processVars, poolVars>>

\* rejectCandidate, at any time.
RejectCandidate ==
    /\ candidate # "failed"
    /\ candidate' = "failed"
    /\ UNCHANGED <<command, call, lane, receipts, task, lease, hash, processVars, poolVars, engineVars>>

\* The next writer of the session, which has neither lease nor proposal.
NextWriter ==
    /\ lease = "released" /\ candidate = "failed"
    /\ lease' = "replaced"
    /\ UNCHANGED <<command, call, lane, receipts, task, candidate, hash, processVars, poolVars, engineVars>>

CallStep(c) ==
    \/ Replay(c) \/ Refuse(c) \/ Dispatch(c) \/ DropJob(c) \/ StartJob(c)
    \/ ResidentOpens(c) \/ OpenFails(c) \/ Apply(c) \/ ApplyFails(c)
    \/ \E ok \in BOOLEAN : CallEvicted(c, ok)

FlushStep ==
    \/ StartFlush \/ SaveAndEvict \/ SaveFails \/ Scan \/ ScanFails
    \/ \E ok \in BOOLEAN : FlushEvicted(ok)

TeardownStep ==
    \/ AbortTask \/ AbortNothing
    \/ \E ok \in BOOLEAN : AbortEvicted(ok) \/ FinalizeEvicted(ok)

Next ==
    \/ \E c \in Calls : CallStep(c) \/ \E m \in Commands : Ask(c, m)
    \/ AskFlush \/ FlushStep
    \/ Finalize \/ AbortStart \/ TeardownStep
    \/ Sweep \/ \E ok \in BOOLEAN : SweepEvicted(ok)
    \/ ReadReleases \/ RejectCandidate \/ NextWriter

Spec == Init /\ [][Next]_vars

\* Every engine command returns (the adapter has a timeout for each), queued jobs start
\* (Scheduler), and continuations run.
Fairness ==
    /\ \A c \in Calls : WF_vars(CallStep(c))
    /\ WF_vars(FlushStep)
    /\ WF_vars(TeardownStep)

FairSpec == Spec /\ Fairness

-----------------------------------------------------------------------------
\* The calls with key k whose edits the engine has applied.
AppliedFor(k) == {c \in disk \cup unsaved : command[c].key = k}

\* Section 61 and INV-04: once a key has its receipt the engine never applies it again,
\* nor anything else under that key, whoever retries and whatever waits on the lane.
\* (Before that it can: a batch that timed out after it was applied has no receipt.)
AcknowledgedOnce == [][\A k \in DOMAIN receipts : AppliedFor(k)' = AppliedFor(k)]_vars

\* A receipt stands for an edit that was applied, with the payload it was given for;
\* the exception is a job dropped as stale, by when the candidate has failed.
ReceiptMeansApplied ==
    \A k \in DOMAIN receipts : candidate # "failed" =>
        \E c \in AppliedFor(k) : command[c].payload = receipts[k]

\* INV-06 and INV-07: the hash that verification and accept are bound to is of bytes that
\* hold every edit the engine has applied, acknowledged or not, and none comes after it,
\* with the sweeper, readers and abort at the same resident.  The exception: a finalize
\* that overtakes the flush makes it skip the save, and it then need not wait for a close
\* that the sweeper has under way.
FlushSealsEdits ==
    candidate = "verifying" /\ handoff # "overtook" => hash = disk \cup unsaved

\* When abortSession has reclaimed a task no mutation of it is with the engine or on its
\* way there.
NothingSurvivesAbort ==
    teardown.pc = "done" => \A c \in Calls : call[c] \in {"idle", "lane", "done"}

\* Every mutation is answered: a failure on the lane, a close or an abort keeps nobody
\* waiting.
EveryCallSettles == \A c \in Calls : call[c] = "lane" ~> call[c] = "done"

=============================================================================
