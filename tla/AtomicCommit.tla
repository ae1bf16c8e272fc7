---------------------------- MODULE AtomicCommit ----------------------------
(***************************************************************************)
(* Replacing a document on disk: AtomicFileCommitter (the staged commit    *)
(* protocol), the commit journal and revision table it writes, and         *)
(* RecoveryService, which resolves interrupted commits from hash facts.    *)
(*                                                                         *)
(* One source path.  A commit is one call of AtomicFileCommitter.commit,   *)
(* with a fresh commit id, its own journal row and its own sibling temp.   *)
(* Every action is the code between two awaits: SQLite statements are      *)
(* synchronous, so a hash and the journal write that follows it in the     *)
(* same continuation are one step.  Contents stand for their SHA-256.      *)
(*                                                                         *)
(* The rows of the revision table are kept as the sequence in which they   *)
(* were inserted (the opening revision first); the numbering per session   *)
(* is not modelled here.                                                   *)
(***************************************************************************)
EXTENDS Naturals, Sequences

CONSTANTS
  Commits,         \* commit ids (one per call of commit)
  Contents,        \* what a complete file can hold
  Missing,         \* the file does not exist
  Torn,            \* a partly copied file: matches no complete content
  NoCommit,        \* "no commit": the opening revision's commit_id
  MaxAttempts,     \* rename attempts of replaceAtomically (5 in the code)
  MaxWrites,       \* bound: writes and deletions by other programs
  MaxCrashes,      \* bound: process crashes
  ManualRecovery,  \* whether recoverManually may run in a live process
  RegisterFails    \* whether store.register may refuse the source path

ASSUME ContentAssumption ==
  /\ Missing \notin Contents
  /\ Torn \notin Contents
  /\ Missing # Torn
  /\ NoCommit \notin Commits
ASSUME BoundAssumption ==
  /\ MaxAttempts \in Nat \ {0}
  /\ MaxWrites \in Nat
  /\ MaxCrashes \in Nat
  /\ ManualRecovery \in BOOLEAN
  /\ RegisterFails \in BOOLEAN

VARIABLES
  source,     \* what the source path holds
  temp,       \* what each commit's sibling temp holds
  request,    \* expectedSourceHash and candidateHash of each commit
  phase,      \* the phase column of each commit's journal row
  revisions,  \* the revision table, in insertion order
  up,         \* whether the process runs
  pc,         \* where each call of commit stands
  attempt,    \* failed rename attempts of each commit
  outcome,    \* how each call of commit ended for its caller
  recovery,   \* the recoverAll in progress
  writes,     \* writes by other programs so far
  crashes     \* crashes so far

\* History: no step of the program reads them.
VARIABLES
  held,       \* every content the source has ever held
  landed,     \* commits whose temp was renamed onto the source
  unsealed,   \* another program wrote since the attempt's seal point
  foreign     \* another program wrote since the last rename

fileVars == <<source, temp>>
dbVars   == <<phase, revisions>>
callVars == <<request, pc, attempt, outcome>>
envVars  == <<up, writes, crashes>>
history  == <<held, landed, unsealed, foreign>>
vars == <<fileVars, dbVars, callVars, envVars, recovery, history>>

File == Contents \cup {Missing, Torn}

Unresolved == {"prepared", "temp-ready", "source-replaced"}
Phase == Unresolved \cup {"none", "finalized", "aborted"}

Live == {"checkBase", "copy", "copying", "sealTemp", "sealSource", "rename",
         "fsync", "rehash", "finalize", "cleanup", "abort"}
PC == Live \cup {"idle", "done"}

\* "rejected": a typed refusal after which the row is aborted;
\* "error": any other exception, the row stays where it was.
Outcome == {"none", "ok", "rejected", "error"}

RecoveryMode == {"off", "startup", "manual"}
RecoveryStep == {"pick", "decide", "finalize", "abort"}

TypeOK ==
  /\ source \in Contents \cup {Missing}
  /\ temp \in [Commits -> File]
  /\ request \in [Commits -> [before : Contents, cand : Contents]]
  /\ phase \in [Commits -> Phase]
  /\ revisions \in Seq([commit : Commits \cup {NoCommit}, hash : Contents])
  /\ up \in BOOLEAN
  /\ pc \in [Commits -> PC]
  /\ attempt \in [Commits -> 0..MaxAttempts]
  /\ outcome \in [Commits -> Outcome]
  /\ recovery \in [mode : RecoveryMode, step : RecoveryStep,
                   todo : [Commits -> Phase],
                   row : Commits \cup {NoCommit},
                   saw : Contents \cup {Missing}]
  /\ writes \in 0..MaxWrites
  /\ crashes \in 0..MaxCrashes
  /\ held \subseteq Contents
  /\ landed \subseteq Commits
  /\ unsealed \in BOOLEAN
  /\ foreign \in BOOLEAN

NoRows == [c \in Commits |-> "none"]

Idle == [mode |-> "off", step |-> "pick", todo |-> NoRows, row |-> NoCommit,
         saw |-> Missing]

\* A process that has just opened a document: its bytes are on disk and its
\* strong hash is the opening revision.
Init ==
  /\ source \in Contents
  /\ temp = [c \in Commits |-> Missing]
  /\ request \in [Commits -> {[before |-> source, cand |-> source]}]
  /\ phase = NoRows
  /\ revisions = <<[commit |-> NoCommit, hash |-> source]>>
  /\ up = TRUE
  /\ pc = [c \in Commits |-> "idle"]
  /\ attempt = [c \in Commits |-> 0]
  /\ outcome = [c \in Commits |-> "none"]
  /\ recovery = Idle
  /\ writes = 0
  /\ crashes = 0
  /\ held = {source}
  /\ landed = {}
  /\ unsealed = FALSE
  /\ foreign = FALSE

-----------------------------------------------------------------------------
(***************************************************************************)
(* AtomicFileCommitter.commit                                              *)
(***************************************************************************)
At(c, label) == up /\ pc[c] = label

Goto(c, label) ==
  /\ pc' = [pc EXCEPT ![c] = label]
  /\ UNCHANGED outcome

Return(c, result) ==
  /\ pc' = [pc EXCEPT ![c] = "done"]
  /\ outcome' = [outcome EXCEPT ![c] = result]

Journal(c, p) == phase' = [phase EXCEPT ![c] = p]

HasRevision(c) == \E i \in 1..Len(revisions) : revisions[i].commit = c

\* The path's commit chain is free: no earlier call is still running.
ChainFree == \A d \in Commits : pc[d] \notin Live

\* Faulty: commits on one path are not serialised.
BeginUnchained(c, before, cand) ==
  /\ At(c, "idle")
  /\ recovery.mode # "startup"
  /\ request' = [request EXCEPT ![c] = [before |-> before, cand |-> cand]]
  /\ Journal(c, "prepared")
  /\ Goto(c, "checkBase")
  /\ UNCHANGED <<fileVars, revisions, attempt, envVars, recovery, history>>

\* The call starts: its row is journalled before anything is read.
Begin(c, before, cand) ==
  /\ At(c, "idle") /\ ChainFree
  /\ recovery.mode # "startup"
  /\ request' = [request EXCEPT ![c] = [before |-> before, cand |-> cand]]
  /\ Journal(c, "prepared")
  /\ Goto(c, "checkBase")
  /\ UNCHANGED <<fileVars, revisions, attempt, envVars, recovery, history>>

\* INV-10: the source still holds the base the commit was authorised on.
CheckBase(c) ==
  /\ At(c, "checkBase")
  /\ source = request[c].before
  /\ Goto(c, "copy")
  /\ UNCHANGED <<fileVars, dbVars, request, attempt, envVars, recovery, history>>

\* The source vanished or changed: the row is aborted, the call refused.
RefuseBase(c) ==
  /\ At(c, "checkBase")
  /\ source # request[c].before
  /\ Journal(c, "aborted")
  /\ Return(c, "rejected")
  /\ UNCHANGED <<fileVars, revisions, request, attempt, envVars, recovery, history>>

StartCopy(c) ==
  /\ At(c, "copy")
  /\ temp' = [temp EXCEPT ![c] = Torn]
  /\ Goto(c, "copying")
  /\ UNCHANGED <<source, dbVars, request, attempt, envVars, recovery, history>>

\* copyFile or fsync throws (staging gone, disk full): the row stays
\* "prepared" and whatever was copied stays on disk.
FailCopy(c) ==
  /\ At(c, "copy") \/ At(c, "copying")
  /\ Return(c, "error")
  /\ UNCHANGED <<fileVars, dbVars, request, attempt, envVars, recovery, history>>

\* The copy is complete and fsynced.  The staging file may have changed since
\* it was verified, so any content can arrive.
FinishCopy(c, content) ==
  /\ At(c, "copying")
  /\ temp' = [temp EXCEPT ![c] = content]
  /\ Journal(c, "temp-ready")
  /\ Goto(c, "sealTemp")
  /\ UNCHANGED <<source, revisions, request, attempt, envVars, recovery, history>>

\* The candidate seal: the temp holds the bytes verification bound, or it is
\* removed and the call refused.  (A temp that is gone makes the hash throw.)
SealTemp(c) ==
  /\ At(c, "sealTemp")
  /\ \/ temp[c] = request[c].cand /\ Goto(c, "sealSource")
     \/ temp[c] \notin {request[c].cand, Missing} /\ Goto(c, "cleanup")
     \/ temp[c] = Missing /\ Return(c, "error")
  /\ UNCHANGED <<fileVars, dbVars, request, attempt, envVars, recovery, history>>

\* Faulty: the source is sealed once, before the first attempt.
SealSourceOnce(c) ==
  /\ At(c, "sealSource")
  /\ IF source = request[c].before \/ attempt[c] > 0
       THEN Goto(c, "rename") ELSE Goto(c, "cleanup")
  /\ unsealed' = FALSE
  /\ UNCHANGED <<fileVars, dbVars, request, attempt, envVars, recovery, held,
                 landed, foreign>>

\* The per-attempt source seal of replaceAtomically.
SealSource(c) ==
  /\ At(c, "sealSource")
  /\ IF source = request[c].before THEN Goto(c, "rename") ELSE Goto(c, "cleanup")
  /\ unsealed' = FALSE
  /\ UNCHANGED <<fileVars, dbVars, request, attempt, envVars, recovery, held,
                 landed, foreign>>

Rename(c) ==
  /\ At(c, "rename")
  /\ temp[c] \in Contents
  /\ source' = temp[c]
  /\ temp' = [temp EXCEPT ![c] = Missing]
  /\ Goto(c, "fsync")
  /\ held' = held \cup {temp[c]}
  /\ landed' = landed \cup {c}
  /\ foreign' = FALSE
  /\ UNCHANGED <<dbVars, request, attempt, envVars, recovery, unsealed>>

\* Faulty: the last attempt is not the last.
RenameBusyUnbounded(c) ==
  /\ At(c, "rename")
  /\ attempt' = [attempt EXCEPT ![c] = @ + 1]
  /\ Goto(c, "sealSource")
  /\ UNCHANGED <<fileVars, dbVars, request, envVars, recovery, history>>

\* Faulty: attempts are not counted.
RenameBusyForever(c) ==
  /\ At(c, "rename")
  /\ Goto(c, "sealSource")
  /\ UNCHANGED <<fileVars, dbVars, request, attempt, envVars, recovery, history>>

\* EPERM, EBUSY or EACCES: try again after a pause, the last one rethrows
\* and leaves the row at "temp-ready" with its temp on disk.
RenameBusy(c) ==
  /\ At(c, "rename")
  /\ attempt' = [attempt EXCEPT ![c] = @ + 1]
  /\ \/ attempt[c] + 1 < MaxAttempts /\ Goto(c, "sealSource")
     \/ attempt[c] + 1 = MaxAttempts /\ Return(c, "error")
  /\ UNCHANGED <<fileVars, dbVars, request, envVars, recovery, history>>

\* Any other error of rename (a vanished temp among them) is rethrown.
FailRename(c) ==
  /\ At(c, "rename")
  /\ Return(c, "error")
  /\ UNCHANGED <<fileVars, dbVars, request, attempt, envVars, recovery, history>>

\* Both fsyncs done: the row says the source was replaced.
FsyncSource(c) ==
  /\ At(c, "fsync")
  /\ source # Missing
  /\ Journal(c, "source-replaced")
  /\ Goto(c, "rehash")
  /\ UNCHANGED <<fileVars, revisions, request, attempt, envVars, recovery, history>>

\* fsync throws: the row lags the file system.
FailFsync(c) ==
  /\ At(c, "fsync")
  /\ Return(c, "error")
  /\ UNCHANGED <<fileVars, dbVars, request, attempt, envVars, recovery, history>>

\* The post-replace rehash; a mismatch is left to recovery.
Rehash(c) ==
  /\ At(c, "rehash")
  /\ IF source = request[c].cand THEN Goto(c, "finalize") ELSE Return(c, "error")
  /\ UNCHANGED <<fileVars, dbVars, request, attempt, envVars, recovery, history>>

\* Faulty: the phase flips in a statement of its own, lost by a crash.
LandWithoutPhase(c) ==
  /\ revisions' = Append(revisions, [commit |-> c, hash |-> request[c].cand])
  /\ UNCHANGED phase

\* Faulty: "already landed?" is decided by content hash, so A -> B -> A
\* swallows the older revision.
LandDeduplicated(c) ==
  /\ revisions' =
       IF \E i \in 1..Len(revisions) : revisions[i].hash = request[c].cand
       THEN [i \in 1..Len(revisions) |->
               IF revisions[i].hash = request[c].cand
               THEN [revisions[i] EXCEPT !.commit = c] ELSE revisions[i]]
       ELSE Append(revisions, [commit |-> c, hash |-> request[c].cand])
  /\ Journal(c, "finalized")

\* finalizeCommitAtomically: revision and phase in one transaction.  A
\* revision with this commit id already there fails the UNIQUE index.
Land(c) ==
  /\ revisions' = Append(revisions, [commit |-> c, hash |-> request[c].cand])
  /\ Journal(c, "finalized")

Finalize(c) ==
  /\ At(c, "finalize")
  /\ \/ ~HasRevision(c) /\ Land(c) /\ Return(c, "ok")
     \/ HasRevision(c) /\ Return(c, "error") /\ UNCHANGED dbVars
  /\ UNCHANGED <<fileVars, request, attempt, envVars, recovery, history>>

\* Refusals after the copy: cleanupTemp, then the row is aborted.
CleanupTemp(c) ==
  /\ At(c, "cleanup")
  /\ temp' = [temp EXCEPT ![c] = Missing]
  /\ Goto(c, "abort")
  /\ UNCHANGED <<source, dbVars, request, attempt, envVars, recovery, history>>

\* Faulty: the refusal is thrown without aborting the row.
AbortCommitUnjournalled(c) ==
  /\ At(c, "abort")
  /\ Return(c, "rejected")
  /\ UNCHANGED <<fileVars, dbVars, request, attempt, envVars, recovery, history>>

AbortCommit(c) ==
  /\ At(c, "abort")
  /\ Journal(c, "aborted")
  /\ Return(c, "rejected")
  /\ UNCHANGED <<fileVars, revisions, request, attempt, envVars, recovery, history>>

-----------------------------------------------------------------------------
(***************************************************************************)
(* RecoveryService.recoverAll                                              *)
(***************************************************************************)
UnresolvedRows ==
  [c \in Commits |-> IF phase[c] \in Unresolved THEN phase[c] ELSE "none"]

StartRecovery(mode) ==
  recovery' = [Idle EXCEPT !.mode = mode, !.todo = UnresolvedRows]

\* recoverManually: a caller of the plugin's recover() in a live process.
RecoverManually ==
  /\ ManualRecovery /\ up
  /\ recovery.mode = "off"
  /\ StartRecovery("manual")
  /\ UNCHANGED <<fileVars, dbVars, callVars, envVars, history>>

Working(step) == up /\ recovery.mode # "off" /\ recovery.step = step

\* recoverOne starts by hashing the source.  Rows are taken in any order: the
\* code orders them by a millisecond clock, which may tie.
HashSource(c) ==
  /\ Working("pick")
  /\ recovery.todo[c] # "none"
  /\ recovery' = [recovery EXCEPT !.row = c, !.saw = source, !.step = "decide"]
  /\ UNCHANGED <<fileVars, dbVars, callVars, envVars, history>>

NextRow ==
  recovery' = [recovery EXCEPT !.todo[recovery.row] = "none", !.row = NoCommit,
                               !.saw = Missing, !.step = "pick"]

\* Faulty: the phase alone decides.
ReplacedByPhase(c) == recovery.todo[c] \in {"temp-ready", "source-replaced"}

\* Faulty: a lagging phase is taken for an external mutation.
ReplacedIgnoringLag(c) ==
  /\ recovery.todo[c] = "source-replaced"
  /\ recovery.saw = request[c].cand

\* The decision uses the phase of the snapshot and the hash read before it.
Replaced(c) ==
  /\ recovery.todo[c] \in {"temp-ready", "source-replaced"}
  /\ recovery.saw = request[c].cand

Untouched(c) == ~Replaced(c) /\ recovery.saw = request[c].before

\* The source is missing: a conflict that keeps row and temp.
KeepEvidence(c) ==
  /\ Working("decide") /\ recovery.row = c
  /\ recovery.saw = Missing
  /\ NextRow
  /\ UNCHANGED <<fileVars, dbVars, callVars, envVars, history>>

\* Faulty: a conflict is reported and the row left as it is.
AbortConflictUnjournalled(c) ==
  /\ Working("decide") /\ recovery.row = c
  /\ recovery.saw # Missing
  /\ ~Replaced(c) /\ ~Untouched(c)
  /\ NextRow
  /\ UNCHANGED <<fileVars, dbVars, callVars, envVars, history>>

\* The source matches neither hash: the row is aborted, its temp kept.
AbortConflict(c) ==
  /\ Working("decide") /\ recovery.row = c
  /\ recovery.saw # Missing
  /\ ~Replaced(c) /\ ~Untouched(c)
  /\ Journal(c, "aborted")
  /\ NextRow
  /\ UNCHANGED <<fileVars, revisions, callVars, envVars, history>>

\* The replace never happened: remove the temp, then abort the row.
RollbackTemp(c) ==
  /\ Working("decide") /\ recovery.row = c
  /\ Untouched(c)
  /\ temp' = [temp EXCEPT ![c] = Missing]
  /\ recovery' = [recovery EXCEPT !.step = "abort"]
  /\ UNCHANGED <<source, dbVars, callVars, envVars, history>>

RollbackRow(c) ==
  /\ Working("abort") /\ recovery.row = c
  /\ Journal(c, "aborted")
  /\ NextRow
  /\ UNCHANGED <<fileVars, revisions, callVars, envVars, history>>

\* forwardFinalize first resolves the artifact ref of the path ...
ResolveRef(c) ==
  /\ Working("decide") /\ recovery.row = c
  /\ Replaced(c)
  /\ \/ recovery' = [recovery EXCEPT !.step = "finalize"]
     \/ RegisterFails /\ NextRow       \* recovery-blocked: the row stays
  /\ UNCHANGED <<fileVars, dbVars, callVars, envVars, history>>

\* ... and then lands the revision unless this very commit already has one.
ForwardFinalize(c) ==
  /\ Working("finalize") /\ recovery.row = c
  /\ \/ ~HasRevision(c) /\ Land(c)
     \/ HasRevision(c) /\ Journal(c, "finalized") /\ UNCHANGED revisions
  /\ NextRow
  /\ UNCHANGED <<fileVars, callVars, envVars, history>>

FinishRecovery ==
  /\ Working("pick")
  /\ recovery.todo = NoRows
  /\ recovery' = Idle
  /\ UNCHANGED <<fileVars, dbVars, callVars, envVars, history>>

-----------------------------------------------------------------------------
(***************************************************************************)
(* The environment: process crashes and other programs                     *)
(***************************************************************************)
Crash ==
  /\ up /\ crashes < MaxCrashes
  /\ crashes' = crashes + 1
  /\ up' = FALSE
  /\ pc' = [c \in Commits |-> IF pc[c] \in Live THEN "done" ELSE pc[c]]
  /\ recovery' = Idle
  /\ UNCHANGED <<fileVars, dbVars, request, attempt, outcome, writes, history>>

\* initialize: recoverAll is awaited before the service accepts any call.
Restart ==
  /\ ~up
  /\ up' = TRUE
  /\ StartRecovery("startup")
  /\ UNCHANGED <<fileVars, dbVars, callVars, writes, crashes, history>>

ExternalWrite(content) ==
  /\ writes < MaxWrites
  /\ writes' = writes + 1
  /\ source' = content
  /\ held' = held \cup ({content} \ {Missing})
  /\ unsealed' = TRUE
  /\ foreign' = TRUE
  /\ UNCHANGED <<temp, dbVars, callVars, up, crashes, recovery, landed>>

CommitStep(c) ==
  \/ CheckBase(c) \/ RefuseBase(c)
  \/ StartCopy(c) \/ FailCopy(c) \/ \E content \in Contents : FinishCopy(c, content)
  \/ SealTemp(c) \/ SealSource(c)
  \/ Rename(c) \/ RenameBusy(c) \/ FailRename(c)
  \/ FsyncSource(c) \/ FailFsync(c) \/ Rehash(c) \/ Finalize(c)
  \/ CleanupTemp(c) \/ AbortCommit(c)

RecoverRow(c) ==
  \/ HashSource(c) \/ KeepEvidence(c) \/ AbortConflict(c)
  \/ RollbackTemp(c) \/ RollbackRow(c) \/ ResolveRef(c) \/ ForwardFinalize(c)

RecoverStep == FinishRecovery \/ \E c \in Commits : RecoverRow(c)

Next ==
  \/ \E c \in Commits, before, cand \in Contents : Begin(c, before, cand)
  \/ \E c \in Commits : CommitStep(c)
  \/ RecoverManually \/ RecoverStep
  \/ Crash \/ Restart
  \/ \E content \in Contents \cup {Missing} : ExternalWrite(content)

Spec == Init /\ [][Next]_vars

\* The event loop runs every continuation whose I/O has settled, and an
\* operator starts the plugin again after a crash.  Nothing is assumed of
\* callers, of other programs or of crashes.
FairSpec ==
  /\ Spec
  /\ \A c \in Commits : WF_vars(CommitStep(c))
  /\ WF_vars(RecoverStep)
  /\ WF_vars(Restart)

-----------------------------------------------------------------------------
(***************************************************************************)
(* Properties                                                              *)
(***************************************************************************)

\* A commit has a revision exactly when its journal row says "finalized", and
\* never two: whatever crashes, retries and repeated recoveries happen, the
\* journal and the revision log tell the same story (finalizeCommitAtomically,
\* forwardFinalize and the UNIQUE commit_id).
JournalMatchesLog ==
  /\ \A c \in Commits : HasRevision(c) <=> phase[c] = "finalized"
  /\ \A i, j \in 1..Len(revisions) :
       revisions[i].commit = revisions[j].commit => i = j

\* A commit whose caller was told it succeeded is finalized in the journal and
\* stays so: "after the transaction both facts exist together".
AcknowledgedIsFinalized ==
  \A c \in Commits : outcome[c] = "ok" => phase[c] = "finalized"

\* When nothing is in progress, every row is resolved and no other program
\* has written since the last rename, the newest revision is the file on disk:
\* no crash point makes the log miss a replace or record one that never was.
Quiescent ==
  /\ up /\ recovery.mode = "off" /\ ChainFree
  /\ \A c \in Commits : phase[c] \notin Unresolved

LogMatchesFile ==
  Quiescent /\ ~foreign => source = revisions[Len(revisions)].hash

\* A revision only ever records bytes the source file has really held.
RevisionsWereOnDisk ==
  \A i \in 1..Len(revisions) : revisions[i].hash \in held

\* A caller that was told "source-mutated", "artifact-missing" or
\* "candidate-hash-mismatch" never sees that commit appear in the log later,
\* and one that was told "ok" never loses it, even across restarts.
AnswersAreFinal ==
  \A c \in Commits :
    /\ outcome[c] = "rejected" => ~HasRevision(c) /\ c \notin landed
    /\ outcome[c] = "ok" => HasRevision(c) /\ c \in landed

\* The bytes a rename puts on the source are the verified candidate's, never a
\* torn copy nor a staging file changed after verification; and the bytes it
\* destroys are the base it was authorised on, unless another program wrote
\* in the gap between the last source seal and the rename.
ReplaceIsSealed ==
  [][\A c \in Commits : c \in landed' \ landed =>
       /\ source' = request[c].cand
       /\ source = request[c].before \/ unsealed]_vars

\* A resolved row is never touched again, and the revision log only grows.
ResolvedIsFinal ==
  [][/\ \A c \in Commits : phase[c] \in {"finalized", "aborted"} => phase'[c] = phase[c]
     /\ Len(revisions') >= Len(revisions)
     /\ \A i \in 1..Len(revisions) : revisions'[i] = revisions[i]]_vars

\* Every call of commit settles, whatever rename answers, unless the process
\* crashes under it.
EveryCallReturns ==
  \A c \in Commits : (pc[c] \in Live) ~> (pc[c] = "done")

\* A row a crash left unresolved is resolved by the recovery of the next start,
\* unless the source was missing when recovery looked.
CrashedRowsResolve ==
  \A c \in Commits :
    (~up /\ phase[c] \in Unresolved) ~> (phase[c] \notin Unresolved \/ source = Missing)

-----------------------------------------------------------------------------
(***************************************************************************)
(* The protocol implements the abstract replace: a commit is decided the   *)
(* moment its row is resolved, and its bytes arrive with its rename.       *)
(***************************************************************************)
Fate(c) ==
  CASE phase[c] = "none"      -> "none"
    [] phase[c] = "finalized" -> "recorded"
    [] phase[c] = "aborted"   -> "abandoned"
    [] OTHER                  -> IF c \in landed THEN "replaced" ELSE "open"

Promise == INSTANCE DurableReplace
  WITH file <- source, onDisk <- held,
       bytes <- [c \in Commits |-> request[c].cand],
       log <- revisions, fate <- [c \in Commits |-> Fate(c)]

\* Every behaviour of committer, crashes and startup recovery is a behaviour
\* of the abstract replace: interrupted commits have no third outcome.
ImplementsPromise == Promise!AbsSpec

-----------------------------------------------------------------------------
(***************************************************************************)
(* The inductive invariant behind the properties, for a service whose      *)
(* recovery runs only at startup (~ManualRecovery).                        *)
(***************************************************************************)

\* Where the row and the files of commit c are while its call is at pc[c].
CallAt(c) ==
  /\ pc[c] = "idle" <=> phase[c] = "none"
  /\ pc[c] \in Live => up
  /\ pc[c] \in Live \cup {"idle"} => outcome[c] = "none"
  /\ pc[c] \in {"checkBase", "copy", "copying"} => phase[c] = "prepared"
  /\ pc[c] \in {"sealTemp", "sealSource", "rename", "cleanup", "abort"}
       => phase[c] = "temp-ready" /\ c \notin landed
  /\ pc[c] \in {"sealSource", "rename"} => temp[c] = request[c].cand
  /\ pc[c] = "rename" => source = request[c].before \/ unsealed
  /\ pc[c] = "fsync" => phase[c] = "temp-ready"
  /\ pc[c] \in {"rehash", "finalize"} => phase[c] = "source-replaced"
  /\ pc[c] \in {"fsync", "rehash", "finalize"} =>
       c \in landed /\ (foreign \/ source = request[c].cand)

\* What the row of commit c says about the file and about its caller.
RowMeans(c) ==
  /\ phase[c] \in {"none", "prepared"} => c \notin landed
  /\ phase[c] = "source-replaced" => c \in landed
  /\ phase[c] \in {"none", "finalized", "aborted"} => pc[c] \notin Live
  /\ phase[c] \in Unresolved \cup {"none"} => outcome[c] \in {"none", "error"}
  /\ outcome[c] = "ok" => phase[c] = "finalized" /\ c \in landed
  /\ outcome[c] = "rejected" => phase[c] = "aborted" /\ c \notin landed
  /\ c \in landed => request[c].cand \in held

\* The chain admits one call at a time, and startup recovery none.
Exclusive ==
  /\ \A c, d \in Commits : pc[c] \in Live /\ pc[d] \in Live => c = d
  /\ recovery.mode # "off" => recovery.mode = "startup" /\ up /\ ChainFree

\* Recovery works on rows nobody else moves and on a hash that is still true
\* unless another program wrote.
RecoveryAt ==
  /\ \A c \in Commits : recovery.todo[c] # "none" =>
       recovery.mode # "off" /\ phase[c] \in Unresolved /\ recovery.todo[c] = phase[c]
  /\ recovery.step # "pick" =>
       /\ recovery.mode # "off"
       /\ recovery.row \in Commits /\ recovery.todo[recovery.row] # "none"
       /\ recovery.saw \in held \cup {Missing}
       /\ foreign \/ recovery.saw = source
  /\ recovery.step = "finalize" => Replaced(recovery.row)
  /\ recovery.step = "abort" => Untouched(recovery.row)

\* A replace that the log does not show yet still has an unresolved row.
Unrecorded(c) ==
  /\ c \in landed
  /\ phase[c] \in {"temp-ready", "source-replaced"}
  /\ source = request[c].cand

LogAt ==
  /\ Len(revisions) >= 1
  /\ source \in held \cup {Missing}
  /\ foreign \/ source = revisions[Len(revisions)].hash
             \/ \E c \in Commits : Unrecorded(c)

CommitInv ==
  /\ TypeOK
  /\ \A c \in Commits : CallAt(c) /\ RowMeans(c)
  /\ Exclusive
  /\ RecoveryAt
  /\ LogAt
  /\ JournalMatchesLog
  /\ RevisionsWereOnDisk

=============================================================================
