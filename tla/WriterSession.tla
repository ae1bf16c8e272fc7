--------------------------- MODULE WriterSession ---------------------------
(***************************************************************************)
(* Who may write a document: sessions, edit promotion, human saves, agent  *)
(* tasks and their candidates, accept and reject, close, the source        *)
(* watcher and a restart of the process                                    *)
(* (SessionManager, promoteToEdit, AgentRuntime, CandidateManager and the  *)
(* OfficeRuntimeService operations that drive them).                       *)
(*                                                                         *)
(* One process.  A step is the code between two awaits on a file, the      *)
(* engine or the scheduler; awaits of the event bus (a synchronous insert) *)
(* end in the same turn of the event loop and are not steps.  A section on *)
(* a session's mailbox is one step, except acceptCandidate, which keeps    *)
(* the mailbox while its commit runs: MailboxFree.  The commit protocol is *)
(* the one of AtomicCommit with fewer steps.  Contents stand for hashes.   *)
(***************************************************************************)
EXTENDS WriterLeases, Sequences, FiniteSets, Functions

CONSTANTS
  Tasks,         \* agent tasks; a task has at most one candidate
  Contents,      \* what a complete document can hold
  Gone,          \* a staging file that was released, a hash not taken
  NoTask,        \* "no proposal"
  NoSession,     \* "no session yet"
  MaxWrites,     \* bound: writes by others, to a source or a proposal
  MaxRestarts,   \* bound: restarts of the process
  MaxEdits,      \* bound: edits begin while fewer leases were issued
  MaxRevisions   \* bound: saves start while there are fewer revisions

ASSUME WriterAssumption ==
  /\ Gone \notin Contents
  /\ NoTask \notin Tasks
  /\ NoSession \notin Sessions
  /\ MaxWrites \in Nat /\ MaxRestarts \in Nat
  /\ MaxEdits \in Nat /\ MaxRevisions \in Nat

VARIABLES
  source,     \* what each source path holds
  notified,   \* a file event waits to be dispatched by the watcher
  session,    \* the live sessions and their rows
  log,        \* the revision table of each session, as hashes
  journal,    \* unresolved journal rows left by failed commits
  task,       \* agent tasks and their candidates
  edit,       \* the beginEdit in flight of each session
  commit,     \* the save and the accept in flight of each session
  chain,      \* commitChains: the commits of each document, in order
  closing,    \* the closeSession in flight of each session
  resolve,    \* the resolveRecoveredSession in flight of each session
  writes,     \* writes by others so far
  restarts    \* restarts so far

callVars == <<edit, commit, chain, closing, resolve>>
envVars == <<writes, restarts>>
vars == <<leaseVars, source, notified, session, log, journal, task, callVars, envVars>>

Life == {"absent", "ready", "conflict", "recovery", "closing", "closed"}

\* The background strong hash of open: hashing, its revision is the first of
\* the session, it failed, or there is none (a rehydrated session).
Identity == {"none", "hashing", "opened", "unstable"}

CandidateState == {"none", "mutating", "flushing", "verifying", "ready",
                   "human-amended", "committing", "failed", "deleted"}

Kinds == {"save", "accept"}

NoEdit == [pc |-> "idle", captured |-> 0, revision |-> 0, saw |-> Gone]
NoResolve == [pc |-> "idle", revision |-> 0, saw |-> Gone]
NoClose == [pc |-> "idle", lanes |-> {}]
NoCall == [pc |-> "idle", before |-> Gone, bytes |-> Gone, task |-> NoTask, sequence |-> 0]

TypeOK ==
  /\ LeaseTypeOK
  /\ source \in [Documents -> Contents]
  /\ notified \in [Documents -> BOOLEAN]
  /\ session \in [Sessions ->
       [life : Life, identity : Identity, committed : Nat,
        writer : Lease \cup {NoLease}, proposal : Tasks \cup {NoTask}]]
  /\ log \in [Sessions -> Seq(Contents)]
  /\ journal \in Seq([session : Sessions, bytes : Contents])
  /\ task \in [Tasks ->
       [pc : {"idle", "begin", "acquire", "clone", "register", "open", "flush", "done"},
        of : Sessions \cup {NoSession}, grant : Lease \cup {NoLease},
        captured : Nat, base : Nat, closing : BOOLEAN,
        state : CandidateState, staged : Contents \cup {Gone},
        flushed : Contents \cup {Gone}, verified : Contents \cup {Gone},
        report : Contents \cup {Gone}]]
  /\ edit \in [Sessions ->
       [pc : {"idle", "mount", "hash", "apply"}, captured : Nat,
        revision : Nat, saw : Contents \cup {Gone}]]
  /\ commit \in [Sessions -> [Kinds ->
       [pc : {"idle", "queued", "sealed", "replaced", "recorded"},
        before : Contents \cup {Gone}, bytes : Contents \cup {Gone},
        task : Tasks \cup {NoTask}, sequence : Nat]]]
  /\ chain \in [Documents -> Seq(Sessions \X Kinds)]
  /\ closing \in [Sessions ->
       [pc : {"idle", "draining", "ending", "mailbox"}, lanes : SUBSET Tasks]]
  /\ resolve \in [Sessions ->
       [pc : {"idle", "apply"}, revision : Nat, saw : Contents \cup {Gone}]]
  /\ writes \in 0..MaxWrites
  /\ restarts \in 0..MaxRestarts

NoTaskYet == [pc |-> "idle", of |-> NoSession, grant |-> NoLease, captured |-> 0,
              base |-> 0, closing |-> FALSE, state |-> "none", staged |-> Gone,
              flushed |-> Gone, verified |-> Gone, report |-> Gone]

Init ==
  /\ LeaseInit
  /\ source \in [Documents -> Contents]
  /\ notified = [d \in Documents |-> FALSE]
  /\ session = [s \in Sessions |->
       [life |-> "absent", identity |-> "none", committed |-> 0,
        writer |-> NoLease, proposal |-> NoTask]]
  /\ log = [s \in Sessions |-> <<>>]
  /\ journal = <<>>
  /\ task = [t \in Tasks |-> NoTaskYet]
  /\ edit = [s \in Sessions |-> NoEdit]
  /\ commit = [s \in Sessions |-> [k \in Kinds |-> NoCall]]
  /\ chain = [d \in Documents |-> <<>>]
  /\ closing = [s \in Sessions |-> NoClose]
  /\ resolve = [s \in Sessions |-> NoResolve]
  /\ writes = 0
  /\ restarts = 0

-----------------------------------------------------------------------------
(***************************************************************************)
(* Sessions                                                                *)
(***************************************************************************)
Open(s) == session[s].life \notin {"absent", "closed"}

MailboxFree(s) == commit[s]["accept"].pc = "idle"

\* The candidates activeForSession looks through.
LiveCandidates(s) ==
  {t \in Tasks : task[t].of = s /\ task[t].state \notin {"none", "failed", "deleted"}}

\* A ready session becomes a conflict; any other lifecycle is kept.
Conflicted(life) == IF life = "ready" THEN "conflict" ELSE life

\* ensureStrongIdentity: the promise of open is never replaced, so it answers
\* with the opening revision for as long as the session lives.
KnowsIdentity(s) ==
  \/ session[s].identity = "opened"
  \/ session[s].identity = "none" /\ session[s].committed > 0
KnownRevision(s) ==
  IF session[s].identity = "opened" THEN 1 ELSE session[s].committed

\* open: the session is ready at once, its strong hash follows.
OpenSession(s) ==
  /\ session[s].life = "absent"
  /\ session' = [session EXCEPT ![s].life = "ready", ![s].identity = "hashing"]
  /\ UNCHANGED <<leaseVars, source, notified, log, journal, task, callVars, envVars>>

BindIdentity(s) ==
  /\ Open(s) /\ session[s].identity = "hashing"
  /\ log' = [log EXCEPT ![s] = Append(@, source[DocumentOf[s]])]
  /\ session' = [session EXCEPT ![s].identity = "opened", ![s].committed = 1]
  /\ UNCHANGED <<leaseVars, source, notified, journal, task, callVars, envVars>>

\* The file kept changing under the hash.
UnstableIdentity(s) ==
  /\ Open(s) /\ session[s].identity = "hashing"
  /\ session' = [session EXCEPT ![s].identity = "unstable", ![s].life = Conflicted(@)]
  /\ UNCHANGED <<leaseVars, source, notified, log, journal, task, callVars, envVars>>

\* handleSourceMutation: every ready session of the document is in conflict.
WatcherFires(d) ==
  /\ notified[d]
  /\ notified' = [notified EXCEPT ![d] = FALSE]
  /\ session' = [s \in Sessions |->
       IF DocumentOf[s] = d THEN [session[s] EXCEPT !.life = Conflicted(@)]
                            ELSE session[s]]
  /\ UNCHANGED <<leaseVars, source, log, journal, task, callVars, envVars>>

-----------------------------------------------------------------------------
(***************************************************************************)
(* Human edit: beginEdit with promoteToEdit, humanSave, endEdit            *)
(***************************************************************************)

HoldsHumanLease(s) == active[s] # NoLease /\ active[s].owner = "human"

\* Single flight: a second caller joins the promotion in progress; a session
\* that is being edited refuses.
BeginEdit(s) ==
  /\ Open(s) /\ edit[s].pc = "idle"
  /\ ~HoldsHumanLease(s)
  /\ SumFunction(issued) < MaxEdits
  /\ edit' = [edit EXCEPT ![s].pc = "mount"]
  /\ UNCHANGED <<leaseVars, source, notified, session, log, journal, task,
                 commit, chain, closing, resolve, envVars>>

EditEnds(s) == edit' = [edit EXCEPT ![s] = NoEdit]

\* The editor is mounted before any lease is taken; it may fail to mount, and
\* the session must still be ready when promoteToEdit is entered; it captures
\* the revision in the mailbox.
MountEditor(s) ==
  /\ edit[s].pc = "mount"
  /\ \/ /\ session[s].life = "ready" /\ MailboxFree(s)
        /\ edit' = [edit EXCEPT ![s].pc = "hash", ![s].captured = session[s].committed]
     \/ EditEnds(s)
  /\ UNCHANGED <<leaseVars, source, notified, session, log, journal, task,
                 commit, chain, closing, resolve, envVars>>

\* Outside the mailbox: the strong identity, then the hash of the source.
HashForEdit(s) ==
  /\ edit[s].pc = "hash"
  /\ \/ /\ Open(s) /\ KnowsIdentity(s)
        /\ edit' = [edit EXCEPT ![s].pc = "apply", ![s].revision = KnownRevision(s),
                                ![s].saw = source[DocumentOf[s]]]
     \/ (~Open(s) \/ session[s].identity = "unstable") /\ EditEnds(s)
  /\ UNCHANGED <<leaseVars, source, notified, session, log, journal, task,
                 commit, chain, closing, resolve, envVars>>

\* Faulty: competing candidates are only looked for at the start.
MayPromoteBlindly(s) ==
  /\ session[s].life = "ready"
  /\ session[s].committed = edit[s].revision

\* The writer gate: lifecycle, revision and competing candidates.
MayPromote(s) ==
  /\ session[s].life = "ready"
  /\ session[s].committed = edit[s].revision
  /\ LiveCandidates(s) = {}

SourceMatches(s) == edit[s].saw = log[s][session[s].committed]

\* In the mailbox: everything still holds and the lease is free.
ApplyEdit(s) ==
  /\ edit[s].pc = "apply" /\ MailboxFree(s)
  /\ MayPromote(s) /\ SourceMatches(s)
  /\ Acquire(s, "human")
  /\ session' = [session EXCEPT ![s].writer = NextLease(s, "human")]
  /\ EditEnds(s)
  /\ UNCHANGED <<source, notified, log, journal, task, commit, chain, closing, resolve, envVars>>

RefuseEdit(s) ==
  /\ edit[s].pc = "apply" /\ MailboxFree(s)
  /\ \/ ~MayPromote(s) /\ UNCHANGED session
     \/ /\ MayPromote(s) /\ ~SourceMatches(s)
        /\ session' = [session EXCEPT ![s].life = "conflict"]
     \/ MayPromote(s) /\ SourceMatches(s) /\ ~CanAcquire(s) /\ UNCHANGED session
  /\ EditEnds(s)
  /\ UNCHANGED <<leaseVars, source, notified, log, journal, task,
                 commit, chain, closing, resolve, envVars>>

\* A save without new bytes only compares the source with the session.
BareSave(s) ==
  /\ Open(s) /\ KnowsIdentity(s) /\ HoldsHumanLease(s)
  /\ source[DocumentOf[s]] # log[s][session[s].committed]
  /\ session' = [session EXCEPT ![s].life = Conflicted(@)]
  /\ UNCHANGED <<leaseVars, source, notified, log, journal, task, callVars, envVars>>

\* New bytes that differ from the source go through the commit chain.  The
\* lease is looked at here and not again.
StartSave(s, bytes) ==
  /\ Open(s) /\ KnowsIdentity(s) /\ HoldsHumanLease(s)
  /\ commit[s]["save"].pc = "idle"
  /\ bytes # source[DocumentOf[s]]
  /\ SumFunction([x \in Sessions |-> Len(log[x])]) + Len(journal) < MaxRevisions
  /\ commit' = [commit EXCEPT ![s]["save"].pc = "queued", ![s]["save"].bytes = bytes]
  /\ chain' = [chain EXCEPT ![DocumentOf[s]] = Append(@, <<s, "save">>)]
  /\ UNCHANGED <<leaseVars, source, notified, session, log, journal, task,
                 edit, closing, resolve, envVars>>

\* Faulty: an agent's binding is cleared with the editor.
EndEditClearing(s) ==
  /\ Open(s)
  /\ IF HoldsHumanLease(s) THEN Release(active[s]) ELSE UNCHANGED leaseVars
  /\ session' = [session EXCEPT ![s].writer = NoLease]
  /\ UNCHANGED <<source, notified, log, journal, task, callVars, envVars>>

\* Only a human lease ends here; an agent's stays, with its binding.
EndEdit(s) ==
  /\ Open(s)
  /\ active[s] = NoLease \/ HoldsHumanLease(s)
  /\ Release(active[s])
  /\ session' = [session EXCEPT ![s].writer = NoLease]
  /\ UNCHANGED <<source, notified, log, journal, task, callVars, envVars>>

-----------------------------------------------------------------------------
(***************************************************************************)
(* Agent tasks                                                             *)
(***************************************************************************)

\* The task is forgotten; its candidate, if there is one, is not.
Ended(t) == [task[t] EXCEPT !.pc = "done", !.grant = NoLease, !.captured = 0,
                            !.closing = FALSE]

\* Nothing reads the hashes of a candidate that failed.
Failed(candidate) == [candidate EXCEPT !.state = "failed", !.flushed = Gone,
                                       !.verified = Gone]

BeginTask(t, s) ==
  /\ task[t].pc = "idle"
  /\ session[s].life = "ready"
  /\ task' = [task EXCEPT ![t].pc = "begin", ![t].of = s]
  /\ UNCHANGED <<leaseVars, source, notified, session, log, journal, callVars, envVars>>

\* Faulty: an open proposal does not keep a second one out.
MayBeginBlindly(s) == CanAcquire(s)

\* No open candidate and no open proposal; a "committing" candidate is not
\* counted.  The session's copy of its proposal is never "failed".
MayBegin(s) ==
  /\ \A t \in LiveCandidates(s) : task[t].state = "committing"
  /\ session[s].proposal = NoTask
  /\ CanAcquire(s)

\* The strong identity, before the mailbox: the base of the candidate.
IdentityForTask(t) ==
  /\ task[t].pc = "begin"
  /\ Open(task[t].of) /\ KnowsIdentity(task[t].of)
  /\ task' = [task EXCEPT ![t].pc = "acquire", ![t].base = KnownRevision(task[t].of)]
  /\ UNCHANGED <<leaseVars, source, notified, session, log, journal, callVars, envVars>>

\* In the mailbox: capture the revision and take the lease.
AcquireWriter(t) == \E s \in Sessions :
  /\ task[t].pc = "acquire" /\ task[t].of = s
  /\ Open(s) /\ MailboxFree(s)
  /\ MayBegin(s)
  /\ Acquire(s, "agent")
  /\ session' = [session EXCEPT ![s].writer = NextLease(s, "agent")]
  /\ task' = [task EXCEPT ![t].pc = "clone", ![t].grant = NextLease(s, "agent"),
                          ![t].captured = session[s].committed]
  /\ UNCHANGED <<source, notified, log, journal, callVars, envVars>>

RefuseTask(t) ==
  LET s == task[t].of IN
  /\ \/ task[t].pc = "begin" /\ (~Open(s) \/ session[s].identity = "unstable")
     \/ task[t].pc = "acquire" /\ (~Open(s) \/ (MailboxFree(s) /\ ~MayBegin(s)))
  /\ task' = [task EXCEPT ![t] = Ended(t)]
  /\ UNCHANGED <<leaseVars, source, notified, session, log, journal, callVars, envVars>>

\* s.writerLease is cleared if it is still this lease.
Unbound(s, lease) ==
  IF session[s].writer = lease THEN [session EXCEPT ![s].writer = NoLease] ELSE session

GiveUp(t) ==
  /\ Release(task[t].grant)
  /\ session' = Unbound(task[t].of, task[t].grant)
  /\ task' = [task EXCEPT ![t] = [Ended(t) EXCEPT !.staged = Gone]]

CloneFails(t) ==
  /\ task[t].pc = "clone"
  /\ GiveUp(t)
  /\ UNCHANGED <<source, notified, log, journal, callVars, envVars>>

CloneSource(t) ==
  /\ task[t].pc = "clone"
  /\ task' = [task EXCEPT ![t].pc = "register", ![t].staged = source[DocumentOf[task[t].of]]]
  /\ UNCHANGED <<leaseVars, source, notified, session, log, journal, callVars, envVars>>

Fresh(t) ==
  /\ session[task[t].of].life = "ready"
  /\ session[task[t].of].committed = task[t].captured

\* In the mailbox again: the candidate is registered and becomes the proposal.
Register(t) ==
  /\ task[t].pc = "register" /\ MailboxFree(task[t].of)
  /\ Fresh(t)
  /\ task' = [task EXCEPT ![t].pc = "open", ![t].state = "mutating"]
  /\ session' = [session EXCEPT ![task[t].of].proposal = t]
  /\ UNCHANGED <<leaseVars, source, notified, log, journal, callVars, envVars>>

RefuseRegister(t) ==
  /\ task[t].pc = "register" /\ MailboxFree(task[t].of)
  /\ Open(task[t].of) /\ ~Fresh(t)
  /\ GiveUp(t)
  /\ UNCHANGED <<source, notified, log, journal, callVars, envVars>>

\* The session was closed during the clone: looking it up throws, and nothing
\* gives the lease back.
RegisterInClosed(t) ==
  /\ task[t].pc = "register"
  /\ ~Open(task[t].of)
  /\ task' = [task EXCEPT ![t] = Ended(t)]
  /\ UNCHANGED <<leaseVars, source, notified, session, log, journal, callVars, envVars>>

\* LeaseManager.validate, for the task's own lease and token.
Validated(t) == active[task[t].of] = task[t].grant

\* A batch of edits in the candidate's "mutating" window.
Mutate(t, bytes) ==
  /\ task[t].pc = "open" /\ ~task[t].closing /\ Open(task[t].of)
  /\ task[t].state = "mutating" /\ Validated(t)
  /\ task' = [task EXCEPT ![t].staged = bytes]
  /\ UNCHANGED <<leaseVars, source, notified, session, log, journal, callVars, envVars>>

StartFlush(t) ==
  /\ task[t].pc = "open" /\ Open(task[t].of) /\ Validated(t)
  /\ task[t].state = "mutating"
  /\ task' = [task EXCEPT ![t].pc = "flush", ![t].state = "flushing"]
  /\ UNCHANGED <<leaseVars, source, notified, session, log, journal, callVars, envVars>>

\* refreshSessionCandidate
Proposed(s, t) == IF Open(s) THEN [session EXCEPT ![s].proposal = t] ELSE session

\* The scan hashes the flushed file; a candidate that failed meanwhile cannot
\* leave that state.
FinishFlush(t) ==
  /\ task[t].pc = "flush"
  /\ task[t].state = "flushing"
  /\ task' = [task EXCEPT ![t].pc = "open", ![t].state = "verifying",
                          ![t].flushed = task[t].staged]
  /\ session' = Proposed(task[t].of, t)
  /\ UNCHANGED <<leaseVars, source, notified, log, journal, callVars, envVars>>

\* The engine, the scan or the transition throws.
FailFlush(t) ==
  /\ task[t].pc = "flush"
  /\ task' = [task EXCEPT ![t].pc = "open"]
  /\ UNCHANGED <<leaseVars, source, notified, session, log, journal, callVars, envVars>>

\* Pipeline: the report is about the bytes it read.
StartVerify(t) ==
  /\ task[t].flushed # Gone /\ task[t].staged # Gone
  /\ task[t].report = Gone
  /\ Open(task[t].of)
  /\ task' = [task EXCEPT ![t].report = task[t].staged]
  /\ UNCHANGED <<leaseVars, source, notified, session, log, journal, callVars, envVars>>

\* publishVerification: the report must be about the flushed bytes.
ReportIsCurrent(t) == task[t].report = task[t].flushed

\* The report is bound before the candidate moves on; from any state but
\* "verifying" that last transition throws.
PassVerify(t) ==
  /\ task[t].report # Gone /\ task[t].state # "deleted"
  /\ ReportIsCurrent(t)
  /\ task' = [task EXCEPT ![t].verified = task[t].report, ![t].report = Gone,
                          ![t].state = IF @ = "verifying" THEN "ready" ELSE @]
  /\ session' = IF task[t].state = "verifying" THEN Proposed(task[t].of, t) ELSE session
  /\ UNCHANGED <<leaseVars, source, notified, log, journal, callVars, envVars>>

\* A failed report is bound too; every live state may fail.  The session keeps
\* its proposal.
FailVerify(t) ==
  /\ task[t].report # Gone /\ task[t].state # "deleted"
  /\ ReportIsCurrent(t)
  /\ task' = [task EXCEPT ![t].verified = task[t].report, ![t].report = Gone,
                          ![t].state = "failed"]
  /\ UNCHANGED <<leaseVars, source, notified, session, log, journal, callVars, envVars>>

\* The file was released or cannot be read, the report is stale, or the
\* candidate was accepted meanwhile.
DropVerify(t) ==
  /\ task[t].report # Gone
  /\ task' = [task EXCEPT ![t].report = Gone]
  /\ UNCHANGED <<leaseVars, source, notified, session, log, journal, callVars, envVars>>

\* A human rewrites the proposal and markHumanAmended voids its report.
Amend(t, bytes) ==
  /\ task[t].state \in {"verifying", "ready"} /\ bytes # task[t].staged
  /\ writes < MaxWrites /\ writes' = writes + 1
  /\ task' = [task EXCEPT ![t].state = "human-amended", ![t].staged = bytes,
                          ![t].flushed = bytes, ![t].verified = Gone]
  /\ UNCHANGED <<leaseVars, source, notified, session, log, journal, callVars, restarts>>

\* finalizeAgentTask: the writer is handed off.  Without the staging file (a
\* proposal rejected before this call) it throws and the lease stays.
Finalize(t) ==
  /\ task[t].pc = "open" /\ Open(task[t].of) /\ Validated(t)
  /\ task[t].staged # Gone
  /\ Release(task[t].grant)
  /\ task' = [task EXCEPT ![t] = Ended(t)]
  /\ session' = [session EXCEPT ![task[t].of].writer = NoLease]
  /\ UNCHANGED <<source, notified, log, journal, callVars, envVars>>

\* Any state may be rejected, a candidate being committed too.
Reject(s) ==
  LET t == session[s].proposal IN
  /\ Open(s) /\ t # NoTask
  /\ task' = [task EXCEPT ![t] = [Failed(@) EXCEPT !.staged = Gone]]
  /\ session' = [session EXCEPT ![s].proposal = NoTask]
  /\ UNCHANGED <<leaseVars, source, notified, log, journal, callVars, envVars>>

-----------------------------------------------------------------------------
(***************************************************************************)
(* Accept, and the commits of saves and accepts (AtomicCommit in short)    *)
(***************************************************************************)
\* Faulty: state and report are not looked at.
AcceptableUnverified(s, t) ==
  /\ session[s].writer = NoLease
  /\ task[t].base = session[s].committed
  /\ task[t].flushed # Gone

\* A human-amended candidate passes the guard and cannot start committing.
Acceptable(s, t) ==
  /\ session[s].writer = NoLease
  /\ task[t].state = "ready"
  /\ task[t].base = session[s].committed
  /\ task[t].verified # Gone /\ task[t].verified = task[t].flushed

\* The mailbox is kept until the commit has settled.
StartAccept(s) ==
  LET t == session[s].proposal IN
  /\ Open(s) /\ MailboxFree(s)
  /\ t # NoTask
  /\ Acceptable(s, t)
  /\ task' = [task EXCEPT ![t].state = "committing"]
  /\ commit' = [commit EXCEPT ![s]["accept"] =
                  [NoCall EXCEPT !.pc = "queued", !.bytes = task[t].flushed, !.task = t]]
  /\ chain' = [chain EXCEPT ![DocumentOf[s]] = Append(@, <<s, "accept">>)]
  /\ UNCHANGED <<leaseVars, source, notified, session, log, journal,
                 edit, closing, resolve, envVars>>

Turn(s, k, pc) ==
  /\ commit[s][k].pc = pc
  /\ Head(chain[DocumentOf[s]]) = <<s, k>>

NextTurn(s) == chain' = [chain EXCEPT ![DocumentOf[s]] = Tail(@)]

\* A save replaces what the session has now, an accept its candidate's base.
Expected(s, k) ==
  IF k = "save" THEN log[s][session[s].committed]
                ELSE log[s][task[commit[s]["accept"].task].base]

StagedIsSealed(s, k) ==
  k = "accept" => task[commit[s][k].task].staged = commit[s][k].bytes

BaseHolds(s, k) ==
  /\ source[DocumentOf[s]] = Expected(s, k)
  /\ StagedIsSealed(s, k)

\* The temp file is a copy of the agreed bytes, the source is the base.
SealCommit(s, k) ==
  /\ Turn(s, k, "queued") /\ BaseHolds(s, k)
  /\ commit' = [commit EXCEPT ![s][k].pc = "sealed", ![s][k].before = source[DocumentOf[s]]]
  /\ UNCHANGED <<leaseVars, source, notified, session, log, journal, task,
                 edit, chain, closing, resolve, envVars>>

\* Faulty: the chain of the document waits for a commit that threw.
CommitThrowsUnchained(s, k) ==
  /\ commit' = [commit EXCEPT ![s][k] = NoCall]
  /\ UNCHANGED chain

\* The call throws; an accept leaves its candidate "committing".
CommitThrows(s, k) ==
  /\ commit' = [commit EXCEPT ![s][k] = NoCall]
  /\ NextTurn(s)

\* The source or the staging file changed before the commit or its replace.
RefuseCommit(s, k) ==
  /\ \/ Turn(s, k, "queued") /\ ~BaseHolds(s, k)
     \/ Turn(s, k, "sealed") /\ source[DocumentOf[s]] # commit[s][k].before
  /\ CommitThrows(s, k)
  /\ UNCHANGED <<leaseVars, source, notified, session, log, journal, task,
                 edit, closing, resolve, envVars>>

\* Faulty: the source is not looked at again before the rename.
ReplaceUnsealed(s, k) ==
  LET d == DocumentOf[s] IN
  /\ Turn(s, k, "sealed")
  /\ source' = [source EXCEPT ![d] = commit[s][k].bytes]
  /\ notified' \in {notified, [notified EXCEPT ![d] = TRUE]}
  /\ commit' = [commit EXCEPT ![s][k].pc = "replaced"]
  /\ UNCHANGED <<leaseVars, session, log, journal, task, edit, chain, closing,
                 resolve, envVars>>

\* The seal of the source and the rename that follows it, in one step: the gap
\* between them is AtomicCommit's.  The watcher may see the rename before the
\* self-write is registered.
Replace(s, k) ==
  LET d == DocumentOf[s] IN
  /\ Turn(s, k, "sealed") /\ source[d] = commit[s][k].before
  /\ source' = [source EXCEPT ![d] = commit[s][k].bytes]
  /\ notified' \in {notified, [notified EXCEPT ![d] = TRUE]}
  /\ commit' = [commit EXCEPT ![s][k].pc = "replaced"]
  /\ UNCHANGED <<leaseVars, session, log, journal, task, edit, chain, closing,
                 resolve, envVars>>

\* A rename, fsync or hash that throws, or a source that changed since the
\* rename, leaves the journal row to recovery.
LeaveToRecovery(s, k) ==
  /\ Turn(s, k, "sealed") \/ Turn(s, k, "replaced")
  /\ journal' = Append(journal, [session |-> s, bytes |-> commit[s][k].bytes])
  /\ CommitThrows(s, k)
  /\ UNCHANGED <<leaseVars, source, notified, session, log, task,
                 edit, closing, resolve, envVars>>

Landed(s, k) ==
  /\ Turn(s, k, "replaced")
  /\ source[DocumentOf[s]] = commit[s][k].bytes
  /\ log' = [log EXCEPT ![s] = Append(@, commit[s][k].bytes)]
  /\ NextTurn(s)

\* bindCommittedRevision
Bound(s, sequence) ==
  IF Open(s) THEN [session EXCEPT ![s].committed = sequence] ELSE session

\* Faulty: a save lands without being bound.
RecordSaveUnbound(s) ==
  /\ Landed(s, "save")
  /\ commit' = [commit EXCEPT ![s]["save"] = NoCall]
  /\ UNCHANGED <<leaseVars, source, notified, session, journal, task,
                 edit, closing, resolve, envVars>>

\* The caller's continuation runs before the chain's: the session is bound to
\* the new revision before the next commit of the document starts.
RecordSave(s) ==
  /\ Landed(s, "save")
  /\ commit' = [commit EXCEPT ![s]["save"] = NoCall]
  /\ session' = Bound(s, Len(log'[s]))
  /\ UNCHANGED <<leaseVars, source, notified, journal, task, edit, closing,
                 resolve, envVars>>

\* An accept promotes the candidate's context first.
RecordAccept(s) ==
  /\ Landed(s, "accept")
  /\ commit' = [commit EXCEPT ![s]["accept"].pc = "recorded",
                                ![s]["accept"].sequence = Len(log'[s])]
  /\ UNCHANGED <<leaseVars, source, notified, session, journal, task, edit,
                 closing, resolve, envVars>>

BindAccept(s) ==
  LET t == commit[s]["accept"].task IN
  /\ commit[s]["accept"].pc = "recorded"
  /\ session' = [Bound(s, commit[s]["accept"].sequence) EXCEPT ![s].proposal = NoTask]
  /\ task' = [task EXCEPT ![t] = [NoTaskYet EXCEPT !.pc = "done", !.of = s,
                                                   !.state = "deleted"]]
  /\ commit' = [commit EXCEPT ![s]["accept"] = NoCall]
  /\ UNCHANGED <<leaseVars, source, notified, log, journal, edit, chain, closing,
                 resolve, envVars>>

-----------------------------------------------------------------------------
(***************************************************************************)
(* Close, recovery of a session, and the environment                       *)
(***************************************************************************)

\* The tasks AgentRuntime tracks: those whose beginAgentTask has returned.
Tracked(s) == {t \in Tasks : task[t].of = s /\ task[t].pc \in {"open", "flush"}}

\* abortSession: no more mutations, and the lanes in flight are awaited.
CloseStart(s) ==
  /\ Open(s) /\ closing[s].pc = "idle"
  /\ task' = [t \in Tasks |-> IF t \in Tracked(s) THEN [task[t] EXCEPT !.closing = TRUE]
                                                 ELSE task[t]]
  /\ closing' = [closing EXCEPT ![s] =
       [pc |-> "draining", lanes |-> {t \in Tracked(s) : task[t].pc = "flush"}]]
  /\ UNCHANGED <<leaseVars, source, notified, session, log, journal,
                 edit, commit, chain, resolve, envVars>>

Drained(s) == \A t \in closing[s].lanes : task[t].pc # "flush"

\* Reclaim the tracked task.  If its staging file is gone (its proposal was
\* rejected) the abort throws, closeSession goes on and the lease stays.
CloseAbort(s) ==
  /\ closing[s].pc = "draining" /\ Drained(s)
  /\ \/ \E t \in Tracked(s) :
          /\ task[t].staged # Gone
          /\ Release(task[t].grant)
          /\ task' = [task EXCEPT ![t] = Failed(Ended(t))]
          /\ session' = [session EXCEPT ![s].writer = NoLease,
                           ![s].proposal = IF @ = t THEN NoTask ELSE @]
     \/ /\ \A t \in Tracked(s) : task[t].staged = Gone
        /\ UNCHANGED <<leaseVars, task, session>>
  /\ closing' = [closing EXCEPT ![s] = [pc |-> "ending", lanes |-> {}]]
  /\ UNCHANGED <<source, notified, log, journal, edit, commit, chain, resolve, envVars>>

\* endEdit, and the session is marked closing in the same turn.
CloseEdit(s) ==
  /\ closing[s].pc = "ending"
  /\ IF active[s] = NoLease \/ HoldsHumanLease(s)
     THEN /\ Release(active[s])
          /\ session' = [session EXCEPT ![s].life = "closing", ![s].writer = NoLease]
     ELSE /\ session' = [session EXCEPT ![s].life = "closing"]
          /\ UNCHANGED leaseVars
  /\ closing' = [closing EXCEPT ![s].pc = "mailbox"]
  /\ UNCHANGED <<source, notified, log, journal, task, edit, commit, chain, resolve, envVars>>

CloseFinish(s) ==
  /\ closing[s].pc = "mailbox" /\ MailboxFree(s)
  /\ session' = [session EXCEPT ![s].life = "closed", ![s].identity = "none"]
  /\ closing' = [closing EXCEPT ![s] = NoClose]
  /\ UNCHANGED <<leaseVars, source, notified, log, journal, task,
                 edit, commit, chain, resolve, envVars>>

\* resolveRecoveredSession: capture, then hash the source off the mailbox ...
StartResolve(s) ==
  /\ session[s].life = "recovery" /\ MailboxFree(s)
  /\ resolve[s].pc = "idle"
  /\ resolve' = [resolve EXCEPT ![s] = [pc |-> "apply", revision |-> session[s].committed,
                                        saw |-> source[DocumentOf[s]]]]
  /\ UNCHANGED <<leaseVars, source, notified, session, log, journal, task,
                 edit, commit, chain, closing, envVars>>

\* ... and apply if the revision is still the captured one.
ApplyResolve(s) ==
  /\ resolve[s].pc = "apply" /\ MailboxFree(s)
  /\ session' = IF Open(s) /\ session[s].committed = resolve[s].revision
                THEN [session EXCEPT ![s].life =
                        IF resolve[s].saw = log[s][session[s].committed]
                        THEN "ready" ELSE "conflict"]
                ELSE session
  /\ resolve' = [resolve EXCEPT ![s] = NoResolve]
  /\ UNCHANGED <<leaseVars, source, notified, log, journal, task,
                 edit, commit, chain, closing, envVars>>

ExternalWrite(d, content) ==
  /\ writes < MaxWrites
  /\ content # source[d]
  /\ source' = [source EXCEPT ![d] = content]
  /\ notified' = [notified EXCEPT ![d] = TRUE]
  /\ writes' = writes + 1
  /\ UNCHANGED <<leaseVars, session, log, journal, task, callVars, restarts>>

\* Recovery lands the unresolved commits of s whose bytes the source holds,
\* each once, and aborts the others.
LandedByRecovery(s) ==
  LET held == source[DocumentOf[s]]
      rows == {i \in 1..Len(journal) : journal[i].session = s /\ journal[i].bytes = held}
      live == {k \in Kinds : /\ commit[s][k].pc \in {"sealed", "replaced"}
                             /\ commit[s][k].bytes = held}
  IN [i \in 1..(Cardinality(rows) + Cardinality(live)) |-> held]

Reviewable(s) == {t \in LiveCandidates(s) : task[t].state \in {"ready", "human-amended"}}

\* rehydrateFromDb and reconcileRecoveredCandidates: a session needs a revision
\* to come back, and only a proposal under review comes back with it.
Rehydrated(s) ==
  IF ~Open(s) THEN session[s]
  ELSE IF log'[s] = <<>> THEN [session[s] EXCEPT !.life = "closed", !.identity = "none"]
  ELSE [life |-> "recovery", identity |-> "none", committed |-> Len(log'[s]),
        writer |-> NoLease,
        proposal |-> IF Reviewable(s) = {} THEN NoTask ELSE CHOOSE t \in Reviewable(s) : TRUE]

Reconciled(t) ==
  LET left == IF task[t].pc = "idle" THEN task[t] ELSE [Ended(t) EXCEPT !.report = Gone]
  IN IF \E s \in Sessions : /\ Open(s) /\ log'[s] # <<>>
                            /\ t \in LiveCandidates(s) \ Reviewable(s)
     THEN Failed(left) ELSE left

\* The process ends at any point and starts again: journal recovery, sessions,
\* candidates.
Restart ==
  /\ restarts < MaxRestarts
  /\ LoseLeases
  /\ log' = [s \in Sessions |-> log[s] \o LandedByRecovery(s)]
  /\ journal' = <<>>
  /\ session' = [s \in Sessions |-> Rehydrated(s)]
  /\ task' = [t \in Tasks |-> Reconciled(t)]
  /\ notified' = [d \in Documents |-> FALSE]
  /\ edit' = [s \in Sessions |-> NoEdit]
  /\ commit' = [s \in Sessions |-> [k \in Kinds |-> NoCall]]
  /\ chain' = [d \in Documents |-> <<>>]
  /\ closing' = [s \in Sessions |-> NoClose]
  /\ resolve' = [s \in Sessions |-> NoResolve]
  /\ restarts' = restarts + 1
  /\ UNCHANGED <<source, writes>>

-----------------------------------------------------------------------------
EditStep(s) == MountEditor(s) \/ HashForEdit(s) \/ ApplyEdit(s) \/ RefuseEdit(s)

IdentityStep(s) == BindIdentity(s) \/ UnstableIdentity(s)

CommitStep(s, k) ==
  SealCommit(s, k) \/ RefuseCommit(s, k) \/ Replace(s, k) \/ LeaveToRecovery(s, k)

RecordStep(s) == RecordSave(s) \/ RecordAccept(s) \/ BindAccept(s)

CloseStep(s) == CloseAbort(s) \/ CloseEdit(s) \/ CloseFinish(s)

TaskStep(t) ==
  \/ IdentityForTask(t) \/ AcquireWriter(t) \/ RefuseTask(t)
  \/ CloneFails(t) \/ CloneSource(t)
  \/ Register(t) \/ RefuseRegister(t) \/ RegisterInClosed(t)
  \/ FinishFlush(t) \/ FailFlush(t)

VerifyStep(t) == PassVerify(t) \/ FailVerify(t) \/ DropVerify(t)

\* What a caller of the service may ask for.
Call ==
  \/ \E s \in Sessions :
       \/ OpenSession(s) \/ BeginEdit(s) \/ BareSave(s) \/ EndEdit(s)
       \/ Reject(s) \/ StartAccept(s) \/ CloseStart(s) \/ StartResolve(s)
       \/ \E bytes \in Contents : StartSave(s, bytes)
       \/ \E t \in Tasks : BeginTask(t, s)
  \/ \E t \in Tasks :
       \/ StartFlush(t) \/ StartVerify(t) \/ Finalize(t)
       \/ \E bytes \in Contents : Mutate(t, bytes) \/ Amend(t, bytes)

\* What goes on without a caller.
Continue ==
  \/ \E s \in Sessions :
       \/ IdentityStep(s) \/ EditStep(s) \/ RecordStep(s) \/ CloseStep(s) \/ ApplyResolve(s)
       \/ \E k \in Kinds : CommitStep(s, k)
  \/ \E t \in Tasks : TaskStep(t) \/ VerifyStep(t)

Environment ==
  \/ \E d \in Documents : WatcherFires(d) \/ \E c \in Contents : ExternalWrite(d, c)
  \/ Restart

Next == Call \/ Continue \/ Environment

Spec == Init /\ [][Next]_vars

\* Every await ends: hashes, copies, renames, the engine and the scheduler's
\* jobs return or throw, and the event loop runs every continuation.
Fairness ==
  /\ \A s \in Sessions :
       /\ WF_vars(IdentityStep(s)) /\ WF_vars(EditStep(s))
       /\ WF_vars(CloseStep(s)) /\ WF_vars(ApplyResolve(s))
       /\ \A k \in Kinds : WF_vars(CommitStep(s, k) \/ RecordStep(s))
  /\ \A t \in Tasks : WF_vars(TaskStep(t)) /\ WF_vars(VerifyStep(t))

FairSpec == Spec /\ Fairness

-----------------------------------------------------------------------------
(***************************************************************************)
(* Properties                                                              *)
(***************************************************************************)

\* INV-03: a new lease's token exceeds every token its session ever had, in
\* this process or in one before it, so a writer of the past stays fenced.
FencingTokensGrow ==
  [][\A s \in Sessions :
       /\ issued'[s] >= issued[s]
       /\ active'[s] \notin {NoLease, active[s]} => active'[s].token > issued[s]]_vars

\* The writer a session shows is the writer that holds its lease: accept,
\* endEdit and the begin of a task look at different copies of this fact.
WriterIsBound ==
  \A s \in Sessions : Open(s) => session[s].writer = active[s]

\* Section 13: a human edits and a proposal is open in turns, never together.
HumanExcludesProposal ==
  \A s \in Sessions : HoldsHumanLease(s) => LiveCandidates(s) = {}

\* A session has one proposal at a time, restarts included, and it is the one
\* accept and reject act upon.
OneProposal ==
  \A s \in Sessions : Open(s) =>
    \A t \in LiveCandidates(s) :
      /\ LiveCandidates(s) = {t}
      /\ session[s].proposal = t

\* INV-08 and INV-09: an accept seals bytes that a report, bound to exactly
\* those bytes, has been published for.
AcceptsSealReportedBytes ==
  [][\A s \in Sessions :
       commit[s]["accept"].pc = "queued" /\ commit'[s]["accept"].pc = "sealed" =>
         LET t == commit[s]["accept"].task IN
         task[t].staged = commit[s]["accept"].bytes
           /\ task[t].verified = commit[s]["accept"].bytes]_vars

\* INV-10 end to end: whoever waits in the commit chain, and however long,
\* what a commit overwrites is a revision of its own session: a write by
\* another program or by another session of the document is never lost (but
\* for a write in the gap before the rename, see AtomicCommit).
NothingForeignIsOverwritten ==
  [][\A s \in Sessions, k \in Kinds :
       commit[s][k].pc = "sealed" /\ commit'[s][k].pc = "replaced" =>
         source[DocumentOf[s]] \in Range(log[s])]_vars

\* The revision a session works on is the last one of its table; only an
\* accept that landed may still have to bind it.
CommittedIsLatest ==
  \A s \in Sessions :
    Open(s) => \/ session[s].committed = Len(log[s])
               \/ commit[s]["accept"].pc = "recorded"

\* Edits, saves, accepts, closes and task begins settle: no order of commits
\* in the chain and sections in the mailbox leaves one waiting.
OperationsSettle ==
  /\ \A s \in Sessions :
       /\ edit[s].pc # "idle" ~> edit[s].pc = "idle"
       /\ closing[s].pc # "idle" ~> closing[s].pc = "idle"
       /\ \A k \in Kinds : commit[s][k].pc # "idle" ~> commit[s][k].pc = "idle"
  /\ \A t \in Tasks : task[t].pc = "begin" ~> task[t].pc \in {"open", "done"}

\* Stated by lease-manager.ts:19-24: one writer per document; so nobody
\* replaces a document another session holds the writer of.
OnlyWritersReplace ==
  [][\A s \in Sessions, k \in Kinds :
       commit[s][k].pc = "sealed" /\ commit'[s][k].pc = "replaced" =>
         bySource[DocumentOf[s]] = NoLease \/ bySource[DocumentOf[s]].session = s]_vars

=============================================================================
