------------------------ MODULE WriterSession_proofs ------------------------
(***************************************************************************)
(* Theorems about WriterSession for any number of sessions, documents,     *)
(* tasks, contents and restarts.                                           *)
(*                                                                         *)
(* First the writer leases.  Whatever the sessions, tasks and commits do,  *)
(* they touch the leases only through the LeaseManager: every step         *)
(* acquires a lease, releases one, loses them all with the process, or     *)
(* leaves them alone (NextLeases).  The lemmas about these operations then *)
(* give the theorems.                                                      *)
(*                                                                         *)
(* Then the writer a session shows, the exclusion of humans and proposals, *)
(* the one proposal of a session, the bytes an accept seals and the        *)
(* revisions a commit overwrites.  Most steps only take away: a lease      *)
(* ends, a proposal fails, a call returns.  They satisfy Shrinks, and      *)
(* ShrinkKeeps covers them all.  The six that add something (a session     *)
(* opens, a human or a task takes the writer, a task begins, registers its *)
(* proposal, an accept starts) are proved one by one.                      *)
(*                                                                         *)
(* At the end the history of a session: its requests follow one another in *)
(* the queue, its revisions are its own, an edit works on the latest of    *)
(* them.  These invariants need the types, and give them.                  *)
(***************************************************************************)
EXTENDS WriterSession, FiniteSetTheorems, TLAPS

LeaseStep ==
  \/ UNCHANGED leaseVars
  \/ \E s \in Sessions, owner \in Owner : Acquire(s, owner)
  \/ \E lease : Release(lease)
  \/ LoseLeases

LeaseInv == LeaseTypeOK /\ LeaseIndexesAgree

-----------------------------------------------------------------------------
(***************************************************************************)
(* The operations of the lease manager                                     *)
(***************************************************************************)

\* A new lease is a lease: the next token is positive.
LEMMA NextLeaseType ==
  ASSUME LeaseTypeOK, NEW s \in Sessions, NEW owner \in Owner
  PROVE  NextLease(s, owner) \in Lease
BY DEF LeaseTypeOK, NextLease, Lease

\* Acquiring keeps the indexes typed and in agreement.
LEMMA AcquireKeeps ==
  ASSUME LeaseInv, NEW s \in Sessions, NEW owner \in Owner, Acquire(s, owner)
  PROVE  LeaseInv'
<1>1. NextLease(s, owner) \in Lease /\ NextLease(s, owner) # NoLease
  BY NextLeaseType, LeaseAssumption DEF LeaseInv
<1>2. NextLease(s, owner).session = s /\ NextLease(s, owner).token = issued'[s]
  BY DEF Acquire, NextLease, LeaseInv, LeaseTypeOK
<1>3. DocumentOf \in [Sessions -> Documents]
  BY SessionAssumption
<1>4. LeaseTypeOK'
  <2>1. issued' \in [Sessions -> Nat]
    BY DEF Acquire, LeaseInv, LeaseTypeOK
  <2>2. active' \in [Sessions -> Lease \cup {NoLease}]
    BY <1>1 DEF Acquire, LeaseInv, LeaseTypeOK
  <2>3. bySource' \in [Documents -> Lease \cup {NoLease}]
    BY <1>1, <1>3 DEF Acquire, LeaseInv, LeaseTypeOK
  <2> QED
    BY <2>1, <2>2, <2>3 DEF LeaseTypeOK
<1>5. \A r \in Sessions : active'[r] # NoLease =>
        /\ active'[r].session = r
        /\ bySource'[DocumentOf[r]] = active'[r]
        /\ active'[r].token = issued'[r]
  <2> SUFFICES ASSUME NEW r \in Sessions, active'[r] # NoLease
               PROVE  /\ active'[r].session = r
                      /\ bySource'[DocumentOf[r]] = active'[r]
                      /\ active'[r].token = issued'[r]
    OBVIOUS
  <2>1. CASE r = s
    BY <2>1, <1>1, <1>2, <1>3 DEF Acquire, LeaseInv, LeaseTypeOK
  <2>2. CASE r # s
    <3>1. active'[r] = active[r] /\ issued'[r] = issued[r] /\ active[r] # NoLease
      BY <2>2 DEF Acquire, LeaseInv, LeaseTypeOK
    <3>2. bySource[DocumentOf[r]] = active[r]
      BY <3>1 DEF LeaseInv, LeaseIndexesAgree
    <3>3. DocumentOf[r] # DocumentOf[s]
      BY <3>1, <3>2 DEF Acquire, CanAcquire
    <3> QED
      BY <3>1, <3>2, <3>3, <1>3 DEF Acquire, LeaseInv, LeaseTypeOK, LeaseIndexesAgree
  <2> QED
    BY <2>1, <2>2
<1>6. \A d \in Documents : bySource'[d] # NoLease =>
        /\ DocumentOf[bySource'[d].session] = d
        /\ active'[bySource'[d].session] = bySource'[d]
  <2> SUFFICES ASSUME NEW d \in Documents, bySource'[d] # NoLease
               PROVE  /\ DocumentOf[bySource'[d].session] = d
                      /\ active'[bySource'[d].session] = bySource'[d]
    OBVIOUS
  <2>1. CASE d = DocumentOf[s]
    BY <2>1, <1>1, <1>2 DEF Acquire, LeaseInv, LeaseTypeOK
  <2>2. CASE d # DocumentOf[s]
    <3>1. bySource'[d] = bySource[d]
      BY <2>2 DEF Acquire, LeaseInv, LeaseTypeOK
    <3>2. /\ DocumentOf[bySource[d].session] = d
          /\ active[bySource[d].session] = bySource[d]
      BY <3>1 DEF LeaseInv, LeaseIndexesAgree
    <3>3. bySource[d].session # s
      BY <2>2, <3>2
    <3> QED
      BY <3>1, <3>2, <3>3 DEF Acquire, LeaseInv, LeaseTypeOK
  <2> QED
    BY <2>1, <2>2
<1> QED
  BY <1>4, <1>5, <1>6 DEF LeaseInv, LeaseIndexesAgree

\* Releasing any lease, an unknown one among them, keeps them so too.
LEMMA ReleaseKeeps ==
  ASSUME LeaseInv, NEW lease, Release(lease)
  PROVE  LeaseInv'
<1> DEFINE known == \E s \in Sessions : active[s] = lease
<1>1. LeaseTypeOK'
  BY DEF Release, LeaseInv, LeaseTypeOK
<1>2. \A r \in Sessions : active'[r] # NoLease =>
        /\ active'[r].session = r
        /\ bySource'[DocumentOf[r]] = active'[r]
        /\ active'[r].token = issued'[r]
  <2> SUFFICES ASSUME NEW r \in Sessions, active'[r] # NoLease
               PROVE  /\ active'[r].session = r
                      /\ bySource'[DocumentOf[r]] = active'[r]
                      /\ active'[r].token = issued'[r]
    OBVIOUS
  <2>1. active'[r] = active[r] /\ active[r] # lease /\ active[r] # NoLease
    BY DEF Release
  <2>2. /\ active[r].session = r /\ bySource[DocumentOf[r]] = active[r]
        /\ active[r].token = issued[r]
    BY <2>1 DEF LeaseInv, LeaseIndexesAgree
  <2>3. DocumentOf[r] \in Documents
    BY SessionAssumption
  <2> QED
    BY <2>1, <2>2, <2>3 DEF Release
<1>3. \A d \in Documents : bySource'[d] # NoLease =>
        /\ DocumentOf[bySource'[d].session] = d
        /\ active'[bySource'[d].session] = bySource'[d]
  <2> SUFFICES ASSUME NEW d \in Documents, bySource'[d] # NoLease
               PROVE  /\ DocumentOf[bySource'[d].session] = d
                      /\ active'[bySource'[d].session] = bySource'[d]
    OBVIOUS
  <2>1. bySource'[d] = bySource[d] /\ ~(known /\ bySource[d] = lease)
    BY DEF Release
  <2>2. /\ DocumentOf[bySource[d].session] = d
        /\ active[bySource[d].session] = bySource[d]
    BY <2>1 DEF LeaseInv, LeaseIndexesAgree
  <2>3. bySource[d].session \in Sessions
    BY <2>1 DEF LeaseInv, LeaseTypeOK, Lease
  <2>4. bySource[d] # lease
    BY <2>1, <2>2, <2>3
  <2> QED
    BY <2>1, <2>2, <2>3, <2>4 DEF Release
<1> QED
  BY <1>1, <1>2, <1>3 DEF LeaseInv, LeaseIndexesAgree

\* A new process has no lease, so nothing to agree on.
LEMMA LoseKeeps ==
  ASSUME LeaseInv, LoseLeases
  PROVE  LeaseInv'
BY DEF LoseLeases, LeaseInv, LeaseTypeOK, LeaseIndexesAgree

\* So a step of the lease manager keeps both.
LEMMA LeaseStepKeeps ==
  ASSUME LeaseInv, LeaseStep
  PROVE  LeaseInv'
<1>1. CASE UNCHANGED leaseVars
  BY <1>1 DEF leaseVars, LeaseInv, LeaseTypeOK, LeaseIndexesAgree
<1>2. CASE \E s \in Sessions, owner \in Owner : Acquire(s, owner)
  BY <1>2, AcquireKeeps
<1>3. CASE \E lease : Release(lease)
  BY <1>3, ReleaseKeeps
<1>4. CASE LoseLeases
  BY <1>4, LoseKeeps
<1> QED
  BY <1>1, <1>2, <1>3, <1>4 DEF LeaseStep

-----------------------------------------------------------------------------
(***************************************************************************)
(* The steps of the sessions, tasks and commits                            *)
(***************************************************************************)

\* What a caller asks for touches the leases through the lease manager only.
LEMMA CallLeases ==
  ASSUME Call
  PROVE  LeaseStep
<1>1. ASSUME NEW s \in Sessions,
             \/ OpenSession(s) \/ BeginEdit(s) \/ BareSave(s)
             \/ Reject(s) \/ StartAccept(s) \/ CloseStart(s) \/ StartResolve(s)
             \/ \E bytes \in Contents : StartSave(s, bytes)
             \/ \E t \in Tasks : BeginTask(t, s)
      PROVE  UNCHANGED leaseVars
  BY <1>1 DEF OpenSession, BeginEdit, BareSave, Reject, StartAccept, CloseStart,
              StartResolve, StartSave, BeginTask
<1>2. ASSUME NEW s \in Sessions, EndEdit(s)
      PROVE  Release(active[s])
  BY <1>2 DEF EndEdit
<1>3. ASSUME NEW t \in Tasks,
             \/ StartFlush(t) \/ StartVerify(t)
             \/ \E bytes \in Contents : Mutate(t, bytes) \/ Amend(t, bytes)
      PROVE  UNCHANGED leaseVars
  BY <1>3 DEF StartFlush, StartVerify, Mutate, Amend
<1>4. ASSUME NEW t \in Tasks, Finalize(t)
      PROVE  Release(task[t].grant)
  BY <1>4 DEF Finalize
<1> QED
  BY <1>1, <1>2, <1>3, <1>4 DEF Call, LeaseStep

\* An edit takes the human lease when it is applied, and only then.
LEMMA EditLeases ==
  ASSUME NEW s \in Sessions, EditStep(s)
  PROVE  LeaseStep
<1>1. CASE ApplyEdit(s)
  BY <1>1 DEF ApplyEdit, LeaseStep, Owner
<1>2. CASE MountEditor(s) \/ HashForEdit(s) \/ RefuseEdit(s)
  BY <1>2 DEF MountEditor, HashForEdit, RefuseEdit, LeaseStep
<1> QED
  BY <1>1, <1>2 DEF EditStep

\* A close releases the lease of the task it reclaims, then the human's.
LEMMA CloseLeases ==
  ASSUME NEW s \in Sessions, CloseStep(s)
  PROVE  LeaseStep
<1>1. CASE CloseAbort(s)
  BY <1>1 DEF CloseAbort, LeaseStep
<1>2. CASE CloseEdit(s)
  BY <1>2 DEF CloseEdit, LeaseStep
<1>3. CASE CloseFinish(s)
  BY <1>3 DEF CloseFinish, LeaseStep
<1> QED
  BY <1>1, <1>2, <1>3 DEF CloseStep

\* A task takes the agent lease once and gives it up when it is refused.
LEMMA TaskLeases ==
  ASSUME NEW t \in Tasks, TaskStep(t)
  PROVE  LeaseStep
<1>1. CASE AcquireWriter(t)
  BY <1>1 DEF AcquireWriter, LeaseStep, Owner
<1>2. CASE CloneFails(t) \/ RefuseRegister(t)
  <2>1. Release(task[t].grant)
    BY <1>2 DEF CloneFails, RefuseRegister, GiveUp
  <2> QED
    BY <2>1 DEF LeaseStep
<1>3. CASE \/ IdentityForTask(t) \/ RefuseTask(t) \/ CloneSource(t) \/ Register(t)
           \/ RegisterInClosed(t) \/ FinishFlush(t) \/ FailFlush(t)
  BY <1>3 DEF IdentityForTask, RefuseTask, CloneSource, Register, RegisterInClosed,
              FinishFlush, FailFlush, LeaseStep
<1> QED
  BY <1>1, <1>2, <1>3 DEF TaskStep

\* What goes on without a caller touches the leases through it too: commits,
\* hashes and verifications not at all.
LEMMA ContinueLeases ==
  ASSUME Continue
  PROVE  LeaseStep
<1>1. ASSUME NEW s \in Sessions,
             IdentityStep(s) \/ RecordStep(s) \/ ApplyResolve(s)
      PROVE  UNCHANGED leaseVars
  BY <1>1 DEF IdentityStep, BindIdentity, UnstableIdentity, ApplyResolve,
              RecordStep, RecordSave, RecordAccept, BindAccept
<1>2. ASSUME NEW s \in Sessions, NEW k \in Kinds, CommitStep(s, k)
      PROVE  UNCHANGED leaseVars
  BY <1>2 DEF CommitStep, SealCommit, RefuseCommit, Replace, LeaveToRecovery
<1>3. ASSUME NEW t \in Tasks, VerifyStep(t)
      PROVE  UNCHANGED leaseVars
  BY <1>3 DEF VerifyStep, PassVerify, FailVerify, DropVerify
<1> QED
  BY <1>1, <1>2, <1>3, EditLeases, CloseLeases, TaskLeases DEF Continue, LeaseStep

\* Every step of the system is a step of the lease manager or none.
LEMMA NextLeases ==
  ASSUME [Next]_vars
  PROVE  LeaseStep
<1>1. CASE Environment
  BY <1>1 DEF Environment, WatcherFires, ExternalWrite, Restart, LeaseStep
<1>2. CASE UNCHANGED vars
  BY <1>2 DEF vars, LeaseStep
<1> QED
  BY <1>1, <1>2, CallLeases, ContinueLeases DEF Next

-----------------------------------------------------------------------------
(***************************************************************************)
(* Theorems                                                                *)
(***************************************************************************)

\* The invariant behind both theorems: leases are well typed and the two
\* indexes of the lease manager describe the same writers.
THEOREM LeaseInvariant == Spec => []LeaseInv
<1>1. Init => LeaseInv
  BY DEF Init, LeaseInit, LeaseInv, LeaseTypeOK, LeaseIndexesAgree
<1>2. LeaseInv /\ [Next]_vars => LeaseInv'
  BY NextLeases, LeaseStepKeeps
<1> QED
  BY <1>1, <1>2, PTL DEF Spec

\* INV-02 for any number of sessions: whatever edits, tasks, closes, rejects
\* and restarts do, one writer per session and per document.
THEOREM OneWriter == Spec => []LeaseIndexesAgree
<1>1. LeaseInv => LeaseIndexesAgree
  BY DEF LeaseInv
<1> QED
  BY <1>1, LeaseInvariant, PTL

\* INV-03: a fencing token is never handed out twice, restarts included.
THEOREM TokensGrow == Spec => FencingTokensGrow
<1> DEFINE Grows ==
      \A s \in Sessions :
        /\ issued'[s] >= issued[s]
        /\ active'[s] \notin {NoLease, active[s]} => active'[s].token > issued[s]
<1>1. LeaseInv /\ [Next]_vars => Grows
  <2> SUFFICES ASSUME LeaseInv, [Next]_vars, NEW s \in Sessions
               PROVE  /\ issued'[s] >= issued[s]
                      /\ active'[s] \notin {NoLease, active[s]}
                           => active'[s].token > issued[s]
    OBVIOUS
  <2>1. issued[s] \in Nat
    BY DEF LeaseInv, LeaseTypeOK
  <2>2. CASE UNCHANGED leaseVars
    BY <2>1, <2>2 DEF leaseVars
  <2>3. ASSUME NEW r \in Sessions, NEW owner \in Owner, Acquire(r, owner)
        PROVE  /\ issued'[s] >= issued[s]
               /\ active'[s] \notin {NoLease, active[s]}
                    => active'[s].token > issued[s]
    BY <2>1, <2>3 DEF Acquire, NextLease, LeaseInv, LeaseTypeOK
  <2>4. CASE \E lease : Release(lease)
    BY <2>1, <2>4 DEF Release
  <2>5. CASE LoseLeases
    BY <2>1, <2>5 DEF LoseLeases
  <2> QED
    BY <2>2, <2>3, <2>4, <2>5, NextLeases DEF LeaseStep
<1> QED
  BY <1>1, LeaseInvariant, PTL DEF Spec, FencingTokensGrow

-----------------------------------------------------------------------------
(***************************************************************************)
(* The invariant of sessions, tasks and proposals                          *)
(***************************************************************************)

SessionRecords ==
  [life : Life, identity : Identity, committed : Nat,
   writer : Lease \cup {NoLease}, proposal : Tasks \cup {NoTask}]

TaskRecords ==
  [pc : {"idle", "begin", "acquire", "clone", "register", "open", "flush", "done"},
   of : Sessions \cup {NoSession}, grant : Lease \cup {NoLease},
   captured : Nat, base : Nat, closing : BOOLEAN,
   state : CandidateState, staged : Contents \cup {Gone},
   flushed : Contents \cup {Gone}, verified : Contents \cup {Gone},
   report : Contents \cup {Gone}]

CommitRecords ==
  [pc : {"idle", "queued", "sealed", "replaced", "recorded"},
   before : Contents \cup {Gone}, bytes : Contents \cup {Gone},
   task : Tasks \cup {NoTask}, sequence : Nat]

RecordsTyped ==
  /\ source \in [Documents -> Contents \cup {Gone}]
  /\ session \in [Sessions -> SessionRecords]
  /\ task \in [Tasks -> TaskRecords]
  /\ commit \in [Sessions -> [Kinds -> CommitRecords]]
  /\ closing \in [Sessions ->
       [pc : {"idle", "draining", "ending", "mailbox"}, lanes : SUBSET Tasks]]
  /\ log \in [Sessions -> Seq(Contents \cup {Gone})]
  /\ journal \in Seq([session : Sessions, bytes : Contents \cup {Gone}])

\* Where a task holds the writer of its session.
Holding == {"clone", "register", "open", "flush"}

\* A candidate exists from the registration on, and only a candidate is hashed; a task
\* that begins belongs to a session; one that holds the writer holds it under its grant.
TaskAt ==
  \A t \in Tasks :
    /\ task[t].state # "none" => task[t].pc \in {"open", "flush", "done"}
    /\ task[t].pc \in {"open", "flush"} => task[t].state # "none"
    /\ task[t].flushed # Gone \/ task[t].report # Gone => task[t].state # "none"
    /\ task[t].pc # "idle" => task[t].of \in Sessions
    /\ task[t].pc \in Holding =>
         /\ task[t].grant = active[task[t].of]
         /\ task[t].grant # NoLease /\ task[t].grant.owner = "agent"

OneHolder ==
  \A t, u \in Tasks :
    task[t].pc \in Holding /\ task[u].pc \in Holding /\ task[t].of = task[u].of => t = u

\* Between the lease and the registration the session has no proposal.
NoneBeforeRegister ==
  \A t \in Tasks : task[t].pc \in {"clone", "register"} /\ Open(task[t].of) =>
    LiveCandidates(task[t].of) = {}

AbsentIsEmpty ==
  \A s \in Sessions : session[s].life = "absent" =>
    /\ active[s] = NoLease /\ session[s].writer = NoLease
    /\ \A t \in Tasks : task[t].of # s

\* A close in progress is the close of a live session.
CloseIsOpen == \A s \in Sessions : closing[s].pc # "idle" => Open(s)

ProposalIsOwn ==
  \A s \in Sessions : session[s].proposal # NoTask =>
    /\ task[session[s].proposal].of = s
    /\ task[session[s].proposal].state # "none"

\* An accept in flight: nothing else of the session is proposed or about to be, and the
\* candidate can only be rejected or fail.
Accepting(s) == commit[s]["accept"].pc # "idle"

AcceptIsAlone ==
  \A s \in Sessions : Accepting(s) =>
    LET t == commit[s]["accept"].task IN
    /\ t \in Tasks /\ task[t].of = s /\ task[t].pc = "done"
    /\ task[t].state \in {"committing", "failed"}
    /\ LiveCandidates(s) \subseteq {t}
    /\ \A u \in Tasks : task[u].of = s => task[u].pc \notin {"clone", "register"}

\* What waits in the chain is what was reported, unless its file was released.
AcceptIsReported ==
  \A s \in Sessions : commit[s]["accept"].pc = "queued" =>
    LET c == commit[s]["accept"] IN
    /\ c.bytes \in Contents
    /\ task[c.task].staged = c.bytes =>
         task[c.task].verified = c.bytes /\ task[c.task].flushed = c.bytes

WriterInv ==
  /\ LeaseInv /\ RecordsTyped
  /\ TaskAt /\ OneHolder /\ NoneBeforeRegister
  /\ AbsentIsEmpty /\ CloseIsOpen /\ ProposalIsOwn /\ AcceptIsAlone
  /\ WriterIsBound /\ HumanExcludesProposal /\ OneProposal

\* The steps that add nothing: no lease, no proposal, no accept that was not there before.
\* What they take away they take away together.
Shrinks ==
  /\ \A s \in Sessions :
       /\ Open(s)' => Open(s) /\ session'[s].writer = active'[s]
       /\ session'[s].life = "absent" =>
            session[s].life = "absent" /\ session'[s].writer = session[s].writer
       /\ closing'[s].pc # "idle" => Open(s)'
       /\ active'[s] \in {active[s], NoLease}
       /\ session'[s].proposal \in {session[s].proposal, NoTask}
       /\ Open(s)' /\ session'[s].proposal # session[s].proposal => LiveCandidates(s)' = {}
       /\ Accepting(s)' =>
            LET t == commit[s]["accept"].task IN
            /\ Accepting(s) /\ commit'[s]["accept"].task = t
            /\ task[t].state \in {"committing", "failed"} =>
                 task'[t].state \in {"committing", "failed"}
  /\ \A t \in Tasks :
       /\ task'[t].of = task[t].of
       /\ task'[t].pc \in Holding =>
            /\ task[t].pc \in Holding /\ task'[t].grant = task[t].grant
            /\ active'[task[t].of] = active[task[t].of]
       /\ task'[t].pc \in {"clone", "register"} => task[t].pc \in {"clone", "register"}
       /\ task'[t].pc \in {"open", "flush"} => task[t].pc \in {"open", "flush"}
       /\ task'[t].pc # "idle" => task[t].pc # "idle"
       /\ task[t].pc \in {"open", "flush", "done"} => task'[t].pc \in {"open", "flush", "done"}
       /\ task[t].pc = "done" => task'[t].pc = "done"
       /\ task'[t].state = "none" <=> task[t].state = "none"
       /\ task'[t].flushed # Gone \/ task'[t].report # Gone => task'[t].state # "none"
       /\ task'[t].state \notin {"none", "failed", "deleted"} =>
            task[t].state \notin {"none", "failed", "deleted"}

\* A step that adds nothing keeps what the invariant relates.
LEMMA ShrinkKeeps ==
  ASSUME WriterInv, LeaseInv', RecordsTyped', Shrinks
  PROVE  WriterInv'
<1>1. \A s \in Sessions : LiveCandidates(s)' \subseteq LiveCandidates(s)
  BY DEF Shrinks, LiveCandidates
<1>2. TaskAt'
  <2> SUFFICES ASSUME NEW t \in Tasks
               PROVE  /\ task'[t].state # "none" => task'[t].pc \in {"open", "flush", "done"}
                      /\ task'[t].pc \in {"open", "flush"} => task'[t].state # "none"
                      /\ task'[t].flushed # Gone \/ task'[t].report # Gone =>
                           task'[t].state # "none"
                      /\ task'[t].pc # "idle" => task'[t].of \in Sessions
                      /\ task'[t].pc \in Holding =>
                           /\ task'[t].grant = active'[task'[t].of]
                           /\ task'[t].grant # NoLease /\ task'[t].grant.owner = "agent"
    BY DEF TaskAt
  <2> QED BY DEF Shrinks, WriterInv, TaskAt
<1>3. OneHolder'
  BY DEF Shrinks, WriterInv, OneHolder
<1>4. NoneBeforeRegister'
  <2> SUFFICES ASSUME NEW t \in Tasks, task'[t].pc \in {"clone", "register"}, Open(task[t].of)'
               PROVE  LiveCandidates(task[t].of)' = {}
    BY DEF NoneBeforeRegister
  <2>1. task'[t].of = task[t].of /\ task[t].pc \in {"clone", "register"} /\ task[t].of \in Sessions
    BY DEF Shrinks, WriterInv, TaskAt
  <2>2. Open(task[t].of)
    BY <2>1 DEF Shrinks
  <2> QED BY <1>1, <2>1, <2>2 DEF WriterInv, NoneBeforeRegister
<1>5. AbsentIsEmpty'
  BY DEF Shrinks, WriterInv, AbsentIsEmpty
<1>6. ProposalIsOwn'
  <2> SUFFICES ASSUME NEW s \in Sessions, session'[s].proposal # NoTask
               PROVE  /\ task'[session'[s].proposal].of = s
                      /\ task'[session'[s].proposal].state # "none"
    BY DEF ProposalIsOwn
  <2>1. session'[s].proposal = session[s].proposal /\ session[s].proposal \in Tasks
    BY DEF Shrinks, WriterInv, RecordsTyped, SessionRecords
  <2> QED BY <2>1 DEF Shrinks, WriterInv, ProposalIsOwn
<1>7. AcceptIsAlone'
  <2> SUFFICES ASSUME NEW s \in Sessions, Accepting(s)'
               PROVE  LET t == commit'[s]["accept"].task IN
                      /\ t \in Tasks /\ task'[t].of = s /\ task'[t].pc = "done"
                      /\ task'[t].state \in {"committing", "failed"}
                      /\ LiveCandidates(s)' \subseteq {t}
                      /\ \A u \in Tasks : task'[u].of = s => task'[u].pc \notin {"clone", "register"}
    BY DEF AcceptIsAlone
  <2> DEFINE t == commit[s]["accept"].task
  <2>1. Accepting(s) /\ commit'[s]["accept"].task = t
        /\ (task[t].state \in {"committing", "failed"} => task'[t].state \in {"committing", "failed"})
    BY DEF Shrinks
  <2>2. /\ t \in Tasks /\ task[t].of = s /\ task[t].pc = "done"
        /\ task[t].state \in {"committing", "failed"}
        /\ LiveCandidates(s) \subseteq {t}
        /\ \A u \in Tasks : task[u].of = s => task[u].pc \notin {"clone", "register"}
    BY <2>1 DEF WriterInv, AcceptIsAlone
  <2> HIDE DEF t
  <2> QED BY <1>1, <2>1, <2>2 DEF Shrinks
<1>8. WriterIsBound'
  BY DEF Shrinks, WriterIsBound
<1>9. HumanExcludesProposal'
  BY <1>1 DEF Shrinks, WriterInv, HumanExcludesProposal, HoldsHumanLease
<1>10. OneProposal'
  <2> SUFFICES ASSUME NEW s \in Sessions, Open(s)', NEW t \in LiveCandidates(s)'
               PROVE  LiveCandidates(s)' = {t} /\ session'[s].proposal = t
    BY DEF OneProposal
  <2>1. Open(s) /\ t \in LiveCandidates(s) /\ session'[s].proposal = session[s].proposal
    BY <1>1 DEF Shrinks
  <2>2. LiveCandidates(s) = {t} /\ session[s].proposal = t
    BY <2>1 DEF WriterInv, OneProposal
  <2> QED BY <1>1, <2>1, <2>2
<1>11. CloseIsOpen'
  BY DEF Shrinks, CloseIsOpen
<1> QED BY <1>11, <1>2, <1>3, <1>4, <1>5, <1>6, <1>7, <1>8, <1>9, <1>10 DEF WriterInv

\* Nothing but leases, sessions, tasks and accepts matters to the invariant.
LEMMA NothingShrinks ==
  ASSUME WriterInv, UNCHANGED <<leaseVars, session, task, closing>>,
         \A s \in Sessions : Accepting(s)' =>
           Accepting(s) /\ commit'[s]["accept"].task = commit[s]["accept"].task
  PROVE  Shrinks
BY DEF Shrinks, WriterInv, WriterIsBound, CloseIsOpen, leaseVars, Open, TaskAt


-----------------------------------------------------------------------------
(***************************************************************************)
(* The steps that only take away                                           *)
(***************************************************************************)

\* What is captured, hashed, queued, copied or written by others adds nothing.
LEMMA QuietShrinks ==
  ASSUME WriterInv, NEW s \in Sessions, NEW k \in Kinds,
         \/ BeginEdit(s) \/ MountEditor(s) \/ HashForEdit(s) \/ StartResolve(s)
         \/ \E bytes \in Contents : StartSave(s, bytes)
         \/ CommitStep(s, k) \/ RecordAccept(s)
         \/ \E d \in Documents, c \in Contents : ExternalWrite(d, c)
  PROVE  Shrinks
<1>1. UNCHANGED <<leaseVars, session, task, closing>>
  BY DEF BeginEdit, MountEditor, HashForEdit, StartResolve, StartSave, CommitStep,
         SealCommit, RefuseCommit, Replace, LeaveToRecovery, RecordAccept, ExternalWrite,
         callVars
<1> SUFFICES ASSUME NEW r \in Sessions, Accepting(r)'
             PROVE  Accepting(r) /\ commit'[r]["accept"].task = commit[r]["accept"].task
  BY <1>1, NothingShrinks
<1>2. commit \in [Sessions -> [Kinds -> CommitRecords]] /\ "accept" \in Kinds
  BY DEF WriterInv, RecordsTyped, Kinds
<1>3. CASE \/ BeginEdit(s) \/ MountEditor(s) \/ HashForEdit(s) \/ StartResolve(s)
           \/ \E d \in Documents, c \in Contents : ExternalWrite(d, c)
  BY <1>3 DEF BeginEdit, MountEditor, HashForEdit, StartResolve, ExternalWrite, callVars,
              Accepting
<1>4. CASE \E bytes \in Contents : StartSave(s, bytes)
  <2>1. commit'[r]["accept"] = commit[r]["accept"]
    BY <1>2, <1>4 DEF StartSave, Kinds
  <2> QED BY <2>1 DEF Accepting
<1>5. CASE SealCommit(s, k) \/ Replace(s, k)
  <2>1. /\ commit[s][k].pc # "idle"
        /\ \E pc, before : commit' = [commit EXCEPT ![s][k].pc = pc, ![s][k].before = before]
    <3>1. CASE SealCommit(s, k)
      BY <3>1 DEF SealCommit, Turn
    <3>2. CASE Replace(s, k)
      <4>1. commit' = [commit EXCEPT ![s][k].pc = "replaced", ![s][k].before = commit[s][k].before]
        BY <3>2, <1>2 DEF Replace, Turn, CommitRecords
      <4> QED BY <4>1, <3>2 DEF Replace, Turn
    <3> QED BY <3>1, <3>2, <1>5
  <2>2. PICK pc, before : commit' = [commit EXCEPT ![s][k].pc = pc, ![s][k].before = before]
    BY <2>1
  <2>3. CASE r = s /\ k = "accept"
    BY <1>2, <2>1, <2>2, <2>3 DEF Accepting, CommitRecords
  <2>4. CASE r # s \/ k # "accept"
    <3>1. commit'[r]["accept"] = commit[r]["accept"]
      BY <1>2, <2>2, <2>4
    <3> QED BY <3>1 DEF Accepting
  <2> QED BY <2>3, <2>4
<1>6. CASE RefuseCommit(s, k) \/ LeaveToRecovery(s, k)
  <2>1. commit' = [commit EXCEPT ![s][k] = NoCall]
    BY <1>6 DEF RefuseCommit, LeaveToRecovery, CommitThrows
  <2>2. commit'[r]["accept"] \in {commit[r]["accept"], NoCall}
    BY <1>2, <2>1
  <2> QED BY <2>2 DEF Accepting, NoCall
<1>7. CASE RecordAccept(s)
  BY <1>2, <1>7 DEF RecordAccept, Landed, Turn, Accepting, CommitRecords
<1> QED BY <1>3, <1>4, <1>5, <1>6, <1>7 DEF CommitStep

\* A step that leaves the leases, the tasks and the accepts alone and of the sessions changes only
\* the identity, the revision and which kind of open session it is, or closes it.
LEMMA LifeShrinks ==
  ASSUME WriterInv, UNCHANGED <<leaseVars, task>>,
         \A s \in Sessions :
           /\ session'[s].writer = session[s].writer
           /\ session'[s].proposal = session[s].proposal
           /\ session'[s].life = "absent" <=> session[s].life = "absent"
           /\ Open(s)' => Open(s)
           /\ closing'[s].pc # "idle" => Open(s)'
           /\ Accepting(s)' =>
                Accepting(s) /\ commit'[s]["accept"].task = commit[s]["accept"].task
  PROVE  Shrinks
BY DEF Shrinks, WriterInv, WriterIsBound, leaseVars, TaskAt

\* The steps of one session that touch neither lease nor proposal, and the watcher's.
LEMMA SessionShrinks ==
  ASSUME WriterInv, NEW s \in Sessions,
         \/ BareSave(s) \/ IdentityStep(s) \/ RefuseEdit(s) \/ RecordSave(s)
         \/ ApplyResolve(s) \/ CloseFinish(s)
         \/ \E d \in Documents : WatcherFires(d)
  PROVE  Shrinks
<1>1. UNCHANGED <<leaseVars, task>>
  BY DEF BareSave, IdentityStep, BindIdentity, UnstableIdentity, RefuseEdit, RecordSave,
         ApplyResolve, CloseFinish, WatcherFires
<1> SUFFICES ASSUME NEW r \in Sessions
             PROVE  /\ session'[r].writer = session[r].writer
                    /\ session'[r].proposal = session[r].proposal
                    /\ session'[r].life = "absent" <=> session[r].life = "absent"
                    /\ Open(r)' => Open(r)
                    /\ closing'[r].pc # "idle" => Open(r)'
                    /\ Accepting(r)' =>
                         Accepting(r) /\ commit'[r]["accept"].task = commit[r]["accept"].task
  BY <1>1, LifeShrinks
<1>2. /\ session \in [Sessions -> SessionRecords] /\ "accept" \in Kinds
      /\ commit \in [Sessions -> [Kinds -> CommitRecords]]
      /\ closing[r].pc # "idle" => Open(r)
      /\ closing \in [Sessions ->
           [pc : {"idle", "draining", "ending", "mailbox"}, lanes : SUBSET Tasks]]
  BY DEF WriterInv, RecordsTyped, CloseIsOpen, Kinds
<1>3. CASE BareSave(s) \/ UnstableIdentity(s)
  BY <1>2, <1>3 DEF BareSave, UnstableIdentity, Conflicted, Open, Accepting, callVars,
                    SessionRecords
<1>4. CASE BindIdentity(s)
  BY <1>2, <1>4 DEF BindIdentity, Open, Accepting, callVars, SessionRecords
<1>5. CASE RefuseEdit(s)
  <2>1. /\ UNCHANGED <<commit, closing>>
        /\ \/ UNCHANGED session
           \/ session[s].life = "ready" /\ session' = [session EXCEPT ![s].life = "conflict"]
    BY <1>5 DEF RefuseEdit, MayPromote
  <2>2. CASE UNCHANGED session
    BY <1>2, <2>1, <2>2 DEF Open, Accepting
  <2>3. CASE session[s].life = "ready" /\ session' = [session EXCEPT ![s].life = "conflict"]
    <3> DEFINE x == [session[s] EXCEPT !.life = "conflict"]
    <3>1. session' = [session EXCEPT ![s] = x]
      BY <2>3
    <3>2. x.life = "conflict" /\ x.writer = session[s].writer /\ x.proposal = session[s].proposal
      BY <1>2 DEF SessionRecords
    <3> HIDE DEF x
    <3> QED BY <1>2, <2>1, <2>3, <3>1, <3>2 DEF Open, Accepting
  <2> QED BY <2>1, <2>2, <2>3
<1>6. CASE RecordSave(s)
  BY <1>2, <1>6 DEF RecordSave, Bound, NoCall, Open, Accepting, SessionRecords, CommitRecords
<1>7. CASE ApplyResolve(s)
  BY <1>2, <1>7 DEF ApplyResolve, Open, Accepting, SessionRecords
<1>8. CASE CloseFinish(s)
  BY <1>2, <1>8 DEF CloseFinish, NoClose, Open, Accepting, SessionRecords
<1>9. CASE \E d \in Documents : WatcherFires(d)
  BY <1>2, <1>9 DEF WatcherFires, Conflicted, Open, Accepting, callVars, SessionRecords
<1> QED BY <1>3, <1>4, <1>5, <1>6, <1>7, <1>8, <1>9 DEF IdentityStep

\* A step of one task that leaves the sessions alone.
LEMMA OneTaskShrinks ==
  ASSUME WriterInv, NEW t \in Tasks, NEW r, task' = [task EXCEPT ![t] = r],
         UNCHANGED <<leaseVars, closing, commit>>,
         \A s \in Sessions :
           /\ session'[s].writer = session[s].writer
           /\ session'[s].life = session[s].life
           /\ session'[s].proposal = session[s].proposal,
         /\ r.of = task[t].of
         /\ r.pc \in Holding => task[t].pc \in Holding /\ r.grant = task[t].grant
         /\ r.pc \in {"clone", "register"} => task[t].pc \in {"clone", "register"}
         /\ r.pc \in {"open", "flush"} => task[t].pc \in {"open", "flush"}
         /\ r.pc # "idle" => task[t].pc # "idle"
         /\ task[t].pc \in {"open", "flush", "done"} => r.pc \in {"open", "flush", "done"}
         /\ task[t].pc = "done" => r.pc = "done"
         /\ r.state = "none" <=> task[t].state = "none"
         /\ r.flushed # Gone \/ r.report # Gone => r.state # "none"
         /\ r.state \notin {"none", "failed", "deleted"} =>
              task[t].state \notin {"none", "failed", "deleted"}
         /\ task[t].state \in {"committing", "failed"} => r.state \in {"committing", "failed"}
  PROVE  Shrinks
<1>1. task'[t] = r /\ \A u \in Tasks : u # t => task'[u] = task[u]
  BY DEF WriterInv, RecordsTyped
<1>2. \A s \in Sessions : Accepting(s)' => Accepting(s) /\ commit[s]["accept"].task \in Tasks
  BY DEF WriterInv, AcceptIsAlone, Accepting
<1>3. \A s \in Sessions :
        /\ Open(s)' <=> Open(s)
        /\ Open(s) => session'[s].writer = active'[s]
        /\ closing'[s].pc # "idle" => Open(s)'
        /\ active'[s] = active[s] /\ commit' = commit
  BY DEF Open, WriterInv, WriterIsBound, CloseIsOpen, leaseVars
<1>4. \A u \in Tasks : u # t =>
        /\ task'[u].flushed # Gone \/ task'[u].report # Gone => task'[u].state # "none"
        /\ task[u].pc \in Holding => active'[task[u].of] = active[task[u].of]
  BY <1>1 DEF WriterInv, TaskAt, leaseVars
<1> QED BY <1>1, <1>2, <1>3, <1>4 DEF Shrinks, leaseVars

\* A batch, a flush, a report and a refusal before the lease change one task.
LEMMA TaskShrinks ==
  ASSUME WriterInv, NEW t \in Tasks,
         \/ \E bytes \in Contents : Mutate(t, bytes) \/ Amend(t, bytes)
         \/ StartFlush(t) \/ FailFlush(t) \/ FinishFlush(t)
         \/ StartVerify(t) \/ VerifyStep(t)
         \/ IdentityForTask(t) \/ RefuseTask(t) \/ CloneSource(t) \/ RegisterInClosed(t)
  PROVE  Shrinks
<1>1. /\ task \in [Tasks -> TaskRecords] /\ session \in [Sessions -> SessionRecords]
      /\ task[t] \in TaskRecords
      /\ task[t].state # "none" => task[t].pc \in {"open", "flush", "done"}
      /\ task[t].pc \in {"open", "flush"} => task[t].state # "none"
      /\ task[t].flushed # Gone \/ task[t].report # Gone => task[t].state # "none"
      /\ task[t].pc # "idle" => task[t].of \in Sessions
  BY DEF WriterInv, RecordsTyped, TaskAt
<1>2. CASE \E bytes \in Contents : Mutate(t, bytes)
  <2>1. PICK bytes \in Contents : Mutate(t, bytes)
    BY <1>2
  <2>2. task' = [task EXCEPT ![t] = [task[t] EXCEPT !.staged = bytes]]
    BY <2>1 DEF Mutate
  <2>3. task[t].pc = "open" /\ UNCHANGED <<leaseVars, session, closing, commit>>
    BY <2>1 DEF Mutate, callVars
  <2> QED BY <1>1, <2>3, <2>1, <2>2, OneTaskShrinks DEF TaskRecords
<1>3. CASE \E bytes \in Contents : Amend(t, bytes)
  <2>1. PICK bytes \in Contents : Amend(t, bytes)
    BY <1>3
  <2>2. task' = [task EXCEPT ![t] = [task[t] EXCEPT !.state = "human-amended",
                   !.staged = bytes, !.flushed = bytes, !.verified = Gone]]
    BY <2>1 DEF Amend
  <2>3. task[t].state \in {"verifying", "ready"} /\ UNCHANGED <<leaseVars, session, closing, commit>>
    BY <2>1 DEF Amend, callVars
  <2> QED BY <1>1, <2>3, <2>1, <2>2, OneTaskShrinks DEF TaskRecords
<1>4. CASE StartFlush(t)
  <2>1. task' = [task EXCEPT ![t] = [task[t] EXCEPT !.pc = "flush", !.state = "flushing"]]
    BY <1>4 DEF StartFlush
  <2> QED BY <1>1, <1>4, <2>1, OneTaskShrinks DEF StartFlush, callVars, TaskRecords, Holding
<1>5. CASE FailFlush(t)
  <2>1. task' = [task EXCEPT ![t] = [task[t] EXCEPT !.pc = "open"]]
    BY <1>5 DEF FailFlush
  <2>2. task[t].pc = "flush" /\ UNCHANGED <<leaseVars, session, closing, commit>>
    BY <1>5 DEF FailFlush, callVars
  <2> QED BY <1>1, <2>2, <2>1, OneTaskShrinks DEF TaskRecords, Holding
<1>6. ASSUME task[t].state \in {"flushing", "verifying"}, session' = Proposed(task[t].of, t)
      PROVE  \A s \in Sessions :
               /\ session'[s].writer = session[s].writer
               /\ session'[s].life = session[s].life
               /\ session'[s].proposal = session[s].proposal
  <2>1. t \in LiveCandidates(task[t].of) /\ task[t].of \in Sessions
    BY <1>1, <1>6 DEF LiveCandidates
  <2>2. Open(task[t].of) => session[task[t].of].proposal = t
    BY <2>1 DEF WriterInv, OneProposal
  <2> QED BY <1>1, <1>6, <2>1, <2>2 DEF Proposed, SessionRecords
<1>7. CASE FinishFlush(t)
  <2>1. task' = [task EXCEPT ![t] = [task[t] EXCEPT !.pc = "open", !.state = "verifying",
                   !.flushed = task[t].staged]]
    BY <1>7 DEF FinishFlush
  <2>2. /\ task[t].pc = "flush" /\ task[t].state = "flushing"
        /\ session' = Proposed(task[t].of, t)
        /\ UNCHANGED <<leaseVars, closing, commit>>
    BY <1>7 DEF FinishFlush, callVars
  <2> QED BY <1>1, <1>6, <2>1, <2>2, OneTaskShrinks DEF TaskRecords, Holding
<1>8. CASE StartVerify(t)
  <2>1. task' = [task EXCEPT ![t] = [task[t] EXCEPT !.report = task[t].staged]]
    BY <1>8 DEF StartVerify
  <2>2. task[t].flushed # Gone /\ UNCHANGED <<leaseVars, session, closing, commit>>
    BY <1>8 DEF StartVerify, callVars
  <2> QED BY <1>1, <2>2, <2>1, OneTaskShrinks DEF TaskRecords
<1>9. CASE PassVerify(t)
  <2>1. task' = [task EXCEPT ![t] = [task[t] EXCEPT !.verified = task[t].report, !.report = Gone,
                   !.state = IF task[t].state = "verifying" THEN "ready" ELSE task[t].state]]
    BY <1>9 DEF PassVerify
  <2>2. /\ UNCHANGED <<leaseVars, closing, commit>>
        /\ session' = IF task[t].state = "verifying" THEN Proposed(task[t].of, t) ELSE session
    BY <1>9 DEF PassVerify, callVars
  <2>3. \A s \in Sessions :
          /\ session'[s].writer = session[s].writer
          /\ session'[s].life = session[s].life
          /\ session'[s].proposal = session[s].proposal
    BY <1>6, <2>2
  <2> QED BY <1>1, <2>1, <2>2, <2>3, OneTaskShrinks DEF TaskRecords
<1>10. CASE FailVerify(t)
  <2>1. task' = [task EXCEPT ![t] = [task[t] EXCEPT !.verified = task[t].report, !.report = Gone,
                                                   !.state = "failed"]]
    BY <1>10 DEF FailVerify
  <2> QED BY <1>1, <1>10, <2>1, OneTaskShrinks DEF FailVerify, callVars, TaskRecords
<1>11. CASE DropVerify(t)
  <2>1. task' = [task EXCEPT ![t] = [task[t] EXCEPT !.report = Gone]]
    BY <1>11 DEF DropVerify
  <2>2. task[t].report # Gone /\ UNCHANGED <<leaseVars, session, closing, commit>>
    BY <1>11 DEF DropVerify, callVars
  <2> QED BY <1>1, <2>2, <2>1, OneTaskShrinks DEF TaskRecords
<1>12. CASE IdentityForTask(t)
  <2>1. task' = [task EXCEPT ![t] =
                   [task[t] EXCEPT !.pc = "acquire", !.base = KnownRevision(task[t].of)]]
    BY <1>12 DEF IdentityForTask
  <2>2. task[t].pc = "begin" /\ UNCHANGED <<leaseVars, session, closing, commit>>
    BY <1>12 DEF IdentityForTask, callVars
  <2> QED BY <1>1, <2>2, <2>1, OneTaskShrinks DEF TaskRecords, Holding
<1>13. CASE RefuseTask(t) \/ RegisterInClosed(t)
  <2>1. /\ task' = [task EXCEPT ![t] = Ended(t)]
        /\ task[t].pc \in {"begin", "acquire", "register"}
        /\ UNCHANGED <<leaseVars, session, closing, commit>>
    BY <1>13 DEF RefuseTask, RegisterInClosed, callVars
  <2> QED BY <1>1, <2>1, OneTaskShrinks DEF Ended, TaskRecords, Holding
<1>14. CASE CloneSource(t)
  <2>1. task' = [task EXCEPT ![t] =
           [task[t] EXCEPT !.pc = "register", !.staged = source[DocumentOf[task[t].of]]]]
    BY <1>14 DEF CloneSource
  <2>2. task[t].pc = "clone" /\ UNCHANGED <<leaseVars, session, closing, commit>>
    BY <1>14 DEF CloneSource, callVars
  <2> QED BY <1>1, <2>2, <2>1, OneTaskShrinks DEF TaskRecords, Holding
<1> QED BY <1>2, <1>3, <1>4, <1>5, <1>7, <1>8, <1>9, <1>10, <1>11, <1>12, <1>13, <1>14
        DEF VerifyStep

\* Releasing the lease of a task that holds it frees its session and no other.
LEMMA ReleaseFrees ==
  ASSUME WriterInv, NEW s \in Sessions, Release(active[s])
  PROVE  /\ active'[s] = NoLease
         /\ \A r \in Sessions : r # s => active'[r] = active[r]
<1>1. active[s] # NoLease => \A r \in Sessions : r # s => active[r] # active[s]
  BY DEF WriterInv, LeaseInv, LeaseIndexesAgree
<1> QED BY <1>1 DEF Release

\* A task that gives its lease back: its session has no writer, and no other task held it.
LEMMA HandBackShrinks ==
  ASSUME WriterInv, NEW t \in Tasks, NEW r, task' = [task EXCEPT ![t] = r],
         task[t].pc \in Holding, Release(task[t].grant), UNCHANGED <<closing, commit>>,
         \A s \in Sessions : s = task[t].of =>
           /\ Open(s)' => Open(s) /\ session'[s].writer = NoLease
           /\ session'[s].life = session[s].life
           /\ session'[s].proposal \in {session[s].proposal, NoTask}
           /\ Open(s)' /\ session'[s].proposal # session[s].proposal => LiveCandidates(s)' = {},
         \A s \in Sessions : s # task[t].of =>
           /\ session'[s].writer = session[s].writer
           /\ session'[s].life = session[s].life
           /\ session'[s].proposal = session[s].proposal,
         /\ r.of = task[t].of /\ r.pc = "done"
         /\ r.state = "none" <=> task[t].state = "none"
         /\ r.flushed # Gone \/ r.report # Gone => r.state # "none"
         /\ r.state \notin {"none", "failed", "deleted"} =>
              task[t].state \notin {"none", "failed", "deleted"}
         /\ task[t].state \in {"committing", "failed"} => r.state \in {"committing", "failed"}
  PROVE  Shrinks
<1> DEFINE o == task[t].of
<1>1. /\ o \in Sessions /\ task[t].grant = active[o] /\ active[o] # NoLease
  BY DEF WriterInv, TaskAt, Holding
<1>2. task'[t] = r /\ \A u \in Tasks : u # t => task'[u] = task[u]
  BY DEF WriterInv, RecordsTyped
<1>3. \A s \in Sessions : Accepting(s)' => Accepting(s) /\ commit[s]["accept"].task \in Tasks
  BY DEF WriterInv, AcceptIsAlone, Accepting
<1>4. active'[o] = NoLease /\ \A s \in Sessions : s # o => active'[s] = active[s]
  BY <1>1, ReleaseFrees
<1>5. \A s \in Sessions :
        /\ Open(s)' <=> Open(s)
        /\ Open(s) => session'[s].writer = active'[s]
        /\ closing'[s].pc # "idle" => Open(s)'
  <2> SUFFICES ASSUME NEW s \in Sessions
               PROVE  /\ Open(s)' <=> Open(s)
                      /\ Open(s) => session'[s].writer = active'[s]
                      /\ closing'[s].pc # "idle" => Open(s)'
    OBVIOUS
  <2>1. Open(s)' <=> Open(s)
    BY DEF Open
  <2> QED BY <1>1, <1>4, <2>1 DEF WriterInv, WriterIsBound, CloseIsOpen
<1>6. \A u \in Tasks : u # t =>
        /\ task'[u].flushed # Gone \/ task'[u].report # Gone => task'[u].state # "none"
        /\ task[u].pc \in Holding => task[u].of # o /\ active'[task[u].of] = active[task[u].of]
  BY <1>1, <1>2, <1>4 DEF WriterInv, TaskAt, OneHolder, Holding
<1>7. \A s \in Sessions : session'[s].life = "absent" =>
        session[s].life = "absent" /\ session'[s].writer = session[s].writer
  BY <1>1 DEF WriterInv, AbsentIsEmpty
<1> QED BY <1>1, <1>2, <1>3, <1>4, <1>5, <1>6, <1>7 DEF Shrinks, Holding

\* A task that ends gives its writer back, and nothing else.
LEMMA GiveUpShrinks ==
  ASSUME WriterInv, NEW t \in Tasks,
         CloneFails(t) \/ RefuseRegister(t) \/ Finalize(t)
  PROVE  Shrinks
<1>1. /\ session \in [Sessions -> SessionRecords]
      /\ task[t] \in TaskRecords
      /\ task[t].pc \in Holding => task[t].of \in Sessions /\ task[t].grant = active[task[t].of]
      /\ task[t].flushed # Gone \/ task[t].report # Gone => task[t].state # "none"
      /\ \A s \in Sessions : Open(s) => session[s].writer = active[s]
  BY DEF WriterInv, RecordsTyped, TaskAt, Holding, WriterIsBound
<1>2. CASE CloneFails(t) \/ RefuseRegister(t)
  <2>1. /\ task[t].pc \in Holding
        /\ Release(task[t].grant) /\ UNCHANGED <<closing, commit>>
        /\ session' = Unbound(task[t].of, task[t].grant)
        /\ task' = [task EXCEPT ![t] = [Ended(t) EXCEPT !.staged = Gone]]
    BY <1>2 DEF CloneFails, RefuseRegister, GiveUp, Holding, callVars
  <2>2. \A s \in Sessions : s = task[t].of =>
        /\ Open(s)' => Open(s) /\ session'[s].writer = NoLease
        /\ session'[s].life = session[s].life
        /\ session'[s].proposal = session[s].proposal
    BY <1>1, <2>1 DEF Unbound, Open, SessionRecords
  <2>3. \A s \in Sessions : s # task[t].of =>
          /\ session'[s].writer = session[s].writer
          /\ session'[s].life = session[s].life
          /\ session'[s].proposal = session[s].proposal
    BY <1>1, <2>1 DEF Unbound
  <2> DEFINE r == [Ended(t) EXCEPT !.staged = Gone]
  <2>4. /\ r.of = task[t].of /\ r.pc = "done" /\ r.state = task[t].state
        /\ r.flushed = task[t].flushed /\ r.report = task[t].report
    BY <1>1 DEF Ended, TaskRecords
  <2>5. task' = [task EXCEPT ![t] = r]
    BY <2>1
  <2> HIDE DEF r
  <2>6. /\ r.of = task[t].of /\ r.pc = "done"
        /\ r.state = "none" <=> task[t].state = "none"
        /\ r.flushed # Gone \/ r.report # Gone => r.state # "none"
        /\ r.state \notin {"none", "failed", "deleted"} =>
             task[t].state \notin {"none", "failed", "deleted"}
        /\ task[t].state \in {"committing", "failed"} => r.state \in {"committing", "failed"}
    BY <1>1, <2>4
  <2>7. /\ task[t].pc \in Holding /\ Release(task[t].grant) /\ UNCHANGED <<closing, commit>>
    BY <2>1
  <2> QED BY <2>2, <2>3, <2>5, <2>6, <2>7, HandBackShrinks
<1>3. CASE Finalize(t)
  <2>1. /\ task[t].pc \in Holding
        /\ Release(task[t].grant) /\ UNCHANGED <<closing, commit>>
        /\ session' = [session EXCEPT ![task[t].of].writer = NoLease]
        /\ task' = [task EXCEPT ![t] = Ended(t)]
    BY <1>3 DEF Finalize, Holding, callVars
  <2>2. \A s \in Sessions : s = task[t].of =>
        /\ Open(s)' => Open(s) /\ session'[s].writer = NoLease
        /\ session'[s].life = session[s].life
        /\ session'[s].proposal = session[s].proposal
    BY <1>1, <2>1 DEF Open, SessionRecords
  <2>3. \A s \in Sessions : s # task[t].of =>
          /\ session'[s].writer = session[s].writer
          /\ session'[s].life = session[s].life
          /\ session'[s].proposal = session[s].proposal
    BY <1>1, <2>1
  <2>4. /\ Ended(t).of = task[t].of /\ Ended(t).pc = "done" /\ Ended(t).state = task[t].state
        /\ Ended(t).flushed = task[t].flushed /\ Ended(t).report = task[t].report
    BY <1>1 DEF Ended, TaskRecords
  <2> QED BY ZenonT(40), <1>1, <2>1, <2>2, <2>3, <2>4, HandBackShrinks
<1> QED BY <1>2, <1>3

\* A close starts by telling its tasks.
LEMMA CloseStartShrinks ==
  ASSUME WriterInv, NEW s \in Sessions, CloseStart(s)
  PROVE  Shrinks
<1>1. \A t \in Tasks : task'[t] \in {task[t], [task[t] EXCEPT !.closing = TRUE]}
  BY DEF CloseStart
<1>2. task \in [Tasks -> TaskRecords]
  BY DEF WriterInv, RecordsTyped
<1>3. \A t \in Tasks : \A f \in {"of", "pc", "grant", "state", "flushed", "report"} :
        task'[t][f] = task[t][f]
  BY <1>1, <1>2 DEF TaskRecords
<1>4. \A t \in Tasks :
        /\ task'[t].of = task[t].of /\ task'[t].pc = task[t].pc
        /\ task'[t].grant = task[t].grant /\ task'[t].state = task[t].state
        /\ task'[t].flushed = task[t].flushed /\ task'[t].report = task[t].report
  BY <1>3
<1>5. UNCHANGED <<leaseVars, session, commit>>
  BY DEF CloseStart
<1>6. \A r \in Sessions : closing'[r].pc # "idle" => Open(r)'
  BY <1>5 DEF CloseStart, WriterInv, RecordsTyped, CloseIsOpen, Open
<1>7. \A t \in Tasks : task[t].flushed # Gone \/ task[t].report # Gone => task[t].state # "none"
  BY DEF WriterInv, TaskAt
<1>8. \A r \in Sessions :
        /\ Open(r)' => Open(r) /\ session'[r].writer = active'[r]
        /\ Accepting(r)' =>
             Accepting(r) /\ commit'[r]["accept"].task \in Tasks
               /\ commit'[r]["accept"].task = commit[r]["accept"].task
  BY <1>5 DEF Open, WriterInv, WriterIsBound, AcceptIsAlone, Accepting, leaseVars
<1> QED BY <1>4, <1>5, <1>6, <1>7, <1>8 DEF Shrinks, leaseVars

\* The editor's lease ends: no task held the session, so nobody else is affected.
LEMMA EndEditShrinks ==
  ASSUME WriterInv, NEW s \in Sessions, EndEdit(s) \/ CloseEdit(s)
  PROVE  Shrinks
<1>1. /\ session \in [Sessions -> SessionRecords]
      /\ closing \in [Sessions ->
           [pc : {"idle", "draining", "ending", "mailbox"}, lanes : SUBSET Tasks]]
      /\ \A r \in Sessions : Open(r) => session[r].writer = active[r]
      /\ \A r \in Sessions : closing[r].pc # "idle" => Open(r)
  BY DEF WriterInv, RecordsTyped, WriterIsBound, CloseIsOpen
<1>2. Open(s) /\ UNCHANGED <<task, commit>>
  BY <1>1 DEF EndEdit, CloseEdit, callVars
<1>3. \A r \in Sessions : r # s => session'[r] = session[r] /\ closing'[r] = closing[r]
  BY <1>1 DEF EndEdit, CloseEdit, callVars
<1>4. /\ session'[s].proposal = session[s].proposal
      /\ session'[s].life \in {session[s].life, "closing"}
      /\ closing'[s].pc # "idle" => Open(s)'
  BY <1>1, <1>2 DEF EndEdit, CloseEdit, callVars, SessionRecords, Open
<1>5. /\ session'[s].writer = active'[s]
      /\ \A r \in Sessions : r # s => active'[r] = active[r]
      /\ active'[s] \in {active[s], NoLease}
      /\ \A t \in Tasks : task[t].pc \in Holding /\ task[t].of = s => active'[s] = active[s]
  <2>1. CASE active[s] = NoLease \/ HoldsHumanLease(s)
    <3>1. Release(active[s]) /\ session'[s].writer = NoLease
      BY <2>1, <1>1 DEF EndEdit, CloseEdit, SessionRecords
    <3>2. \A t \in Tasks : ~(task[t].pc \in Holding /\ task[t].of = s)
      BY <2>1 DEF WriterInv, TaskAt, HoldsHumanLease
    <3> QED BY <3>1, <3>2, ReleaseFrees
  <2>2. CASE ~(active[s] = NoLease \/ HoldsHumanLease(s))
    <3>1. UNCHANGED leaseVars /\ session'[s].writer = session[s].writer
      BY <2>2, <1>1 DEF EndEdit, CloseEdit, SessionRecords
    <3> QED BY <3>1, <1>1, <1>2 DEF leaseVars
  <2> QED BY <2>1, <2>2
<1>6. \A r \in Sessions :
        /\ Open(r)' => Open(r) /\ session'[r].writer = active'[r]
        /\ session'[r].life = "absent" =>
             session[r].life = "absent" /\ session'[r].writer = session[r].writer
        /\ closing'[r].pc # "idle" => Open(r)'
        /\ active'[r] \in {active[r], NoLease}
        /\ session'[r].proposal = session[r].proposal
        /\ Accepting(r)' => Accepting(r) /\ commit'[r]["accept"].task \in Tasks
  BY <1>1, <1>2, <1>3, <1>4, <1>5 DEF Open, Accepting, WriterInv, AcceptIsAlone
<1>7. \A t \in Tasks :
        /\ task[t].flushed # Gone \/ task[t].report # Gone => task[t].state # "none"
        /\ task[t].pc \in Holding => active'[task[t].of] = active[task[t].of]
  BY <1>5 DEF WriterInv, TaskAt, Holding
<1> QED BY <1>2, <1>6, <1>7 DEF Shrinks

\* The close reclaims the task that still holds its session.
LEMMA CloseAbortShrinks ==
  ASSUME WriterInv, NEW s \in Sessions, CloseAbort(s)
  PROVE  Shrinks
<1>1. /\ session \in [Sessions -> SessionRecords] /\ task \in [Tasks -> TaskRecords]
      /\ closing \in [Sessions ->
           [pc : {"idle", "draining", "ending", "mailbox"}, lanes : SUBSET Tasks]]
      /\ Open(s) /\ \A r \in Sessions : closing[r].pc # "idle" => Open(r)
  BY DEF WriterInv, RecordsTyped, CloseIsOpen, CloseAbort
<1>2. UNCHANGED commit /\ \A r \in Sessions : closing'[r].pc # "idle" => Open(r)
  BY <1>1 DEF CloseAbort
<1>3. CASE UNCHANGED <<leaseVars, task, session>>
  BY <1>2, <1>3, LifeShrinks DEF Open, Accepting
<1>4. CASE \E t \in Tracked(s) :
              /\ Release(task[t].grant)
              /\ task' = [task EXCEPT ![t] = Failed(Ended(t))]
              /\ session' = [session EXCEPT ![s].writer = NoLease,
                               ![s].proposal = IF @ = t THEN NoTask ELSE @]
  <2>1. PICK t \in Tracked(s) :
              /\ Release(task[t].grant)
              /\ task' = [task EXCEPT ![t] = Failed(Ended(t))]
              /\ session' = [session EXCEPT ![s].writer = NoLease,
                               ![s].proposal = IF @ = t THEN NoTask ELSE @]
    BY <1>4
  <2>2. t \in Tasks /\ task[t].of = s /\ task[t].pc \in {"open", "flush"}
    BY DEF Tracked
  <2>3. task[t].state # "none" /\ task[t] \in TaskRecords /\ task[t].grant = active[s]
        /\ active[s] # NoLease
    BY <2>2 DEF WriterInv, TaskAt, RecordsTyped, Holding
  <2> DEFINE r == Failed(Ended(t))
  <2>4. /\ r.of = task[t].of /\ r.pc = "done" /\ r.state = "failed"
    BY <2>3 DEF Failed, Ended, TaskRecords
  <2> HIDE DEF r
  <2>5. task'[t] = r /\ \A u \in Tasks : u # t => task'[u] = task[u]
    BY <1>1, <2>1, <2>2 DEF r
  <2>6. /\ session'[s].writer = NoLease /\ session'[s].life = session[s].life
        /\ session'[s].proposal = IF session[s].proposal = t THEN NoTask ELSE session[s].proposal
        /\ \A q \in Sessions : q # s => session'[q] = session[q]
    BY <1>1, <2>1 DEF SessionRecords
  <2>7. session'[s].proposal # session[s].proposal => LiveCandidates(s)' = {}
    <3> SUFFICES ASSUME session'[s].proposal # session[s].proposal, NEW u \in LiveCandidates(s)'
                 PROVE  FALSE
      OBVIOUS
    <3>1. session[s].proposal = t
      BY <2>6
    <3>2. u \in LiveCandidates(s)
      BY <2>2, <2>4, <2>5 DEF LiveCandidates
    <3>3. u = t
      BY <1>1, <3>1, <3>2 DEF WriterInv, OneProposal
    <3> QED BY <2>4, <2>5, <3>3 DEF LiveCandidates
  <2>8. active'[s] = NoLease /\ \A q \in Sessions : q # s => active'[q] = active[q]
    BY <2>1, <2>3, ReleaseFrees
  <2>9. \A u \in Tasks : u # t =>
           /\ task[u].flushed # Gone \/ task[u].report # Gone => task[u].state # "none"
           /\ task[u].pc \in Holding => task[u].of # s /\ active'[task[u].of] = active[task[u].of]
    BY <2>2, <2>8 DEF WriterInv, TaskAt, OneHolder, Holding
  <2>10. \A q \in Sessions :
           /\ Open(q)' => Open(q) /\ session'[q].writer = active'[q]
           /\ session'[q].life = "absent" =>
                session[q].life = "absent" /\ session'[q].writer = session[q].writer
           /\ closing'[q].pc # "idle" => Open(q)'
           /\ active'[q] \in {active[q], NoLease}
           /\ session'[q].proposal \in {session[q].proposal, NoTask}
           /\ Open(q)' /\ session'[q].proposal # session[q].proposal => LiveCandidates(q)' = {}
           /\ Accepting(q)' => Accepting(q) /\ commit'[q]["accept"].task \in Tasks
    BY <1>1, <1>2, <2>6, <2>7, <2>8
       DEF Open, Accepting, WriterInv, WriterIsBound, AcceptIsAlone
  <2> QED BY <1>2, <2>2, <2>3, <2>4, <2>5, <2>8, <2>9, <2>10 DEF Shrinks, Holding
<1> QED BY <1>3, <1>4 DEF CloseAbort

\* A proposal that is rejected, or accepted and gone, leaves its session with none.
Settles(s, t, r) ==
  /\ task' = [task EXCEPT ![t] = r] /\ UNCHANGED <<leaseVars, closing>>
  /\ task[t].of = s /\ task[t].state # "none"
  /\ Open(s) => LiveCandidates(s) \subseteq {t}
  /\ r.of = s /\ r.pc = task[t].pc /\ r.state \in {"failed", "deleted"}
  /\ r.grant = task[t].grant \/ r.pc = "done"
  /\ \A q \in Sessions :
       /\ session'[q].writer = session[q].writer
       /\ session'[q].life = session[q].life
       /\ session'[q].proposal = IF q = s THEN NoTask ELSE session[q].proposal
       /\ Accepting(q)' =>
            /\ Accepting(q) /\ commit'[q]["accept"].task = commit[q]["accept"].task
            /\ commit[q]["accept"].task = t => r.state = "failed"

\* A step that ends the one candidate of a session takes nothing from the others.
LEMMA SettledShrinks ==
  ASSUME WriterInv, NEW s \in Sessions, NEW t \in Tasks, NEW r, Settles(s, t, r)
  PROVE  Shrinks
<1> USE DEF Settles
<1>1. task'[t] = r /\ \A u \in Tasks : u # t => task'[u] = task[u]
  BY DEF WriterInv, RecordsTyped
<1>2. \A u \in Tasks :
        /\ u # t => (task[u].flushed # Gone \/ task[u].report # Gone => task[u].state # "none")
        /\ task[u].pc \in Holding => active'[task[u].of] = active[task[u].of]
  BY DEF WriterInv, TaskAt, leaseVars
<1>3. Open(s) => LiveCandidates(s)' = {}
  BY <1>1 DEF LiveCandidates
<1>4. \A q \in Sessions :
        /\ Open(q)' <=> Open(q)
        /\ Open(q) => session'[q].writer = active'[q]
        /\ closing'[q].pc # "idle" => Open(q)'
        /\ active'[q] = active[q]
        /\ Accepting(q) => commit[q]["accept"].task \in Tasks
  BY DEF Open, WriterInv, WriterIsBound, CloseIsOpen, AcceptIsAlone, leaseVars
<1> QED BY <1>1, <1>2, <1>3, <1>4 DEF Shrinks, Holding

\* A rejected proposal was the session's only one.
LEMMA RejectShrinks ==
  ASSUME WriterInv, NEW s \in Sessions, Reject(s)
  PROVE  Shrinks
<1> DEFINE t == session[s].proposal
           r == [Failed(task[t]) EXCEPT !.staged = Gone]
<1>1. /\ session \in [Sessions -> SessionRecords] /\ task \in [Tasks -> TaskRecords]
      /\ t \in Tasks /\ task[t] \in TaskRecords
  BY DEF WriterInv, RecordsTyped, SessionRecords, Reject
<1>2. /\ Open(s) /\ task' = [task EXCEPT ![t] = r]
      /\ session' = [session EXCEPT ![s].proposal = NoTask]
      /\ UNCHANGED <<leaseVars, closing, commit>>
  BY DEF Reject, callVars
<1>3. /\ r.of = task[t].of /\ r.pc = task[t].pc /\ r.state = "failed"
      /\ r.grant = task[t].grant
  BY <1>1 DEF Failed, TaskRecords
<1>4. task[t].of = s /\ task[t].state # "none"
  BY <1>1, WriterAssumption DEF WriterInv, ProposalIsOwn
<1>5. LiveCandidates(s) \subseteq {t}
  BY <1>2 DEF WriterInv, OneProposal
<1>6. \A q \in Sessions :
        /\ session'[q].writer = session[q].writer
        /\ session'[q].life = session[q].life
        /\ session'[q].proposal = IF q = s THEN NoTask ELSE session[q].proposal
  BY <1>1, <1>2 DEF SessionRecords
<1>7. \A q \in Sessions : Accepting(q)' =>
        Accepting(q) /\ commit'[q]["accept"].task = commit[q]["accept"].task
  BY <1>2 DEF Accepting
<1> HIDE DEF r, t
<1>8. Settles(s, t, r)
  BY <1>2, <1>3, <1>4, <1>5, <1>6, <1>7 DEF Settles
<1> QED BY <1>1, <1>8, SettledShrinks

\* An accept that landed takes its candidate away, and the candidate was the only proposal.
LEMMA BindAcceptShrinks ==
  ASSUME WriterInv, NEW s \in Sessions, BindAccept(s)
  PROVE  Shrinks
<1> DEFINE t == commit[s]["accept"].task
           r == [NoTaskYet EXCEPT !.pc = "done", !.of = s, !.state = "deleted"]
<1>1. /\ session \in [Sessions -> SessionRecords] /\ task \in [Tasks -> TaskRecords]
      /\ commit \in [Sessions -> [Kinds -> CommitRecords]] /\ "accept" \in Kinds
  BY DEF WriterInv, RecordsTyped, Kinds
<1>2. /\ t \in Tasks /\ task[t].of = s /\ task[t].pc = "done" /\ task[t].state # "none"
      /\ LiveCandidates(s) \subseteq {t}
  BY DEF BindAccept, WriterInv, AcceptIsAlone, Accepting
<1>3. /\ task' = [task EXCEPT ![t] = r]
      /\ UNCHANGED <<leaseVars, closing>>
      /\ commit' = [commit EXCEPT ![s]["accept"] = NoCall]
      /\ session' = [Bound(s, commit[s]["accept"].sequence) EXCEPT ![s].proposal = NoTask]
  BY DEF BindAccept
<1>4. r.of = s /\ r.pc = "done" /\ r.state = "deleted"
  BY DEF NoTaskYet
<1>5. \A q \in Sessions :
        /\ session'[q].writer = session[q].writer
        /\ session'[q].life = session[q].life
        /\ session'[q].proposal = IF q = s THEN NoTask ELSE session[q].proposal
  BY <1>1, <1>3 DEF Bound, SessionRecords
<1>6. \A q \in Sessions : Accepting(q)' =>
        q # s /\ Accepting(q) /\ commit'[q]["accept"].task = commit[q]["accept"].task
  BY <1>1, <1>3 DEF Accepting, NoCall
<1>7. \A q \in Sessions : q # s /\ Accepting(q) => commit[q]["accept"].task # t
  BY <1>2 DEF WriterInv, AcceptIsAlone
<1> HIDE DEF r, t
<1>8. Settles(s, t, r)
  BY <1>2, <1>3, <1>4, <1>5, <1>6, <1>7 DEF Settles
<1> QED BY <1>2, <1>8, SettledShrinks

\* A new process has no lease, no call and no task, and of the proposals those under review.
LEMMA RestartShrinks ==
  ASSUME WriterInv, Restart
  PROVE  Shrinks
<1>1. /\ task \in [Tasks -> TaskRecords] /\ session \in [Sessions -> SessionRecords]
  BY DEF WriterInv, RecordsTyped
<1>2. \A s \in Sessions :
        /\ active'[s] = NoLease /\ session'[s] = Rehydrated(s)
        /\ ~Accepting(s)' /\ closing'[s].pc = "idle"
  BY DEF Restart, LoseLeases, NoCall, NoClose, Kinds, Accepting
<1>3. \A t \in Tasks : task'[t] = Reconciled(t)
  BY DEF Restart
<1>4. \A t \in Tasks :
        /\ task[t].state # "none" => task[t].pc # "idle"
        /\ task[t].flushed # Gone \/ task[t].report # Gone => task[t].state # "none"
        /\ task[t].pc # "idle" => task[t].of \in Sessions
  BY DEF WriterInv, TaskAt
<1>5. ASSUME NEW t \in Tasks
      PROVE  /\ task'[t].of = task[t].of
             /\ task'[t].pc = IF task[t].pc = "idle" THEN "idle" ELSE "done"
             /\ task'[t].state \in {task[t].state, "failed"}
             /\ task'[t].state = "none" <=> task[t].state = "none"
             /\ task'[t].flushed # Gone \/ task'[t].report # Gone => task'[t].state # "none"
             /\ \A s \in Sessions : Open(s) /\ log'[s] # <<>> /\ t \in LiveCandidates(s) \ Reviewable(s)
                  => task'[t].state = "failed"
  <2> DEFINE left == IF task[t].pc = "idle" THEN task[t] ELSE [Ended(t) EXCEPT !.report = Gone]
             lost == \E s \in Sessions : /\ Open(s) /\ log'[s] # <<>>
                                         /\ t \in LiveCandidates(s) \ Reviewable(s)
  <2>1. task[t] \in TaskRecords /\ task'[t] = IF lost THEN Failed(left) ELSE left
    BY <1>1, <1>3 DEF Reconciled
  <2>2. /\ left \in TaskRecords /\ left.of = task[t].of /\ left.state = task[t].state
        /\ left.pc = IF task[t].pc = "idle" THEN "idle" ELSE "done"
        /\ left.flushed = task[t].flushed
        /\ left.report \in {task[t].report, Gone}
    BY ZenonT(40), <2>1 DEF Ended, TaskRecords
  <2>3. lost => task[t].state # "none"
    BY DEF LiveCandidates
  <2> HIDE DEF left, lost
  <2>4. CASE ~lost
    BY <1>4, <2>1, <2>2, <2>4 DEF lost
  <2>5. CASE lost
    <3>1. /\ task'[t].of = left.of /\ task'[t].pc = left.pc /\ task'[t].state = "failed"
      BY <2>1, <2>2, <2>5 DEF Failed, TaskRecords
    <3> QED BY <3>1, <2>2, <2>3, <2>5
  <2> QED BY <2>4, <2>5
<1>6. ASSUME NEW s \in Sessions
      PROVE  /\ Open(s)' => Open(s) /\ session'[s].writer = NoLease
             /\ session'[s].life = "absent" =>
                  session[s].life = "absent" /\ session'[s].writer = session[s].writer
             /\ session'[s].proposal \in {session[s].proposal, NoTask}
             /\ Open(s)' /\ session'[s].proposal # session[s].proposal => LiveCandidates(s)' = {}
  <2>1. session'[s] = Rehydrated(s) /\ session[s] \in SessionRecords
    BY <1>1, <1>2
  <2>2. CASE ~Open(s)
    BY <2>1, <2>2 DEF Rehydrated, Open
  <2>3. CASE Open(s) /\ log'[s] = <<>>
    BY <2>1, <2>3 DEF Rehydrated, Open, SessionRecords
  <2>4. CASE Open(s) /\ log'[s] # <<>>
    <3>1. /\ session'[s].life = "recovery" /\ session'[s].writer = NoLease
          /\ session'[s].proposal = IF Reviewable(s) = {} THEN NoTask
                                    ELSE CHOOSE t \in Reviewable(s) : TRUE
      BY <2>1, <2>4 DEF Rehydrated
    <3>2. CASE Reviewable(s) = {}
      <4>1. \A t \in LiveCandidates(s) : task'[t].state = "failed"
        BY <1>5, <2>4, <3>2 DEF LiveCandidates
      <4>2. LiveCandidates(s)' = {}
        BY <1>5, <4>1 DEF LiveCandidates
      <4> QED BY <2>4, <3>1, <3>2, <4>2
    <3>3. CASE Reviewable(s) # {}
      <4>1. session'[s].proposal \in Reviewable(s)
        BY <3>1, <3>3
      <4>2. session'[s].proposal = session[s].proposal
        BY <4>1, <2>4 DEF Reviewable, WriterInv, OneProposal
      <4> QED BY <2>4, <3>1, <4>2
    <3> QED BY <3>2, <3>3
  <2> QED BY <2>2, <2>3, <2>4
<1> QED BY <1>2, <1>5, <1>6 DEF Shrinks, Holding

-----------------------------------------------------------------------------
(***************************************************************************)
(* The steps that add a session, a lease, a task, a proposal or an accept  *)
(***************************************************************************)

\* What the invariant says beyond types.
Relations ==
  /\ TaskAt /\ OneHolder /\ NoneBeforeRegister
  /\ AbsentIsEmpty /\ CloseIsOpen /\ ProposalIsOwn /\ AcceptIsAlone
  /\ WriterIsBound /\ HumanExcludesProposal /\ OneProposal

\* A new session has no lease, no task and no proposal yet.
LEMMA OpenSessionRelations ==
  ASSUME WriterInv, NEW s \in Sessions, OpenSession(s)
  PROVE  Relations'
<1>1. /\ session \in [Sessions -> SessionRecords]
      /\ UNCHANGED <<leaseVars, task, commit, closing>>
      /\ session' = [session EXCEPT ![s].life = "ready", ![s].identity = "hashing"]
      /\ session[s].life = "absent"
  BY DEF OpenSession, WriterInv, RecordsTyped, callVars
<1>2. /\ \A r \in Sessions : r # s => session'[r] = session[r]
      /\ session'[s].life = "ready" /\ session'[s].writer = session[s].writer
      /\ session'[s].proposal = session[s].proposal
  BY <1>1 DEF SessionRecords
<1>3. /\ active[s] = NoLease /\ session[s].writer = NoLease
      /\ \A t \in Tasks : task[t].of # s
  BY <1>1 DEF WriterInv, AbsentIsEmpty
<1>4. \A r \in Sessions : /\ r # s => (Open(r)' <=> Open(r))
                          /\ LiveCandidates(r)' = LiveCandidates(r)
                          /\ HoldsHumanLease(r)' <=> HoldsHumanLease(r)
                          /\ Accepting(r)' <=> Accepting(r)
  BY <1>1, <1>2 DEF Open, LiveCandidates, HoldsHumanLease, Accepting, leaseVars
<1>5. LiveCandidates(s) = {}
  BY <1>3 DEF LiveCandidates
<1>6. TaskAt' /\ OneHolder'
  BY <1>1 DEF WriterInv, TaskAt, OneHolder, leaseVars
<1>7. NoneBeforeRegister'
  <2> SUFFICES ASSUME NEW t \in Tasks, task[t].pc \in {"clone", "register"},
                      NEW r \in Sessions, task[t].of = r, Open(r)'
               PROVE  LiveCandidates(r)' = {}
    BY <1>1 DEF NoneBeforeRegister, WriterInv, TaskAt, LiveCandidates, Open
  <2> QED BY <1>3, <1>4 DEF WriterInv, NoneBeforeRegister
<1>8. AbsentIsEmpty'
  BY <1>1, <1>2 DEF WriterInv, AbsentIsEmpty, leaseVars
<1>9. CloseIsOpen'
  BY <1>1, <1>2 DEF WriterInv, CloseIsOpen, Open
<1>10. ProposalIsOwn'
  BY <1>1, <1>2 DEF WriterInv, ProposalIsOwn
<1>11. AcceptIsAlone'
  BY <1>1, <1>4 DEF WriterInv, AcceptIsAlone
<1>12. WriterIsBound'
  BY <1>1, <1>2, <1>3, <1>4 DEF WriterInv, WriterIsBound, leaseVars
<1>13. HumanExcludesProposal'
  BY <1>4 DEF WriterInv, HumanExcludesProposal
<1>14. OneProposal'
  BY <1>2, <1>4, <1>5 DEF WriterInv, OneProposal
<1> QED BY <1>6, <1>7, <1>8, <1>9, <1>10, <1>11, <1>12, <1>13, <1>14 DEF Relations

\* A lease is granted to a session that has none, so no task of it holds one.
LEMMA NobodyHolds ==
  ASSUME WriterInv, NEW s \in Sessions, active[s] = NoLease
  PROVE  \A t \in Tasks : task[t].of = s => task[t].pc \notin Holding
BY DEF WriterInv, TaskAt

\* An edit is applied while the session has neither a writer nor a proposal.
LEMMA ApplyEditRelations ==
  ASSUME WriterInv, NEW s \in Sessions, ApplyEdit(s)
  PROVE  Relations'
<1>1. /\ session \in [Sessions -> SessionRecords]
      /\ active \in [Sessions -> Lease \cup {NoLease}]
      /\ UNCHANGED <<task, commit, closing>>
      /\ session' = [session EXCEPT ![s].writer = NextLease(s, "human")]
      /\ active' = [active EXCEPT ![s] = NextLease(s, "human")]
      /\ session[s].life = "ready" /\ active[s] = NoLease /\ LiveCandidates(s) = {}
  BY DEF ApplyEdit, Acquire, CanAcquire, MayPromote, WriterInv, RecordsTyped, LeaseInv, LeaseTypeOK
<1>2. /\ \A r \in Sessions : r # s => session'[r] = session[r] /\ active'[r] = active[r]
      /\ session'[s].life = "ready" /\ session'[s].writer = active'[s]
      /\ session'[s].proposal = session[s].proposal
  BY <1>1 DEF SessionRecords
<1>3. \A t \in Tasks : task[t].of = s => task[t].pc \notin Holding
  BY <1>1, NobodyHolds
<1>4. \A r \in Sessions : /\ Open(r)' <=> Open(r)
                          /\ LiveCandidates(r)' = LiveCandidates(r)
                          /\ r # s => (HoldsHumanLease(r)' <=> HoldsHumanLease(r))
                          /\ Accepting(r)' <=> Accepting(r)
  BY <1>1, <1>2 DEF Open, LiveCandidates, HoldsHumanLease, Accepting
<1>5. TaskAt' /\ OneHolder'
  BY <1>1, <1>2, <1>3 DEF WriterInv, TaskAt, OneHolder, Holding
<1>6. NoneBeforeRegister'
  BY <1>1, <1>4 DEF WriterInv, NoneBeforeRegister, TaskAt, LiveCandidates, Open
<1>7. AbsentIsEmpty'
  BY <1>1, <1>2 DEF WriterInv, AbsentIsEmpty
<1>8. CloseIsOpen'
  BY <1>1, <1>4 DEF WriterInv, CloseIsOpen
<1>9. ProposalIsOwn'
  BY <1>1, <1>2 DEF WriterInv, ProposalIsOwn
<1>10. AcceptIsAlone'
  BY <1>1, <1>4 DEF WriterInv, AcceptIsAlone
<1>11. WriterIsBound'
  BY <1>2, <1>4 DEF WriterInv, WriterIsBound
<1>12. HumanExcludesProposal'
  BY <1>1, <1>4 DEF WriterInv, HumanExcludesProposal
<1>13. OneProposal'
  BY <1>2, <1>4 DEF WriterInv, OneProposal
<1> QED BY <1>5, <1>6, <1>7, <1>8, <1>9, <1>10, <1>11, <1>12, <1>13 DEF Relations

\* A task joins its session without a candidate.
LEMMA BeginTaskRelations ==
  ASSUME WriterInv, NEW t \in Tasks, NEW s \in Sessions, BeginTask(t, s)
  PROVE  Relations'
<1>1. /\ task \in [Tasks -> TaskRecords]
      /\ UNCHANGED <<leaseVars, session, commit, closing>>
      /\ task' = [task EXCEPT ![t].pc = "begin", ![t].of = s]
      /\ session[s].life = "ready" /\ task[t].pc = "idle" /\ task[t].state = "none"
      /\ task[t].flushed = Gone /\ task[t].report = Gone
  BY DEF BeginTask, WriterInv, RecordsTyped, TaskAt, callVars
<1>2. /\ \A u \in Tasks : u # t => task'[u] = task[u]
      /\ task'[t].pc = "begin" /\ task'[t].of = s /\ task'[t].state = "none"
      /\ task'[t].flushed = Gone /\ task'[t].report = Gone
  BY <1>1 DEF TaskRecords
<1>3. \A r \in Sessions : /\ Open(r)' <=> Open(r)
                          /\ LiveCandidates(r)' = LiveCandidates(r)
                          /\ HoldsHumanLease(r)' <=> HoldsHumanLease(r)
                          /\ Accepting(r)' <=> Accepting(r)
  BY <1>1, <1>2 DEF Open, LiveCandidates, HoldsHumanLease, Accepting, leaseVars
<1>4. TaskAt' /\ OneHolder'
  BY <1>1, <1>2 DEF WriterInv, TaskAt, OneHolder, Holding, leaseVars
<1>5. NoneBeforeRegister'
  <2> SUFFICES ASSUME NEW u \in Tasks, task'[u].pc \in {"clone", "register"},
                      NEW r \in Sessions, task'[u].of = r, Open(r)'
               PROVE  LiveCandidates(r)' = {}
    BY <1>4 DEF NoneBeforeRegister, TaskAt, LiveCandidates, Open
  <2>1. u # t /\ task[u].pc \in {"clone", "register"} /\ task[u].of = r
    BY <1>2
  <2> QED BY <1>3, <2>1 DEF WriterInv, NoneBeforeRegister
<1>6. AbsentIsEmpty'
  BY <1>1, <1>2 DEF WriterInv, AbsentIsEmpty, leaseVars
<1>7. CloseIsOpen'
  BY <1>1, <1>3 DEF WriterInv, CloseIsOpen
<1>8. ProposalIsOwn'
  BY <1>1, <1>2 DEF WriterInv, ProposalIsOwn, RecordsTyped, SessionRecords
<1>9. AcceptIsAlone'
  BY <1>1, <1>2, <1>3 DEF WriterInv, AcceptIsAlone
<1>10. WriterIsBound'
  BY <1>1, <1>3 DEF WriterInv, WriterIsBound, leaseVars
<1>11. HumanExcludesProposal'
  BY <1>3 DEF WriterInv, HumanExcludesProposal
<1>12. OneProposal'
  BY <1>1, <1>3 DEF WriterInv, OneProposal
<1> QED BY <1>4, <1>5, <1>6, <1>7, <1>8, <1>9, <1>10, <1>11, <1>12 DEF Relations

\* A task gets the lease of a session that has no proposal at all.
LEMMA AcquireWriterRelations ==
  ASSUME WriterInv, NEW t \in Tasks, AcquireWriter(t)
  PROVE  Relations'
<1>1. PICK s \in Sessions : task[t].of = s
  BY DEF AcquireWriter
<1> DEFINE l == NextLease(s, "agent")
<1>2. /\ task \in [Tasks -> TaskRecords] /\ session \in [Sessions -> SessionRecords]
      /\ active \in [Sessions -> Lease \cup {NoLease}]
      /\ UNCHANGED <<commit, closing>>
      /\ s \in Sessions /\ task[t].pc = "acquire" /\ Open(s) /\ ~Accepting(s) /\ active[s] = NoLease
      /\ session' = [session EXCEPT ![s].writer = l]
      /\ active' = [active EXCEPT ![s] = l]
      /\ task' = [task EXCEPT ![t].pc = "clone", ![t].grant = l,
                              ![t].captured = session[s].committed]
  BY <1>1 DEF AcquireWriter, Acquire, CanAcquire, MailboxFree, Accepting, WriterInv, RecordsTyped,
         LeaseInv, LeaseTypeOK, callVars
<1>3. l # NoLease /\ l.owner = "agent"
  BY <1>2, NextLeaseType, LeaseAssumption DEF WriterInv, LeaseInv, Owner, NextLease
<1>4. LiveCandidates(s) = {} /\ task[t].state = "none"
  <2>1. session[s].proposal = NoTask
    BY <1>1 DEF AcquireWriter, MayBegin
  <2> QED BY <1>1, <1>2, <2>1, WriterAssumption DEF WriterInv, OneProposal, LiveCandidates, TaskAt
<1>5. \A u \in Tasks : task[u].of = s => task[u].pc \notin Holding
  BY <1>2, NobodyHolds
<1> HIDE DEF l
<1>6. /\ \A r \in Sessions : r # s => session'[r] = session[r] /\ active'[r] = active[r]
      /\ session'[s].life = session[s].life /\ session'[s].writer = l /\ active'[s] = l
      /\ session'[s].proposal = session[s].proposal
      /\ \A u \in Tasks : u # t => task'[u] = task[u]
      /\ task'[t].pc = "clone" /\ task'[t].of = task[t].of /\ task'[t].grant = l
      /\ task'[t].state = task[t].state /\ task'[t].flushed = task[t].flushed
      /\ task'[t].report = task[t].report
  BY <1>2 DEF SessionRecords, TaskRecords
<1>7. task[t].of = s
  BY <1>1
<1>8. \A r \in Sessions : /\ Open(r)' <=> Open(r)
                          /\ LiveCandidates(r)' = LiveCandidates(r)
                          /\ r # s => (HoldsHumanLease(r)' <=> HoldsHumanLease(r))
                          /\ ~HoldsHumanLease(s)'
                          /\ Accepting(r)' <=> Accepting(r)
  BY <1>2, <1>3, <1>6 DEF Open, LiveCandidates, HoldsHumanLease, Accepting
<1>9. TaskAt' /\ OneHolder'
  <2>1. TaskAt'
    BY <1>2, <1>3, <1>5, <1>6, <1>7 DEF WriterInv, TaskAt, Holding
  <2>2. OneHolder'
    BY <1>5, <1>6, <1>7 DEF WriterInv, OneHolder
  <2> QED BY <2>1, <2>2
<1>10. NoneBeforeRegister'
  <2> SUFFICES ASSUME NEW u \in Tasks, task'[u].pc \in {"clone", "register"},
                      NEW r \in Sessions, task'[u].of = r, Open(r)'
               PROVE  LiveCandidates(r)' = {}
    BY <1>9 DEF NoneBeforeRegister, TaskAt, LiveCandidates, Open
  <2> QED BY <1>4, <1>6, <1>7, <1>8 DEF WriterInv, NoneBeforeRegister
<1>11. AbsentIsEmpty'
  BY <1>2, <1>6 DEF WriterInv, AbsentIsEmpty, Open
<1>12. CloseIsOpen'
  BY <1>2, <1>8 DEF WriterInv, CloseIsOpen
<1>13. ProposalIsOwn'
  BY <1>2, <1>6 DEF WriterInv, ProposalIsOwn, SessionRecords
<1>14. AcceptIsAlone'
  BY SMTT(30), <1>2, <1>6, <1>7, <1>8 DEF WriterInv, AcceptIsAlone
<1>15. WriterIsBound'
  BY <1>6, <1>8 DEF WriterInv, WriterIsBound
<1>16. HumanExcludesProposal'
  BY <1>8 DEF WriterInv, HumanExcludesProposal
<1>17. OneProposal'
  BY <1>6, <1>8 DEF WriterInv, OneProposal
<1> QED BY <1>9, <1>10, <1>11, <1>12, <1>13, <1>14, <1>15, <1>16, <1>17 DEF Relations

\* The candidate that is registered becomes the one proposal of its session.
LEMMA RegisterRelations ==
  ASSUME WriterInv, NEW t \in Tasks, Register(t)
  PROVE  Relations'
<1>1. PICK s \in Sessions : task[t].of = s
  BY DEF Register, WriterInv, TaskAt
<1>2. /\ task \in [Tasks -> TaskRecords] /\ session \in [Sessions -> SessionRecords]
      /\ UNCHANGED <<leaseVars, commit, closing>>
      /\ s \in Sessions /\ task[t].pc = "register" /\ session[s].life = "ready" /\ ~Accepting(s)
      /\ session' = [session EXCEPT ![s].proposal = t]
      /\ task' = [task EXCEPT ![t].pc = "open", ![t].state = "mutating"]
  BY <1>1 DEF Register, Fresh, MailboxFree, Accepting, WriterInv, RecordsTyped, TaskAt, callVars
<1>3. /\ LiveCandidates(s) = {}
      /\ active[s] # NoLease /\ active[s].owner = "agent"
      /\ \A u \in Tasks : task[u].pc \in Holding /\ task[u].of = s => u = t
  BY <1>1, <1>2 DEF WriterInv, NoneBeforeRegister, Open, TaskAt, OneHolder, Holding
<1>4. /\ \A r \in Sessions : r # s => session'[r] = session[r]
      /\ session'[s].life = session[s].life /\ session'[s].writer = session[s].writer
      /\ session'[s].proposal = t
      /\ \A u \in Tasks : u # t => task'[u] = task[u]
      /\ task'[t].pc = "open" /\ task'[t].of = task[t].of /\ task'[t].grant = task[t].grant
      /\ task'[t].state = "mutating" /\ task'[t].flushed = task[t].flushed
      /\ task'[t].report = task[t].report
  BY <1>2 DEF SessionRecords, TaskRecords
<1>5. task[t].of = s
  BY <1>1
<1>6. \A r \in Sessions : /\ Open(r)' <=> Open(r)
                          /\ r # s => LiveCandidates(r)' = LiveCandidates(r)
                          /\ HoldsHumanLease(r)' <=> HoldsHumanLease(r)
                          /\ ~HoldsHumanLease(s)
                          /\ Accepting(r)' <=> Accepting(r)
  BY <1>2, <1>3, <1>4, <1>5 DEF Open, LiveCandidates, HoldsHumanLease, Accepting, leaseVars
<1>7. LiveCandidates(s)' = {t}
  BY <1>3, <1>4, <1>5 DEF LiveCandidates
<1>8. TaskAt' /\ OneHolder'
  <2>1. TaskAt'
    BY <1>2, <1>4, <1>5 DEF WriterInv, TaskAt, Holding, leaseVars
  <2>2. OneHolder'
    BY <1>2, <1>3, <1>4, <1>5 DEF WriterInv, OneHolder, Holding
  <2> QED BY <2>1, <2>2
<1>9. NoneBeforeRegister'
  <2> SUFFICES ASSUME NEW u \in Tasks, task'[u].pc \in {"clone", "register"},
                      NEW r \in Sessions, task'[u].of = r, Open(r)'
               PROVE  LiveCandidates(r)' = {}
    BY <1>8 DEF NoneBeforeRegister, TaskAt, LiveCandidates, Open
  <2>1. u # t /\ r # s
    BY <1>3, <1>4 DEF Holding
  <2> QED BY <1>4, <1>6, <2>1 DEF WriterInv, NoneBeforeRegister
<1>10. AbsentIsEmpty'
  BY <1>2, <1>4 DEF WriterInv, AbsentIsEmpty, leaseVars
<1>11. CloseIsOpen'
  BY <1>2, <1>6 DEF WriterInv, CloseIsOpen
<1>12. ProposalIsOwn'
  BY <1>2, <1>4, <1>5 DEF WriterInv, ProposalIsOwn, SessionRecords
<1>13. AcceptIsAlone'
  BY <1>2, <1>4, <1>5, <1>6 DEF WriterInv, AcceptIsAlone
<1>14. WriterIsBound'
  BY <1>2, <1>4, <1>6 DEF WriterInv, WriterIsBound, leaseVars
<1>15. HumanExcludesProposal'
  BY <1>6 DEF WriterInv, HumanExcludesProposal
<1>16. OneProposal'
  BY <1>4, <1>6, <1>7 DEF WriterInv, OneProposal
<1> QED BY <1>8, <1>9, <1>10, <1>11, <1>12, <1>13, <1>14, <1>15, <1>16 DEF Relations

\* An accept starts when nobody holds the writer, so nothing else is on its way.
LEMMA StartAcceptRelations ==
  ASSUME WriterInv, NEW s \in Sessions, StartAccept(s)
  PROVE  Relations'
<1> DEFINE t == session[s].proposal
           c == [NoCall EXCEPT !.pc = "queued", !.bytes = task[t].flushed, !.task = t]
<1>1. /\ task \in [Tasks -> TaskRecords] /\ session \in [Sessions -> SessionRecords]
      /\ commit \in [Sessions -> [Kinds -> CommitRecords]] /\ "accept" \in Kinds
      /\ UNCHANGED <<leaseVars, session, closing>>
      /\ Open(s) /\ t # NoTask /\ session[s].writer = NoLease /\ task[t].state = "ready"
      /\ task' = [task EXCEPT ![t].state = "committing"]
      /\ commit' = [commit EXCEPT ![s]["accept"] = c]
  BY DEF StartAccept, Acceptable, WriterInv, RecordsTyped, Kinds
<1>2. t \in Tasks /\ task[t].of = s
  BY <1>1 DEF WriterInv, ProposalIsOwn, SessionRecords
<1>3. active[s] = NoLease
  BY <1>1 DEF WriterInv, WriterIsBound
<1>4. \A u \in Tasks : task[u].of = s => task[u].pc \notin Holding
  BY <1>3, NobodyHolds
<1>5. task[t].pc = "done" /\ LiveCandidates(s) \subseteq {t}
  BY <1>1, <1>2, <1>4 DEF WriterInv, TaskAt, Holding, OneProposal
<1>6. c.task = t
  BY DEF NoCall
<1> HIDE DEF t, c
<1>7. /\ \A u \in Tasks : u # t => task'[u] = task[u]
      /\ task'[t].pc = task[t].pc /\ task'[t].of = task[t].of /\ task'[t].grant = task[t].grant
      /\ task'[t].state = "committing" /\ task'[t].flushed = task[t].flushed
      /\ task'[t].report = task[t].report
  BY <1>1, <1>2 DEF TaskRecords
<1>8. /\ \A r \in Sessions : r # s => commit'[r]["accept"] = commit[r]["accept"]
      /\ commit'[s]["accept"].task = t
  BY <1>1, <1>6
<1>9. \A r \in Sessions : /\ Open(r)' <=> Open(r)
                          /\ LiveCandidates(r)' = LiveCandidates(r)
                          /\ HoldsHumanLease(r)' <=> HoldsHumanLease(r)
                          /\ r # s => (Accepting(r)' <=> Accepting(r))
  BY <1>1, <1>2, <1>7, <1>8 DEF Open, LiveCandidates, HoldsHumanLease, Accepting, leaseVars
<1>10. TaskAt' /\ OneHolder'
  <2>1. TaskAt'
    BY <1>1, <1>2, <1>7 DEF WriterInv, TaskAt, leaseVars
  <2>2. OneHolder'
    BY <1>1, <1>7 DEF WriterInv, OneHolder
  <2> QED BY <2>1, <2>2
<1>11. NoneBeforeRegister'
  <2> SUFFICES ASSUME NEW u \in Tasks, task'[u].pc \in {"clone", "register"},
                      NEW r \in Sessions, task'[u].of = r, Open(r)'
               PROVE  LiveCandidates(r)' = {}
    BY <1>10 DEF NoneBeforeRegister, TaskAt, LiveCandidates, Open
  <2> QED BY <1>7, <1>9 DEF WriterInv, NoneBeforeRegister
<1>12. AbsentIsEmpty'
  BY <1>1, <1>7 DEF WriterInv, AbsentIsEmpty, leaseVars
<1>13. CloseIsOpen'
  BY <1>1, <1>9 DEF WriterInv, CloseIsOpen
<1>14. ProposalIsOwn'
  BY <1>1, <1>7 DEF WriterInv, ProposalIsOwn, SessionRecords
<1>15. AcceptIsAlone'
  <2> SUFFICES ASSUME NEW r \in Sessions, Accepting(r)'
               PROVE  LET u == commit'[r]["accept"].task IN
                      /\ u \in Tasks /\ task'[u].of = r /\ task'[u].pc = "done"
                      /\ task'[u].state \in {"committing", "failed"}
                      /\ LiveCandidates(r)' \subseteq {u}
                      /\ \A v \in Tasks : task'[v].of = r => task'[v].pc \notin {"clone", "register"}
    BY DEF AcceptIsAlone
  <2>1. CASE r = s
    BY <1>2, <1>4, <1>5, <1>7, <1>8, <1>9, <2>1 DEF Holding
  <2>2. CASE r # s
    BY <1>2, <1>7, <1>8, <1>9, <2>2 DEF WriterInv, AcceptIsAlone
  <2> QED BY <2>1, <2>2
<1>16. WriterIsBound'
  BY <1>1, <1>9 DEF WriterInv, WriterIsBound, leaseVars
<1>17. HumanExcludesProposal'
  BY <1>9 DEF WriterInv, HumanExcludesProposal
<1>18. OneProposal'
  BY <1>1, <1>9 DEF WriterInv, OneProposal
<1> QED BY <1>10, <1>11, <1>12, <1>13, <1>14, <1>15, <1>16, <1>17, <1>18 DEF Relations

-----------------------------------------------------------------------------
(***************************************************************************)
(* The records stay typed                                                  *)
(***************************************************************************)

\* A step that writes nothing but sessions, by fields that are typed.
LEMMA SessionTyped ==
  ASSUME RecordsTyped, LeaseInv, NEW s \in Sessions,
         \/ OpenSession(s) \/ BareSave(s) \/ EndEdit(s) \/ UnstableIdentity(s)
         \/ ApplyEdit(s) \/ RefuseEdit(s) \/ ApplyResolve(s)
         \/ BeginEdit(s) \/ MountEditor(s) \/ HashForEdit(s) \/ StartResolve(s)
         \/ \E d \in Documents : WatcherFires(d) \/ \E c \in Contents : ExternalWrite(d, c)
  PROVE  RecordsTyped'
<1>1. session \in [Sessions -> SessionRecords] /\ source \in [Documents -> Contents \cup {Gone}]
  BY DEF RecordsTyped
<1>2. UNCHANGED <<log, journal, task, commit, closing>>
  BY DEF OpenSession, BareSave, EndEdit, UnstableIdentity, ApplyEdit, RefuseEdit, ApplyResolve,
         BeginEdit, MountEditor, HashForEdit, StartResolve, WatcherFires, ExternalWrite, callVars
<1>3. source' \in [Documents -> Contents \cup {Gone}]
  BY <1>1 DEF OpenSession, BareSave, EndEdit, UnstableIdentity, ApplyEdit, RefuseEdit, ApplyResolve,
         BeginEdit, MountEditor, HashForEdit, StartResolve, WatcherFires, ExternalWrite
<1>4. session' \in [Sessions -> SessionRecords]
  <2>1. CASE OpenSession(s)
    <3>1. session' = [session EXCEPT ![s] =
                        [session[s] EXCEPT !.life = "ready", !.identity = "hashing"]]
      <4>1. session' = [session EXCEPT ![s].life = "ready", ![s].identity = "hashing"]
        BY <2>1 DEF OpenSession
      <4> QED BY <4>1
    <3>2. [session[s] EXCEPT !.life = "ready", !.identity = "hashing"] \in SessionRecords
      BY <1>1 DEF SessionRecords, Life, Identity
    <3> QED BY <1>1, <3>1, <3>2
  <2>2. CASE BareSave(s) \/ UnstableIdentity(s)
    BY <1>1, <2>2 DEF BareSave, UnstableIdentity, Conflicted, SessionRecords, Life, Identity
  <2>3. CASE EndEdit(s)
    BY <1>1, <2>3 DEF EndEdit, SessionRecords
  <2>4. CASE ApplyEdit(s)
    <3>1. NextLease(s, "human") \in Lease
      BY NextLeaseType DEF LeaseInv, Owner
    <3> QED BY <1>1, <2>4, <3>1 DEF ApplyEdit, SessionRecords
  <2>5. CASE RefuseEdit(s) \/ ApplyResolve(s)
    BY <1>1, <2>5 DEF RefuseEdit, ApplyResolve, SessionRecords, Life
  <2>6. CASE \E d \in Documents : WatcherFires(d)
    BY <1>1, <2>6 DEF WatcherFires, Conflicted, SessionRecords, Life
  <2>7. CASE \/ BeginEdit(s) \/ MountEditor(s) \/ HashForEdit(s) \/ StartResolve(s)
             \/ \E d \in Documents, c \in Contents : ExternalWrite(d, c)
    BY <1>1, <2>7 DEF BeginEdit, MountEditor, HashForEdit, StartResolve, ExternalWrite
  <2> QED BY <2>1, <2>2, <2>3, <2>4, <2>5, <2>6, <2>7
<1> QED BY <1>2, <1>3, <1>4 DEF RecordsTyped

\* Closing and the identity of a session.
LEMMA CloseTyped ==
  ASSUME RecordsTyped, NEW s \in Sessions,
         \/ CloseStart(s) \/ CloseEdit(s) \/ CloseFinish(s) \/ BindIdentity(s)
  PROVE  RecordsTyped'
<1> DEFINE Closes == [pc : {"idle", "draining", "ending", "mailbox"}, lanes : SUBSET Tasks]
<1>1. session \in [Sessions -> SessionRecords]
  BY DEF RecordsTyped
<1>2. closing \in [Sessions -> Closes]
  BY DEF RecordsTyped
<1>3. UNCHANGED <<source, journal, commit>>
  BY DEF CloseStart, CloseEdit, CloseFinish, BindIdentity, callVars
<1>4. CASE CloseStart(s)
  <2>1. \A t \in Tasks : task[t] \in TaskRecords /\ [task[t] EXCEPT !.closing = TRUE] \in TaskRecords
    <3> SUFFICES ASSUME NEW t \in Tasks
                 PROVE  [task[t] EXCEPT !.closing = TRUE] \in TaskRecords
      BY DEF RecordsTyped
    <3>1. task[t] \in TaskRecords
      BY DEF RecordsTyped
    <3>2. TRUE \in BOOLEAN
      OBVIOUS
    <3> QED BY <3>1, <3>2, ZenonT(30) DEF TaskRecords
  <2>2. task' \in [Tasks -> TaskRecords]
    BY <1>4, <2>1 DEF CloseStart
  <2>3. closing' \in [Sessions -> Closes]
    BY <1>2, <1>4 DEF CloseStart, Tracked
  <2> QED BY <1>3, <1>4, <2>2, <2>3 DEF CloseStart, RecordsTyped
<1>5. CASE CloseEdit(s)
  <2>1. session' \in [Sessions -> SessionRecords]
    <3>1. \/ session' = [session EXCEPT ![s].life = "closing", ![s].writer = NoLease]
          \/ session' = [session EXCEPT ![s].life = "closing"]
      BY <1>5 DEF CloseEdit
    <3>2. CASE session' = [session EXCEPT ![s].life = "closing", ![s].writer = NoLease]
      BY ZenonT(40), <1>1, <3>2 DEF SessionRecords, Life
    <3>3. CASE session' = [session EXCEPT ![s].life = "closing"]
      BY <1>1, <3>3 DEF SessionRecords, Life
    <3> QED BY <3>1, <3>2, <3>3
  <2>2. closing' \in [Sessions -> Closes]
    BY <1>2, <1>5 DEF CloseEdit
  <2> QED BY <1>3, <1>5, <2>1, <2>2 DEF CloseEdit, RecordsTyped
<1>6. CASE CloseFinish(s)
  <2>1. session' \in [Sessions -> SessionRecords]
    <3>1. session' = [session EXCEPT ![s] =
                        [session[s] EXCEPT !.life = "closed", !.identity = "none"]]
      <4>1. session' = [session EXCEPT ![s].life = "closed", ![s].identity = "none"]
        BY <1>6 DEF CloseFinish
      <4> QED BY <4>1
    <3>2. [session[s] EXCEPT !.life = "closed", !.identity = "none"] \in SessionRecords
      BY <1>1 DEF SessionRecords, Life, Identity
    <3> QED BY <1>1, <3>1, <3>2
  <2>2. closing' \in [Sessions -> Closes]
    BY <1>2, <1>6 DEF CloseFinish, NoClose
  <2> QED BY <1>3, <1>6, <2>1, <2>2 DEF CloseFinish, RecordsTyped
<1>7. CASE BindIdentity(s)
  <2>1. session' \in [Sessions -> SessionRecords]
    <3>1. session' = [session EXCEPT ![s] = [session[s] EXCEPT !.identity = "opened", !.committed = 1]]
      BY <1>1, <1>7 DEF BindIdentity
    <3>2. session[s] \in SessionRecords
      BY <1>1
    <3> QED BY <1>1, <3>1, <3>2 DEF SessionRecords, Identity
  <2>2. log' \in [Sessions -> Seq(Contents \cup {Gone})]
    <3>1. /\ log \in [Sessions -> Seq(Contents \cup {Gone})]
          /\ source[DocumentOf[s]] \in Contents \cup {Gone}
      BY SessionAssumption DEF RecordsTyped
    <3>2. log' = [log EXCEPT ![s] = Append(log[s], source[DocumentOf[s]])]
      BY <1>7 DEF BindIdentity
    <3>3. Append(log[s], source[DocumentOf[s]]) \in Seq(Contents \cup {Gone})
      BY <3>1
    <3> QED BY <3>1, <3>2, <3>3
  <2> QED BY <1>3, <1>7, <2>1, <2>2 DEF BindIdentity, RecordsTyped, callVars
<1> QED BY <1>4, <1>5, <1>6, <1>7

\* Commits: what is sealed, recorded or left to recovery is what was queued.
LEMMA CommitTyped ==
  ASSUME RecordsTyped, NEW s \in Sessions, NEW k \in Kinds,
         \/ CommitStep(s, k) \/ RecordSave(s) \/ RecordAccept(s)
         \/ \E bytes \in Contents : StartSave(s, bytes)
  PROVE  RecordsTyped'
<1>1. /\ commit \in [Sessions -> [Kinds -> CommitRecords]]
      /\ "save" \in Kinds /\ "accept" \in Kinds
  BY DEF RecordsTyped, Kinds
<1>2. log \in [Sessions -> Seq(Contents \cup {Gone})]
  BY DEF RecordsTyped
<1>3. source \in [Documents -> Contents \cup {Gone}] /\ DocumentOf[s] \in Documents
  BY SessionAssumption DEF RecordsTyped
<1>4. \A j \in Kinds, c \in CommitRecords :
          [commit EXCEPT ![s][j] = c] \in [Sessions -> [Kinds -> CommitRecords]]
  BY <1>1
<1>5. UNCHANGED <<task, closing>>
  BY DEF CommitStep, SealCommit, RefuseCommit, Replace, LeaveToRecovery, RecordSave, RecordAccept,
         StartSave
<1>6. NoCall \in CommitRecords /\ commit[s][k] \in CommitRecords
  BY <1>1 DEF NoCall, CommitRecords
<1>7. CASE \E bytes \in Contents : StartSave(s, bytes)
  <2>1. commit' \in [Sessions -> [Kinds -> CommitRecords]]
    <3>1. PICK bytes \in Contents : StartSave(s, bytes)
      BY <1>7
    <3>2. commit[s]["save"] \in CommitRecords
      BY <1>1
    <3>3. [commit[s]["save"] EXCEPT !.pc = "queued", !.bytes = bytes] \in CommitRecords
      BY <3>2 DEF CommitRecords
    <3>4. commit' = [commit EXCEPT ![s]["save"] =
                       [commit[s]["save"] EXCEPT !.pc = "queued", !.bytes = bytes]]
      <4>1. commit' = [commit EXCEPT ![s]["save"].pc = "queued", ![s]["save"].bytes = bytes]
        BY <3>1 DEF StartSave
      <4> QED BY <4>1, <1>1
    <3> QED BY <1>1, <1>4, <3>3, <3>4
  <2> QED BY <1>5, <1>7, <2>1 DEF StartSave, RecordsTyped
<1>8. CASE SealCommit(s, k)
  <2>1. commit' \in [Sessions -> [Kinds -> CommitRecords]]
    <3>1. [commit[s][k] EXCEPT !.pc = "sealed", !.before = source[DocumentOf[s]]] \in CommitRecords
      BY <1>6, <1>3 DEF CommitRecords
    <3>2. commit' = [commit EXCEPT ![s][k] =
             [commit[s][k] EXCEPT !.pc = "sealed", !.before = source[DocumentOf[s]]]]
      BY <1>1, <1>8 DEF SealCommit
    <3> QED BY <1>4, <3>1, <3>2
  <2> QED BY <1>5, <1>8, <2>1 DEF SealCommit, RecordsTyped
<1>9. CASE RefuseCommit(s, k)
  <2>1. commit' \in [Sessions -> [Kinds -> CommitRecords]]
    BY <1>1, <1>6, <1>9 DEF RefuseCommit, CommitThrows
  <2> QED BY <1>5, <1>9, <2>1 DEF RefuseCommit, RecordsTyped
<1>10. CASE Replace(s, k)
  <2>1. commit' \in [Sessions -> [Kinds -> CommitRecords]]
    <3>1. [commit[s][k] EXCEPT !.pc = "replaced"] \in CommitRecords
      BY <1>6 DEF CommitRecords
    <3>2. commit' = [commit EXCEPT ![s][k] = [commit[s][k] EXCEPT !.pc = "replaced"]]
      BY <1>1, <1>10 DEF Replace
    <3> QED BY <1>4, <3>1, <3>2
  <2>2. source' \in [Documents -> Contents \cup {Gone}]
    <3>1. commit[s][k].bytes \in Contents \cup {Gone}
      BY <1>6 DEF CommitRecords
    <3> QED BY <1>10, <1>3, <3>1 DEF Replace
  <2> QED BY <1>5, <1>10, <2>1, <2>2 DEF Replace, RecordsTyped
<1>11. CASE LeaveToRecovery(s, k)
  <2>1. commit' \in [Sessions -> [Kinds -> CommitRecords]]
    BY <1>1, <1>6, <1>11 DEF LeaveToRecovery, CommitThrows
  <2>2. [session |-> s, bytes |-> commit[s][k].bytes]
          \in [session : Sessions, bytes : Contents \cup {Gone}]
    BY <1>6 DEF CommitRecords
  <2>3. journal' \in Seq([session : Sessions, bytes : Contents \cup {Gone}])
    <3>1. journal \in Seq([session : Sessions, bytes : Contents \cup {Gone}])
      BY DEF RecordsTyped
    <3> QED BY <1>11, <2>2, <3>1 DEF LeaveToRecovery
  <2> QED BY <1>5, <1>11, <2>1, <2>3 DEF LeaveToRecovery, RecordsTyped
<1>12. ASSUME NEW j \in Kinds, Landed(s, j)
      PROVE  log' \in [Sessions -> Seq(Contents \cup {Gone})] /\ Len(log'[s]) \in Nat
  <2>1. commit[s][j].bytes \in Contents \cup {Gone}
    BY <1>1 DEF CommitRecords
  <2>2. log' = [log EXCEPT ![s] = Append(log[s], commit[s][j].bytes)]
    BY <1>12 DEF Landed
  <2>3. Append(log[s], commit[s][j].bytes) \in Seq(Contents \cup {Gone})
    BY <1>2, <2>1
  <2>4. log' \in [Sessions -> Seq(Contents \cup {Gone})] /\ log'[s] \in Seq(Contents \cup {Gone})
    BY <1>2, <2>2, <2>3
  <2> QED BY <2>4
<1>13. CASE RecordSave(s)
  <2>1. log' \in [Sessions -> Seq(Contents \cup {Gone})] /\ Len(log'[s]) \in Nat
    BY <1>1, <1>12, <1>13 DEF RecordSave
  <2>2. commit' \in [Sessions -> [Kinds -> CommitRecords]]
    BY <1>1, <1>6, <1>13 DEF RecordSave
  <2>3. session' \in [Sessions -> SessionRecords]
    <3>1. session \in [Sessions -> SessionRecords]
      BY DEF RecordsTyped
    <3> QED BY <1>13, <2>1, <3>1 DEF RecordSave, Bound, SessionRecords
  <2> QED BY <1>5, <1>13, <2>1, <2>2, <2>3 DEF RecordSave, RecordsTyped
<1>14. CASE RecordAccept(s)
  <2>1. log' \in [Sessions -> Seq(Contents \cup {Gone})] /\ Len(log'[s]) \in Nat
    BY <1>1, <1>12, <1>14 DEF RecordAccept
  <2>2. commit' \in [Sessions -> [Kinds -> CommitRecords]]
    <3>1. commit[s]["accept"] \in CommitRecords
      BY <1>1
    <3>2. [commit[s]["accept"] EXCEPT !.pc = "recorded", !.sequence = Len(log'[s])] \in CommitRecords
      BY <2>1, <3>1 DEF CommitRecords
    <3>3. commit' = [commit EXCEPT ![s]["accept"] =
             [commit[s]["accept"] EXCEPT !.pc = "recorded", !.sequence = Len(log'[s])]]
      BY <1>1, <1>14 DEF RecordAccept
    <3> QED BY <1>1, <1>4, <3>2, <3>3
  <2> QED BY <1>5, <1>14, <2>1, <2>2 DEF RecordAccept, RecordsTyped
<1> QED BY <1>7, <1>8, <1>9, <1>10, <1>11, <1>13, <1>14 DEF CommitStep

\* What is left of a task is a task, and a failed candidate a candidate.
LEMMA EndedTyped ==
  ASSUME NEW t \in Tasks, task[t] \in TaskRecords
  PROVE  Ended(t) \in TaskRecords
<1>1. "done" \in {"idle", "begin", "acquire", "clone", "register", "open", "flush", "done"}
      /\ 0 \in Nat /\ NoLease \in Lease \cup {NoLease}
  OBVIOUS
<1>2. FALSE \in BOOLEAN
  OBVIOUS
<1> QED BY <1>1, <1>2, ZenonT(30) DEF Ended, TaskRecords

\* A failed candidate is a well-typed record.
LEMMA FailedTyped ==
  ASSUME NEW r \in TaskRecords
  PROVE  Failed(r) \in TaskRecords
BY DEF Failed, TaskRecords, CandidateState

\* The steps of one task that leave its session's records typed.
LEMMA TaskTyped ==
  ASSUME WriterInv, NEW t \in Tasks,
         \/ \E bytes \in Contents : Mutate(t, bytes) \/ Amend(t, bytes)
         \/ \E s \in Sessions : BeginTask(t, s)
         \/ StartFlush(t) \/ FailFlush(t) \/ StartVerify(t) \/ FailVerify(t) \/ DropVerify(t)
         \/ IdentityForTask(t) \/ RefuseTask(t) \/ CloneSource(t) \/ RegisterInClosed(t)
  PROVE  RecordsTyped'
<1>1. task \in [Tasks -> TaskRecords] /\ task[t] \in TaskRecords /\ RecordsTyped
  BY DEF RecordsTyped, WriterInv
<1>2. UNCHANGED <<source, session, commit, closing, log, journal>>
  BY DEF Mutate, Amend, BeginTask, StartFlush, FailFlush, StartVerify, FailVerify, DropVerify,
         IdentityForTask, RefuseTask, CloneSource, RegisterInClosed, callVars
<1> SUFFICES task' \in [Tasks -> TaskRecords]
  BY <1>1, <1>2 DEF RecordsTyped
<1>3. CASE \E bytes \in Contents : Mutate(t, bytes)
  BY <1>1, <1>3 DEF Mutate, TaskRecords
<1>4. CASE \E bytes \in Contents : Amend(t, bytes)
  <2>1. PICK bytes \in Contents : Amend(t, bytes)
    BY <1>4
  <2>2. task' = [task EXCEPT ![t] = [task[t] EXCEPT !.state = "human-amended",
                   !.staged = bytes, !.flushed = bytes, !.verified = Gone]]
    BY <2>1 DEF Amend
  <2>3. [task[t] EXCEPT !.state = "human-amended", !.staged = bytes, !.flushed = bytes,
                        !.verified = Gone] \in TaskRecords
    BY <1>1 DEF TaskRecords, CandidateState
  <2> QED BY <1>1, <2>2, <2>3
<1>5. CASE \E s \in Sessions : BeginTask(t, s)
  <2>1. PICK s \in Sessions : task' = [task EXCEPT ![t].pc = "begin", ![t].of = s]
    BY <1>5 DEF BeginTask
  <2>2. [task[t] EXCEPT !.pc = "begin", !.of = s] \in TaskRecords
    BY <1>1 DEF TaskRecords
  <2>3. task' = [task EXCEPT ![t] = [task[t] EXCEPT !.pc = "begin", !.of = s]]
    BY <1>1, <2>1
  <2> QED BY <1>1, <2>2, <2>3
<1>6. CASE StartFlush(t)
  BY <1>1, <1>6 DEF StartFlush, TaskRecords, CandidateState
<1>7. CASE FailFlush(t)
  BY <1>1, <1>7 DEF FailFlush, TaskRecords
<1>8. CASE StartVerify(t)
  BY <1>1, <1>8 DEF StartVerify, TaskRecords
<1>9. CASE FailVerify(t)
  BY <1>1, <1>9 DEF FailVerify, TaskRecords, CandidateState
<1>10. CASE DropVerify(t)
  BY <1>1, <1>10 DEF DropVerify, TaskRecords
<1>11. CASE IdentityForTask(t)
  <2>1. task[t].of \in Sessions
    BY <1>11 DEF IdentityForTask, WriterInv, TaskAt
  <2>2. KnownRevision(task[t].of) \in Nat
    BY <1>1, <2>1 DEF KnownRevision, RecordsTyped, SessionRecords
  <2> QED BY <1>1, <1>11, <2>2 DEF IdentityForTask, TaskRecords
<1>12. CASE RefuseTask(t) \/ RegisterInClosed(t)
  <2>1. task' = [task EXCEPT ![t] = Ended(t)]
    BY <1>12 DEF RefuseTask, RegisterInClosed
  <2> QED BY <1>1, <2>1, EndedTyped
<1>13. CASE CloneSource(t)
  <2>1. source[DocumentOf[task[t].of]] \in Contents \cup {Gone}
    <3>1. task[t].of \in Sessions
      BY <1>13 DEF CloneSource, WriterInv, TaskAt
    <3> QED BY <1>1, <3>1, SessionAssumption DEF RecordsTyped
  <2> QED BY ZenonT(40), <1>1, <1>13, <2>1 DEF CloneSource, TaskRecords
<1> QED BY <1>3, <1>4, <1>5, <1>6, <1>7, <1>8, <1>9, <1>10, <1>11, <1>12, <1>13

\* The steps that move a task and its session together.
LEMMA WriterTyped ==
  ASSUME WriterInv, NEW t \in Tasks,
         \/ AcquireWriter(t) \/ CloneFails(t) \/ RefuseRegister(t) \/ Register(t)
         \/ FinishFlush(t) \/ PassVerify(t) \/ Finalize(t)
  PROVE  RecordsTyped'
<1>1. /\ task \in [Tasks -> TaskRecords] /\ session \in [Sessions -> SessionRecords]
      /\ task[t] \in TaskRecords /\ RecordsTyped
  BY DEF RecordsTyped, WriterInv
<1>2. UNCHANGED <<source, commit, closing, log, journal>>
  BY DEF AcquireWriter, CloneFails, RefuseRegister, Register, FinishFlush, PassVerify, Finalize,
         callVars
<1> SUFFICES task' \in [Tasks -> TaskRecords] /\ session' \in [Sessions -> SessionRecords]
  BY <1>1, <1>2 DEF RecordsTyped
<1>3. CASE AcquireWriter(t)
  <2>1. PICK s \in Sessions :
          /\ session' = [session EXCEPT ![s].writer = NextLease(s, "agent")]
          /\ task' = [task EXCEPT ![t].pc = "clone", ![t].grant = NextLease(s, "agent"),
                                  ![t].captured = session[s].committed]
    BY <1>3 DEF AcquireWriter
  <2>2. NextLease(s, "agent") \in Lease
    BY NextLeaseType DEF WriterInv, LeaseInv, Owner
  <2>3. session[s].committed \in Nat
    BY <1>1 DEF SessionRecords
  <2>4. [task[t] EXCEPT !.pc = "clone", !.grant = NextLease(s, "agent"),
                        !.captured = session[s].committed] \in TaskRecords
    BY <1>1, <2>2, <2>3 DEF TaskRecords
  <2>5. task' = [task EXCEPT ![t] = [task[t] EXCEPT !.pc = "clone",
                   !.grant = NextLease(s, "agent"), !.captured = session[s].committed]]
    BY <1>1, <2>1
  <2>6. session' \in [Sessions -> SessionRecords]
    BY <1>1, <2>1, <2>2 DEF SessionRecords
  <2> QED BY <1>1, <2>4, <2>5, <2>6
<1>4. CASE CloneFails(t) \/ RefuseRegister(t)
  <2>1. /\ session' = Unbound(task[t].of, task[t].grant)
        /\ task' = [task EXCEPT ![t] = [Ended(t) EXCEPT !.staged = Gone]]
    BY <1>4 DEF CloneFails, RefuseRegister, GiveUp
  <2>2. [Ended(t) EXCEPT !.staged = Gone] \in TaskRecords
    BY <1>1, EndedTyped DEF TaskRecords
  <2>3. session' \in [Sessions -> SessionRecords]
    BY ZenonT(40), <1>1, <2>1 DEF Unbound, SessionRecords
  <2> QED BY <1>1, <2>1, <2>2, <2>3
<1>5. CASE Register(t)
  <2>1. task' \in [Tasks -> TaskRecords]
    BY ZenonT(40), <1>1, <1>5 DEF Register, TaskRecords, CandidateState
  <2>2. session' \in [Sessions -> SessionRecords]
    BY <1>1, <1>5 DEF Register, SessionRecords
  <2> QED BY <2>1, <2>2
<1>6. Proposed(task[t].of, t) \in [Sessions -> SessionRecords]
  BY <1>1 DEF Proposed, SessionRecords
<1>7. CASE FinishFlush(t)
  <2>1. [task[t] EXCEPT !.pc = "open", !.state = "verifying", !.flushed = task[t].staged]
          \in TaskRecords
    BY <1>1 DEF TaskRecords, CandidateState
  <2>2. task' = [task EXCEPT ![t] = [task[t] EXCEPT !.pc = "open", !.state = "verifying",
                                       !.flushed = task[t].staged]]
    BY <1>7 DEF FinishFlush
  <2> QED BY <1>1, <1>6, <1>7, <2>1, <2>2 DEF FinishFlush
<1>8. CASE PassVerify(t)
  <2> DEFINE next == IF task[t].state = "verifying" THEN "ready" ELSE task[t].state
             r == [task[t] EXCEPT !.verified = task[t].report, !.report = Gone, !.state = next]
  <2>1. r \in TaskRecords
    <3>1. next \in CandidateState
      BY <1>1 DEF TaskRecords, CandidateState
    <3> HIDE DEF next
    <3> QED BY <1>1, <3>1 DEF TaskRecords
  <2>2. task' = [task EXCEPT ![t] = r]
    BY <1>8 DEF PassVerify
  <2> HIDE DEF r
  <2>3. session' \in [Sessions -> SessionRecords]
    BY <1>1, <1>6, <1>8 DEF PassVerify
  <2> QED BY <1>1, <2>1, <2>2, <2>3
<1>9. CASE Finalize(t)
  <2>1. session' \in [Sessions -> SessionRecords]
    BY ZenonT(40), <1>1, <1>9 DEF Finalize, SessionRecords
  <2>2. task' = [task EXCEPT ![t] = Ended(t)]
    BY <1>9 DEF Finalize
  <2> QED BY <1>1, <2>1, <2>2, EndedTyped
<1> QED BY <1>3, <1>4, <1>5, <1>7, <1>8, <1>9

\* Accepts, rejects and the close that reclaims a task.
LEMMA ProposalTyped ==
  ASSUME WriterInv, NEW s \in Sessions,
         Reject(s) \/ StartAccept(s) \/ BindAccept(s) \/ CloseAbort(s)
  PROVE  RecordsTyped'
<1>1. /\ task \in [Tasks -> TaskRecords] /\ session \in [Sessions -> SessionRecords]
      /\ commit \in [Sessions -> [Kinds -> CommitRecords]] /\ "accept" \in Kinds
      /\ RecordsTyped
  BY DEF RecordsTyped, WriterInv, Kinds
<1>2. UNCHANGED <<source, log, journal>>
  BY DEF Reject, StartAccept, BindAccept, CloseAbort
<1>3. NoCall \in CommitRecords
  BY DEF NoCall, CommitRecords
<1>4. CASE Reject(s)
  <2> DEFINE t == session[s].proposal
             r == [Failed(task[t]) EXCEPT !.staged = Gone]
  <2>1. t \in Tasks
    BY <1>1, <1>4 DEF Reject, SessionRecords
  <2>2. r \in TaskRecords
    <3>1. Failed(task[t]) \in TaskRecords
      BY <1>1, <2>1, FailedTyped
    <3> QED BY <3>1 DEF TaskRecords
  <2>3. task' = [task EXCEPT ![t] = r] /\ UNCHANGED <<commit, closing>>
    BY <1>4 DEF Reject, callVars
  <2> HIDE DEF r
  <2>4. session' \in [Sessions -> SessionRecords]
    BY <1>1, <1>4 DEF Reject, SessionRecords
  <2> QED BY <1>1, <1>2, <2>1, <2>2, <2>3, <2>4 DEF RecordsTyped
<1>5. CASE StartAccept(s)
  <2> DEFINE t == session[s].proposal
             c == [NoCall EXCEPT !.pc = "queued", !.bytes = task[t].flushed, !.task = t]
  <2>1. t \in Tasks
    BY <1>1, <1>5 DEF StartAccept, SessionRecords
  <2>2. c \in CommitRecords
    BY <1>1, <1>3, <2>1 DEF CommitRecords, TaskRecords
  <2>3. commit' = [commit EXCEPT ![s]["accept"] = c] /\ UNCHANGED <<session, closing>>
        /\ task' = [task EXCEPT ![t].state = "committing"]
    BY <1>5 DEF StartAccept
  <2> HIDE DEF c
  <2>4. task' \in [Tasks -> TaskRecords]
    <3>1. [task[t] EXCEPT !.state = "committing"] \in TaskRecords
      <4>1. task[t] \in TaskRecords
        BY <1>1, <2>1
      <4> QED BY <4>1 DEF TaskRecords, CandidateState
    <3>2. task' = [task EXCEPT ![t] = [task[t] EXCEPT !.state = "committing"]]
      BY <2>3
    <3> QED BY <1>1, <2>1, <3>1, <3>2
  <2>5. commit' \in [Sessions -> [Kinds -> CommitRecords]]
    BY <1>1, <2>2, <2>3
  <2> QED BY <1>1, <1>2, <2>3, <2>4, <2>5 DEF RecordsTyped
<1>6. CASE BindAccept(s)
  <2> DEFINE t == commit[s]["accept"].task
             r == [NoTaskYet EXCEPT !.pc = "done", !.of = s, !.state = "deleted"]
  <2>1. r \in TaskRecords
    <3>1. NoTaskYet \in TaskRecords
      <4>1. FALSE \in BOOLEAN /\ 0 \in Nat
        OBVIOUS
      <4>2. "none" \in CandidateState
        BY DEF CandidateState
      <4> QED BY <4>1, <4>2, ZenonT(30) DEF NoTaskYet, TaskRecords
    <3> QED BY <3>1 DEF TaskRecords, CandidateState
  <2>2. task' = [task EXCEPT ![t] = r] /\ UNCHANGED closing
        /\ commit' = [commit EXCEPT ![s]["accept"] = NoCall]
    BY <1>6 DEF BindAccept
  <2> HIDE DEF r
  <2>3. commit[s]["accept"].sequence \in Nat
    BY <1>1 DEF CommitRecords
  <2>4. session' \in [Sessions -> SessionRecords]
    <3> DEFINE bound == Bound(s, commit[s]["accept"].sequence)
    <3>1. bound \in [Sessions -> SessionRecords]
      BY <1>1, <2>3 DEF Bound, SessionRecords
    <3>2. [bound[s] EXCEPT !.proposal = NoTask] \in SessionRecords
      BY <3>1 DEF SessionRecords
    <3>3. session' = [bound EXCEPT ![s] = [bound[s] EXCEPT !.proposal = NoTask]]
      BY <1>6 DEF BindAccept
    <3> HIDE DEF bound
    <3> QED BY <3>1, <3>2, <3>3
  <2>5. commit' \in [Sessions -> [Kinds -> CommitRecords]] /\ task' \in [Tasks -> TaskRecords]
    BY <1>1, <1>3, <2>1, <2>2
  <2> QED BY <1>1, <1>2, <2>2, <2>4, <2>5 DEF RecordsTyped
<1>7. CASE CloseAbort(s)
  <2>1. task' \in [Tasks -> TaskRecords]
    <3>1. UNCHANGED task \/ \E t \in Tracked(s) : task' = [task EXCEPT ![t] = Failed(Ended(t))]
      BY <1>7 DEF CloseAbort
    <3>2. \A t \in Tracked(s) : t \in Tasks /\ Failed(Ended(t)) \in TaskRecords
      BY <1>1, EndedTyped, FailedTyped DEF Tracked
    <3> QED BY <1>1, <3>1, <3>2
  <2>2. session' \in [Sessions -> SessionRecords]
    BY SMTT(30), <1>1, <1>7 DEF CloseAbort, SessionRecords
  <2>3. closing' \in [Sessions ->
          [pc : {"idle", "draining", "ending", "mailbox"}, lanes : SUBSET Tasks]]
    BY <1>1, <1>7 DEF CloseAbort, RecordsTyped
  <2> QED BY <1>1, <1>2, <1>7, <2>1, <2>2, <2>3 DEF CloseAbort, RecordsTyped
<1> QED BY <1>4, <1>5, <1>6, <1>7

\* Recovery appends finitely many revisions.
LEMMA RecoveredTyped ==
  ASSUME RecordsTyped, NEW s \in Sessions
  PROVE  LandedByRecovery(s) \in Seq(Contents \cup {Gone})
<1> DEFINE held == source[DocumentOf[s]]
           rows == {i \in 1..Len(journal) : journal[i].session = s /\ journal[i].bytes = held}
           live == {k \in Kinds : /\ commit[s][k].pc \in {"sealed", "replaced"}
                                  /\ commit[s][k].bytes = held}
<1>1. held \in Contents \cup {Gone}
  BY SessionAssumption DEF RecordsTyped
<1>2. Cardinality(rows) \in Nat
  <2>1. journal \in Seq([session : Sessions, bytes : Contents \cup {Gone}])
    BY DEF RecordsTyped
  <2>2. Len(journal) \in Nat
    BY <2>1
  <2>3. IsFiniteSet(1..Len(journal)) /\ rows \subseteq 1..Len(journal)
    BY <2>2, FS_Interval
  <2> HIDE DEF rows
  <2> QED BY <2>3, FS_Subset, FS_CardinalityType
<1>3. Cardinality(live) \in Nat
  <2>1. IsFiniteSet(Kinds)
    <3>1. IsFiniteSet({"save"})
      BY FS_Singleton
    <3>2. Kinds = {"save"} \cup {"accept"}
      BY DEF Kinds
    <3> QED BY <3>1, <3>2, FS_AddElement
  <2>2. live \subseteq Kinds
    OBVIOUS
  <2> HIDE DEF live
  <2> QED BY <2>1, <2>2, FS_Subset, FS_CardinalityType
<1>4. LandedByRecovery(s) = [i \in 1..(Cardinality(rows) + Cardinality(live)) |-> held]
  BY DEF LandedByRecovery
<1> HIDE DEF held, rows, live
<1>5. Cardinality(rows) + Cardinality(live) \in Nat
  BY <1>2, <1>3
<1> QED BY <1>1, <1>4, <1>5

\* What a restart rehydrates and reconciles is well typed.
LEMMA RestartTyped ==
  ASSUME WriterInv, Restart
  PROVE  RecordsTyped'
<1>1. /\ RecordsTyped /\ task \in [Tasks -> TaskRecords] /\ session \in [Sessions -> SessionRecords]
  BY DEF WriterInv, RecordsTyped
<1>2. source' = source /\ journal' = <<>>
      /\ log' = [s \in Sessions |-> log[s] \o LandedByRecovery(s)]
      /\ session' = [s \in Sessions |-> Rehydrated(s)]
      /\ task' = [t \in Tasks |-> Reconciled(t)]
      /\ commit' = [s \in Sessions |-> [k \in Kinds |-> NoCall]]
      /\ closing' = [s \in Sessions |-> NoClose]
  BY DEF Restart
<1>3. log' \in [Sessions -> Seq(Contents \cup {Gone})]
  <2>1. \A s \in Sessions : log[s] \in Seq(Contents \cup {Gone})
    BY <1>1 DEF RecordsTyped
  <2>2. \A s \in Sessions : log[s] \o LandedByRecovery(s) \in Seq(Contents \cup {Gone})
    <3> SUFFICES ASSUME NEW s \in Sessions
                 PROVE  log[s] \o LandedByRecovery(s) \in Seq(Contents \cup {Gone})
      OBVIOUS
    <3> DEFINE landed == LandedByRecovery(s)
    <3>1. landed \in Seq(Contents \cup {Gone})
      BY <1>1, RecoveredTyped
    <3>2. log[s] \in Seq(Contents \cup {Gone})
      BY <2>1
    <3> HIDE DEF landed
    <3>3. log[s] \o landed \in Seq(Contents \cup {Gone})
      BY <3>1, <3>2
    <3> QED BY <3>3 DEF landed
  <2> QED BY <1>2, <2>2
<1>4. \A s \in Sessions : Len(log'[s]) \in Nat
  <2> SUFFICES ASSUME NEW s \in Sessions
               PROVE  Len(log'[s]) \in Nat
    OBVIOUS
  <2>1. log'[s] \in Seq(Contents \cup {Gone})
    BY <1>3
  <2> QED BY <2>1
<1>5. session' \in [Sessions -> SessionRecords]
  <2> SUFFICES ASSUME NEW s \in Sessions
               PROVE  Rehydrated(s) \in SessionRecords
    BY <1>2
  <2>1. session[s] \in SessionRecords
    BY <1>1
  <2>2. CASE ~Open(s)
    BY <2>1, <2>2 DEF Rehydrated
  <2>3. CASE Open(s) /\ log'[s] = <<>>
    BY <2>1, <2>3 DEF Rehydrated, SessionRecords, Life, Identity
  <2>4. CASE Open(s) /\ log'[s] # <<>>
    <3> DEFINE p == IF Reviewable(s) = {} THEN NoTask ELSE CHOOSE t \in Reviewable(s) : TRUE
    <3>1. p \in Tasks \cup {NoTask}
      BY DEF Reviewable, LiveCandidates
    <3>2. Rehydrated(s) = [life |-> "recovery", identity |-> "none", committed |-> Len(log'[s]),
                           writer |-> NoLease, proposal |-> p]
      BY <2>4 DEF Rehydrated
    <3> HIDE DEF p
    <3> QED BY <1>4, <3>1, <3>2 DEF SessionRecords, Life, Identity
  <2> QED BY <2>2, <2>3, <2>4
<1>6. task' \in [Tasks -> TaskRecords]
  <2> SUFFICES ASSUME NEW t \in Tasks
               PROVE  Reconciled(t) \in TaskRecords
    BY <1>2
  <2>1. task[t] \in TaskRecords /\ Ended(t) \in TaskRecords
    BY <1>1, EndedTyped
  <2>2. [Ended(t) EXCEPT !.report = Gone] \in TaskRecords
    BY <2>1 DEF TaskRecords
  <2> QED BY <2>1, <2>2, FailedTyped DEF Reconciled
<1>7. commit' \in [Sessions -> [Kinds -> CommitRecords]]
  <2>1. NoCall \in CommitRecords
    BY DEF NoCall, CommitRecords
  <2> QED BY <1>2, <2>1
<1>8. closing' \in [Sessions ->
          [pc : {"idle", "draining", "ending", "mailbox"}, lanes : SUBSET Tasks]]
  BY <1>2 DEF NoClose
<1>9. /\ source' \in [Documents -> Contents \cup {Gone}]
      /\ journal' \in Seq([session : Sessions, bytes : Contents \cup {Gone}])
  BY <1>1, <1>2 DEF RecordsTyped
<1> QED BY <1>3, <1>5, <1>6, <1>7, <1>8, <1>9 DEF RecordsTyped

-----------------------------------------------------------------------------
(***************************************************************************)
(* Every step keeps the invariant                                          *)
(***************************************************************************)

\* The leases keep their own invariant in every step (NextLeases); a step that adds
\* nothing keeps the rest.
LEMMA SmallerKeeps ==
  ASSUME WriterInv, [Next]_vars, RecordsTyped', Shrinks
  PROVE  WriterInv'
<1>1. LeaseInv'
  BY NextLeases, LeaseStepKeeps DEF WriterInv
<1> QED BY <1>1, ShrinkKeeps

\* For a step that adds something the relations are proved directly.
LEMMA GreaterKeeps ==
  ASSUME WriterInv, [Next]_vars, RecordsTyped', Relations'
  PROVE  WriterInv'
<1>1. LeaseInv'
  BY NextLeases, LeaseStepKeeps DEF WriterInv
<1> QED BY <1>1 DEF WriterInv, Relations

\* Every call of a user keeps the invariant.
LEMMA CallKeeps ==
  ASSUME WriterInv, Call
  PROVE  WriterInv'
<1>1. [Next]_vars /\ RecordsTyped /\ LeaseInv
  BY DEF Next, WriterInv
<1>2. ASSUME NEW s \in Sessions, BeginEdit(s) \/ StartResolve(s)
      PROVE  WriterInv'
  <2>1. "save" \in Kinds
    BY DEF Kinds
  <2> QED BY <1>1, <1>2, <2>1, QuietShrinks, SessionTyped, SmallerKeeps
<1>3. ASSUME NEW s \in Sessions, NEW bytes \in Contents, StartSave(s, bytes)
      PROVE  WriterInv'
  <2>1. "save" \in Kinds
    BY DEF Kinds
  <2> QED BY <1>1, <1>3, <2>1, QuietShrinks, CommitTyped, SmallerKeeps
<1>4. ASSUME NEW s \in Sessions, OpenSession(s)
      PROVE  WriterInv'
  BY <1>1, <1>4, OpenSessionRelations, SessionTyped, GreaterKeeps
<1>5. ASSUME NEW s \in Sessions, BareSave(s)
      PROVE  WriterInv'
  BY <1>1, <1>5, SessionShrinks, SessionTyped, SmallerKeeps
<1>6. ASSUME NEW s \in Sessions, EndEdit(s)
      PROVE  WriterInv'
  BY <1>1, <1>6, EndEditShrinks, SessionTyped, SmallerKeeps
<1>7. ASSUME NEW s \in Sessions, Reject(s)
      PROVE  WriterInv'
  BY <1>1, <1>7, RejectShrinks, ProposalTyped, SmallerKeeps
<1>8. ASSUME NEW s \in Sessions, StartAccept(s)
      PROVE  WriterInv'
  BY <1>1, <1>8, StartAcceptRelations, ProposalTyped, GreaterKeeps
<1>9. ASSUME NEW s \in Sessions, CloseStart(s)
      PROVE  WriterInv'
  BY <1>1, <1>9, CloseStartShrinks, CloseTyped, SmallerKeeps
<1>10. ASSUME NEW s \in Sessions, NEW t \in Tasks, BeginTask(t, s)
       PROVE  WriterInv'
  BY <1>1, <1>10, BeginTaskRelations, TaskTyped, GreaterKeeps
<1>11. ASSUME NEW t \in Tasks,
              \/ StartFlush(t) \/ StartVerify(t)
              \/ \E bytes \in Contents : Mutate(t, bytes) \/ Amend(t, bytes)
       PROVE  WriterInv'
  BY <1>1, <1>11, TaskShrinks, TaskTyped, SmallerKeeps
<1>12. ASSUME NEW t \in Tasks, Finalize(t)
       PROVE  WriterInv'
  BY <1>1, <1>12, GiveUpShrinks, WriterTyped, SmallerKeeps
<1> QED BY <1>2, <1>3, <1>4, <1>5, <1>6, <1>7, <1>8, <1>9, <1>10, <1>11, <1>12 DEF Call

\* Every continuation keeps the invariant.
LEMMA ContinueKeeps ==
  ASSUME WriterInv, Continue
  PROVE  WriterInv'
<1>1. [Next]_vars /\ RecordsTyped /\ LeaseInv
  BY DEF Next, WriterInv
<1>2. ASSUME NEW s \in Sessions, BindIdentity(s)
      PROVE  WriterInv'
  BY <1>1, <1>2, SessionShrinks, CloseTyped, SmallerKeeps DEF IdentityStep
<1>3. ASSUME NEW s \in Sessions, UnstableIdentity(s) \/ RefuseEdit(s) \/ ApplyResolve(s)
      PROVE  WriterInv'
  BY <1>1, <1>3, SessionShrinks, SessionTyped, SmallerKeeps DEF IdentityStep
<1>4. ASSUME NEW s \in Sessions, MountEditor(s) \/ HashForEdit(s)
      PROVE  WriterInv'
  <2>1. "save" \in Kinds
    BY DEF Kinds
  <2> QED BY <1>1, <1>4, <2>1, QuietShrinks, SessionTyped, SmallerKeeps
<1>5. ASSUME NEW s \in Sessions, ApplyEdit(s)
      PROVE  WriterInv'
  BY <1>1, <1>5, ApplyEditRelations, SessionTyped, GreaterKeeps
<1>6. ASSUME NEW s \in Sessions, NEW k \in Kinds, CommitStep(s, k) \/ RecordAccept(s)
      PROVE  WriterInv'
  BY <1>1, <1>6, QuietShrinks, CommitTyped, SmallerKeeps
<1>7. ASSUME NEW s \in Sessions, RecordSave(s)
      PROVE  WriterInv'
  <2>1. "save" \in Kinds
    BY DEF Kinds
  <2> QED BY <1>1, <1>7, <2>1, SessionShrinks, CommitTyped, SmallerKeeps
<1>8. ASSUME NEW s \in Sessions, BindAccept(s)
      PROVE  WriterInv'
  BY <1>1, <1>8, BindAcceptShrinks, ProposalTyped, SmallerKeeps
<1>9. ASSUME NEW s \in Sessions, CloseAbort(s)
      PROVE  WriterInv'
  BY <1>1, <1>9, CloseAbortShrinks, ProposalTyped, SmallerKeeps
<1>10. ASSUME NEW s \in Sessions, CloseEdit(s)
       PROVE  WriterInv'
  BY <1>1, <1>10, EndEditShrinks, CloseTyped, SmallerKeeps
<1>11. ASSUME NEW s \in Sessions, CloseFinish(s)
       PROVE  WriterInv'
  BY <1>1, <1>11, SessionShrinks, CloseTyped, SmallerKeeps
<1>12. ASSUME NEW t \in Tasks,
              \/ IdentityForTask(t) \/ RefuseTask(t) \/ CloneSource(t) \/ RegisterInClosed(t)
              \/ FailFlush(t) \/ FailVerify(t) \/ DropVerify(t)
       PROVE  WriterInv'
  BY <1>1, <1>12, TaskShrinks, TaskTyped, SmallerKeeps DEF VerifyStep
<1>13. ASSUME NEW t \in Tasks, FinishFlush(t) \/ PassVerify(t)
       PROVE  WriterInv'
  BY <1>1, <1>13, TaskShrinks, WriterTyped, SmallerKeeps DEF VerifyStep
<1>14. ASSUME NEW t \in Tasks, CloneFails(t) \/ RefuseRegister(t)
       PROVE  WriterInv'
  BY <1>1, <1>14, GiveUpShrinks, WriterTyped, SmallerKeeps
<1>15. ASSUME NEW t \in Tasks, AcquireWriter(t)
       PROVE  WriterInv'
  BY <1>1, <1>15, AcquireWriterRelations, WriterTyped, GreaterKeeps
<1>16. ASSUME NEW t \in Tasks, Register(t)
       PROVE  WriterInv'
  BY <1>1, <1>16, RegisterRelations, WriterTyped, GreaterKeeps
<1>17. ASSUME NEW s \in Sessions,
              \/ IdentityStep(s) \/ EditStep(s) \/ RecordStep(s) \/ CloseStep(s) \/ ApplyResolve(s)
              \/ \E k \in Kinds : CommitStep(s, k)
       PROVE  WriterInv'
  <2>1. "save" \in Kinds
    BY DEF Kinds
  <2> QED BY <1>2, <1>3, <1>4, <1>5, <1>6, <1>7, <1>8, <1>9, <1>10, <1>11, <1>17, <2>1
          DEF IdentityStep, EditStep, RecordStep, CloseStep
<1>18. ASSUME NEW t \in Tasks, TaskStep(t) \/ VerifyStep(t)
       PROVE  WriterInv'
  BY <1>12, <1>13, <1>14, <1>15, <1>16, <1>18 DEF TaskStep, VerifyStep
<1> QED BY <1>17, <1>18 DEF Continue

\* Every step keeps the invariant: calls, continuations, watcher, other programs, restart.
LEMMA StepKeeps ==
  ASSUME WriterInv, [Next]_vars
  PROVE  WriterInv'
<1>1. RecordsTyped /\ LeaseInv
  BY DEF WriterInv
<1>2. CASE UNCHANGED vars
  <2>1. Shrinks
    BY <1>2, NothingShrinks DEF vars, callVars, Accepting
  <2>2. RecordsTyped'
    BY <1>1, <1>2 DEF vars, callVars, RecordsTyped
  <2> QED BY <2>1, <2>2, SmallerKeeps
<1>3. ASSUME NEW d \in Documents, WatcherFires(d)
      PROVE  WriterInv'
  <2>1. CASE Sessions = {}
    <3>1. UNCHANGED <<leaseVars, source, log, journal, task, callVars>> /\ session' = session
      BY <1>1, <1>3, <2>1 DEF WatcherFires, RecordsTyped
    <3>2. Shrinks
      BY <3>1, NothingShrinks DEF callVars, Accepting
    <3>3. RecordsTyped'
      BY <1>1, <3>1 DEF callVars, RecordsTyped
    <3> QED BY <3>2, <3>3, SmallerKeeps
  <2>2. CASE Sessions # {}
    <3>1. PICK s \in Sessions : TRUE
      BY <2>2
    <3> QED BY <1>1, <1>3, <3>1, SessionShrinks, SessionTyped, SmallerKeeps
  <2> QED BY <2>1, <2>2
<1>4. ASSUME NEW d \in Documents, NEW c \in Contents, ExternalWrite(d, c)
      PROVE  WriterInv'
  <2>1. UNCHANGED <<leaseVars, session, log, journal, task, callVars>>
    BY <1>4 DEF ExternalWrite
  <2>2. Shrinks
    BY <2>1, NothingShrinks DEF callVars, Accepting
  <2>3. source' \in [Documents -> Contents \cup {Gone}]
    BY <1>1, <1>4 DEF ExternalWrite, RecordsTyped
  <2>4. RecordsTyped'
    BY <1>1, <2>1, <2>3 DEF callVars, RecordsTyped
  <2> QED BY <2>2, <2>4, SmallerKeeps
<1>5. CASE Restart
  BY <1>5, RestartShrinks, RestartTyped, SmallerKeeps
<1> QED BY <1>2, <1>3, <1>4, <1>5, CallKeeps, ContinueKeeps DEF Next, Environment

-----------------------------------------------------------------------------
\* The invariant of sessions, tasks, proposals and accepts in flight.
THEOREM WriterInvariant == Spec => []WriterInv
<1>1. Init => WriterInv
  <2> SUFFICES ASSUME Init
               PROVE  WriterInv
    OBVIOUS
  <2>1. LeaseInv
    BY DEF Init, LeaseInit, LeaseInv, LeaseTypeOK, LeaseIndexesAgree
  <2>2. RecordsTyped
    <3>1. session \in [Sessions -> SessionRecords]
      BY DEF Init, SessionRecords, Life, Identity
    <3>2. task \in [Tasks -> TaskRecords]
      <4>1. FALSE \in BOOLEAN /\ 0 \in Nat
        OBVIOUS
      <4>2. "none" \in CandidateState
        BY DEF CandidateState
      <4>3. NoTaskYet \in TaskRecords
        BY <4>1, <4>2, ZenonT(30) DEF NoTaskYet, TaskRecords
      <4> QED BY <4>3 DEF Init
    <3>3. commit \in [Sessions -> [Kinds -> CommitRecords]]
      <4>1. NoCall \in CommitRecords
        BY DEF NoCall, CommitRecords
      <4> QED BY <4>1 DEF Init
    <3> QED BY <3>1, <3>2, <3>3 DEF Init, RecordsTyped, NoClose
  <2>3. /\ \A t \in Tasks : task[t] = NoTaskYet
        /\ \A s \in Sessions : /\ session[s].life = "absent" /\ session[s].writer = NoLease
                               /\ session[s].proposal = NoTask /\ active[s] = NoLease
                               /\ closing[s].pc = "idle" /\ ~Accepting(s)
    BY DEF Init, LeaseInit, NoClose, NoCall, Kinds, Accepting
  <2>4. /\ NoTaskYet.pc = "idle" /\ NoTaskYet.state = "none" /\ NoTaskYet.of = NoSession
        /\ NoTaskYet.flushed = Gone /\ NoTaskYet.report = Gone
    BY DEF NoTaskYet
  <2>5. \A s \in Sessions : LiveCandidates(s) = {}
    BY <2>3, <2>4 DEF LiveCandidates
  <2>6. TaskAt /\ OneHolder /\ NoneBeforeRegister
    BY <2>3, <2>4 DEF TaskAt, OneHolder, NoneBeforeRegister, Holding
  <2>7. AbsentIsEmpty /\ CloseIsOpen /\ ProposalIsOwn /\ AcceptIsAlone
    BY <2>3, <2>4, WriterAssumption DEF AbsentIsEmpty, CloseIsOpen, ProposalIsOwn, AcceptIsAlone
  <2>8. WriterIsBound /\ HumanExcludesProposal /\ OneProposal
    BY <2>3, <2>5 DEF WriterIsBound, HumanExcludesProposal, OneProposal
  <2> QED BY <2>1, <2>2, <2>6, <2>7, <2>8 DEF WriterInv
<1>2. WriterInv /\ [Next]_vars => WriterInv'
  BY StepKeeps
<1> QED BY <1>1, <1>2, PTL DEF Spec

\* A session's copy of its writer is the lease manager's, whatever begins, ends,
\* fails, closes or restarts: accept and begin decide on the truth.
THEOREM WriterIsAlwaysBound == Spec => []WriterIsBound
<1>1. WriterInv => WriterIsBound
  BY DEF WriterInv
<1> QED BY <1>1, WriterInvariant, PTL

\* A human never edits a document while a proposal for it is open.
THEOREM HumansExcludeProposals == Spec => []HumanExcludesProposal
<1>1. WriterInv => HumanExcludesProposal
  BY DEF WriterInv
<1> QED BY <1>1, WriterInvariant, PTL

\* A session never has two proposals, and the one it has is the one that accept
\* and reject act upon, restarts included.
THEOREM ProposalsAreSingle == Spec => []OneProposal
<1>1. WriterInv => OneProposal
  BY DEF WriterInv
<1> QED BY <1>1, WriterInvariant, PTL

-----------------------------------------------------------------------------
(***************************************************************************)
(* What an accept seals, and what a commit overwrites                      *)
(***************************************************************************)

\* Where a commit in flight comes from.
LEMMA CommitMoves ==
  ASSUME RecordsTyped, [Next]_vars, NEW s \in Sessions, NEW k \in Kinds
  PROVE  \/ commit'[s][k] = commit[s][k]
         \/ /\ commit'[s][k] = NoCall
            /\ commit[s][k].pc = "recorded" => BindAccept(s) \/ Restart
         \/ k = "accept" /\ (StartAccept(s) \/ RecordAccept(s))
         \/ k = "save" /\ \E bytes \in Contents : StartSave(s, bytes)
         \/ SealCommit(s, k) \/ Replace(s, k)
<1>1. commit \in [Sessions -> [Kinds -> CommitRecords]] /\ "save" \in Kinds /\ "accept" \in Kinds
  BY DEF RecordsTyped, Kinds
<1>2. CASE UNCHANGED commit
  BY <1>2
<1>3. ASSUME NEW r \in Sessions, StartAccept(r)
      PROVE  (r = s /\ k = "accept") \/ commit'[s][k] = commit[s][k]
  BY <1>1, <1>3 DEF StartAccept
<1>4. ASSUME NEW r \in Sessions, RecordAccept(r)
      PROVE  (r = s /\ k = "accept") \/ commit'[s][k] = commit[s][k]
  BY <1>1, <1>4 DEF RecordAccept
<1>5. ASSUME NEW r \in Sessions, NEW bytes \in Contents, StartSave(r, bytes)
      PROVE  (r = s /\ k = "save") \/ commit'[s][k] = commit[s][k]
  BY <1>1, <1>5 DEF StartSave
<1>6. ASSUME NEW r \in Sessions, NEW j \in Kinds, SealCommit(r, j) \/ Replace(r, j)
      PROVE  (r = s /\ k = j) \/ commit'[s][k] = commit[s][k]
  BY <1>1, <1>6 DEF SealCommit, Replace
<1>7. ASSUME NEW r \in Sessions, NEW j \in Kinds, RefuseCommit(r, j) \/ LeaveToRecovery(r, j)
      PROVE  commit'[s][k] = commit[s][k] \/ (commit'[s][k] = NoCall /\ commit[s][k].pc # "recorded")
  BY <1>1, <1>7 DEF RefuseCommit, LeaveToRecovery, CommitThrows, Turn
<1>8. ASSUME NEW r \in Sessions, RecordSave(r) \/ BindAccept(r)
      PROVE  \/ commit'[s][k] = commit[s][k]
             \/ commit'[s][k] = NoCall /\ (commit[s][k].pc = "recorded" => BindAccept(s))
  <2>1. CASE RecordSave(r)
    BY <1>1, <2>1 DEF RecordSave, Landed, Turn
  <2>2. CASE BindAccept(r)
    <3>1. commit' = [commit EXCEPT ![r]["accept"] = NoCall]
      BY <2>2 DEF BindAccept
    <3>2. CASE r = s
      BY <1>1, <2>2, <3>1, <3>2
    <3>3. CASE r # s
      BY <1>1, <3>1, <3>3
    <3> QED BY <3>2, <3>3
  <2> QED BY <1>8, <2>1, <2>2
<1>9. CASE Restart
  <2>1. commit'[s][k] = NoCall
    BY <1>9 DEF Restart
  <2> QED BY <1>9, <2>1
<1>10. ASSUME NEW r \in Sessions,
              \/ OpenSession(r) \/ BeginEdit(r) \/ BareSave(r) \/ EndEdit(r)
              \/ Reject(r) \/ CloseStart(r) \/ StartResolve(r)
              \/ \E t \in Tasks : BeginTask(t, r)
       PROVE  UNCHANGED commit
  BY <1>10 DEF OpenSession, BeginEdit, BareSave, EndEdit, Reject, CloseStart, StartResolve,
               BeginTask, callVars
<1>11. ASSUME NEW t \in Tasks,
              \/ StartFlush(t) \/ StartVerify(t) \/ Finalize(t)
              \/ \E bytes \in Contents : Mutate(t, bytes) \/ Amend(t, bytes)
       PROVE  UNCHANGED commit
  BY <1>11 DEF StartFlush, StartVerify, Finalize, Mutate, Amend, callVars
<1>12. CASE Call
  BY <1>2, <1>3, <1>5, <1>10, <1>11, <1>12 DEF Call
<1>13. ASSUME NEW r \in Sessions,
              IdentityStep(r) \/ EditStep(r) \/ CloseStep(r) \/ ApplyResolve(r)
       PROVE  UNCHANGED commit
  BY <1>13 DEF IdentityStep, BindIdentity, UnstableIdentity, EditStep, MountEditor, HashForEdit,
               ApplyEdit, RefuseEdit, CloseStep, CloseAbort, CloseEdit, CloseFinish, ApplyResolve,
               callVars
<1>14. ASSUME NEW t \in Tasks, TaskStep(t)
       PROVE  UNCHANGED commit
  BY <1>14 DEF TaskStep, IdentityForTask, AcquireWriter, RefuseTask, CloneFails, CloneSource,
               Register, RefuseRegister, RegisterInClosed, FinishFlush, FailFlush, callVars
<1>15. ASSUME NEW t \in Tasks, VerifyStep(t)
       PROVE  UNCHANGED commit
  BY <1>15 DEF VerifyStep, PassVerify, FailVerify, DropVerify, callVars
<1>16. CASE Continue
  <2>1. ASSUME NEW r \in Sessions, NEW j \in Kinds, CommitStep(r, j)
        PROVE  \/ commit'[s][k] = commit[s][k]
               \/ commit'[s][k] = NoCall /\ commit[s][k].pc # "recorded"
               \/ SealCommit(s, k) \/ Replace(s, k)
    BY <1>6, <1>7, <2>1 DEF CommitStep
  <2>2. ASSUME NEW r \in Sessions, RecordStep(r)
        PROVE  \/ commit'[s][k] = commit[s][k]
               \/ commit'[s][k] = NoCall /\ (commit[s][k].pc = "recorded" => BindAccept(s))
               \/ k = "accept" /\ RecordAccept(s)
    BY <1>4, <1>8, <2>2 DEF RecordStep
  <2> QED BY <1>2, <1>13, <1>14, <1>15, <1>16, <2>1, <2>2 DEF Continue
<1>17. CASE Environment
  BY <1>2, <1>9, <1>17 DEF Environment, WatcherFires, ExternalWrite, callVars
<1>18. CASE UNCHANGED vars
  BY <1>2, <1>18 DEF vars, callVars
<1> QED BY <1>12, <1>16, <1>17, <1>18 DEF Next

\* Where the base of a task matters: from the identity it took to the end of its candidate.
Based(t) ==
  \/ task[t].pc \in {"acquire"} \cup Holding
  \/ task[t].state \notin {"none", "failed", "deleted"}

\* What a step may do to a task: start it on its base, leave its base alone, or end it.
KeepsBase(t) ==
  Based(t)' => Based(t) /\ task'[t].base = task[t].base /\ task'[t].of = task[t].of

\* What a step may do to a candidate that is being accepted: release its file, or bind to
\* the flushed bytes the report about them.
KeepsReport(t) ==
  task[t].pc = "done" /\ task[t].state \in {"committing", "failed"} =>
    /\ task'[t].base = task[t].base \/ task'[t].state = "deleted"
    /\ \/ task'[t].staged = Gone
       \/ /\ task'[t].staged = task[t].staged /\ task'[t].flushed = task[t].flushed
          /\ task'[t].verified \in {task[t].verified, task[t].flushed}

\* A step of one task does to the others nothing at all.
LEMMA OthersKeep ==
  ASSUME WriterInv, NEW t \in Tasks, NEW r, task' = [task EXCEPT ![t] = r],
         r.pc \in {"acquire"} \cup Holding \/ r.state \notin {"none", "failed", "deleted"} =>
           Based(t) /\ r.base = task[t].base /\ r.of = task[t].of,
         task[t].pc = "done" /\ task[t].state \in {"committing", "failed"} =>
           /\ r.base = task[t].base
           /\ \/ r.staged = Gone
              \/ /\ r.staged = task[t].staged /\ r.flushed = task[t].flushed
                 /\ r.verified \in {task[t].verified, task[t].flushed},
         NEW u \in Tasks
  PROVE  KeepsBase(u) /\ KeepsReport(u)
<1>1. task'[t] = r /\ \A v \in Tasks : v # t => task'[v] = task[v]
  BY DEF WriterInv, RecordsTyped
<1>2. CASE u = t
  BY <1>1, <1>2 DEF KeepsBase, KeepsReport, Based
<1>3. CASE u # t
  BY <1>1, <1>3 DEF KeepsBase, KeepsReport, Based
<1> QED BY <1>2, <1>3

\* The tasks a caller drives.
LEMMA CallTasks ==
  ASSUME WriterInv, Call, NEW u \in Tasks
  PROVE  KeepsBase(u) /\ KeepsReport(u)
<1>1. \A t \in Tasks : /\ task[t] \in TaskRecords
                       /\ task[t].state # "none" => task[t].pc \in {"open", "flush", "done"}
  BY DEF WriterInv, RecordsTyped, TaskAt
<1>2. CASE UNCHANGED task
  BY <1>2 DEF KeepsBase, KeepsReport, Based
<1>3. ASSUME NEW s \in Sessions,
             \/ OpenSession(s) \/ BeginEdit(s) \/ BareSave(s) \/ EndEdit(s) \/ StartResolve(s)
             \/ \E bytes \in Contents : StartSave(s, bytes)
      PROVE  UNCHANGED task
  BY <1>3 DEF OpenSession, BeginEdit, BareSave, EndEdit, StartResolve, StartSave
<1>4. ASSUME NEW s \in Sessions, Reject(s)
      PROVE  KeepsBase(u) /\ KeepsReport(u)
  <2> DEFINE t == session[s].proposal
             r == [Failed(task[t]) EXCEPT !.staged = Gone]
  <2>1. t \in Tasks /\ task' = [task EXCEPT ![t] = r]
    BY <1>4 DEF Reject, WriterInv, RecordsTyped, SessionRecords
  <2>2. /\ r.pc = task[t].pc /\ r.state = "failed" /\ r.base = task[t].base
        /\ r.of = task[t].of /\ r.staged = Gone
    BY <1>1, <2>1 DEF Failed, TaskRecords
  <2> HIDE DEF r, t
  <2>3. r.pc \in {"acquire"} \cup Holding \/ r.state \notin {"none", "failed", "deleted"} =>
          Based(t) /\ r.base = task[t].base /\ r.of = task[t].of
    BY <2>2 DEF Based
  <2> QED BY <2>1, <2>2, <2>3, OthersKeep
<1>5. ASSUME NEW s \in Sessions, StartAccept(s)
      PROVE  KeepsBase(u) /\ KeepsReport(u)
  <2> DEFINE t == session[s].proposal
             r == [task[t] EXCEPT !.state = "committing"]
  <2>1. t \in Tasks /\ task[t].state = "ready"
    BY <1>5 DEF StartAccept, Acceptable, WriterInv, RecordsTyped, SessionRecords
  <2>2. task' = [task EXCEPT ![t] = r]
    BY <1>5 DEF StartAccept
  <2>3. r.base = task[t].base /\ r.of = task[t].of
    BY <1>1, <2>1 DEF TaskRecords
  <2> HIDE DEF r, t
  <2>4. Based(t)
    BY <2>1 DEF Based
  <2> QED BY <2>1, <2>2, <2>3, <2>4, OthersKeep
<1>6. ASSUME NEW s \in Sessions, CloseStart(s)
      PROVE  KeepsBase(u) /\ KeepsReport(u)
  <2>1. task'[u] \in {task[u], [task[u] EXCEPT !.closing = TRUE]}
    BY <1>6 DEF CloseStart
  <2>2. /\ task'[u].pc = task[u].pc /\ task'[u].state = task[u].state
        /\ task'[u].base = task[u].base /\ task'[u].of = task[u].of
        /\ task'[u].staged = task[u].staged /\ task'[u].flushed = task[u].flushed
        /\ task'[u].verified = task[u].verified
    BY <1>1, <2>1 DEF TaskRecords
  <2> QED BY <2>2 DEF KeepsBase, KeepsReport, Based
<1>7. ASSUME NEW s \in Sessions, NEW t \in Tasks, BeginTask(t, s)
      PROVE  KeepsBase(u) /\ KeepsReport(u)
  <2> DEFINE r == [task[t] EXCEPT !.pc = "begin", !.of = s]
  <2>1. task[t].pc = "idle" /\ task[t].state = "none"
    BY <1>1, <1>7 DEF BeginTask
  <2>2. task' = [task EXCEPT ![t] = r]
    <3>1. task' = [task EXCEPT ![t].pc = "begin", ![t].of = s]
      BY <1>7 DEF BeginTask
    <3> QED BY <3>1
  <2>3. r.pc = "begin" /\ r.state = "none"
    BY <1>1, <2>1 DEF TaskRecords
  <2> HIDE DEF r
  <2> QED BY <2>1, <2>2, <2>3, OthersKeep DEF Holding
<1>8. ASSUME NEW t \in Tasks, NEW bytes \in Contents, Mutate(t, bytes)
      PROVE  KeepsBase(u) /\ KeepsReport(u)
  <2> DEFINE r == [task[t] EXCEPT !.staged = bytes]
  <2>1. task[t].pc = "open" /\ task' = [task EXCEPT ![t] = r]
    BY <1>8 DEF Mutate
  <2>2. r.base = task[t].base /\ r.of = task[t].of /\ Based(t)
    BY <1>1, <2>1 DEF TaskRecords, Based, Holding
  <2> HIDE DEF r
  <2> QED BY <2>1, <2>2, OthersKeep
<1>9. ASSUME NEW t \in Tasks, NEW bytes \in Contents, Amend(t, bytes)
      PROVE  KeepsBase(u) /\ KeepsReport(u)
  <2> DEFINE r == [task[t] EXCEPT !.state = "human-amended",
                     !.staged = bytes, !.flushed = bytes, !.verified = Gone]
  <2>1. task[t].state \in {"verifying", "ready"} /\ task' = [task EXCEPT ![t] = r]
    BY <1>9 DEF Amend
  <2>2. r.base = task[t].base /\ r.of = task[t].of /\ Based(t)
    BY <1>1, <2>1 DEF TaskRecords, Based
  <2> HIDE DEF r
  <2> QED BY <2>1, <2>2, OthersKeep
<1>10. ASSUME NEW t \in Tasks, StartFlush(t)
       PROVE  KeepsBase(u) /\ KeepsReport(u)
  <2> DEFINE r == [task[t] EXCEPT !.pc = "flush", !.state = "flushing"]
  <2>1. task[t].pc = "open" /\ task' = [task EXCEPT ![t] = r]
    BY <1>10 DEF StartFlush
  <2>2. r.base = task[t].base /\ r.of = task[t].of /\ Based(t)
    BY <1>1, <2>1 DEF TaskRecords, Based, Holding
  <2> HIDE DEF r
  <2> QED BY <2>1, <2>2, OthersKeep
<1>11. ASSUME NEW t \in Tasks, StartVerify(t)
       PROVE  KeepsBase(u) /\ KeepsReport(u)
  <2> DEFINE r == [task[t] EXCEPT !.report = task[t].staged]
  <2>1. task' = [task EXCEPT ![t] = r]
    BY <1>11 DEF StartVerify
  <2>2. /\ r.base = task[t].base /\ r.of = task[t].of /\ r.pc = task[t].pc
        /\ r.state = task[t].state /\ r.staged = task[t].staged
        /\ r.flushed = task[t].flushed /\ r.verified = task[t].verified
    BY <1>1 DEF TaskRecords
  <2> HIDE DEF r
  <2> QED BY <2>1, <2>2, OthersKeep DEF Based
<1>12. ASSUME NEW t \in Tasks, Finalize(t)
       PROVE  KeepsBase(u) /\ KeepsReport(u)
  <2>1. task[t].pc = "open" /\ task' = [task EXCEPT ![t] = Ended(t)]
    BY <1>12 DEF Finalize
  <2>2. Ended(t).base = task[t].base /\ Ended(t).of = task[t].of /\ Based(t)
    BY <1>1, <2>1 DEF Ended, TaskRecords, Based, Holding
  <2> QED BY <2>1, <2>2, OthersKeep
<1> QED BY <1>2, <1>3, <1>4, <1>5, <1>6, <1>7, <1>8, <1>9, <1>10, <1>11, <1>12 DEF Call


\* The tasks that go on by themselves, and the continuations of their sessions. A task
\* takes its base where it takes its identity.
LEMMA ContinueTasks ==
  ASSUME WriterInv, Continue, NEW u \in Tasks
  PROVE  KeepsReport(u) /\ (KeepsBase(u) \/ IdentityForTask(u))
<1>1. \A t \in Tasks : /\ task[t] \in TaskRecords
                       /\ task[t].state # "none" => task[t].pc \in {"open", "flush", "done"}
  BY DEF WriterInv, RecordsTyped, TaskAt
<1>2. ASSUME UNCHANGED task
      PROVE  KeepsBase(u) /\ KeepsReport(u)
  BY <1>2 DEF KeepsBase, KeepsReport, Based
<1>3. ASSUME NEW s \in Sessions,
             \/ IdentityStep(s) \/ EditStep(s) \/ RecordSave(s) \/ RecordAccept(s)
             \/ CloseEdit(s) \/ CloseFinish(s) \/ ApplyResolve(s)
             \/ \E k \in Kinds : CommitStep(s, k)
      PROVE  UNCHANGED task
  BY <1>3 DEF IdentityStep, BindIdentity, UnstableIdentity, EditStep, MountEditor, HashForEdit,
              ApplyEdit, RefuseEdit, RecordSave, RecordAccept, CloseEdit, CloseFinish,
              ApplyResolve, CommitStep, SealCommit, RefuseCommit, Replace, LeaveToRecovery
<1>4. ASSUME NEW s \in Sessions, BindAccept(s)
      PROVE  KeepsBase(u) /\ KeepsReport(u)
  <2> DEFINE t == commit[s]["accept"].task
             r == [NoTaskYet EXCEPT !.pc = "done", !.of = s, !.state = "deleted"]
  <2>1. task \in [Tasks -> TaskRecords] /\ task' = [task EXCEPT ![t] = r] /\ t \in Tasks
    BY <1>4 DEF BindAccept, WriterInv, RecordsTyped, AcceptIsAlone, Accepting
  <2>2. r.pc = "done" /\ r.state = "deleted" /\ r.staged = Gone
    BY DEF NoTaskYet
  <2> HIDE DEF r, t
  <2>3. task'[t] = r /\ \A v \in Tasks : v # t => task'[v] = task[v]
    BY <2>1
  <2>4. CASE u = t
    BY <2>2, <2>3, <2>4 DEF KeepsBase, KeepsReport, Based, Holding
  <2>5. CASE u # t
    BY <2>3, <2>5 DEF KeepsBase, KeepsReport, Based
  <2> QED BY <2>4, <2>5
<1>5. ASSUME NEW t \in Tasks,
             \/ task[t].pc \in {"acquire"} \cup Holding
                /\ task' \in {[task EXCEPT ![t] = Ended(t)], [task EXCEPT ![t] = Failed(Ended(t))],
                              [task EXCEPT ![t] = [Ended(t) EXCEPT !.staged = Gone]]}
             \/ task[t].pc = "begin" /\ task' = [task EXCEPT ![t] = Ended(t)]
      PROVE  KeepsBase(u) /\ KeepsReport(u)
  <2>1. \A v \in Tasks : v # t => task'[v] = task[v]
    BY <1>5 DEF WriterInv, RecordsTyped
  <2>2. CASE u # t
    BY <2>1, <2>2 DEF KeepsBase, KeepsReport, Based
  <2>3. CASE u = t /\ task[t].pc \in {"acquire"} \cup Holding
    <3>1. task'[t] \in {Ended(t), Failed(Ended(t)), [Ended(t) EXCEPT !.staged = Gone]}
      BY <1>5, <2>3 DEF WriterInv, RecordsTyped, Holding
    <3>2. task'[t].base = task[t].base /\ task'[t].of = task[t].of
      BY <1>1, <3>1 DEF Ended, Failed, TaskRecords
    <3> QED BY <2>3, <3>2 DEF KeepsBase, KeepsReport, Based, Holding
  <2>4. CASE u = t /\ task[t].pc = "begin"
    <3>1. task'[t] = Ended(t) /\ task[t].state = "none"
      BY <1>1, <1>5, <2>4 DEF WriterInv, RecordsTyped, Holding
    <3>2. task'[t].pc = "done" /\ task'[t].state = "none"
      BY <1>1, <3>1 DEF Ended, TaskRecords
    <3> QED BY <2>4, <3>2 DEF KeepsBase, KeepsReport, Based, Holding
  <2> QED BY <1>5, <2>2, <2>3, <2>4
<1>6. ASSUME NEW s \in Sessions, CloseAbort(s)
      PROVE  KeepsBase(u) /\ KeepsReport(u)
  <2>1. UNCHANGED task \/ \E t \in Tasks : task[t].pc \in {"open", "flush"}
                                           /\ task' = [task EXCEPT ![t] = Failed(Ended(t))]
    BY <1>6 DEF CloseAbort, Tracked
  <2>2. CASE \E t \in Tasks : task[t].pc \in {"open", "flush"}
                              /\ task' = [task EXCEPT ![t] = Failed(Ended(t))]
    <3>1. PICK t \in Tasks : task[t].pc \in {"open", "flush"}
                              /\ task' = [task EXCEPT ![t] = Failed(Ended(t))]
      BY <2>2
    <3>2. task[t].pc \in {"acquire"} \cup Holding
      BY <3>1 DEF Holding
    <3> QED BY <1>5, <3>1, <3>2
  <2> QED BY <1>2, <2>1, <2>2
<1>7. ASSUME NEW t \in Tasks, RefuseTask(t) \/ RegisterInClosed(t) \/ CloneFails(t) \/ RefuseRegister(t)
      PROVE  KeepsBase(u) /\ KeepsReport(u)
  <2>1. CASE RefuseTask(t)
    BY <1>5, <2>1 DEF RefuseTask
  <2>2. CASE RegisterInClosed(t)
    BY <1>5, <2>2 DEF RegisterInClosed, Holding
  <2>3. CASE CloneFails(t) \/ RefuseRegister(t)
    BY <1>5, <2>3 DEF CloneFails, RefuseRegister, GiveUp, Holding
  <2> QED BY <1>7, <2>1, <2>2, <2>3
<1>8. ASSUME NEW t \in Tasks, IdentityForTask(t)
      PROVE  KeepsReport(u) /\ (KeepsBase(u) \/ IdentityForTask(u))
  <2>1. task[t].pc = "begin" /\ \A v \in Tasks : v # t => task'[v] = task[v]
    BY <1>8 DEF IdentityForTask, WriterInv, RecordsTyped
  <2>2. CASE u = t
    BY <1>8, <2>1, <2>2 DEF KeepsReport
  <2>3. CASE u # t
    BY <2>1, <2>3 DEF KeepsBase, KeepsReport, Based
  <2> QED BY <2>2, <2>3
<1>9. ASSUME NEW t \in Tasks, AcquireWriter(t)
      PROVE  KeepsBase(u) /\ KeepsReport(u)
  <2>1. PICK s \in Sessions :
          /\ task[t].pc = "acquire"
          /\ task' = [task EXCEPT ![t].pc = "clone", ![t].grant = NextLease(s, "agent"),
                                  ![t].captured = session[s].committed]
    BY <1>9 DEF AcquireWriter
  <2> DEFINE r == [task[t] EXCEPT !.pc = "clone", !.grant = NextLease(s, "agent"),
                                  !.captured = session[s].committed]
  <2>2. task' = [task EXCEPT ![t] = r]
    BY <2>1
  <2>3. r.base = task[t].base /\ r.of = task[t].of /\ Based(t)
    BY <1>1, <2>1 DEF TaskRecords, Based
  <2> HIDE DEF r
  <2> QED BY <2>1, <2>2, <2>3, OthersKeep
<1>10. ASSUME NEW t \in Tasks, CloneSource(t)
       PROVE  KeepsBase(u) /\ KeepsReport(u)
  <2> DEFINE r == [task[t] EXCEPT !.pc = "register", !.staged = source[DocumentOf[task[t].of]]]
  <2>1. task[t].pc = "clone" /\ task' = [task EXCEPT ![t] = r]
    <3>1. task' = [task EXCEPT ![t].pc = "register", ![t].staged = source[DocumentOf[task[t].of]]]
      BY <1>10 DEF CloneSource
    <3> QED BY <1>10, <3>1 DEF CloneSource
  <2>2. r.base = task[t].base /\ r.of = task[t].of /\ Based(t)
    BY <1>1, <2>1 DEF TaskRecords, Based, Holding
  <2> HIDE DEF r
  <2> QED BY <2>1, <2>2, OthersKeep
<1>11. ASSUME NEW t \in Tasks, Register(t)
       PROVE  KeepsBase(u) /\ KeepsReport(u)
  <2> DEFINE r == [task[t] EXCEPT !.pc = "open", !.state = "mutating"]
  <2>1. task[t].pc = "register" /\ task' = [task EXCEPT ![t] = r]
    BY <1>11 DEF Register
  <2>2. r.base = task[t].base /\ r.of = task[t].of /\ Based(t)
    BY <1>1, <2>1 DEF TaskRecords, Based, Holding
  <2> HIDE DEF r
  <2> QED BY <2>1, <2>2, OthersKeep
<1>12. ASSUME NEW t \in Tasks, FinishFlush(t)
       PROVE  KeepsBase(u) /\ KeepsReport(u)
  <2> DEFINE r == [task[t] EXCEPT !.pc = "open", !.state = "verifying", !.flushed = task[t].staged]
  <2>1. task[t].pc = "flush" /\ task' = [task EXCEPT ![t] = r]
    BY <1>12 DEF FinishFlush
  <2>2. r.base = task[t].base /\ r.of = task[t].of /\ Based(t)
    BY <1>1, <2>1 DEF TaskRecords, Based, Holding
  <2> HIDE DEF r
  <2> QED BY <2>1, <2>2, OthersKeep
<1>13. ASSUME NEW t \in Tasks, FailFlush(t)
       PROVE  KeepsBase(u) /\ KeepsReport(u)
  <2> DEFINE r == [task[t] EXCEPT !.pc = "open"]
  <2>1. task[t].pc = "flush" /\ task' = [task EXCEPT ![t] = r]
    BY <1>13 DEF FailFlush
  <2>2. r.base = task[t].base /\ r.of = task[t].of /\ Based(t)
    BY <1>1, <2>1 DEF TaskRecords, Based, Holding
  <2> HIDE DEF r
  <2> QED BY <2>1, <2>2, OthersKeep
<1>14. ASSUME NEW t \in Tasks, PassVerify(t)
       PROVE  KeepsBase(u) /\ KeepsReport(u)
  <2> DEFINE r == [task[t] EXCEPT !.verified = task[t].report, !.report = Gone,
                     !.state = IF task[t].state = "verifying" THEN "ready" ELSE task[t].state]
  <2>1. task[t].report = task[t].flushed /\ task[t].state # "deleted"
        /\ task' = [task EXCEPT ![t] = r] /\ task[t].report # Gone
    BY <1>14 DEF PassVerify, ReportIsCurrent
  <2>2. /\ r.base = task[t].base /\ r.of = task[t].of /\ r.pc = task[t].pc
        /\ r.staged = task[t].staged /\ r.flushed = task[t].flushed
        /\ r.verified = task[t].flushed
        /\ r.state = IF task[t].state = "verifying" THEN "ready" ELSE task[t].state
    BY <1>1, <2>1 DEF TaskRecords
  <2> HIDE DEF r
  <2>3. r.pc \in {"acquire"} \cup Holding \/ r.state \notin {"none", "failed", "deleted"} => Based(t)
    BY <2>2 DEF Based
  <2> QED BY <2>1, <2>2, <2>3, OthersKeep
<1>15. ASSUME NEW t \in Tasks, FailVerify(t)
       PROVE  KeepsBase(u) /\ KeepsReport(u)
  <2> DEFINE r == [task[t] EXCEPT !.verified = task[t].report, !.report = Gone, !.state = "failed"]
  <2>1. task[t].report = task[t].flushed /\ task' = [task EXCEPT ![t] = r]
    BY <1>15 DEF FailVerify, ReportIsCurrent
  <2>2. /\ r.base = task[t].base /\ r.of = task[t].of /\ r.pc = task[t].pc
        /\ r.staged = task[t].staged /\ r.flushed = task[t].flushed
        /\ r.verified = task[t].flushed /\ r.state = "failed"
    BY <1>1, <2>1 DEF TaskRecords
  <2> HIDE DEF r
  <2>3. r.pc \in {"acquire"} \cup Holding \/ r.state \notin {"none", "failed", "deleted"} => Based(t)
    BY <2>2 DEF Based
  <2> QED BY <2>1, <2>2, <2>3, OthersKeep
<1>16. ASSUME NEW t \in Tasks, DropVerify(t)
       PROVE  KeepsBase(u) /\ KeepsReport(u)
  <2> DEFINE r == [task[t] EXCEPT !.report = Gone]
  <2>1. task' = [task EXCEPT ![t] = r]
    BY <1>16 DEF DropVerify
  <2>2. /\ r.base = task[t].base /\ r.of = task[t].of /\ r.pc = task[t].pc
        /\ r.state = task[t].state /\ r.staged = task[t].staged
        /\ r.flushed = task[t].flushed /\ r.verified = task[t].verified
    BY <1>1 DEF TaskRecords
  <2> HIDE DEF r
  <2> QED BY <2>1, <2>2, OthersKeep DEF Based
<1>17. ASSUME NEW s \in Sessions,
              \/ IdentityStep(s) \/ EditStep(s) \/ RecordStep(s) \/ CloseStep(s) \/ ApplyResolve(s)
              \/ \E k \in Kinds : CommitStep(s, k)
       PROVE  KeepsBase(u) /\ KeepsReport(u)
  <2>1. CASE \/ IdentityStep(s) \/ EditStep(s) \/ RecordSave(s) \/ RecordAccept(s)
             \/ CloseEdit(s) \/ CloseFinish(s) \/ ApplyResolve(s)
             \/ \E k \in Kinds : CommitStep(s, k)
    <3>1. UNCHANGED task
      BY <1>3, <2>1
    <3> QED BY <1>2, <3>1
  <2>2. CASE BindAccept(s) \/ CloseAbort(s)
    BY <1>4, <1>6, <2>2
  <2> QED BY <1>17, <2>1, <2>2 DEF RecordStep, CloseStep
<1>18. ASSUME NEW t \in Tasks, TaskStep(t) \/ VerifyStep(t)
       PROVE  KeepsReport(u) /\ (KeepsBase(u) \/ IdentityForTask(u))
  BY <1>7, <1>8, <1>9, <1>10, <1>11, <1>12, <1>13, <1>14, <1>15, <1>16, <1>18
     DEF TaskStep, VerifyStep
<1> QED BY <1>17, <1>18 DEF Continue

\* Revisions are recorded by the opening hash, by commits that landed and by recovery, and
\* none is ever taken back.
LEMMA LogGrows ==
  ASSUME RecordsTyped, [Next]_vars, NEW s \in Sessions
  PROVE  Len(log'[s]) >= Len(log[s]) /\ \A i \in 1..Len(log[s]) : log'[s][i] = log[s][i]
<1>1. log \in [Sessions -> Seq(Contents \cup {Gone})] /\ log[s] \in Seq(Contents \cup {Gone})
  BY DEF RecordsTyped
<1>2. ASSUME UNCHANGED log
      PROVE  Len(log'[s]) >= Len(log[s]) /\ \A i \in 1..Len(log[s]) : log'[s][i] = log[s][i]
  BY <1>1, <1>2
<1>3. ASSUME NEW r \in Sessions, NEW bytes \in Contents \cup {Gone},
             log' = [log EXCEPT ![r] = Append(log[r], bytes)]
      PROVE  Len(log'[s]) >= Len(log[s]) /\ \A i \in 1..Len(log[s]) : log'[s][i] = log[s][i]
  <2>1. log'[s] = IF r = s THEN Append(log[s], bytes) ELSE log[s]
    BY <1>1, <1>3
  <2> QED BY <1>1, <2>1
<1>4. CASE Restart
  <2> DEFINE landed == LandedByRecovery(s)
  <2>1. log'[s] = log[s] \o landed
    BY <1>4 DEF Restart
  <2>2. landed \in Seq(Contents \cup {Gone})
    BY RecoveredTyped
  <2> HIDE DEF landed
  <2> QED BY <1>1, <2>1, <2>2
<1>5. ASSUME NEW r \in Sessions, BindIdentity(r) \/ RecordSave(r) \/ RecordAccept(r)
      PROVE  Len(log'[s]) >= Len(log[s]) /\ \A i \in 1..Len(log[s]) : log'[s][i] = log[s][i]
  <2>1. source[DocumentOf[r]] \in Contents \cup {Gone}
    BY SessionAssumption DEF RecordsTyped
  <2>2. log' = [log EXCEPT ![r] = Append(log[r], source[DocumentOf[r]])]
    BY <1>5 DEF BindIdentity, RecordSave, RecordAccept, Landed
  <2> QED BY <1>3, <2>1, <2>2
<1>6. ASSUME NEW r \in Sessions,
             \/ OpenSession(r) \/ BeginEdit(r) \/ BareSave(r) \/ EndEdit(r)
             \/ Reject(r) \/ StartAccept(r) \/ CloseStart(r) \/ StartResolve(r)
             \/ \E bytes \in Contents : StartSave(r, bytes)
             \/ \E t \in Tasks : BeginTask(t, r)
      PROVE  UNCHANGED log
  BY <1>6 DEF OpenSession, BeginEdit, BareSave, EndEdit, Reject, StartAccept, CloseStart,
              StartResolve, StartSave, BeginTask
<1>7. ASSUME NEW t \in Tasks,
             \/ StartFlush(t) \/ StartVerify(t) \/ Finalize(t)
             \/ \E bytes \in Contents : Mutate(t, bytes) \/ Amend(t, bytes)
      PROVE  UNCHANGED log
  BY <1>7 DEF StartFlush, StartVerify, Finalize, Mutate, Amend
<1>8. ASSUME NEW r \in Sessions,
             UnstableIdentity(r) \/ EditStep(r) \/ BindAccept(r) \/ CloseStep(r) \/ ApplyResolve(r)
      PROVE  UNCHANGED log
  BY <1>8 DEF UnstableIdentity, EditStep, MountEditor, HashForEdit, ApplyEdit, RefuseEdit,
              BindAccept, CloseStep, CloseAbort, CloseEdit, CloseFinish, ApplyResolve
<1>9. ASSUME NEW r \in Sessions, NEW k \in Kinds, CommitStep(r, k)
      PROVE  UNCHANGED log
  BY <1>9 DEF CommitStep, SealCommit, RefuseCommit, Replace, LeaveToRecovery
<1>10. ASSUME NEW t \in Tasks, TaskStep(t) \/ VerifyStep(t)
       PROVE  UNCHANGED log
  BY <1>10 DEF TaskStep, IdentityForTask, AcquireWriter, RefuseTask, CloneFails, CloneSource,
               Register, RefuseRegister, RegisterInClosed, FinishFlush, FailFlush,
               VerifyStep, PassVerify, FailVerify, DropVerify
<1>11. CASE Call
  BY <1>2, <1>6, <1>7, <1>11 DEF Call
<1>12. CASE Continue
  BY <1>2, <1>5, <1>8, <1>9, <1>10, <1>12 DEF Continue, IdentityStep, RecordStep
<1>13. CASE Environment
  BY <1>2, <1>4, <1>13 DEF Environment, WatcherFires, ExternalWrite
<1>14. CASE UNCHANGED vars
  BY <1>2, <1>14 DEF vars
<1> QED BY <1>11, <1>12, <1>13, <1>14 DEF Next

\* What most steps do to a session: its revision stays, and it is not opened.
Steady(s) ==
  /\ session'[s].committed = session[s].committed
  /\ session'[s].identity \in {session[s].identity, "unstable", "none"}
  /\ session'[s].life = session[s].life \/ (Open(s) /\ session'[s].life # "absent")

\* The few that do something else.
SessionMoves(s) ==
  \/ Steady(s)
  \/ OpenSession(s) \/ BindIdentity(s) \/ RecordSave(s) \/ BindAccept(s)
  \/ Restart

\* A step that leaves revisions and identities alone.
LEMMA SessionKept ==
  ASSUME RecordsTyped, NEW r, NEW x, session' = [session EXCEPT ![r] = x],
         r \in Sessions =>
           /\ x.committed = session[r].committed
           /\ x.identity \in {session[r].identity, "unstable", "none"}
           /\ x.life = session[r].life \/ (Open(r) /\ x.life # "absent"),
         NEW s \in Sessions
  PROVE  Steady(s)
<1>1. session'[s] = IF s = r THEN x ELSE session[s]
  BY DEF RecordsTyped
<1>2. CASE s = r
  <2>1. r \in Sessions
    BY <1>2
  <2>2. /\ x.committed = session[r].committed
        /\ x.identity \in {session[r].identity, "unstable", "none"}
        /\ x.life = session[r].life \/ (Open(r) /\ x.life # "absent")
    BY <2>1
  <2>3. session'[s] = x
    BY <1>1, <1>2
  <2> QED BY <1>2, <2>2, <2>3 DEF Steady, Open
<1>3. CASE s # r
  BY <1>1, <1>3 DEF Steady
<1> QED BY <1>2, <1>3

\* Every step moves a session in one of these ways.
LEMMA SessionsMove ==
  ASSUME RecordsTyped, CloseIsOpen, [Next]_vars, NEW s \in Sessions
  PROVE  SessionMoves(s)
<1>1. /\ session \in [Sessions -> SessionRecords]
      /\ log \in [Sessions -> Seq(Contents \cup {Gone})]
  BY DEF RecordsTyped
<1>2. ASSUME UNCHANGED session
      PROVE  SessionMoves(s)
  BY <1>2 DEF SessionMoves, Steady
<1>3. ASSUME NEW r, NEW lease, session' = [session EXCEPT ![r].writer = lease]
      PROVE  SessionMoves(s)
  <2> DEFINE x == [session[r] EXCEPT !.writer = lease]
  <2>1. session' = [session EXCEPT ![r] = x]
    BY <1>3
  <2>2. r \in Sessions => /\ x.committed = session[r].committed /\ x.identity = session[r].identity
                          /\ x.life = session[r].life
    BY <1>1 DEF SessionRecords
  <2> HIDE DEF x
  <2> QED BY <2>1, <2>2, SessionKept DEF SessionMoves
<1>4. ASSUME NEW r, NEW t, session' = [session EXCEPT ![r].proposal = t]
      PROVE  SessionMoves(s)
  <2> DEFINE x == [session[r] EXCEPT !.proposal = t]
  <2>1. session' = [session EXCEPT ![r] = x]
    BY <1>4
  <2>2. r \in Sessions => /\ x.committed = session[r].committed /\ x.identity = session[r].identity
                          /\ x.life = session[r].life
    BY <1>1 DEF SessionRecords
  <2> HIDE DEF x
  <2> QED BY <2>1, <2>2, SessionKept DEF SessionMoves
<1>5. ASSUME NEW r \in Sessions,
             \/ BeginEdit(r) \/ StartAccept(r) \/ CloseStart(r) \/ StartResolve(r)
             \/ MountEditor(r) \/ HashForEdit(r) \/ RecordAccept(r)
             \/ \E bytes \in Contents : StartSave(r, bytes)
             \/ \E t \in Tasks : BeginTask(t, r)
             \/ \E k \in Kinds : CommitStep(r, k)
      PROVE  UNCHANGED session
  BY <1>5 DEF BeginEdit, StartAccept, CloseStart, StartResolve, MountEditor, HashForEdit,
              RecordAccept, StartSave, BeginTask, CommitStep, SealCommit, RefuseCommit, Replace,
              LeaveToRecovery
<1>6. ASSUME NEW t \in Tasks,
             \/ StartFlush(t) \/ StartVerify(t)
             \/ \E bytes \in Contents : Mutate(t, bytes) \/ Amend(t, bytes)
             \/ IdentityForTask(t) \/ RefuseTask(t) \/ CloneSource(t) \/ RegisterInClosed(t)
             \/ FailFlush(t) \/ FailVerify(t) \/ DropVerify(t)
      PROVE  UNCHANGED session
  BY <1>6 DEF StartFlush, StartVerify, Mutate, Amend, IdentityForTask, RefuseTask, CloneSource,
              RegisterInClosed, FailFlush, FailVerify, DropVerify
<1>7. ASSUME NEW r \in Sessions,
             \/ OpenSession(r) \/ BareSave(r) \/ EndEdit(r) \/ Reject(r) \/ UnstableIdentity(r)
             \/ ApplyEdit(r) \/ RefuseEdit(r) \/ CloseEdit(r) \/ CloseFinish(r) \/ ApplyResolve(r)
      PROVE  SessionMoves(s)
  <2>1. session[r] \in SessionRecords
    BY <1>1
  <2>2. CASE OpenSession(r)
    <3>1. s # r => session'[s] = session[s]
      BY <2>2 DEF OpenSession, RecordsTyped
    <3> QED BY <2>2, <3>1 DEF SessionMoves, Steady
  <2>3. CASE BareSave(r) \/ RefuseEdit(r) \/ ApplyResolve(r)
    <3>1. UNCHANGED session \/ \E life \in Life \ {"absent"} :
                                  Open(r) /\ session' = [session EXCEPT ![r].life = life]
      <4>1. CASE BareSave(r)
        <5>1. session' = [session EXCEPT ![r].life = Conflicted(session[r].life)]
          BY <4>1 DEF BareSave
        <5>2. Conflicted(session[r].life) \in Life \ {"absent"} /\ Open(r)
          BY <2>1, <4>1 DEF BareSave, Open, Conflicted, SessionRecords, Life
        <5> QED BY <5>1, <5>2
      <4>2. CASE RefuseEdit(r)
        BY <4>2 DEF RefuseEdit, MayPromote, Open, Life
      <4>3. CASE ApplyResolve(r)
        BY <4>3 DEF ApplyResolve, Life
      <4> QED BY <2>3, <4>1, <4>2, <4>3
    <3>2. ASSUME NEW life, life # "absent", Open(r), session' = [session EXCEPT ![r].life = life]
          PROVE  SessionMoves(s)
      <4> DEFINE x == [session[r] EXCEPT !.life = life]
      <4>1. session' = [session EXCEPT ![r] = x]
        BY <3>2
      <4>2. /\ x.committed = session[r].committed /\ x.identity = session[r].identity
            /\ x.life # "absent" /\ Open(r)
        BY <2>1, <3>2 DEF SessionRecords
      <4> HIDE DEF x
      <4> QED BY <4>1, <4>2, SessionKept DEF SessionMoves
    <3> QED BY <1>2, <3>1, <3>2
  <2>4. CASE UnstableIdentity(r)
    <3> DEFINE x == [session[r] EXCEPT !.identity = "unstable", !.life = Conflicted(session[r].life)]
    <3>1. session' = [session EXCEPT ![r] = x]
      <4>1. session' = [session EXCEPT ![r].identity = "unstable",
                                       ![r].life = Conflicted(session[r].life)]
        BY <2>4 DEF UnstableIdentity
      <4> QED BY <4>1
    <3>2. /\ x.committed = session[r].committed /\ x.identity = "unstable"
          /\ x.life # "absent" /\ Open(r)
      BY <2>1, <2>4 DEF UnstableIdentity, Open, Conflicted, SessionRecords
    <3> HIDE DEF x
    <3> QED BY <3>1, <3>2, SessionKept DEF SessionMoves
  <2>5. CASE EndEdit(r) \/ ApplyEdit(r)
    <3>1. \E lease : session' = [session EXCEPT ![r].writer = lease]
      BY <2>5 DEF EndEdit, ApplyEdit
    <3> QED BY <1>3, <3>1
  <2>6. CASE Reject(r)
    BY <1>4, <2>6 DEF Reject
  <2>7. CASE CloseEdit(r)
    <3>1. \/ session' = [session EXCEPT ![r].life = "closing", ![r].writer = NoLease]
          \/ session' = [session EXCEPT ![r].life = "closing"]
      BY <2>7 DEF CloseEdit
    <3> DEFINE x == [session[r] EXCEPT !.life = "closing", !.writer = NoLease]
               y == [session[r] EXCEPT !.life = "closing"]
    <3>2. session' = [session EXCEPT ![r] = x] \/ session' = [session EXCEPT ![r] = y]
      BY <3>1
    <3>3. /\ x.committed = session[r].committed /\ x.identity = session[r].identity
          /\ y.committed = session[r].committed /\ y.identity = session[r].identity
          /\ x.life = "closing" /\ y.life = "closing" /\ Open(r)
      BY <2>1, <2>7 DEF CloseEdit, CloseIsOpen, SessionRecords
    <3> HIDE DEF x, y
    <3> QED BY <3>2, <3>3, SessionKept DEF SessionMoves
  <2>8. CASE CloseFinish(r)
    <3> DEFINE x == [session[r] EXCEPT !.life = "closed", !.identity = "none"]
    <3>1. session' = [session EXCEPT ![r] = x]
      <4>1. session' = [session EXCEPT ![r].life = "closed", ![r].identity = "none"]
        BY <2>8 DEF CloseFinish
      <4> QED BY <4>1
    <3>2. /\ x.committed = session[r].committed /\ x.identity = "none"
          /\ x.life = "closed" /\ Open(r)
      BY <2>1, <2>8 DEF CloseFinish, CloseIsOpen, SessionRecords
    <3> HIDE DEF x
    <3> QED BY <3>1, <3>2, SessionKept DEF SessionMoves
  <2> QED BY <1>7, <2>2, <2>3, <2>4, <2>5, <2>6, <2>7, <2>8
<1>8. ASSUME NEW r \in Sessions, CloseAbort(r)
      PROVE  SessionMoves(s)
  <2>1. UNCHANGED session \/ \E t \in Tasks :
          session' = [session EXCEPT ![r].writer = NoLease,
                        ![r].proposal = IF session[r].proposal = t THEN NoTask ELSE session[r].proposal]
    BY <1>8 DEF CloseAbort, Tracked
  <2>2. ASSUME NEW p, session' = [session EXCEPT ![r].writer = NoLease, ![r].proposal = p]
        PROVE  SessionMoves(s)
    <3> DEFINE x == [session[r] EXCEPT !.writer = NoLease, !.proposal = p]
    <3>1. session' = [session EXCEPT ![r] = x]
      BY <2>2
    <3>2. /\ x.committed = session[r].committed /\ x.identity = session[r].identity
          /\ x.life = session[r].life
      BY <1>1 DEF SessionRecords
    <3> HIDE DEF x
    <3> QED BY <3>1, <3>2, SessionKept DEF SessionMoves
  <2> QED BY <1>2, <2>1, <2>2
<1>9. ASSUME NEW t \in Tasks,
             \/ Finalize(t) \/ AcquireWriter(t) \/ CloneFails(t) \/ RefuseRegister(t)
             \/ Register(t) \/ FinishFlush(t) \/ PassVerify(t)
      PROVE  SessionMoves(s)
  <2>1. CASE Finalize(t) \/ CloneFails(t) \/ RefuseRegister(t)
    <3>1. session' \in {session, [session EXCEPT ![task[t].of].writer = NoLease]}
      BY <2>1 DEF Finalize, CloneFails, RefuseRegister, GiveUp, Unbound
    <3> QED BY <1>2, <1>3, <3>1
  <2>2. CASE AcquireWriter(t)
    BY <1>3, <2>2 DEF AcquireWriter
  <2>3. CASE Register(t) \/ FinishFlush(t) \/ PassVerify(t)
    <3>1. session' \in {session, [session EXCEPT ![task[t].of].proposal = t]}
      BY <2>3 DEF Register, FinishFlush, PassVerify, Proposed
    <3> QED BY <1>2, <1>4, <3>1
  <2> QED BY <1>9, <2>1, <2>2, <2>3
<1>10. ASSUME NEW d \in Documents, WatcherFires(d)
      PROVE  SessionMoves(s)
  BY <1>1, <1>10 DEF WatcherFires, Conflicted, Open, SessionRecords, SessionMoves, Steady
<1>11. ASSUME NEW r \in Sessions, BindIdentity(r) \/ RecordSave(r) \/ BindAccept(r)
       PROVE  SessionMoves(s)
  <2>1. CASE r = s
    BY <1>11, <2>1 DEF SessionMoves
  <2>2. CASE r # s
    <3>1. session'[s] = session[s]
      BY <1>1, <1>11, <2>2 DEF BindIdentity, RecordSave, BindAccept, Bound
    <3> QED BY <3>1 DEF SessionMoves, Steady
  <2> QED BY <2>1, <2>2
<1>15. CASE Call
  BY <1>2, <1>5, <1>6, <1>7, <1>9, <1>15 DEF Call
<1>16. ASSUME NEW r \in Sessions,
              \/ IdentityStep(r) \/ EditStep(r) \/ RecordStep(r) \/ CloseStep(r) \/ ApplyResolve(r)
              \/ \E k \in Kinds : CommitStep(r, k)
       PROVE  SessionMoves(s)
  BY <1>2, <1>5, <1>7, <1>8, <1>11, <1>16
     DEF IdentityStep, EditStep, RecordStep, CloseStep
<1>17. ASSUME NEW t \in Tasks, TaskStep(t) \/ VerifyStep(t)
       PROVE  SessionMoves(s)
  BY <1>2, <1>6, <1>9, <1>17 DEF TaskStep, VerifyStep
<1>18. CASE Continue
  BY <1>16, <1>17, <1>18 DEF Continue
<1>19. CASE Environment
  BY <1>2, <1>10, <1>19 DEF SessionMoves, Environment, ExternalWrite
<1>20. CASE UNCHANGED vars
  BY <1>2, <1>20 DEF vars
<1> QED BY <1>15, <1>18, <1>19, <1>20 DEF Next

\* What a step may do to the revision a session works on.
MovesRevision(s) ==
  \/ /\ session'[s].committed = session[s].committed
     /\ session'[s].identity = "opened" => session[s].identity = "opened"
  \/ session'[s].committed \in 1..Len(log'[s])
  \/ /\ commit[s]["accept"].pc = "recorded"
     /\ session'[s].committed = commit[s]["accept"].sequence

\* So every step moves the revision of a session in one of these ways.
LEMMA RevisionMoves ==
  ASSUME RecordsTyped, CloseIsOpen, [Next]_vars, NEW s \in Sessions
  PROVE  MovesRevision(s)
<1>1. /\ session \in [Sessions -> SessionRecords]
      /\ log \in [Sessions -> Seq(Contents \cup {Gone})]
  BY DEF RecordsTyped
<1>2. CASE Steady(s)
  BY <1>2 DEF Steady, MovesRevision
<1>3. CASE OpenSession(s)
  BY <1>1, <1>3 DEF OpenSession, SessionRecords, MovesRevision
<1>4. CASE BindIdentity(s)
  <2>1. log'[s] = Append(log[s], source[DocumentOf[s]]) /\ session'[s].committed = 1
    BY <1>1, <1>4 DEF BindIdentity, SessionRecords
  <2>2. log[s] \in Seq(Contents \cup {Gone}) /\ source[DocumentOf[s]] \in Contents \cup {Gone}
    BY SessionAssumption DEF RecordsTyped
  <2>3. Len(log'[s]) \in Nat /\ Len(log'[s]) >= 1
    BY <2>1, <2>2
  <2> QED BY <2>1, <2>3 DEF MovesRevision
<1>5. CASE RecordSave(s)
  <2>1. CASE Open(s)
    <3>1. /\ session'[s].committed = Len(log'[s])
          /\ log'[s] = Append(log[s], commit[s]["save"].bytes)
      BY <1>1, <1>5, <2>1 DEF RecordSave, Landed, Bound, SessionRecords
    <3>2. log[s] \in Seq(Contents \cup {Gone})
      BY <1>1
    <3>3. commit[s]["save"].bytes \in Contents \cup {Gone}
      BY DEF RecordsTyped, CommitRecords, Kinds
    <3>4. Len(log'[s]) \in Nat /\ Len(log'[s]) >= 1
      BY <3>1, <3>2, <3>3
    <3> QED BY <3>1, <3>4 DEF MovesRevision
  <2>2. CASE ~Open(s)
    BY <1>1, <1>5, <2>2 DEF RecordSave, Bound, MovesRevision
  <2> QED BY <2>1, <2>2
<1>6. CASE BindAccept(s)
  BY <1>1, <1>6 DEF BindAccept, Bound, MovesRevision, SessionRecords
<1>7. CASE Restart
  <2>1. session'[s] = Rehydrated(s) /\ session[s] \in SessionRecords
    BY <1>1, <1>7 DEF Restart
  <2>2. CASE ~Open(s)
    BY <2>1, <2>2 DEF Rehydrated, MovesRevision
  <2>3. CASE Open(s) /\ log'[s] = <<>>
    BY <2>1, <2>3 DEF Rehydrated, SessionRecords, MovesRevision
  <2>4. CASE Open(s) /\ log'[s] # <<>>
    <3>1. session'[s].committed = Len(log'[s])
      BY <2>1, <2>4 DEF Rehydrated
    <3> DEFINE landed == LandedByRecovery(s)
    <3>2. log'[s] = log[s] \o landed /\ log[s] \in Seq(Contents \cup {Gone})
          /\ landed \in Seq(Contents \cup {Gone})
      BY <1>1, <1>7, RecoveredTyped DEF Restart
    <3> HIDE DEF landed
    <3>3. log'[s] \in Seq(Contents \cup {Gone})
      BY <3>2
    <3>4. Len(log'[s]) \in Nat /\ Len(log'[s]) >= 1
      BY <2>4, <3>3
    <3> QED BY <3>1, <3>4 DEF MovesRevision
  <2> QED BY <2>2, <2>3, <2>4
<1> QED BY <1>2, <1>3, <1>4, <1>5, <1>6, <1>7, SessionsMove DEF SessionMoves

-----------------------------------------------------------------------------
(***************************************************************************)
(* What an accept seals                                                    *)
(***************************************************************************)

\* How far each step of a commit takes it.
LEMMA CallSteps ==
  ASSUME RecordsTyped, NEW s \in Sessions, NEW k \in Kinds
  PROVE  /\ SealCommit(s, k) => /\ commit'[s][k].pc = "sealed"
                                /\ commit'[s][k].before = source[DocumentOf[s]]
                                /\ commit'[s][k].task = commit[s][k].task
         /\ Replace(s, k) => /\ commit'[s][k].pc = "replaced"
                             /\ commit'[s][k].task = commit[s][k].task
         /\ k = "accept" /\ StartAccept(s) =>
              /\ commit'[s][k].pc = "queued"
              /\ commit'[s][k].task = session[s].proposal
              /\ commit'[s][k].bytes = task[session[s].proposal].flushed
         /\ k = "accept" /\ RecordAccept(s) =>
              /\ commit'[s][k].pc = "recorded" /\ commit'[s][k].sequence = Len(log'[s])
              /\ commit'[s][k].task = commit[s][k].task
         /\ \A bytes \in Contents : k = "save" /\ StartSave(s, bytes) => commit'[s][k].pc = "queued"
<1>1. /\ commit \in [Sessions -> [Kinds -> CommitRecords]]
      /\ commit[s] \in [Kinds -> CommitRecords] /\ commit[s][k] \in CommitRecords
  BY DEF RecordsTyped
<1>2. ASSUME NEW r, commit' = [commit EXCEPT ![s][k] = r]
      PROVE  commit'[s][k] = r
  BY <1>1, <1>2
<1>3. ASSUME SealCommit(s, k)
      PROVE  /\ commit'[s][k].pc = "sealed" /\ commit'[s][k].before = source[DocumentOf[s]]
             /\ commit'[s][k].task = commit[s][k].task
  <2> DEFINE r == [commit[s][k] EXCEPT !.pc = "sealed", !.before = source[DocumentOf[s]]]
  <2>1. commit' = [commit EXCEPT ![s][k] = r]
    <3>1. commit' = [commit EXCEPT ![s][k].pc = "sealed", ![s][k].before = source[DocumentOf[s]]]
      BY <1>3 DEF SealCommit
    <3> QED BY <1>1, <3>1
  <2>2. r.pc = "sealed" /\ r.before = source[DocumentOf[s]] /\ r.task = commit[s][k].task
    BY <1>1 DEF CommitRecords
  <2> HIDE DEF r
  <2> QED BY <1>2, <2>1, <2>2
<1>4. ASSUME Replace(s, k)
      PROVE  commit'[s][k].pc = "replaced" /\ commit'[s][k].task = commit[s][k].task
  <2> DEFINE r == [commit[s][k] EXCEPT !.pc = "replaced"]
  <2>1. commit' = [commit EXCEPT ![s][k] = r]
    BY <1>1, <1>4 DEF Replace
  <2>2. r.pc = "replaced" /\ r.task = commit[s][k].task
    BY <1>1 DEF CommitRecords
  <2> HIDE DEF r
  <2> QED BY <1>2, <2>1, <2>2
<1>5. ASSUME k = "accept", StartAccept(s)
      PROVE  /\ commit'[s][k].pc = "queued"
             /\ commit'[s][k].task = session[s].proposal
             /\ commit'[s][k].bytes = task[session[s].proposal].flushed
  <2> DEFINE r == [NoCall EXCEPT !.pc = "queued", !.bytes = task[session[s].proposal].flushed,
                                 !.task = session[s].proposal]
  <2>1. commit' = [commit EXCEPT ![s][k] = r]
    BY <1>5 DEF StartAccept
  <2>2. r.pc = "queued" /\ r.bytes = task[session[s].proposal].flushed /\ r.task = session[s].proposal
    BY DEF NoCall
  <2> HIDE DEF r
  <2> QED BY <1>2, <2>1, <2>2
<1>6. ASSUME k = "accept", RecordAccept(s)
      PROVE  /\ commit'[s][k].pc = "recorded" /\ commit'[s][k].sequence = Len(log'[s])
             /\ commit'[s][k].task = commit[s][k].task
  <2> DEFINE r == [commit[s][k] EXCEPT !.pc = "recorded", !.sequence = Len(log'[s])]
  <2>1. commit' = [commit EXCEPT ![s][k] = r]
    <3>1. commit' = [commit EXCEPT ![s][k].pc = "recorded", ![s][k].sequence = Len(log'[s])]
      BY <1>6 DEF RecordAccept
    <3> QED BY <1>1, <3>1
  <2>2. r.pc = "recorded" /\ r.sequence = Len(log'[s]) /\ r.task = commit[s][k].task
    BY <1>1 DEF CommitRecords
  <2> HIDE DEF r
  <2> QED BY <1>2, <2>1, <2>2
<1>7. ASSUME NEW bytes \in Contents, k = "save", StartSave(s, bytes)
      PROVE  commit'[s][k].pc = "queued"
  <2> DEFINE r == [commit[s][k] EXCEPT !.pc = "queued", !.bytes = bytes]
  <2>1. commit' = [commit EXCEPT ![s][k] = r]
    <3>1. commit' = [commit EXCEPT ![s][k].pc = "queued", ![s][k].bytes = bytes]
      BY <1>7 DEF StartSave
    <3> QED BY <1>1, <3>1
  <2>2. r.pc = "queued"
    BY <1>1 DEF CommitRecords
  <2> HIDE DEF r
  <2> QED BY <1>2, <2>1, <2>2
<1> QED BY <1>3, <1>4, <1>5, <1>6, <1>7

\* What an accept in the chain will copy is what its report is about, through every step.
LEMMA ReportedKept ==
  ASSUME WriterInv, AcceptIsReported, [Next]_vars, WriterInv'
  PROVE  AcceptIsReported'
<1> SUFFICES ASSUME NEW s \in Sessions, commit'[s]["accept"].pc = "queued"
             PROVE  LET c == commit'[s]["accept"] IN
                    /\ c.bytes \in Contents
                    /\ task'[c.task].staged = c.bytes =>
                         task'[c.task].verified = c.bytes /\ task'[c.task].flushed = c.bytes
  BY DEF AcceptIsReported
<1>1. /\ commit \in [Sessions -> [Kinds -> CommitRecords]] /\ "accept" \in Kinds
      /\ RecordsTyped /\ task \in [Tasks -> TaskRecords] /\ session \in [Sessions -> SessionRecords]
  BY DEF WriterInv, RecordsTyped, Kinds
<1>2. CASE StartAccept(s)
  <2> DEFINE t == session[s].proposal
  <2>1. /\ t \in Tasks /\ task[t].verified = task[t].flushed /\ task[t].verified # Gone
        /\ task' = [task EXCEPT ![t].state = "committing"]
        /\ commit' = [commit EXCEPT ![s]["accept"] =
             [NoCall EXCEPT !.pc = "queued", !.bytes = task[t].flushed, !.task = t]]
    BY <1>1, <1>2 DEF StartAccept, Acceptable, SessionRecords
  <2>2. commit'[s]["accept"].bytes = task[t].flushed /\ commit'[s]["accept"].task = t
    BY <1>1, <2>1 DEF NoCall
  <2>3. /\ task'[t].verified = task[t].verified /\ task'[t].flushed = task[t].flushed
        /\ task[t].flushed \in Contents \cup {Gone}
    BY <1>1, <2>1 DEF TaskRecords
  <2> QED BY <2>1, <2>2, <2>3
<1>3. CASE commit'[s]["accept"] = commit[s]["accept"] /\ ~Restart
  <2> DEFINE c == commit[s]["accept"]
             t == c.task
  <2>1. Accepting(s) /\ c.pc = "queued"
    BY <1>3 DEF Accepting
  <2>2. /\ c.bytes \in Contents
        /\ task[t].staged = c.bytes => task[t].verified = c.bytes /\ task[t].flushed = c.bytes
    BY <2>1 DEF AcceptIsReported
  <2>3. t \in Tasks /\ task[t].pc = "done" /\ task[t].state \in {"committing", "failed"}
    BY <2>1 DEF WriterInv, AcceptIsAlone
  <2>4. KeepsReport(t)
    <3>1. CASE Call
      BY <2>3, <3>1, CallTasks
    <3>2. CASE Continue
      BY <2>3, <3>2, ContinueTasks
    <3>3. CASE UNCHANGED task
      BY <3>3 DEF KeepsReport
    <3> QED BY <1>3, <3>1, <3>2, <3>3 DEF Next, Environment, WatcherFires, ExternalWrite, vars
  <2> HIDE DEF t
  <2>5. \/ task'[t].staged = Gone
        \/ /\ task'[t].staged = task[t].staged /\ task'[t].flushed = task[t].flushed
           /\ task'[t].verified \in {task[t].verified, task[t].flushed}
    BY <2>3, <2>4 DEF KeepsReport
  <2>6. task'[t].staged = c.bytes => task'[t].verified = c.bytes /\ task'[t].flushed = c.bytes
    BY <2>2, <2>5, WriterAssumption
  <2> QED BY <1>3, <2>2, <2>6 DEF t
<1>4. ~Restart
  BY DEF Restart, NoCall, Kinds
<1>5. ~RecordAccept(s)
  BY <1>1, CallSteps
<1>6. ~SealCommit(s, "accept") /\ ~Replace(s, "accept")
  BY <1>1, CallSteps
<1>7. commit'[s]["accept"] # NoCall
  BY DEF NoCall
<1> QED BY <1>1, <1>2, <1>3, <1>4, <1>5, <1>6, <1>7, CommitMoves

\* INV-08 and INV-09 for any number of sessions and tasks: whoever amends, rejects or verifies
\* again while the accept waits, the bytes it seals are the bytes a published report is about.
THEOREM SealsAreReported == Spec => AcceptsSealReportedBytes
<1> DEFINE Seal ==
      \A s \in Sessions :
        commit[s]["accept"].pc = "queued" /\ commit'[s]["accept"].pc = "sealed" =>
          LET t == commit[s]["accept"].task IN
          task[t].staged = commit[s]["accept"].bytes
            /\ task[t].verified = commit[s]["accept"].bytes
<1>1. Init => AcceptIsReported
  BY DEF Init, AcceptIsReported, NoCall, Kinds
<1>2. WriterInv /\ AcceptIsReported /\ [Next]_vars /\ WriterInv' => AcceptIsReported'
  BY ReportedKept
<1>3. WriterInv /\ AcceptIsReported /\ [Next]_vars => Seal
  <2> SUFFICES ASSUME WriterInv, AcceptIsReported, [Next]_vars, NEW s \in Sessions,
                      commit[s]["accept"].pc = "queued", commit'[s]["accept"].pc = "sealed"
               PROVE  LET t == commit[s]["accept"].task IN
                      task[t].staged = commit[s]["accept"].bytes
                        /\ task[t].verified = commit[s]["accept"].bytes
    OBVIOUS
  <2>1. commit \in [Sessions -> [Kinds -> CommitRecords]] /\ "accept" \in Kinds /\ RecordsTyped
    BY DEF WriterInv, RecordsTyped, Kinds
  <2>2. ~StartAccept(s) /\ ~RecordAccept(s) /\ ~Replace(s, "accept")
    BY <2>1, CallSteps
  <2>3. commit'[s]["accept"] # NoCall /\ commit'[s]["accept"] # commit[s]["accept"]
    BY DEF NoCall
  <2>4. SealCommit(s, "accept")
    BY <2>1, <2>2, <2>3, CommitMoves
  <2> QED BY <2>4 DEF SealCommit, BaseHolds, StagedIsSealed, AcceptIsReported
<1>4. Spec => [][Seal]_vars
  BY <1>1, <1>2, <1>3, WriterInvariant, PTL DEF Spec
<1> QED BY <1>4 DEF AcceptsSealReportedBytes, Seal

-----------------------------------------------------------------------------
(***************************************************************************)
(* What a commit overwrites                                                *)
(***************************************************************************)

\* A session that knows its identity, or saves, works on a revision of its own table.
RevisionsInLog ==
  \A s \in Sessions :
    /\ session[s].committed <= Len(log[s])
    /\ session[s].identity = "opened" => session[s].committed > 0
    /\ commit[s]["save"].pc # "idle" => session[s].committed > 0

\* The base of a task or of an accept in flight is a revision of its session.
BasesInLog ==
  /\ \A t \in Tasks : Based(t) => task[t].base \in 1..Len(log[task[t].of])
  /\ \A s \in Sessions : Accepting(s) =>
       task[commit[s]["accept"].task].base \in 1..Len(log[s])

\* So are what a commit sealed and what an accept recorded.
CallsInLog ==
  \A s \in Sessions :
    /\ \A k \in Kinds : commit[s][k].pc = "sealed" => commit[s][k].before \in Range(log[s])
    /\ commit[s]["accept"].pc = "recorded" => commit[s]["accept"].sequence \in 1..Len(log[s])

LogInv == RevisionsInLog /\ BasesInLog /\ CallsInLog

\* A candidate that survives a restart keeps its base.
LEMMA RestartTasks ==
  ASSUME WriterInv, Restart, NEW t \in Tasks
  PROVE  KeepsBase(t)
<1> DEFINE left == IF task[t].pc = "idle" THEN task[t] ELSE [Ended(t) EXCEPT !.report = Gone]
<1>1. task[t] \in TaskRecords /\ task'[t] \in {left, Failed(left)}
  BY DEF WriterInv, RecordsTyped, Restart, Reconciled
<1>2. /\ left \in TaskRecords /\ left.of = task[t].of /\ left.state = task[t].state
      /\ left.base = task[t].base /\ left.pc \in {"idle", "done"}
  BY ZenonT(40), <1>1 DEF Ended, TaskRecords
<1> HIDE DEF left
<1>3. Failed(left).state = "failed" /\ Failed(left).pc = left.pc
  BY <1>2 DEF Failed, TaskRecords
<1> QED BY <1>1, <1>2, <1>3 DEF KeepsBase, Based, Holding

\* The bases of tasks stay in the table, through every step.
LEMMA LogKept ==
  ASSUME WriterInv, WriterInv', LogInv, [Next]_vars
  PROVE  LogInv'
<1>1. /\ RecordsTyped /\ "save" \in Kinds /\ "accept" \in Kinds
      /\ commit \in [Sessions -> [Kinds -> CommitRecords]]
      /\ \A s \in Sessions : log[s] \in Seq(Contents \cup {Gone}) /\ log'[s] \in Seq(Contents \cup {Gone})
      /\ \A s \in Sessions : session[s].committed \in Nat /\ session'[s].committed \in Nat
  <2>1. RecordsTyped /\ RecordsTyped'
    BY DEF WriterInv
  <2>2. \A s \in Sessions : session[s].committed \in Nat /\ session'[s].committed \in Nat
    BY <2>1 DEF RecordsTyped, SessionRecords
  <2> QED BY <2>1, <2>2 DEF RecordsTyped, Kinds
<1>2. \A s \in Sessions : /\ Len(log'[s]) >= Len(log[s])
                          /\ \A i \in 1..Len(log[s]) : log'[s][i] = log[s][i]
  BY <1>1, LogGrows
<1>3. \A s \in Sessions : Len(log[s]) \in Nat /\ Len(log'[s]) \in Nat
  <2> SUFFICES ASSUME NEW s \in Sessions
               PROVE  Len(log[s]) \in Nat /\ Len(log'[s]) \in Nat
    OBVIOUS
  <2>1. log[s] \in Seq(Contents \cup {Gone}) /\ log'[s] \in Seq(Contents \cup {Gone})
    BY <1>1
  <2> QED BY <2>1
<1>4. \A s \in Sessions : \A n \in 1..Len(log[s]) : n \in 1..Len(log'[s])
  BY <1>2, <1>3
<1>5. \A s \in Sessions : Range(log[s]) \subseteq Range(log'[s])
  <2> SUFFICES ASSUME NEW s \in Sessions, NEW x \in Range(log[s])
               PROVE  x \in Range(log'[s])
    OBVIOUS
  <2>1. log[s] \in Seq(Contents \cup {Gone}) /\ log'[s] \in Seq(Contents \cup {Gone})
    BY <1>1
  <2>2. DOMAIN log[s] = 1..Len(log[s]) /\ DOMAIN log'[s] = 1..Len(log'[s])
    BY <2>1
  <2>3. PICK i \in 1..Len(log[s]) : x = log[s][i]
    BY <2>2 DEF Range
  <2>4. i \in 1..Len(log'[s]) /\ x = log'[s][i]
    BY <1>2, <1>4, <2>3
  <2> QED BY <2>2, <2>4 DEF Range
<1>6. \A s \in Sessions : \A i \in 1..Len(log[s]) : log[s][i] \in Range(log'[s])
  <2> SUFFICES ASSUME NEW s \in Sessions, NEW i \in 1..Len(log[s])
               PROVE  log[s][i] \in Range(log[s])
    BY <1>5
  <2>1. log[s] \in Seq(Contents \cup {Gone})
    BY <1>1
  <2>2. DOMAIN log[s] = 1..Len(log[s])
    BY <2>1
  <2> QED BY <2>2 DEF Range
<1>7. \A s \in Sessions : MovesRevision(s)
  BY <1>1, RevisionMoves DEF WriterInv
<1>8. \A s \in Sessions : /\ session'[s].committed <= Len(log'[s])
                          /\ session'[s].identity = "opened" => session'[s].committed > 0
                          /\ session[s].committed > 0 => session'[s].committed > 0
  <2> SUFFICES ASSUME NEW s \in Sessions
               PROVE  /\ session'[s].committed <= Len(log'[s])
                      /\ session'[s].identity = "opened" => session'[s].committed > 0
                      /\ session[s].committed > 0 => session'[s].committed > 0
    OBVIOUS
  <2>1. /\ session[s].committed <= Len(log[s])
        /\ session[s].identity = "opened" => session[s].committed > 0
        /\ commit[s]["accept"].pc = "recorded" => commit[s]["accept"].sequence \in 1..Len(log[s])
    BY DEF LogInv, RevisionsInLog, CallsInLog
  <2>2. MovesRevision(s)
    BY <1>7
  <2>3. Len(log[s]) \in Nat /\ Len(log'[s]) \in Nat /\ Len(log'[s]) >= Len(log[s])
        /\ session[s].committed \in Nat
    BY <1>1, <1>2, <1>3
  <2> QED BY <2>1, <2>2, <2>3 DEF MovesRevision
<1>9. RevisionsInLog'
  <2> SUFFICES ASSUME NEW s \in Sessions, commit'[s]["save"].pc # "idle"
               PROVE  session[s].committed > 0
    BY <1>8 DEF RevisionsInLog
  <2>1. CASE \E bytes \in Contents : StartSave(s, bytes)
    BY <2>1 DEF StartSave, KnowsIdentity, LogInv, RevisionsInLog
  <2>2. CASE SealCommit(s, "save") \/ Replace(s, "save")
    BY <2>2 DEF SealCommit, Replace, Turn, LogInv, RevisionsInLog
  <2>3. CASE commit'[s]["save"] = commit[s]["save"]
    BY <2>3 DEF LogInv, RevisionsInLog
  <2>4. commit'[s]["save"] # NoCall
    BY DEF NoCall
  <2> QED BY <1>1, <2>1, <2>2, <2>3, <2>4, CommitMoves
<1>10. \A t \in Tasks : Based(t)' => task'[t].base \in 1..Len(log'[task'[t].of])
  <2> SUFFICES ASSUME NEW t \in Tasks, Based(t)'
               PROVE  task'[t].base \in 1..Len(log'[task'[t].of])
    OBVIOUS
  <2>1. CASE KeepsBase(t)
    <3>1. Based(t) /\ task'[t].base = task[t].base /\ task'[t].of = task[t].of
      BY <2>1 DEF KeepsBase
    <3>2. task[t].of \in Sessions
      BY <3>1 DEF Based, WriterInv, TaskAt, Holding
    <3>3. task[t].base \in 1..Len(log[task[t].of])
      BY <3>1 DEF LogInv, BasesInLog
    <3> QED BY <1>4, <3>1, <3>2, <3>3
  <2>2. CASE IdentityForTask(t)
    <3>1. PICK s \in Sessions : s = task[t].of
      BY <2>2 DEF IdentityForTask, WriterInv, TaskAt
    <3> DEFINE r == [task[t] EXCEPT !.pc = "acquire", !.base = KnownRevision(s)]
    <3>2. task' = [task EXCEPT ![t] = r] /\ UNCHANGED log /\ KnowsIdentity(s)
      <4>1. task' = [task EXCEPT ![t].pc = "acquire", ![t].base = KnownRevision(s)]
        BY <2>2, <3>1 DEF IdentityForTask
      <4> QED BY <2>2, <3>1, <4>1 DEF IdentityForTask
    <3>3. r.base = KnownRevision(s) /\ r.of = s /\ task'[t] = r
      BY <1>1, <3>1, <3>2 DEF TaskRecords, RecordsTyped
    <3> HIDE DEF r
    <3>4. KnownRevision(s) \in 1..Len(log[s])
      BY <1>1, <1>3, <3>2 DEF KnowsIdentity, KnownRevision, LogInv, RevisionsInLog
    <3> QED BY <3>2, <3>3, <3>4
  <2>3. KeepsBase(t) \/ IdentityForTask(t)
    <3>1. CASE UNCHANGED task
      BY <3>1 DEF KeepsBase, Based
    <3> QED BY <3>1, CallTasks, ContinueTasks, RestartTasks
            DEF Next, Environment, WatcherFires, ExternalWrite, vars
  <2> QED BY <2>1, <2>2, <2>3
<1>11. \A s \in Sessions : Accepting(s)' => task'[commit'[s]["accept"].task].base \in 1..Len(log'[s])
  <2> SUFFICES ASSUME NEW s \in Sessions, Accepting(s)'
               PROVE  task'[commit'[s]["accept"].task].base \in 1..Len(log'[s])
    OBVIOUS
  <2>1. CASE StartAccept(s)
    <3> DEFINE t == session[s].proposal
    <3>1. /\ t \in Tasks /\ t # NoTask /\ task[t].state = "ready"
          /\ task' = [task EXCEPT ![t].state = "committing"]
      BY <1>1, <2>1 DEF StartAccept, Acceptable, RecordsTyped, SessionRecords
    <3>2. task[t].of = s /\ Based(t)
      BY <3>1 DEF WriterInv, ProposalIsOwn, Based
    <3>3. task[t].base \in 1..Len(log[s])
      BY <3>1, <3>2 DEF LogInv, BasesInLog
    <3>4. task'[t].base = task[t].base
      BY <1>1, <3>1 DEF RecordsTyped, TaskRecords
    <3>5. commit'[s]["accept"].task = t
      BY <1>1, <2>1, CallSteps
    <3> QED BY <1>4, <3>3, <3>4, <3>5
  <2>2. CASE ~StartAccept(s)
    <3>1. Accepting(s) /\ commit'[s]["accept"].task = commit[s]["accept"].task
      <4>1. commit'[s]["accept"] # NoCall
        BY DEF Accepting, NoCall
      <4>2. CASE SealCommit(s, "accept") \/ Replace(s, "accept")
        BY SMTT(30), <1>1, <4>2, CallSteps DEF SealCommit, Replace, Turn, Accepting
      <4>3. CASE RecordAccept(s)
        BY <1>1, <4>3, CallSteps DEF RecordAccept, Landed, Turn, Accepting
      <4>4. CASE commit'[s]["accept"] = commit[s]["accept"]
        BY <4>4 DEF Accepting
      <4> QED BY <1>1, <2>2, <4>1, <4>2, <4>3, <4>4, CommitMoves
    <3> DEFINE t == commit[s]["accept"].task
    <3>2. t \in Tasks /\ task[t].pc = "done" /\ task[t].state \in {"committing", "failed"}
      BY <3>1 DEF WriterInv, AcceptIsAlone
    <3>3. task'[t].state # "deleted"
      BY <3>1 DEF WriterInv, AcceptIsAlone
    <3>4. ~Restart
      BY DEF Restart, NoCall, Kinds, Accepting
    <3>5. KeepsReport(t)
      <4>1. CASE UNCHANGED task
        BY <4>1 DEF KeepsReport
      <4> QED BY <3>2, <3>4, <4>1, CallTasks, ContinueTasks
              DEF Next, Environment, WatcherFires, ExternalWrite, vars
    <3>6. task[t].base \in 1..Len(log[s])
      BY <3>1 DEF LogInv, BasesInLog
    <3>7. task'[t].base = task[t].base
      BY <3>2, <3>3, <3>5 DEF KeepsReport
    <3> QED BY <1>4, <3>1, <3>6, <3>7
  <2> QED BY <2>1, <2>2
<1>12. CallsInLog'
  <2>1. ASSUME NEW s \in Sessions, NEW k \in Kinds, commit'[s][k].pc = "sealed"
        PROVE  commit'[s][k].before \in Range(log'[s])
    <3>1. CASE SealCommit(s, k)
      <4>1. /\ commit'[s][k].before = Expected(s, k) /\ commit[s][k].pc = "queued"
        BY <1>1, <3>1, CallSteps DEF SealCommit, BaseHolds, Turn
      <4>2. CASE k = "save"
        <5>1. session[s].committed \in 1..Len(log[s])
          BY <1>1, <1>3, <4>1, <4>2 DEF LogInv, RevisionsInLog
        <5>2. Expected(s, k) = log[s][session[s].committed]
          BY <4>2 DEF Expected
        <5> QED BY <1>6, <4>1, <5>1, <5>2
      <4>3. CASE k # "save"
        <5>1. k = "accept" /\ Accepting(s)
          BY <4>1, <4>3 DEF Kinds, Accepting
        <5>2. task[commit[s]["accept"].task].base \in 1..Len(log[s])
          BY <5>1 DEF LogInv, BasesInLog
        <5>3. Expected(s, k) = log[s][task[commit[s]["accept"].task].base]
          BY <4>3 DEF Expected
        <5> QED BY <1>6, <4>1, <5>2, <5>3
      <4> QED BY <4>2, <4>3
    <3>2. CASE commit'[s][k] = commit[s][k]
      BY <1>5, <2>1, <3>2 DEF LogInv, CallsInLog
    <3>3. commit'[s][k] # NoCall
      BY <2>1 DEF NoCall
    <3>4. /\ ~Replace(s, k) /\ ~(k = "accept" /\ (StartAccept(s) \/ RecordAccept(s)))
          /\ \A bytes \in Contents : ~(k = "save" /\ StartSave(s, bytes))
      BY <1>1, <2>1, CallSteps
    <3> QED BY <1>1, <3>1, <3>2, <3>3, <3>4, CommitMoves
  <2>2. ASSUME NEW s \in Sessions, commit'[s]["accept"].pc = "recorded"
        PROVE  commit'[s]["accept"].sequence \in 1..Len(log'[s])
    <3>1. CASE RecordAccept(s)
      <4>1. log'[s] = Append(log[s], commit[s]["accept"].bytes)
        BY <1>1, <3>1 DEF RecordAccept, Landed, RecordsTyped
      <4>2. commit[s]["accept"].bytes \in Contents \cup {Gone} /\ log[s] \in Seq(Contents \cup {Gone})
        BY <1>1 DEF CommitRecords
      <4>3. Len(log'[s]) \in 1..Len(log'[s])
        BY <4>1, <4>2
      <4> QED BY <1>1, <3>1, <4>3, CallSteps
    <3>2. CASE commit'[s]["accept"] = commit[s]["accept"]
      BY <1>4, <2>2, <3>2 DEF LogInv, CallsInLog
    <3>3. commit'[s]["accept"] # NoCall
      BY <2>2 DEF NoCall
    <3>4. ~SealCommit(s, "accept") /\ ~Replace(s, "accept") /\ ~StartAccept(s)
      BY <1>1, <2>2, CallSteps
    <3> QED BY <1>1, <3>1, <3>2, <3>3, <3>4, CommitMoves
  <2> QED BY <2>1, <2>2 DEF CallsInLog
<1> QED BY <1>9, <1>10, <1>11, <1>12 DEF LogInv, BasesInLog

\* The invariant behind it: what sessions, tasks and calls refer to is in the table.
THEOREM RevisionsAreOfTheirSession == Spec => []LogInv
<1>1. Init => LogInv
  <2> SUFFICES ASSUME Init
               PROVE  LogInv
    OBVIOUS
  <2>1. /\ \A t \in Tasks : task[t].pc = "idle" /\ task[t].state = "none"
        /\ \A s \in Sessions : /\ session[s].identity = "none" /\ session[s].committed = 0
                               /\ log[s] = <<>>
                               /\ \A k \in Kinds : commit[s][k].pc = "idle"
    BY DEF Init, NoTaskYet, NoCall
  <2>2. "save" \in Kinds /\ "accept" \in Kinds
    BY DEF Kinds
  <2> QED BY <2>1, <2>2 DEF LogInv, RevisionsInLog, BasesInLog, CallsInLog, Based, Holding, Accepting
<1>2. WriterInv /\ WriterInv' /\ LogInv /\ [Next]_vars => LogInv'
  BY LogKept
<1> QED BY <1>1, <1>2, WriterInvariant, PTL DEF Spec

\* INV-10 for any number of sessions and commits: however long a commit waits in the chain
\* and whatever lands before it, what it overwrites is a revision of its own session.
THEOREM NothingForeignIsLost == Spec => NothingForeignIsOverwritten
<1> DEFINE Overwrite ==
      \A s \in Sessions, k \in Kinds :
        commit[s][k].pc = "sealed" /\ commit'[s][k].pc = "replaced" =>
          source[DocumentOf[s]] \in Range(log[s])
<1>1. WriterInv /\ LogInv /\ [Next]_vars => Overwrite
  <2> SUFFICES ASSUME WriterInv, LogInv, [Next]_vars, NEW s \in Sessions, NEW k \in Kinds,
                      commit[s][k].pc = "sealed", commit'[s][k].pc = "replaced"
               PROVE  source[DocumentOf[s]] \in Range(log[s])
    OBVIOUS
  <2>1. RecordsTyped
    BY DEF WriterInv
  <2>2. /\ ~SealCommit(s, k) /\ ~(k = "accept" /\ (StartAccept(s) \/ RecordAccept(s)))
        /\ \A bytes \in Contents : ~(k = "save" /\ StartSave(s, bytes))
    BY <2>1, CallSteps
  <2>3. commit'[s][k] # NoCall /\ commit'[s][k] # commit[s][k]
    BY DEF NoCall
  <2>4. Replace(s, k)
    BY <2>1, <2>2, <2>3, CommitMoves
  <2> QED BY <2>4 DEF Replace, LogInv, CallsInLog
<1>2. Spec => [][Overwrite]_vars
  BY <1>1, WriterInvariant, RevisionsAreOfTheirSession, PTL DEF Spec
<1> QED BY <1>2 DEF NothingForeignIsOverwritten, Overwrite
-----------------------------------------------------------------------------
(***************************************************************************)
(* The commit chain                                                        *)
(***************************************************************************)

\* A commit that waits for its turn, or has it.
InChain(s, k) == commit[s][k].pc \in {"queued", "sealed", "replaced"}

\* The chain of a document holds exactly the commits of its sessions that are in flight,
\* each once, and a session's save never behind its accept.
ChainAt ==
  /\ chain \in [Documents -> Seq(Sessions \X Kinds)]
  /\ \A d \in Documents : \A i, j \in 1..Len(chain[d]) : chain[d][i] = chain[d][j] => i = j
  /\ \A d \in Documents : \A i \in 1..Len(chain[d]) : \A s \in Sessions, k \in Kinds :
       chain[d][i] = <<s, k>> => InChain(s, k) /\ DocumentOf[s] = d
  /\ \A s \in Sessions, k \in Kinds : InChain(s, k) =>
       \E i \in 1..Len(chain[DocumentOf[s]]) : chain[DocumentOf[s]][i] = <<s, k>>
  /\ \A s \in Sessions : \A i, j \in 1..Len(chain[DocumentOf[s]]) :
       /\ chain[DocumentOf[s]][i] = <<s, "accept">>
       /\ chain[DocumentOf[s]][j] = <<s, "save">>
       => j < i

\* The mailbox an accept keeps lets nobody take the writer of its session.
AcceptHasNoWriter == \A s \in Sessions : Accepting(s) => active[s] = NoLease

\* What a commit in flight will put on disk is a document.
BytesAreReal ==
  \A s \in Sessions, k \in Kinds : InChain(s, k) => commit[s][k].bytes \in Contents

\* A save is bound in the step that records it.
SavesAreBound == \A s \in Sessions : commit[s]["save"].pc # "recorded"

ChainInv == ChainAt /\ AcceptHasNoWriter /\ BytesAreReal /\ SavesAreBound

\* A session that has no revision yet.
Opening(s) ==
  \/ session[s].life = "absent"
  \/ Open(s) /\ session[s].identity = "hashing"

LatestInv ==
  /\ \A s \in Sessions :
       /\ Opening(s) => session[s].committed = 0 /\ Len(log[s]) = 0
       /\ commit[s]["accept"].pc = "recorded" =>
            commit[s]["accept"].sequence = Len(log[s]) /\ commit[s]["save"].pc = "idle"
  /\ \A i \in 1..Len(journal) : session[journal[i].session].life # "absent"
  /\ CommittedIsLatest

SameCalls == \A s \in Sessions, k \in Kinds : InChain(s, k)' <=> InChain(s, k)

SameButFor(s, k) ==
  \A r \in Sessions, j \in Kinds : <<r, j>> # <<s, k>> => (InChain(r, j)' <=> InChain(r, j))

Joins(s, k) ==
  /\ ~InChain(s, k) /\ InChain(s, k)' /\ SameButFor(s, k)
  /\ k = "save" => ~InChain(s, "accept")
  /\ chain' = [chain EXCEPT ![DocumentOf[s]] = Append(@, <<s, k>>)]

Leaves(s, k) ==
  /\ InChain(s, k) /\ ~InChain(s, k)' /\ SameButFor(s, k)
  /\ Head(chain[DocumentOf[s]]) = <<s, k>>
  /\ NextTurn(s)

\* A commit that joins goes to the end of the chain of its document.
LEMMA JoinKeeps ==
  ASSUME ChainAt, NEW s \in Sessions, NEW k \in Kinds, Joins(s, k)
  PROVE  ChainAt'
<1> DEFINE d == DocumentOf[s]
           q == chain[d]
<1>1. d \in Documents /\ chain \in [Documents -> Seq(Sessions \X Kinds)]
  BY SessionAssumption DEF ChainAt
<1>2. q \in Seq(Sessions \X Kinds) /\ Len(q) \in Nat /\ <<s, k>> \in Sessions \X Kinds
  BY <1>1
<1>3. chain' \in [Documents -> Seq(Sessions \X Kinds)]
      /\ chain'[d] = Append(q, <<s, k>>) /\ \A e \in Documents : e # d => chain'[e] = chain[e]
  <2>1. Append(q, <<s, k>>) \in Seq(Sessions \X Kinds)
    BY <1>2
  <2> QED BY <1>1, <2>1 DEF Joins
<1>4. /\ Len(chain'[d]) = Len(q) + 1 /\ chain'[d][Len(q) + 1] = <<s, k>>
      /\ \A i \in 1..Len(q) : chain'[d][i] = q[i]
      /\ \A i \in 1..Len(chain'[d]) : i \in 1..Len(q) \/ i = Len(q) + 1
  BY <1>2, <1>3
<1>5. \A i \in 1..Len(q) : q[i] # <<s, k>>
  BY <1>1 DEF ChainAt, Joins
<1>6. /\ \A i, j \in 1..Len(q) : q[i] = q[j] => i = j
      /\ \A i \in 1..Len(q) : \A r \in Sessions, j \in Kinds :
           q[i] = <<r, j>> => InChain(r, j) /\ DocumentOf[r] = d
      /\ \A r \in Sessions : DocumentOf[r] = d => \A i, j \in 1..Len(q) :
           q[i] = <<r, "accept">> /\ q[j] = <<r, "save">> => j < i
  BY <1>1 DEF ChainAt
<1> HIDE DEF d, q
<1>7. \A e \in Documents : \A i, j \in 1..Len(chain'[e]) : chain'[e][i] = chain'[e][j] => i = j
  <2>1. \A i, j \in 1..Len(chain'[d]) : chain'[d][i] = chain'[d][j] => i = j
    BY <1>4, <1>5, <1>6
  <2> QED BY <1>3, <2>1 DEF ChainAt
<1>8. \A e \in Documents : \A i \in 1..Len(chain'[e]) : \A r \in Sessions, j \in Kinds :
        chain'[e][i] = <<r, j>> => InChain(r, j)' /\ DocumentOf[r] = e
  <2> SUFFICES ASSUME NEW e \in Documents, NEW i \in 1..Len(chain'[e]),
                      NEW r \in Sessions, NEW j \in Kinds, chain'[e][i] = <<r, j>>
               PROVE  InChain(r, j)' /\ DocumentOf[r] = e
    OBVIOUS
  <2>1. CASE <<r, j>> = <<s, k>>
    <3>1. r = s /\ j = k
      BY <2>1
    <3>2. e = d
      <4> SUFFICES ASSUME e # d PROVE FALSE
        OBVIOUS
      <4>1. chain'[e] = chain[e]
        BY <1>3
      <4>2. i \in 1..Len(chain[e]) /\ chain[e][i] = <<r, j>>
        BY <4>1
      <4>3. InChain(r, j)
        BY <4>2 DEF ChainAt
      <4> QED BY <3>1, <4>3 DEF Joins
    <3> QED BY <3>1, <3>2 DEF Joins, d
  <2>2. CASE <<r, j>> # <<s, k>>
    <3>1. CASE e = d
      <4>1. i \in 1..Len(q) /\ q[i] = <<r, j>>
        BY <1>4, <2>2, <3>1
      <4> QED BY <1>6, <2>2, <3>1, <4>1 DEF Joins, SameButFor
    <3>2. CASE e # d
      BY SMTT(30), <1>3, <2>2, <3>2 DEF ChainAt, Joins, SameButFor
    <3> QED BY <3>1, <3>2
  <2> QED BY <2>1, <2>2
<1>9. \A r \in Sessions, j \in Kinds : InChain(r, j)' =>
        \E i \in 1..Len(chain'[DocumentOf[r]]) : chain'[DocumentOf[r]][i] = <<r, j>>
  <2> SUFFICES ASSUME NEW r \in Sessions, NEW j \in Kinds, InChain(r, j)'
               PROVE  \E i \in 1..Len(chain'[DocumentOf[r]]) : chain'[DocumentOf[r]][i] = <<r, j>>
    OBVIOUS
  <2>1. CASE <<r, j>> = <<s, k>>
    <3>1. r = s /\ j = k /\ DocumentOf[r] = d
      BY <2>1 DEF d
    <3>2. Len(q) + 1 \in 1..Len(chain'[d])
      BY <1>2, <1>4
    <3> QED BY <1>4, <3>1, <3>2
  <2>2. CASE <<r, j>> # <<s, k>>
    <3>1. PICK i \in 1..Len(chain[DocumentOf[r]]) : chain[DocumentOf[r]][i] = <<r, j>>
      BY <2>2 DEF ChainAt, Joins, SameButFor
    <3>2. CASE DocumentOf[r] = d
      <4>1. i \in 1..Len(q) /\ q[i] = <<r, j>>
        BY <3>1, <3>2 DEF q
      <4>2. i \in 1..Len(chain'[d])
        BY <1>2, <1>4, <4>1
      <4> QED BY <1>4, <3>2, <4>1, <4>2
    <3>3. CASE DocumentOf[r] # d
      <4>1. chain'[DocumentOf[r]] = chain[DocumentOf[r]]
        BY <1>3, <3>3, SessionAssumption
      <4> QED BY <3>1, <4>1
    <3> QED BY <3>2, <3>3
  <2> QED BY <2>1, <2>2
<1>10. \A r \in Sessions : \A i, j \in 1..Len(chain'[DocumentOf[r]]) :
         /\ chain'[DocumentOf[r]][i] = <<r, "accept">>
         /\ chain'[DocumentOf[r]][j] = <<r, "save">>
         => j < i
  <2> SUFFICES ASSUME NEW r \in Sessions, NEW i \in 1..Len(chain'[DocumentOf[r]]),
                      NEW j \in 1..Len(chain'[DocumentOf[r]]),
                      chain'[DocumentOf[r]][i] = <<r, "accept">>,
                      chain'[DocumentOf[r]][j] = <<r, "save">>
               PROVE  j < i
    OBVIOUS
  <2>1. CASE DocumentOf[r] # d
    <3>1. chain'[DocumentOf[r]] = chain[DocumentOf[r]]
      BY <1>3, <2>1, SessionAssumption
    <3> QED BY <3>1 DEF ChainAt
  <2>2. CASE DocumentOf[r] = d
    <3>1. i \in 1..Len(chain'[d]) /\ j \in 1..Len(chain'[d])
          /\ chain'[d][i] = <<r, "accept">> /\ chain'[d][j] = <<r, "save">>
      BY <2>2
    <3>2. j \in 1..Len(q)
      <4> SUFFICES ASSUME j = Len(q) + 1 PROVE FALSE
        BY <1>4, <3>1
      <4>1. s = r /\ k = "save"
        BY <1>4, <3>1
      <4>2. i \in 1..Len(q) /\ q[i] = <<r, "accept">>
        BY <1>4, <3>1, <4>1
      <4>3. InChain(r, "accept")
        BY <1>6, <4>2 DEF Kinds
      <4> QED BY <4>1, <4>3 DEF Joins
    <3>3. q[j] = <<r, "save">> /\ (i \in 1..Len(q) => q[i] = <<r, "accept">>)
      BY <1>4, <3>1, <3>2
    <3>4. i \in 1..Len(q) \/ i = Len(q) + 1
      BY <1>4, <3>1
    <3>5. CASE i \in 1..Len(q)
      BY <1>6, <2>2, <3>2, <3>3, <3>5
    <3>6. CASE i = Len(q) + 1
      BY <1>2, <3>2, <3>6
    <3> QED BY <3>4, <3>5, <3>6
  <2> QED BY <2>1, <2>2
<1> QED BY <1>3, <1>7, <1>8, <1>9, <1>10 DEF ChainAt

\* The one whose turn it is leaves, and the next is at the head.
LEMMA LeaveKeeps ==
  ASSUME ChainAt, NEW s \in Sessions, NEW k \in Kinds, Leaves(s, k)
  PROVE  ChainAt'
<1> DEFINE d == DocumentOf[s]
           q == chain[d]
<1>1. d \in Documents /\ chain \in [Documents -> Seq(Sessions \X Kinds)]
  BY SessionAssumption DEF ChainAt
<1>2. q \in Seq(Sessions \X Kinds) /\ Len(q) \in Nat
  BY <1>1
<1>3. \E i \in 1..Len(q) : q[i] = <<s, k>>
  BY DEF ChainAt, Leaves
<1>4. q # <<>> /\ Len(q) > 0 /\ q[1] = <<s, k>>
  <2>1. Len(q) > 0
    BY <1>2, <1>3
  <2> QED BY <1>2, <2>1 DEF Leaves
<1>5. /\ \A i, j \in 1..Len(q) : q[i] = q[j] => i = j
      /\ \A i \in 1..Len(q) : \A r \in Sessions, j \in Kinds :
           q[i] = <<r, j>> => InChain(r, j) /\ DocumentOf[r] = d
      /\ \A r \in Sessions : DocumentOf[r] = d => \A i, j \in 1..Len(q) :
           q[i] = <<r, "accept">> /\ q[j] = <<r, "save">> => j < i
  BY <1>1 DEF ChainAt
<1>6. /\ chain' \in [Documents -> Seq(Sessions \X Kinds)]
      /\ chain'[d] = Tail(q) /\ \A e \in Documents : e # d => chain'[e] = chain[e]
  <2>1. Tail(q) \in Seq(Sessions \X Kinds)
    BY <1>2, <1>4
  <2> QED BY <1>1, <2>1 DEF Leaves, NextTurn
<1>7. /\ Len(chain'[d]) = Len(q) - 1
      /\ \A i \in 1..Len(chain'[d]) : i + 1 \in 1..Len(q) /\ chain'[d][i] = q[i + 1]
  BY <1>2, <1>4, <1>6
<1>8. \A i \in 1..Len(q) : i # 1 => q[i] # <<s, k>> /\ i - 1 \in 1..Len(chain'[d])
                                   /\ chain'[d][i - 1] = q[i]
  <2> SUFFICES ASSUME NEW i \in 1..Len(q), i # 1
               PROVE  q[i] # <<s, k>> /\ i - 1 \in 1..Len(chain'[d]) /\ chain'[d][i - 1] = q[i]
    OBVIOUS
  <2>1. 1 \in 1..Len(q)
    BY <1>2, <1>4
  <2>2. q[i] # <<s, k>>
    BY <1>4, <1>5, <2>1
  <2> DEFINE m == i - 1
  <2>3. m \in 1..Len(chain'[d]) /\ m + 1 = i
    BY <1>2, <1>7
  <2>4. chain'[d][m] = q[m + 1]
    BY <1>7, <2>3
  <2> QED BY <2>2, <2>3, <2>4
<1>9. \A i \in 1..Len(chain'[d]) : i + 1 \in 1..Len(q) /\ i + 1 # 1 /\ chain'[d][i] # <<s, k>>
  <2> SUFFICES ASSUME NEW i \in 1..Len(chain'[d])
               PROVE  i + 1 \in 1..Len(q) /\ i + 1 # 1 /\ chain'[d][i] # <<s, k>>
    OBVIOUS
  <2> DEFINE m == i + 1
  <2>1. m \in 1..Len(q) /\ m # 1 /\ chain'[d][i] = q[m]
    BY <1>2, <1>7
  <2>2. q[m] # <<s, k>>
    BY <1>8, <2>1
  <2> QED BY <2>1, <2>2
<1> HIDE DEF d, q
<1>10. \A e \in Documents : \A i, j \in 1..Len(chain'[e]) : chain'[e][i] = chain'[e][j] => i = j
  <2>1. \A i, j \in 1..Len(chain'[d]) : chain'[d][i] = chain'[d][j] => i = j
    <3> SUFFICES ASSUME NEW i \in 1..Len(chain'[d]), NEW j \in 1..Len(chain'[d]),
                        chain'[d][i] = chain'[d][j]
                 PROVE  i = j
      OBVIOUS
    <3>1. i + 1 = j + 1
      BY <1>5, <1>7
    <3> QED BY <1>2, <1>7, <3>1
  <2> QED BY <1>6, <2>1 DEF ChainAt
<1>11. \A e \in Documents : \A i \in 1..Len(chain'[e]) : \A r \in Sessions, j \in Kinds :
         chain'[e][i] = <<r, j>> => InChain(r, j)' /\ DocumentOf[r] = e
  <2> SUFFICES ASSUME NEW e \in Documents, NEW i \in 1..Len(chain'[e]),
                      NEW r \in Sessions, NEW j \in Kinds, chain'[e][i] = <<r, j>>
               PROVE  InChain(r, j)' /\ DocumentOf[r] = e
    OBVIOUS
  <2>1. CASE e = d
    <3>1. q[i + 1] = <<r, j>> /\ i + 1 \in 1..Len(q) /\ <<r, j>> # <<s, k>>
      BY <1>7, <1>9, <2>1
    <3> QED BY <1>5, <2>1, <3>1 DEF Leaves, SameButFor
  <2>2. CASE e # d
    <3>1. InChain(r, j) /\ DocumentOf[r] = e
      BY <1>6, <2>2 DEF ChainAt
    <3>2. r # s
      BY <2>2, <3>1 DEF d
    <3> QED BY <3>1, <3>2 DEF Leaves, SameButFor
  <2> QED BY <2>1, <2>2
<1>12. \A r \in Sessions, j \in Kinds : InChain(r, j)' =>
         \E i \in 1..Len(chain'[DocumentOf[r]]) : chain'[DocumentOf[r]][i] = <<r, j>>
  <2> SUFFICES ASSUME NEW r \in Sessions, NEW j \in Kinds, InChain(r, j)'
               PROVE  \E i \in 1..Len(chain'[DocumentOf[r]]) : chain'[DocumentOf[r]][i] = <<r, j>>
    OBVIOUS
  <2>1. <<r, j>> # <<s, k>>
    BY DEF Leaves
  <2>2. PICK i \in 1..Len(chain[DocumentOf[r]]) : chain[DocumentOf[r]][i] = <<r, j>>
    BY <2>1 DEF ChainAt, Leaves, SameButFor
  <2>3. CASE DocumentOf[r] = d
    <3>1. i \in 1..Len(q) /\ q[i] = <<r, j>>
      BY <2>2, <2>3 DEF q
    <3>2. i # 1
      BY <1>4, <2>1, <3>1
    <3> QED BY <1>8, <2>3, <3>1, <3>2
  <2>4. CASE DocumentOf[r] # d
    <3>1. chain'[DocumentOf[r]] = chain[DocumentOf[r]]
      BY <1>6, <2>4, SessionAssumption
    <3> QED BY <2>2, <3>1
  <2> QED BY <2>3, <2>4
<1>13. \A r \in Sessions : \A i, j \in 1..Len(chain'[DocumentOf[r]]) :
         /\ chain'[DocumentOf[r]][i] = <<r, "accept">>
         /\ chain'[DocumentOf[r]][j] = <<r, "save">>
         => j < i
  <2> SUFFICES ASSUME NEW r \in Sessions, NEW i \in 1..Len(chain'[DocumentOf[r]]),
                      NEW j \in 1..Len(chain'[DocumentOf[r]]),
                      chain'[DocumentOf[r]][i] = <<r, "accept">>,
                      chain'[DocumentOf[r]][j] = <<r, "save">>
               PROVE  j < i
    OBVIOUS
  <2>1. CASE DocumentOf[r] # d
    <3>1. chain'[DocumentOf[r]] = chain[DocumentOf[r]]
      BY <1>6, <2>1, SessionAssumption
    <3> QED BY <3>1 DEF ChainAt
  <2>2. CASE DocumentOf[r] = d
    <3>1. /\ i + 1 \in 1..Len(q) /\ q[i + 1] = <<r, "accept">>
          /\ j + 1 \in 1..Len(q) /\ q[j + 1] = <<r, "save">>
      BY <1>7, <2>2
    <3>2. j + 1 < i + 1
      BY <1>5, <2>2, <3>1
    <3>3. i \in Nat /\ j \in Nat
      BY <1>2, <1>7, <2>2
    <3> QED BY <3>2, <3>3
  <2> QED BY <2>1, <2>2
<1> QED BY <1>6, <1>10, <1>11, <1>12, <1>13 DEF ChainAt

\* At the head nobody of the same session is behind an accept.
LEMMA AcceptIsLast ==
  ASSUME ChainAt, NEW s \in Sessions, InChain(s, "accept"),
         Head(chain[DocumentOf[s]]) = <<s, "accept">>
  PROVE  ~InChain(s, "save")
<1> DEFINE q == chain[DocumentOf[s]]
<1> SUFFICES ASSUME InChain(s, "save") PROVE FALSE
  OBVIOUS
<1>1. q \in Seq(Sessions \X Kinds) /\ "save" \in Kinds
  BY SessionAssumption DEF ChainAt, Kinds
<1>2. PICK j \in 1..Len(q) : q[j] = <<s, "save">>
  BY <1>1 DEF ChainAt
<1>3. q # <<>> /\ 1 \in 1..Len(q) /\ q[1] = <<s, "accept">> /\ Len(q) \in Nat
  BY <1>1, <1>2
<1>4. j < 1
  BY <1>2, <1>3 DEF ChainAt
<1> QED BY <1>2, <1>3, <1>4

\* A step that changes one call of one session.
SetsCall(s, k, c) == commit' = [commit EXCEPT ![s][k] = c]

LEMMA OneCall ==
  ASSUME RecordsTyped, NEW s \in Sessions, NEW k \in Kinds, NEW c, SetsCall(s, k, c)
  PROVE  /\ commit'[s][k] = c
         /\ SameButFor(s, k)
         /\ InChain(s, k)' <=> c.pc \in {"queued", "sealed", "replaced"}
<1>1. commit \in [Sessions -> [Kinds -> CommitRecords]]
  BY DEF RecordsTyped
<1>2. commit'[s][k] = c
  BY <1>1 DEF SetsCall
<1>3. \A r \in Sessions, j \in Kinds : <<r, j>> # <<s, k>> => commit'[r][j] = commit[r][j]
  BY <1>1 DEF SetsCall
<1> QED BY <1>2, <1>3 DEF SameButFor, InChain

\* A save or an accept that starts joins the chain.
LEMMA StartJoins ==
  ASSUME RecordsTyped, AcceptHasNoWriter, NEW s \in Sessions, NEW k \in Kinds,
         \/ k = "accept" /\ StartAccept(s)
         \/ k = "save" /\ \E bytes \in Contents : StartSave(s, bytes)
  PROVE  Joins(s, k) /\ commit'[s][k].pc = "queued"
<1>1. commit \in [Sessions -> [Kinds -> CommitRecords]] /\ commit[s][k] \in CommitRecords
  BY DEF RecordsTyped
<1>2. CASE k = "accept" /\ StartAccept(s)
  <2> DEFINE c == [NoCall EXCEPT !.pc = "queued", !.bytes = task[session[s].proposal].flushed,
                                 !.task = session[s].proposal]
  <2>1. SetsCall(s, k, c)
    BY <1>2 DEF SetsCall, StartAccept
  <2>2. c.pc = "queued"
    BY DEF NoCall
  <2> HIDE DEF c
  <2>3. ~InChain(s, k)
    BY <1>2 DEF StartAccept, MailboxFree, InChain
  <2>4. chain' = [chain EXCEPT ![DocumentOf[s]] = Append(@, <<s, k>>)]
    BY <1>2 DEF StartAccept
  <2> QED BY <1>2, <2>1, <2>2, <2>3, <2>4, OneCall DEF Joins
<1>3. ASSUME NEW bytes \in Contents, k = "save", StartSave(s, bytes)
      PROVE  Joins(s, k) /\ commit'[s][k].pc = "queued"
  <2> DEFINE c == [commit[s][k] EXCEPT !.pc = "queued", !.bytes = bytes]
  <2>1. SetsCall(s, k, c)
    <3>1. commit' = [commit EXCEPT ![s][k].pc = "queued", ![s][k].bytes = bytes]
      BY <1>3 DEF StartSave
    <3> QED BY <1>1, <3>1 DEF SetsCall
  <2>2. c.pc = "queued"
    BY <1>1 DEF CommitRecords
  <2> HIDE DEF c
  <2>3. ~InChain(s, k)
    BY <1>3 DEF StartSave, InChain
  <2>4. ~InChain(s, "accept")
    <3>1. active[s] # NoLease
      BY <1>3 DEF StartSave, HoldsHumanLease
    <3> QED BY <3>1 DEF AcceptHasNoWriter, Accepting, InChain
  <2>5. chain' = [chain EXCEPT ![DocumentOf[s]] = Append(@, <<s, k>>)]
    BY <1>3 DEF StartSave
  <2> QED BY <2>1, <2>2, <2>3, <2>4, <2>5, OneCall DEF Joins
<1> QED BY <1>2, <1>3

\* A commit that is sealed or replaces the source keeps its turn and its bytes.
LEMMA AdvanceStays ==
  ASSUME RecordsTyped, NEW s \in Sessions, NEW k \in Kinds, SealCommit(s, k) \/ Replace(s, k)
  PROVE  /\ SameCalls /\ UNCHANGED chain /\ InChain(s, k)
         /\ commit'[s][k].bytes = commit[s][k].bytes
<1>1. commit \in [Sessions -> [Kinds -> CommitRecords]] /\ commit[s][k] \in CommitRecords
  BY DEF RecordsTyped
<1>2. PICK c : SetsCall(s, k, c) /\ c.bytes = commit[s][k].bytes
                 /\ c.pc \in {"sealed", "replaced"}
  <2>1. CASE SealCommit(s, k)
    <3> DEFINE c == [commit[s][k] EXCEPT !.pc = "sealed", !.before = source[DocumentOf[s]]]
    <3>1. SetsCall(s, k, c)
      <4>1. commit' = [commit EXCEPT ![s][k].pc = "sealed", ![s][k].before = source[DocumentOf[s]]]
        BY <2>1 DEF SealCommit
      <4> QED BY <1>1, <4>1 DEF SetsCall
    <3>2. c.bytes = commit[s][k].bytes /\ c.pc = "sealed"
      BY <1>1 DEF CommitRecords
    <3> HIDE DEF c
    <3> QED BY <3>1, <3>2
  <2>2. CASE Replace(s, k)
    <3> DEFINE c == [commit[s][k] EXCEPT !.pc = "replaced"]
    <3>1. SetsCall(s, k, c)
      BY <1>1, <2>2 DEF SetsCall, Replace
    <3>2. c.bytes = commit[s][k].bytes /\ c.pc = "replaced"
      BY <1>1 DEF CommitRecords
    <3> HIDE DEF c
    <3> QED BY <3>1, <3>2
  <2> QED BY <2>1, <2>2
<1>3. InChain(s, k) /\ UNCHANGED chain
  BY DEF SealCommit, Replace, Turn, InChain
<1> QED BY <1>2, <1>3, OneCall DEF SameCalls, SameButFor

\* A commit that throws or lands leaves the chain to the next.
LEMMA EndLeaves ==
  ASSUME RecordsTyped, NEW s \in Sessions, NEW k \in Kinds,
         \/ RefuseCommit(s, k) \/ LeaveToRecovery(s, k)
         \/ k = "save" /\ RecordSave(s)
         \/ k = "accept" /\ RecordAccept(s)
  PROVE  Leaves(s, k)
<1>1. commit \in [Sessions -> [Kinds -> CommitRecords]] /\ commit[s][k] \in CommitRecords
  BY DEF RecordsTyped
<1>2. InChain(s, k) /\ Head(chain[DocumentOf[s]]) = <<s, k>> /\ NextTurn(s)
  BY DEF RefuseCommit, LeaveToRecovery, RecordSave, RecordAccept, Landed, Turn, CommitThrows, InChain
<1>3. PICK c : SetsCall(s, k, c) /\ c.pc \in {"idle", "recorded"}
  <2>1. CASE RefuseCommit(s, k) \/ LeaveToRecovery(s, k) \/ (k = "save" /\ RecordSave(s))
    <3>1. SetsCall(s, k, NoCall)
      BY <2>1 DEF RefuseCommit, LeaveToRecovery, RecordSave, CommitThrows, SetsCall
    <3> QED BY <3>1 DEF NoCall
  <2>2. CASE k = "accept" /\ RecordAccept(s)
    <3> DEFINE c == [commit[s][k] EXCEPT !.pc = "recorded", !.sequence = Len(log'[s])]
    <3>1. SetsCall(s, k, c)
      <4>1. commit' = [commit EXCEPT ![s][k].pc = "recorded", ![s][k].sequence = Len(log'[s])]
        BY <2>2 DEF RecordAccept
      <4> QED BY <1>1, <4>1 DEF SetsCall
    <3>2. c.pc = "recorded"
      BY <1>1 DEF CommitRecords
    <3> HIDE DEF c
    <3> QED BY <3>1, <3>2
  <2> QED BY <2>1, <2>2
<1> QED BY <1>2, <1>3, OneCall DEF Leaves

\* Every step leaves the chain as it is, lets one commit join or leave, or ends with the
\* process.
LEMMA ChainMoves ==
  ASSUME RecordsTyped, AcceptHasNoWriter, [Next]_vars
  PROVE  \/ SameCalls /\ UNCHANGED chain
         \/ \E s \in Sessions, k \in Kinds : Joins(s, k) \/ Leaves(s, k)
         \/ Restart
<1>0. "save" \in Kinds /\ "accept" \in Kinds
  BY DEF Kinds
<1>1. ASSUME UNCHANGED <<commit, chain>> PROVE SameCalls /\ UNCHANGED chain
  BY <1>1 DEF SameCalls, InChain
<1>2. ASSUME NEW r \in Sessions,
             StartAccept(r) \/ \E bytes \in Contents : StartSave(r, bytes)
      PROVE  \E s \in Sessions, k \in Kinds : Joins(s, k)
  BY <1>0, <1>2, StartJoins
<1>3. ASSUME NEW r \in Sessions, NEW j \in Kinds, CommitStep(r, j)
      PROVE  \/ SameCalls /\ UNCHANGED chain
             \/ \E s \in Sessions, k \in Kinds : Leaves(s, k)
  BY <1>3, AdvanceStays, EndLeaves DEF CommitStep
<1>4. ASSUME NEW r \in Sessions, RecordStep(r)
      PROVE  \/ SameCalls /\ UNCHANGED chain
             \/ \E s \in Sessions, k \in Kinds : Leaves(s, k)
  <2>1. CASE RecordSave(r) \/ RecordAccept(r)
    BY <1>0, <2>1, EndLeaves
  <2>2. CASE BindAccept(r)
    <3>1. SetsCall(r, "accept", NoCall) /\ UNCHANGED chain /\ ~InChain(r, "accept")
      BY <2>2 DEF BindAccept, InChain, SetsCall
    <3>2. NoCall.pc = "idle"
      BY DEF NoCall
    <3> QED BY <1>0, <3>1, <3>2, OneCall DEF SameCalls, SameButFor
  <2> QED BY <1>4, <2>1, <2>2 DEF RecordStep
<1>5. ASSUME NEW r \in Sessions,
             \/ OpenSession(r) \/ BeginEdit(r) \/ BareSave(r) \/ EndEdit(r)
             \/ Reject(r) \/ CloseStart(r) \/ StartResolve(r)
             \/ \E t \in Tasks : BeginTask(t, r)
      PROVE  UNCHANGED <<commit, chain>>
  BY <1>5 DEF OpenSession, BeginEdit, BareSave, EndEdit, Reject, CloseStart, StartResolve,
              BeginTask, callVars
<1>6. ASSUME NEW t \in Tasks,
             \/ StartFlush(t) \/ StartVerify(t) \/ Finalize(t)
             \/ \E bytes \in Contents : Mutate(t, bytes) \/ Amend(t, bytes)
      PROVE  UNCHANGED <<commit, chain>>
  BY <1>6 DEF StartFlush, StartVerify, Finalize, Mutate, Amend, callVars
<1>7. ASSUME NEW r \in Sessions,
             IdentityStep(r) \/ EditStep(r) \/ CloseStep(r) \/ ApplyResolve(r)
      PROVE  UNCHANGED <<commit, chain>>
  BY <1>7 DEF IdentityStep, BindIdentity, UnstableIdentity, EditStep, MountEditor, HashForEdit,
              ApplyEdit, RefuseEdit, CloseStep, CloseAbort, CloseEdit, CloseFinish, ApplyResolve,
              callVars
<1>8. ASSUME NEW t \in Tasks, TaskStep(t)
      PROVE  UNCHANGED <<commit, chain>>
  BY <1>8 DEF TaskStep, IdentityForTask, AcquireWriter, RefuseTask, CloneFails, CloneSource,
              Register, RefuseRegister, RegisterInClosed, FinishFlush, FailFlush, callVars
<1>9. ASSUME NEW t \in Tasks, VerifyStep(t)
      PROVE  UNCHANGED <<commit, chain>>
  BY <1>9 DEF VerifyStep, PassVerify, FailVerify, DropVerify, callVars
<1>10. CASE Call
  BY <1>1, <1>2, <1>5, <1>6, <1>10 DEF Call
<1>11. CASE Continue
  BY <1>1, <1>3, <1>4, <1>7, <1>8, <1>9, <1>11 DEF Continue
<1>12. CASE Environment
  BY <1>1, <1>12 DEF Environment, WatcherFires, ExternalWrite, callVars
<1>13. CASE UNCHANGED vars
  BY <1>1, <1>13 DEF vars, callVars
<1> QED BY <1>10, <1>11, <1>12, <1>13 DEF Next

\* Only an edit and a task take the writer, and both need the mailbox.
LEMMA TakesMailbox ==
  ASSUME LeaseInv, [Next]_vars, NEW s \in Sessions, active'[s] \notin {active[s], NoLease}
  PROVE  MailboxFree(s) /\ UNCHANGED commit
<1>1. ASSUME UNCHANGED leaseVars PROVE FALSE
  BY <1>1 DEF leaseVars
<1>2. ASSUME NEW lease, Release(lease) PROVE FALSE
  BY <1>2 DEF Release
<1>3. ASSUME NEW r \in Sessions, NEW owner \in Owner, Acquire(r, owner) PROVE r = s
  BY <1>3 DEF Acquire, LeaseInv, LeaseTypeOK
<1>4. ~LoseLeases
  BY DEF LoseLeases
<1>5. ~Call
  <2>1. ASSUME NEW r \in Sessions,
               \/ OpenSession(r) \/ BeginEdit(r) \/ BareSave(r)
               \/ Reject(r) \/ StartAccept(r) \/ CloseStart(r) \/ StartResolve(r)
               \/ \E bytes \in Contents : StartSave(r, bytes)
               \/ \E t \in Tasks : BeginTask(t, r)
        PROVE  UNCHANGED leaseVars
    BY <2>1 DEF OpenSession, BeginEdit, BareSave, Reject, StartAccept, CloseStart,
                StartResolve, StartSave, BeginTask
  <2>2. ASSUME NEW r \in Sessions, EndEdit(r) PROVE Release(active[r])
    BY <2>2 DEF EndEdit
  <2>3. ASSUME NEW t \in Tasks,
               \/ StartFlush(t) \/ StartVerify(t)
               \/ \E bytes \in Contents : Mutate(t, bytes) \/ Amend(t, bytes)
        PROVE  UNCHANGED leaseVars
    BY <2>3 DEF StartFlush, StartVerify, Mutate, Amend
  <2>4. ASSUME NEW t \in Tasks, Finalize(t) PROVE Release(task[t].grant)
    BY <2>4 DEF Finalize
  <2> QED BY <1>1, <1>2, <2>1, <2>2, <2>3, <2>4 DEF Call
<1>6. ASSUME NEW r \in Sessions, EditStep(r) PROVE MailboxFree(s) /\ UNCHANGED commit
  <2>1. CASE ApplyEdit(r)
    <3>1. MailboxFree(r) /\ Acquire(r, "human") /\ UNCHANGED commit
      BY <2>1 DEF ApplyEdit
    <3> QED BY <1>3, <3>1 DEF Owner
  <2>2. CASE MountEditor(r) \/ HashForEdit(r) \/ RefuseEdit(r)
    BY <1>1, <2>2 DEF MountEditor, HashForEdit, RefuseEdit
  <2> QED BY <1>6, <2>1, <2>2 DEF EditStep
<1>7. ASSUME NEW r \in Sessions, CloseStep(r) PROVE FALSE
  BY <1>1, <1>2, <1>7 DEF CloseStep, CloseAbort, CloseEdit, CloseFinish
<1>8. ASSUME NEW r \in Sessions, IdentityStep(r) \/ RecordStep(r) \/ ApplyResolve(r) PROVE FALSE
  BY <1>1, <1>8 DEF IdentityStep, BindIdentity, UnstableIdentity, ApplyResolve,
              RecordStep, RecordSave, RecordAccept, BindAccept
<1>9. ASSUME NEW r \in Sessions, NEW k \in Kinds, CommitStep(r, k) PROVE FALSE
  BY <1>1, <1>9 DEF CommitStep, SealCommit, RefuseCommit, Replace, LeaveToRecovery
<1>10. ASSUME NEW t \in Tasks, VerifyStep(t) PROVE FALSE
  BY <1>1, <1>10 DEF VerifyStep, PassVerify, FailVerify, DropVerify
<1>11. ASSUME NEW t \in Tasks, TaskStep(t) PROVE MailboxFree(s) /\ UNCHANGED commit
  <2>1. CASE AcquireWriter(t)
    <3>1. PICK r \in Sessions : MailboxFree(r) /\ Acquire(r, "agent") /\ UNCHANGED commit
      BY <2>1 DEF AcquireWriter, callVars
    <3> QED BY <1>3, <3>1 DEF Owner
  <2>2. ~CloneFails(t) /\ ~RefuseRegister(t)
    BY <1>2 DEF CloneFails, RefuseRegister, GiveUp
  <2>3. CASE \/ IdentityForTask(t) \/ RefuseTask(t) \/ CloneSource(t) \/ Register(t)
             \/ RegisterInClosed(t) \/ FinishFlush(t) \/ FailFlush(t)
    BY <1>1, <2>3 DEF IdentityForTask, RefuseTask, CloneSource, Register, RegisterInClosed,
                FinishFlush, FailFlush
  <2> QED BY <1>11, <2>1, <2>2, <2>3 DEF TaskStep
<1>12. CASE Continue
  BY <1>6, <1>7, <1>8, <1>9, <1>10, <1>11, <1>12 DEF Continue
<1>13. ~Environment
  BY <1>1, <1>4 DEF Environment, WatcherFires, ExternalWrite, Restart
<1>14. ~UNCHANGED vars
  BY <1>1 DEF vars
<1> QED BY <1>5, <1>12, <1>13, <1>14 DEF Next

\* Every step keeps the order of the chain, the mailbox of an accept and the bytes in flight.
LEMMA ChainKept ==
  ASSUME WriterInv, ChainInv, [Next]_vars
  PROVE  ChainInv'
<1>1. RecordsTyped /\ LeaseInv /\ AcceptHasNoWriter /\ ChainAt /\ BytesAreReal
      /\ "accept" \in Kinds /\ "save" \in Kinds
  BY DEF WriterInv, ChainInv, Kinds
<1>2. ChainAt'
  <2>1. CASE SameCalls /\ UNCHANGED chain
    <3>1. chain' = chain /\ \A s \in Sessions, k \in Kinds : InChain(s, k)' <=> InChain(s, k)
      BY <2>1 DEF SameCalls
    <3>2. \A d \in Documents : \A i \in 1..Len(chain'[d]) : \A s \in Sessions, k \in Kinds :
            chain'[d][i] = <<s, k>> => InChain(s, k)' /\ DocumentOf[s] = d
      BY <1>1, <3>1 DEF ChainAt
    <3>3. \A s \in Sessions, k \in Kinds : InChain(s, k)' =>
            \E i \in 1..Len(chain'[DocumentOf[s]]) : chain'[DocumentOf[s]][i] = <<s, k>>
      BY <1>1, <3>1 DEF ChainAt
    <3> QED BY <1>1, <3>1, <3>2, <3>3 DEF ChainAt
  <2>2. CASE \E s \in Sessions, k \in Kinds : Joins(s, k) \/ Leaves(s, k)
    BY <1>1, <2>2, JoinKeeps, LeaveKeeps
  <2>3. CASE Restart
    <3>1. chain' = [d \in Documents |-> <<>>] /\ \A s \in Sessions, k \in Kinds : ~InChain(s, k)'
      BY <2>3 DEF Restart, InChain, NoCall
    <3>2. \A d \in Documents : chain'[d] = <<>> /\ 1..Len(chain'[d]) = {}
      BY <3>1
    <3>3. chain' \in [Documents -> Seq(Sessions \X Kinds)]
      BY <3>1
    <3>4. \A s \in Sessions : DocumentOf[s] \in Documents
      BY SessionAssumption
    <3> QED BY <3>1, <3>2, <3>3, <3>4 DEF ChainAt
  <2> QED BY <1>1, <2>1, <2>2, <2>3, ChainMoves
<1>3. AcceptHasNoWriter'
  <2> SUFFICES ASSUME NEW s \in Sessions, Accepting(s)'
               PROVE  active'[s] = NoLease
    BY DEF AcceptHasNoWriter
  <2>1. CASE StartAccept(s)
    <3>1. Open(s) /\ session[s].writer = NoLease /\ UNCHANGED active
      BY <2>1 DEF StartAccept, Acceptable, leaseVars
    <3> QED BY <3>1 DEF WriterInv, WriterIsBound
  <2>2. CASE ~StartAccept(s)
    <3>1. Accepting(s)
      <4>1. commit'[s]["accept"] # NoCall
        BY DEF Accepting, NoCall
      <4>2. SealCommit(s, "accept") \/ Replace(s, "accept") \/ RecordAccept(s) => Accepting(s)
        BY DEF SealCommit, Replace, RecordAccept, Landed, Turn, Accepting
      <4> QED BY <1>1, <2>2, <4>1, <4>2, CommitMoves DEF Accepting
    <3>2. active[s] = NoLease
      BY <1>1, <3>1 DEF AcceptHasNoWriter
    <3> QED BY <1>1, <3>1, <3>2, TakesMailbox DEF Accepting, MailboxFree
  <2> QED BY <2>1, <2>2
<1>4. BytesAreReal'
  <2> SUFFICES ASSUME NEW s \in Sessions, NEW k \in Kinds, InChain(s, k)'
               PROVE  commit'[s][k].bytes \in Contents
    BY DEF BytesAreReal
  <2>1. CASE commit'[s][k] = commit[s][k]
    BY <1>1, <2>1 DEF BytesAreReal, InChain
  <2>2. commit'[s][k] # NoCall /\ ~(k = "accept" /\ RecordAccept(s))
    BY <1>1, CallSteps DEF InChain, NoCall
  <2>3. CASE SealCommit(s, k) \/ Replace(s, k)
    BY <1>1, <2>3, AdvanceStays DEF BytesAreReal
  <2>4. CASE k = "accept" /\ StartAccept(s)
    <3> DEFINE t == session[s].proposal
    <3>1. t # NoTask /\ task[t].verified # Gone /\ task[t].verified = task[t].flushed
      BY <2>4 DEF StartAccept, Acceptable
    <3>2. commit'[s][k].bytes = task[t].flushed
      BY <1>1, <2>4, CallSteps
    <3>3. t \in Tasks
      BY <1>1, <3>1 DEF RecordsTyped, SessionRecords
    <3>4. task[t].flushed \in Contents \cup {Gone}
      BY <1>1, <3>3 DEF RecordsTyped, TaskRecords
    <3> QED BY <3>1, <3>2, <3>4
  <2>5. ASSUME NEW bytes \in Contents, k = "save", StartSave(s, bytes)
        PROVE  commit'[s][k].bytes \in Contents
    <3>1. commit \in [Sessions -> [Kinds -> CommitRecords]] /\ commit[s][k] \in CommitRecords
      BY <1>1 DEF RecordsTyped
    <3>2. commit' = [commit EXCEPT ![s][k].pc = "queued", ![s][k].bytes = bytes]
      BY <2>5 DEF StartSave
    <3>3. commit'[s][k] = [commit[s][k] EXCEPT !.pc = "queued", !.bytes = bytes]
      BY <3>1, <3>2
    <3> QED BY <3>1, <3>3 DEF CommitRecords
  <2> QED BY <1>1, <2>1, <2>2, <2>3, <2>4, <2>5, CommitMoves
<1>5. SavesAreBound'
  <2> SUFFICES ASSUME NEW s \in Sessions, commit'[s]["save"].pc = "recorded" PROVE FALSE
    BY DEF SavesAreBound
  <2>1. commit[s]["save"].pc # "recorded"
    BY DEF ChainInv, SavesAreBound
  <2>2. commit'[s]["save"] # NoCall
    BY DEF NoCall
  <2>3. ~SealCommit(s, "save") /\ ~Replace(s, "save")
        /\ \A bytes \in Contents : ~StartSave(s, bytes)
    BY <1>1, CallSteps
  <2> QED BY <1>1, <2>1, <2>2, <2>3, CommitMoves
<1> QED BY <1>2, <1>3, <1>4, <1>5 DEF ChainInv

\* The commits of a document, for any number of them, take turns: whoever is in flight is in
\* its chain, nobody is in it twice or after it left, and no save waits behind an accept of
\* its session.
THEOREM ChainIsFair == Spec => []ChainInv
<1>1. Init => ChainInv
  <2> SUFFICES ASSUME Init PROVE ChainInv
    OBVIOUS
  <2>1. \A s \in Sessions, k \in Kinds : commit[s][k] = NoCall /\ ~InChain(s, k)
    BY DEF Init, InChain, NoCall
  <2>2. \A s \in Sessions : ~Accepting(s)
    <3>1. "accept" \in Kinds /\ NoCall.pc = "idle"
      BY DEF Kinds, NoCall
    <3> QED BY <2>1, <3>1 DEF Accepting
  <2>3. chain = [d \in Documents |-> <<>>]
    BY DEF Init
  <2>4. \A d \in Documents : chain[d] = <<>> /\ 1..Len(chain[d]) = {}
    BY <2>3
  <2>5. chain \in [Documents -> Seq(Sessions \X Kinds)]
    BY <2>3
  <2>6. \A s \in Sessions : DocumentOf[s] \in Documents
    BY SessionAssumption
  <2>7. ChainAt
    BY <2>1, <2>4, <2>5, <2>6 DEF ChainAt
  <2>8. SavesAreBound
    <3>1. "save" \in Kinds /\ NoCall.pc = "idle"
      BY DEF Kinds, NoCall
    <3> QED BY <2>1, <3>1 DEF SavesAreBound
  <2> QED BY <2>1, <2>2, <2>7, <2>8 DEF ChainInv, AcceptHasNoWriter, BytesAreReal
<1>2. WriterInv /\ ChainInv /\ [Next]_vars => ChainInv'
  BY ChainKept
<1> QED BY <1>1, <1>2, WriterInvariant, PTL DEF Spec

-----------------------------------------------------------------------------
(***************************************************************************)
(* The revision a session works on                                         *)
(***************************************************************************)

\* A session opens or is bound to its first revision once; until then it has none.
LEMMA OpeningHasNone ==
  ASSUME WriterInv, LogInv, LatestInv, NEW s \in Sessions, Opening(s)
  PROVE  /\ commit[s]["save"].pc = "idle" /\ ~Accepting(s)
         /\ session[s].committed = 0 /\ Len(log[s]) = 0
<1>1. session[s].committed = 0 /\ Len(log[s]) = 0
  BY DEF LatestInv
<1>2. commit[s]["save"].pc = "idle"
  BY <1>1 DEF LogInv, RevisionsInLog
<1>3. ~Accepting(s)
  <2>1. Accepting(s) => task[commit[s]["accept"].task].base \in 1..Len(log[s])
    BY DEF LogInv, BasesInLog
  <2> QED BY <1>1, <2>1
<1> QED BY <1>1, <1>2, <1>3

\* The table of a session grows where the session, or its accept, is told so.
LogMoves(s) ==
  \/ log'[s] = log[s]
  \/ BindIdentity(s) \/ RecordSave(s) \/ RecordAccept(s)
  \/ Restart

LEMMA LogsMove ==
  ASSUME RecordsTyped, [Next]_vars, NEW s \in Sessions
  PROVE  LogMoves(s)
<1>1. ASSUME UNCHANGED log PROVE LogMoves(s)
  BY <1>1 DEF LogMoves
<1>2. ASSUME NEW r \in Sessions, BindIdentity(r) \/ RecordSave(r) \/ RecordAccept(r)
      PROVE  LogMoves(s)
  <2>1. CASE r = s
    BY <1>2, <2>1 DEF LogMoves
  <2>2. CASE r # s
    <3>1. log'[s] = log[s]
      BY <1>2, <2>2 DEF BindIdentity, RecordSave, RecordAccept, Landed, RecordsTyped
    <3> QED BY <3>1 DEF LogMoves
  <2> QED BY <2>1, <2>2
<1>3. ASSUME NEW r \in Sessions,
             \/ OpenSession(r) \/ BeginEdit(r) \/ BareSave(r) \/ EndEdit(r)
             \/ Reject(r) \/ StartAccept(r) \/ CloseStart(r) \/ StartResolve(r)
             \/ \E bytes \in Contents : StartSave(r, bytes)
             \/ \E t \in Tasks : BeginTask(t, r)
      PROVE  UNCHANGED log
  BY <1>3 DEF OpenSession, BeginEdit, BareSave, EndEdit, Reject, StartAccept, CloseStart,
              StartResolve, StartSave, BeginTask
<1>4. ASSUME NEW t \in Tasks,
             \/ StartFlush(t) \/ StartVerify(t) \/ Finalize(t)
             \/ \E bytes \in Contents : Mutate(t, bytes) \/ Amend(t, bytes)
      PROVE  UNCHANGED log
  BY <1>4 DEF StartFlush, StartVerify, Finalize, Mutate, Amend
<1>5. ASSUME NEW r \in Sessions,
             UnstableIdentity(r) \/ EditStep(r) \/ BindAccept(r) \/ CloseStep(r) \/ ApplyResolve(r)
      PROVE  UNCHANGED log
  BY <1>5 DEF UnstableIdentity, EditStep, MountEditor, HashForEdit, ApplyEdit, RefuseEdit,
              BindAccept, CloseStep, CloseAbort, CloseEdit, CloseFinish, ApplyResolve
<1>6. ASSUME NEW r \in Sessions, NEW k \in Kinds, CommitStep(r, k)
      PROVE  UNCHANGED log
  BY <1>6 DEF CommitStep, SealCommit, RefuseCommit, Replace, LeaveToRecovery
<1>7. ASSUME NEW t \in Tasks, TaskStep(t) \/ VerifyStep(t)
      PROVE  UNCHANGED log
  BY <1>7 DEF TaskStep, IdentityForTask, AcquireWriter, RefuseTask, CloneFails, CloneSource,
              Register, RefuseRegister, RegisterInClosed, FinishFlush, FailFlush,
              VerifyStep, PassVerify, FailVerify, DropVerify
<1>8. CASE Call
  BY <1>1, <1>3, <1>4, <1>8 DEF Call
<1>9. CASE Continue
  BY <1>1, <1>2, <1>5, <1>6, <1>7, <1>9 DEF Continue, IdentityStep, RecordStep
<1>10. CASE Environment
  BY <1>1, <1>10 DEF Environment, WatcherFires, ExternalWrite, LogMoves
<1>11. CASE UNCHANGED vars
  BY <1>1, <1>11 DEF vars
<1> QED BY <1>8, <1>9, <1>10, <1>11 DEF Next

\* Only a commit that throws leaves a row to recovery.
LEMMA JournalMoves ==
  ASSUME [Next]_vars
  PROVE  \/ UNCHANGED journal \/ Restart
         \/ \E s \in Sessions, k \in Kinds : LeaveToRecovery(s, k)
<1>1. ASSUME NEW r \in Sessions,
             \/ OpenSession(r) \/ BeginEdit(r) \/ BareSave(r) \/ EndEdit(r)
             \/ Reject(r) \/ StartAccept(r) \/ CloseStart(r) \/ StartResolve(r)
             \/ \E bytes \in Contents : StartSave(r, bytes)
             \/ \E t \in Tasks : BeginTask(t, r)
      PROVE  UNCHANGED journal
  BY <1>1 DEF OpenSession, BeginEdit, BareSave, EndEdit, Reject, StartAccept, CloseStart,
              StartResolve, StartSave, BeginTask
<1>2. ASSUME NEW t \in Tasks,
             \/ StartFlush(t) \/ StartVerify(t) \/ Finalize(t)
             \/ \E bytes \in Contents : Mutate(t, bytes) \/ Amend(t, bytes)
      PROVE  UNCHANGED journal
  BY <1>2 DEF StartFlush, StartVerify, Finalize, Mutate, Amend
<1>3. ASSUME NEW r \in Sessions,
             \/ IdentityStep(r) \/ EditStep(r) \/ RecordStep(r) \/ CloseStep(r) \/ ApplyResolve(r)
      PROVE  UNCHANGED journal
  BY <1>3 DEF IdentityStep, BindIdentity, UnstableIdentity, EditStep, MountEditor, HashForEdit,
              ApplyEdit, RefuseEdit, RecordStep, RecordSave, RecordAccept, Landed, BindAccept,
              CloseStep, CloseAbort, CloseEdit, CloseFinish, ApplyResolve
<1>4. ASSUME NEW r \in Sessions, NEW k \in Kinds,
             SealCommit(r, k) \/ RefuseCommit(r, k) \/ Replace(r, k)
      PROVE  UNCHANGED journal
  BY <1>4 DEF SealCommit, RefuseCommit, Replace
<1>5. ASSUME NEW t \in Tasks, TaskStep(t) \/ VerifyStep(t)
      PROVE  UNCHANGED journal
  BY <1>5 DEF TaskStep, IdentityForTask, AcquireWriter, RefuseTask, CloneFails, CloneSource,
              Register, RefuseRegister, RegisterInClosed, FinishFlush, FailFlush,
              VerifyStep, PassVerify, FailVerify, DropVerify
<1>6. CASE Call
  BY <1>1, <1>2, <1>6 DEF Call
<1>7. CASE Continue
  BY <1>3, <1>4, <1>5, <1>7 DEF Continue, CommitStep
<1>8. CASE Environment
  BY <1>8 DEF Environment, WatcherFires, ExternalWrite
<1>9. CASE UNCHANGED vars
  BY <1>9 DEF vars
<1> QED BY <1>6, <1>7, <1>8, <1>9 DEF Next

\* Without rows and commits in flight there is nothing for recovery to land.
LEMMA NothingToLand ==
  ASSUME RecordsTyped, NEW s \in Sessions,
         \A i \in 1..Len(journal) : journal[i].session # s,
         \A k \in Kinds : commit[s][k].pc = "idle"
  PROVE  Len(LandedByRecovery(s)) = 0
<1> DEFINE held == source[DocumentOf[s]]
           rows == {i \in 1..Len(journal) : journal[i].session = s /\ journal[i].bytes = held}
           live == {k \in Kinds : /\ commit[s][k].pc \in {"sealed", "replaced"}
                                  /\ commit[s][k].bytes = held}
<1>1. rows = {} /\ live = {}
  OBVIOUS
<1>2. Cardinality(rows) + Cardinality(live) = 0
  <2>1. Cardinality({}) = 0
    BY FS_EmptySet
  <2> HIDE DEF rows, live
  <2> QED BY <1>1, <2>1
<1>3. LandedByRecovery(s) = [i \in 1..(Cardinality(rows) + Cardinality(live)) |-> held]
  BY DEF LandedByRecovery
<1> HIDE DEF held, rows, live
<1> QED BY <1>2, <1>3

\* Every step keeps a session on the latest revision of its table.
LEMMA LatestKept ==
  ASSUME WriterInv, WriterInv', LogInv, ChainInv, LatestInv, [Next]_vars
  PROVE  LatestInv'
<1>1. /\ RecordsTyped /\ CloseIsOpen /\ "save" \in Kinds /\ "accept" \in Kinds
      /\ session \in [Sessions -> SessionRecords]
      /\ commit \in [Sessions -> [Kinds -> CommitRecords]]
      /\ \A s \in Sessions : log[s] \in Seq(Contents \cup {Gone}) /\ log'[s] \in Seq(Contents \cup {Gone})
      /\ \A s \in Sessions : source[DocumentOf[s]] \in Contents \cup {Gone}
  BY SessionAssumption DEF WriterInv, RecordsTyped, Kinds
<1>2. \A s \in Sessions : Len(log[s]) \in Nat /\ Len(log'[s]) \in Nat
                          /\ (log[s] = <<>> <=> Len(log[s]) = 0)
  <2> SUFFICES ASSUME NEW s \in Sessions
               PROVE  Len(log[s]) \in Nat /\ Len(log'[s]) \in Nat
                      /\ (log[s] = <<>> <=> Len(log[s]) = 0)
    OBVIOUS
  <2>1. log[s] \in Seq(Contents \cup {Gone}) /\ log'[s] \in Seq(Contents \cup {Gone})
    BY <1>1
  <2> QED BY <2>1
\* An accept that has landed is the latest revision, and its save is idle.
<1>3. \A s \in Sessions : commit'[s]["accept"].pc = "recorded" =>
        commit'[s]["accept"].sequence = Len(log'[s]) /\ commit'[s]["save"].pc = "idle"
  <2> SUFFICES ASSUME NEW s \in Sessions, commit'[s]["accept"].pc = "recorded"
               PROVE  commit'[s]["accept"].sequence = Len(log'[s]) /\ commit'[s]["save"].pc = "idle"
    OBVIOUS
  <2>1. CASE RecordAccept(s)
    <3>1. commit'[s]["accept"].sequence = Len(log'[s])
      BY <1>1, <2>1, CallSteps
    <3>2. ~InChain(s, "save")
      BY <2>1, AcceptIsLast DEF RecordAccept, Landed, Turn, InChain, ChainInv
    <3>3. commit[s]["save"] \in CommitRecords /\ commit'[s]["save"] = commit[s]["save"]
      BY <1>1, <2>1 DEF RecordAccept
    <3>4. commit[s]["save"].pc # "recorded"
      BY DEF ChainInv, SavesAreBound
    <3> QED BY <3>1, <3>2, <3>3, <3>4 DEF InChain, CommitRecords
  <2>2. CASE ~RecordAccept(s)
    <3>1. commit'[s]["accept"] = commit[s]["accept"]
      <4>1. commit'[s]["accept"] # NoCall
        BY DEF NoCall
      <4>2. ~SealCommit(s, "accept") /\ ~Replace(s, "accept") /\ ~StartAccept(s)
        BY <1>1, CallSteps
      <4> QED BY <1>1, <2>2, <4>1, <4>2, CommitMoves
    <3>2. /\ Accepting(s) /\ commit[s]["accept"].pc = "recorded"
          /\ commit[s]["accept"].sequence = Len(log[s]) /\ commit[s]["save"].pc = "idle"
      BY <3>1 DEF LatestInv, Accepting
    <3>3. ~Opening(s) /\ ~Restart
      <4>1. ~Opening(s)
        BY <3>2, OpeningHasNone
      <4>2. ~Restart
        BY <1>1 DEF Restart, NoCall
      <4> QED BY <4>1, <4>2
    <3>4. log'[s] = log[s]
      <4>1. ~BindIdentity(s)
        BY <3>3 DEF BindIdentity, Opening
      <4>2. ~RecordSave(s)
        BY <3>2 DEF RecordSave, Landed, Turn
      <4> QED BY <1>1, <2>2, <3>3, <4>1, <4>2, LogsMove DEF LogMoves
    <3>5. commit'[s]["save"].pc = "idle"
      <4>1. ASSUME NEW bytes \in Contents, StartSave(s, bytes) PROVE FALSE
        BY <3>2, <4>1 DEF StartSave, HoldsHumanLease, ChainInv, AcceptHasNoWriter
      <4>2. ~SealCommit(s, "save") /\ ~Replace(s, "save")
        BY <3>2 DEF SealCommit, Replace, Turn
      <4>3. NoCall.pc = "idle"
        BY DEF NoCall
      <4> QED BY <1>1, <3>2, <4>1, <4>2, <4>3, CommitMoves
    <3> QED BY <3>1, <3>2, <3>4, <3>5
  <2> QED BY <2>1, <2>2
<1>4. \A s \in Sessions :
        /\ Opening(s)' => session'[s].committed = 0 /\ Len(log'[s]) = 0
        /\ Open(s)' => session'[s].committed = Len(log'[s]) \/ commit'[s]["accept"].pc = "recorded"
        /\ session'[s].life = "absent" => session[s].life = "absent"
  <2> SUFFICES ASSUME NEW s \in Sessions
               PROVE  /\ Opening(s)' => session'[s].committed = 0 /\ Len(log'[s]) = 0
                      /\ Open(s)' => \/ session'[s].committed = Len(log'[s])
                                     \/ commit'[s]["accept"].pc = "recorded"
                      /\ session'[s].life = "absent" => session[s].life = "absent"
    OBVIOUS
  <2>1. session[s] \in SessionRecords
    BY <1>1
  <2>2. CASE Restart
    <3> DEFINE landed == LandedByRecovery(s)
    <3>1. /\ session'[s] = Rehydrated(s) /\ log'[s] = log[s] \o landed
          /\ landed \in Seq(Contents \cup {Gone})
      BY <1>1, <2>2, RecoveredTyped DEF Restart
    <3>2. session[s].life = "absent" => Len(landed) = 0
      <4> SUFFICES ASSUME session[s].life = "absent" PROVE Len(landed) = 0
        OBVIOUS
      <4>1. \A k \in Kinds : commit[s][k].pc = "idle"
        BY OpeningHasNone DEF Opening, Accepting, Kinds
      <4>2. \A i \in 1..Len(journal) : journal[i].session # s
        BY DEF LatestInv
      <4> QED BY <1>1, <4>1, <4>2, NothingToLand
    <3> HIDE DEF landed
    <3>3. Len(log'[s]) = Len(log[s]) + Len(landed) /\ Len(landed) \in Nat
      BY <1>1, <3>1
    <3>4. CASE Open(s)
      BY <1>2, <2>1, <3>1, <3>4 DEF Rehydrated, Opening, Open, SessionRecords
    <3>5. CASE ~Open(s)
      <4>1. session'[s] = session[s]
        BY <3>1, <3>5 DEF Rehydrated
      <4>2. ~Open(s)' /\ (Opening(s)' => session[s].life = "absent")
        BY <3>5, <4>1 DEF Open, Opening
      <4>3. Opening(s)' => session[s].committed = 0 /\ Len(log[s]) = 0
        BY <4>2 DEF LatestInv, Opening
      <4> QED BY <3>2, <3>3, <4>1, <4>2, <4>3
    <3> QED BY <3>4, <3>5
  <2>3. CASE BindIdentity(s)
    <3>1. /\ Opening(s) /\ log'[s] = Append(log[s], source[DocumentOf[s]])
          /\ session'[s] = [session[s] EXCEPT !.identity = "opened", !.committed = 1]
      BY <1>1, <2>3 DEF BindIdentity, Opening, RecordsTyped
    <3>2. Len(log'[s]) = Len(log[s]) + 1 /\ Len(log[s]) = 0
      BY <1>1, <3>1, OpeningHasNone
    <3>3. /\ session'[s].committed = 1 /\ session'[s].identity = "opened"
          /\ session'[s].life = session[s].life
      BY <2>1, <3>1 DEF SessionRecords
    <3> QED BY SMTT(30), <2>3, <3>2, <3>3 DEF Opening, Open, BindIdentity
  <2>4. CASE RecordSave(s)
    <3>1. ~Opening(s)
      BY <2>4, OpeningHasNone DEF RecordSave, Landed, Turn
    <3>2. session'[s] = IF Open(s) THEN [session[s] EXCEPT !.committed = Len(log'[s])] ELSE session[s]
      BY <1>1, <2>4 DEF RecordSave, Bound
    <3>3. /\ session'[s].identity = session[s].identity /\ session'[s].life = session[s].life
          /\ Open(s) => session'[s].committed = Len(log'[s])
      BY <2>1, <3>2 DEF SessionRecords
    <3> QED BY <3>1, <3>3 DEF Opening, Open
  <2>5. CASE BindAccept(s)
    <3>1. /\ commit[s]["accept"].pc = "recorded" /\ Accepting(s)
          /\ commit[s]["accept"].sequence = Len(log[s]) /\ UNCHANGED log
      BY <2>5 DEF BindAccept, LatestInv, Accepting
    <3>2. ~Opening(s)
      BY <3>1, OpeningHasNone
    <3>3. session'[s] = IF Open(s)
                        THEN [session[s] EXCEPT !.committed = Len(log[s]), !.proposal = NoTask]
                        ELSE [session[s] EXCEPT !.proposal = NoTask]
      BY <1>1, <2>5, <3>1 DEF BindAccept, Bound
    <3>4. /\ session'[s].identity = session[s].identity /\ session'[s].life = session[s].life
          /\ Open(s) => session'[s].committed = Len(log[s])
      BY <2>1, <3>3 DEF SessionRecords
    <3> QED BY <3>1, <3>2, <3>4 DEF Opening, Open
  <2>6. CASE OpenSession(s)
    <3>1. /\ Opening(s) /\ UNCHANGED log /\ session'[s].committed = session[s].committed
          /\ session'[s].life = "ready"
      BY <1>1, <2>1, <2>6 DEF OpenSession, Opening, SessionRecords
    <3> QED BY <3>1, OpeningHasNone
  <2>7. CASE Steady(s) /\ ~Restart /\ ~BindIdentity(s) /\ ~RecordSave(s) /\ ~BindAccept(s)
    <3>1. /\ Open(s)' => Open(s)
          /\ Opening(s)' => Opening(s)
          /\ session'[s].life = "absent" => session[s].life = "absent"
      BY <2>7 DEF Steady, Open, Opening
    <3>2. CASE RecordAccept(s)
      <4>1. commit'[s]["accept"].pc = "recorded"
        BY <1>1, <3>2, CallSteps
      <4>2. Accepting(s)
        BY <3>2 DEF RecordAccept, Landed, Turn, Accepting
      <4> QED BY <3>1, <4>1, <4>2, OpeningHasNone
    <3>3. CASE ~RecordAccept(s)
      <4>1. log'[s] = log[s]
        BY <1>1, <2>7, <3>3, LogsMove DEF LogMoves
      <4>2. commit[s]["accept"].pc = "recorded" => commit'[s]["accept"].pc = "recorded"
        <5> SUFFICES ASSUME commit[s]["accept"].pc = "recorded",
                            commit'[s]["accept"].pc # "recorded"
                     PROVE  FALSE
          OBVIOUS
        <5>1. ~SealCommit(s, "accept") /\ ~Replace(s, "accept") /\ ~StartAccept(s)
          BY DEF SealCommit, Replace, StartAccept, Turn, MailboxFree
        <5>2. BindAccept(s) \/ Restart
          BY <1>1, <3>3, <5>1, CommitMoves
        <5> QED BY <2>7, <5>2
      <4> QED BY <2>7, <3>1, <4>1, <4>2 DEF Steady, LatestInv, CommittedIsLatest
    <3> QED BY <3>2, <3>3
  <2> QED BY <1>1, <2>2, <2>3, <2>4, <2>5, <2>6, <2>7, SessionsMove DEF SessionMoves
<1>5. \A i \in 1..Len(journal') : session'[journal'[i].session].life # "absent"
  <2>1. CASE Restart
    <3>1. journal' = <<>>
      BY <2>1 DEF Restart
    <3> QED BY <3>1
  <2>2. journal \in Seq([session : Sessions, bytes : Contents \cup {Gone}])
    BY <1>1 DEF RecordsTyped
  <2>3. \A i \in 1..Len(journal) : journal[i].session \in Sessions
                                   /\ session[journal[i].session].life # "absent"
    <3> DEFINE Rows == [session : Sessions, bytes : Contents \cup {Gone}]
    <3>1. \A x \in Rows : x.session \in Sessions
      OBVIOUS
    <3>2. \A i \in 1..Len(journal) : session[journal[i].session].life # "absent"
      BY DEF LatestInv
    <3>3. journal \in Seq(Rows)
      BY <2>2
    <3> HIDE DEF Rows
    <3>4. \A i \in 1..Len(journal) : journal[i] \in Rows
      BY <3>3
    <3> QED BY <3>1, <3>2, <3>4
  <2>4. ASSUME NEW s \in Sessions, NEW k \in Kinds, LeaveToRecovery(s, k)
        PROVE  \A i \in 1..Len(journal') : session'[journal'[i].session].life # "absent"
    <3> DEFINE row == [session |-> s, bytes |-> commit[s][k].bytes]
    <3>1. journal' = Append(journal, row) /\ UNCHANGED session
      BY <2>4 DEF LeaveToRecovery
    <3>2. row.session = s /\ row \in [session : Sessions, bytes : Contents \cup {Gone}]
      BY <1>1 DEF CommitRecords
    <3>3. session[s].life # "absent"
      BY <2>4, OpeningHasNone DEF LeaveToRecovery, Turn, Opening, Accepting, Kinds
    <3> HIDE DEF row
    <3>4. \A i \in 1..Len(journal') : journal'[i] = row \/ (i \in 1..Len(journal) /\ journal'[i] = journal[i])
      BY <2>2, <3>1, <3>2
    <3> QED BY <2>3, <3>1, <3>2, <3>3, <3>4
  <2>5. CASE UNCHANGED journal
    BY <1>4, <2>3, <2>5
  <2> QED BY <2>1, <2>4, <2>5, JournalMoves
<1> QED BY <1>3, <1>4, <1>5 DEF LatestInv, CommittedIsLatest

\* A session, whatever edits, accepts, saves and restarts it sees, works on the latest
\* revision of its table; an accept that has landed is the only thing it may not know yet.
THEOREM WorksOnLatest == Spec => []CommittedIsLatest
<1>1. Init => LatestInv
  <2> SUFFICES ASSUME Init PROVE LatestInv
    OBVIOUS
  <2>1. \A s \in Sessions : /\ session[s].life = "absent" /\ session[s].committed = 0
                             /\ log[s] = <<>> /\ Len(log[s]) = 0
                             /\ commit[s]["accept"].pc = "idle"
    BY DEF Init, NoCall, Kinds
  <2>2. journal = <<>> /\ 1..Len(journal) = {}
    BY DEF Init
  <2> QED BY <2>1, <2>2 DEF LatestInv, CommittedIsLatest
<1>2. WriterInv /\ WriterInv' /\ LogInv /\ ChainInv /\ LatestInv /\ [Next]_vars => LatestInv'
  BY LatestKept
<1>3. LatestInv => CommittedIsLatest
  BY DEF LatestInv
<1> QED BY <1>1, <1>2, <1>3, WriterInvariant, RevisionsAreOfTheirSession, ChainIsFair, PTL DEF Spec


-----------------------------------------------------------------------------
(***************************************************************************)
(* Types                                                                   *)
(***************************************************************************)

\* What RecordsTyped, LeaseTypeOK and ChainAt leave of the type invariant; a document, a
\* revision and a journal row always hold a document's content, never "no file".
RestTyped ==
  /\ source \in [Documents -> Contents]
  /\ notified \in [Documents -> BOOLEAN]
  /\ log \in [Sessions -> Seq(Contents)]
  /\ journal \in Seq([session : Sessions, bytes : Contents])
  /\ edit \in [Sessions ->
       [pc : {"idle", "mount", "hash", "apply"}, captured : Nat,
        revision : Nat, saw : Contents \cup {Gone}]]
  /\ resolve \in [Sessions ->
       [pc : {"idle", "apply"}, revision : Nat, saw : Contents \cup {Gone}]]
  /\ writes \in 0..MaxWrites
  /\ restarts \in 0..MaxRestarts

\* The steps that touch sources, file events, edits, resolutions or the bounds.
LEMMA RestMoves ==
  ASSUME [Next]_vars
  PROVE  \/ UNCHANGED <<source, notified, edit, resolve, writes, restarts>>
         \/ \E s \in Sessions : BeginEdit(s) \/ EditStep(s) \/ StartResolve(s) \/ ApplyResolve(s)
         \/ \E s \in Sessions, k \in Kinds : Replace(s, k)
         \/ \E t \in Tasks, bytes \in Contents : Amend(t, bytes)
         \/ \E d \in Documents : WatcherFires(d) \/ \E c \in Contents : ExternalWrite(d, c)
         \/ Restart
<1> DEFINE Rest == UNCHANGED <<source, notified, edit, resolve, writes, restarts>>
<1>1. ASSUME NEW r \in Sessions,
             \/ OpenSession(r) \/ BareSave(r) \/ EndEdit(r)
             \/ Reject(r) \/ StartAccept(r) \/ CloseStart(r)
             \/ \E bytes \in Contents : StartSave(r, bytes)
             \/ \E t \in Tasks : BeginTask(t, r)
      PROVE  Rest
  BY <1>1 DEF OpenSession, BareSave, EndEdit, Reject, StartAccept, CloseStart, StartSave,
              BeginTask, callVars, envVars
<1>2. ASSUME NEW t \in Tasks,
             \/ StartFlush(t) \/ StartVerify(t) \/ Finalize(t)
             \/ \E bytes \in Contents : Mutate(t, bytes)
      PROVE  Rest
  BY <1>2 DEF StartFlush, StartVerify, Finalize, Mutate, callVars, envVars
<1>3. ASSUME NEW r \in Sessions, IdentityStep(r) \/ RecordStep(r) \/ CloseStep(r)
      PROVE  Rest
  BY <1>3 DEF IdentityStep, BindIdentity, UnstableIdentity, RecordStep, RecordSave, RecordAccept,
              Landed, BindAccept, CloseStep, CloseAbort, CloseEdit, CloseFinish, callVars, envVars
<1>4. ASSUME NEW r \in Sessions, NEW k \in Kinds,
             SealCommit(r, k) \/ RefuseCommit(r, k) \/ LeaveToRecovery(r, k)
      PROVE  Rest
  BY <1>4 DEF SealCommit, RefuseCommit, LeaveToRecovery, envVars
<1>5. ASSUME NEW t \in Tasks, TaskStep(t)
      PROVE  Rest
  BY <1>5 DEF TaskStep, IdentityForTask, AcquireWriter, RefuseTask, CloneFails, CloneSource,
              Register, RefuseRegister, RegisterInClosed, FinishFlush, FailFlush, callVars, envVars
<1>6. ASSUME NEW t \in Tasks, VerifyStep(t)
      PROVE  Rest
  BY <1>6 DEF VerifyStep, PassVerify, FailVerify, DropVerify, callVars, envVars
<1>7. CASE Call
  <2> HIDE DEF Rest
  <2>1. CASE \E r \in Sessions :
               \/ OpenSession(r) \/ BareSave(r) \/ EndEdit(r)
               \/ Reject(r) \/ StartAccept(r) \/ CloseStart(r)
               \/ \E bytes \in Contents : StartSave(r, bytes)
               \/ \E t \in Tasks : BeginTask(t, r)
    BY <1>1, <2>1 DEF Rest
  <2>2. CASE \E t \in Tasks :
               \/ StartFlush(t) \/ StartVerify(t) \/ Finalize(t)
               \/ \E bytes \in Contents : Mutate(t, bytes)
    BY <1>2, <2>2 DEF Rest
  <2>3. CASE \E r \in Sessions : BeginEdit(r) \/ StartResolve(r)
    BY <2>3
  <2>4. CASE \E t \in Tasks, bytes \in Contents : Amend(t, bytes)
    BY <2>4
  <2> QED BY <1>7, <2>1, <2>2, <2>3, <2>4 DEF Call
<1>8. CASE Continue
  BY <1>3, <1>4, <1>5, <1>6, <1>8 DEF Continue, CommitStep
<1>9. CASE Environment
  BY <1>9 DEF Environment
<1>10. CASE UNCHANGED vars
  BY <1>10 DEF vars, callVars, envVars
<1> QED BY <1>7, <1>8, <1>9, <1>10 DEF Next

\* An edit in flight: the revision it saw is a number, what it hashed is a document.
LEMMA EditTyped ==
  ASSUME WriterInv, RestTyped, NEW s \in Sessions, BeginEdit(s) \/ EditStep(s)
  PROVE  /\ edit' \in [Sessions ->
              [pc : {"idle", "mount", "hash", "apply"}, captured : Nat,
               revision : Nat, saw : Contents \cup {Gone}]]
         /\ UNCHANGED <<source, notified, resolve, writes, restarts>>
<1>1. /\ edit \in [Sessions ->
           [pc : {"idle", "mount", "hash", "apply"}, captured : Nat,
            revision : Nat, saw : Contents \cup {Gone}]]
      /\ session[s] \in SessionRecords /\ source[DocumentOf[s]] \in Contents
  BY SessionAssumption DEF WriterInv, RecordsTyped, RestTyped
<1>2. session[s].committed \in Nat /\ KnownRevision(s) \in Nat
  BY <1>1 DEF SessionRecords, KnownRevision
<1>3. CASE BeginEdit(s)
  BY <1>1, <1>3 DEF BeginEdit, envVars
<1>4. CASE MountEditor(s)
  BY <1>1, <1>2, <1>4 DEF MountEditor, EditEnds, NoEdit, envVars
<1>5. CASE HashForEdit(s)
  <2> DEFINE now == source[DocumentOf[s]]
             revision == KnownRevision(s)
  <2>1. now \in Contents /\ revision \in Nat
    BY <1>1, <1>2
  <2>2. \/ edit' = [edit EXCEPT ![s].pc = "apply", ![s].revision = revision, ![s].saw = now]
        \/ edit' = [edit EXCEPT ![s] = NoEdit]
    BY <1>5 DEF HashForEdit, EditEnds
  <2> HIDE DEF now, revision
  <2> QED BY <1>1, <1>5, <2>1, <2>2 DEF HashForEdit, NoEdit, envVars
<1>6. CASE ApplyEdit(s) \/ RefuseEdit(s)
  BY <1>1, <1>6 DEF ApplyEdit, RefuseEdit, EditEnds, NoEdit, envVars
<1> QED BY <1>3, <1>4, <1>5, <1>6 DEF EditStep

\* A resolution in flight likewise.
LEMMA ResolveTyped ==
  ASSUME WriterInv, RestTyped, NEW s \in Sessions, StartResolve(s) \/ ApplyResolve(s)
  PROVE  /\ resolve' \in [Sessions ->
              [pc : {"idle", "apply"}, revision : Nat, saw : Contents \cup {Gone}]]
         /\ UNCHANGED <<source, notified, edit, writes, restarts>>
<1>1. /\ resolve \in [Sessions ->
           [pc : {"idle", "apply"}, revision : Nat, saw : Contents \cup {Gone}]]
      /\ session[s] \in SessionRecords /\ source[DocumentOf[s]] \in Contents
  BY SessionAssumption DEF WriterInv, RecordsTyped, RestTyped
<1>2. session[s].committed \in Nat
  BY <1>1 DEF SessionRecords
<1>3. CASE StartResolve(s)
  BY <1>1, <1>2, <1>3 DEF StartResolve, envVars
<1>4. CASE ApplyResolve(s)
  BY <1>1, <1>4 DEF ApplyResolve, NoResolve, envVars
<1> QED BY <1>3, <1>4

\* What recovery lands is what the source holds.
LEMMA RecoveredContents ==
  ASSUME WriterInv, RestTyped, NEW s \in Sessions
  PROVE  log[s] \o LandedByRecovery(s) \in Seq(Contents)
<1> DEFINE held == source[DocumentOf[s]]
           landed == LandedByRecovery(s)
<1>1. held \in Contents
  BY SessionAssumption DEF RestTyped
<1>2. PICK n : landed = [i \in 1..n |-> held]
  BY DEF LandedByRecovery
<1>3. landed \in Seq(Contents \cup {Gone})
  BY RecoveredTyped DEF WriterInv
<1>4. log[s] \in Seq(Contents)
  BY DEF RestTyped
<1> HIDE DEF held, landed
<1>5. \A i \in DOMAIN landed : landed[i] \in Contents
  BY <1>1, <1>2
<1>6. landed \in Seq(Contents)
  BY <1>3, <1>5
<1>7. log[s] \o landed \in Seq(Contents)
  BY <1>4, <1>6
<1> QED BY <1>7 DEF landed

\* A revision is a document: the first is read from the source, the others are what a
\* commit in flight has put there.
LEMMA LogTyped ==
  ASSUME WriterInv, WriterInv', ChainInv, RestTyped, [Next]_vars
  PROVE  log' \in [Sessions -> Seq(Contents)]
<1>1. /\ RecordsTyped /\ log \in [Sessions -> Seq(Contents)]
      /\ "save" \in Kinds /\ "accept" \in Kinds
  BY DEF WriterInv, RestTyped, Kinds
<1>2. log' \in [Sessions -> Seq(Contents \cup {Gone})]
  BY DEF WriterInv, RecordsTyped
<1> SUFFICES ASSUME NEW s \in Sessions PROVE log'[s] \in Seq(Contents)
  BY <1>2
<1>3. log[s] \in Seq(Contents)
  BY <1>1
<1>4. CASE log'[s] = log[s]
  BY <1>3, <1>4
<1>5. CASE BindIdentity(s)
  <2>1. log'[s] = Append(log[s], source[DocumentOf[s]])
    BY <1>1, <1>5 DEF BindIdentity
  <2>2. source[DocumentOf[s]] \in Contents
    BY SessionAssumption DEF RestTyped
  <2> QED BY <1>3, <2>1, <2>2
<1>6. ASSUME NEW k \in Kinds, Landed(s, k) PROVE log'[s] \in Seq(Contents)
  <2>1. log'[s] = Append(log[s], commit[s][k].bytes)
    BY <1>1, <1>6 DEF Landed
  <2>2. commit[s][k].bytes \in Contents
    BY <1>6 DEF Landed, Turn, InChain, ChainInv, BytesAreReal
  <2> QED BY <1>3, <2>1, <2>2
<1>7. CASE RecordSave(s) \/ RecordAccept(s)
  BY <1>1, <1>6, <1>7 DEF RecordSave, RecordAccept
<1>8. CASE Restart
  <2>1. log'[s] = log[s] \o LandedByRecovery(s)
    BY <1>8 DEF Restart
  <2> QED BY <2>1, RecoveredContents
<1> QED BY <1>1, <1>4, <1>5, <1>7, <1>8, LogsMove DEF LogMoves

\* Every step keeps the rest typed.
LEMMA RestKept ==
  ASSUME WriterInv, WriterInv', ChainInv, RestTyped, [Next]_vars
  PROVE  RestTyped'
<1>1. /\ source \in [Documents -> Contents] /\ notified \in [Documents -> BOOLEAN]
      /\ writes \in 0..MaxWrites /\ restarts \in 0..MaxRestarts
      /\ MaxWrites \in Nat /\ MaxRestarts \in Nat
  BY WriterAssumption DEF RestTyped
<1>2. log' \in [Sessions -> Seq(Contents)]
  BY LogTyped
<1>3. journal' \in Seq([session : Sessions, bytes : Contents])
  <2> DEFINE Rows == [session : Sessions, bytes : Contents]
  <2>1. journal \in Seq(Rows)
    BY DEF RestTyped
  <2>2. CASE Restart
    <3>1. journal' = <<>>
      BY <2>2 DEF Restart
    <3> QED BY <3>1
  <2>3. ASSUME NEW s \in Sessions, NEW k \in Kinds, LeaveToRecovery(s, k)
        PROVE  journal' \in Seq(Rows)
    <3> DEFINE row == [session |-> s, bytes |-> commit[s][k].bytes]
    <3>1. row \in Rows
      BY <2>3 DEF LeaveToRecovery, Turn, InChain, ChainInv, BytesAreReal
    <3>2. journal' = Append(journal, row)
      BY <2>3 DEF LeaveToRecovery
    <3> HIDE DEF row, Rows
    <3> QED BY <2>1, <3>1, <3>2
  <2> QED BY <2>1, <2>2, <2>3, JournalMoves
<1>4. CASE UNCHANGED <<source, notified, edit, resolve, writes, restarts>>
  BY <1>2, <1>3, <1>4 DEF RestTyped
<1>5. ASSUME NEW s \in Sessions, BeginEdit(s) \/ EditStep(s) PROVE RestTyped'
  BY <1>2, <1>3, <1>5, EditTyped DEF RestTyped
<1>6. ASSUME NEW s \in Sessions, StartResolve(s) \/ ApplyResolve(s) PROVE RestTyped'
  BY <1>2, <1>3, <1>6, ResolveTyped DEF RestTyped
<1>7. ASSUME NEW s \in Sessions, NEW k \in Kinds, Replace(s, k) PROVE RestTyped'
  <2>1. commit[s][k].bytes \in Contents
    BY <1>7 DEF Replace, Turn, InChain, ChainInv, BytesAreReal
  <2>2. /\ source' = [source EXCEPT ![DocumentOf[s]] = commit[s][k].bytes]
        /\ notified' \in {notified, [notified EXCEPT ![DocumentOf[s]] = TRUE]}
        /\ UNCHANGED <<edit, resolve, writes, restarts>>
    BY <1>7 DEF Replace, envVars
  <2>3. source' \in [Documents -> Contents] /\ notified' \in [Documents -> BOOLEAN]
    BY <1>1, <2>1, <2>2
  <2> QED BY <1>2, <1>3, <2>2, <2>3 DEF RestTyped
<1>8. ASSUME NEW t \in Tasks, NEW bytes \in Contents, Amend(t, bytes) PROVE RestTyped'
  <2>1. writes' \in 0..MaxWrites /\ UNCHANGED <<source, notified, edit, resolve, restarts>>
    BY <1>1, <1>8 DEF Amend, callVars
  <2> QED BY <1>2, <1>3, <2>1 DEF RestTyped
<1>9. ASSUME NEW d \in Documents, WatcherFires(d) PROVE RestTyped'
  <2>1. /\ notified' \in [Documents -> BOOLEAN]
        /\ UNCHANGED <<source, edit, resolve, writes, restarts>>
    BY <1>1, <1>9 DEF WatcherFires, callVars, envVars
  <2> QED BY <1>2, <1>3, <2>1 DEF RestTyped
<1>10. ASSUME NEW d \in Documents, NEW c \in Contents, ExternalWrite(d, c) PROVE RestTyped'
  <2>1. /\ source' \in [Documents -> Contents] /\ notified' \in [Documents -> BOOLEAN]
        /\ writes' \in 0..MaxWrites /\ UNCHANGED <<edit, resolve, restarts>>
    BY <1>1, <1>10 DEF ExternalWrite, callVars
  <2> QED BY <1>2, <1>3, <2>1 DEF RestTyped
<1>11. CASE Restart
  <2>1. /\ edit' = [s \in Sessions |-> NoEdit] /\ resolve' = [s \in Sessions |-> NoResolve]
        /\ notified' = [d \in Documents |-> FALSE] /\ UNCHANGED <<source, writes>>
        /\ restarts' \in 0..MaxRestarts
    BY <1>1, <1>11 DEF Restart
  <2>2. /\ edit' \in [Sessions ->
             [pc : {"idle", "mount", "hash", "apply"}, captured : Nat,
              revision : Nat, saw : Contents \cup {Gone}]]
        /\ resolve' \in [Sessions ->
             [pc : {"idle", "apply"}, revision : Nat, saw : Contents \cup {Gone}]]
    BY <2>1 DEF NoEdit, NoResolve
  <2> QED BY <1>1, <1>2, <1>3, <2>1, <2>2 DEF RestTyped
<1> QED BY <1>4, <1>5, <1>6, <1>7, <1>8, <1>9, <1>10, <1>11, RestMoves

\* The state of sessions, tasks, edits and commits is always one the program's types
\* allow; in particular a source, a revision and a journal row are whole documents.
THEOREM WriterTypes == Spec => []TypeOK
<1>1. Init => RestTyped
  <2> SUFFICES ASSUME Init PROVE RestTyped
    OBVIOUS
  <2>1. log \in [Sessions -> Seq(Contents)]
    <3>1. <<>> \in Seq(Contents)
      OBVIOUS
    <3> QED BY <3>1 DEF Init
  <2>2. journal \in Seq([session : Sessions, bytes : Contents])
    <3>1. journal = <<>>
      BY DEF Init
    <3> QED BY <3>1
  <2>3. writes \in 0..MaxWrites /\ restarts \in 0..MaxRestarts
    BY WriterAssumption DEF Init
  <2> QED BY <2>1, <2>2, <2>3 DEF Init, RestTyped, NoEdit, NoResolve
<1>2. WriterInv /\ WriterInv' /\ ChainInv /\ RestTyped /\ [Next]_vars => RestTyped'
  BY RestKept
<1>3. WriterInv /\ ChainInv /\ RestTyped => TypeOK
  BY DEF WriterInv, LeaseInv, RecordsTyped, SessionRecords, TaskRecords, CommitRecords,
         ChainInv, ChainAt, RestTyped, TypeOK
<1> QED BY <1>1, <1>2, <1>3, WriterInvariant, ChainIsFair, PTL DEF Spec
=============================================================================
