------------------------ MODULE AtomicCommit_proofs ------------------------
(***************************************************************************)
(* Theorems about AtomicCommit for any number of commits, contents, rename *)
(* attempts, external writes and crashes.                                  *)
(***************************************************************************)
EXTENDS AtomicCommit, SequenceTheorems, TLAPS

(***************************************************************************)
(* Type correctness                                                        *)
(***************************************************************************)

\* The initial process is well typed.
LEMMA InitTypeOK == Init => TypeOK
<1> SUFFICES ASSUME Init PROVE TypeOK
  OBVIOUS
<1> USE ContentAssumption, BoundAssumption
<1>1. <<[commit |-> NoCommit, hash |-> source]>>
        \in Seq([commit : Commits \cup {NoCommit}, hash : Contents])
  BY DEF Init
<1>2. Idle \in [mode : RecoveryMode, step : RecoveryStep, todo : [Commits -> Phase],
               row : Commits \cup {NoCommit}, saw : Contents \cup {Missing}]
  BY DEF Idle, NoRows, RecoveryMode, RecoveryStep, Phase
<1>3. request \in [Commits -> [before : Contents, cand : Contents]]
  BY DEF Init
<1>4. attempt \in [Commits -> 0..MaxAttempts]
  BY DEF Init
<1>5. /\ temp \in [Commits -> File] /\ phase \in [Commits -> Phase]
      /\ pc \in [Commits -> PC] /\ outcome \in [Commits -> Outcome]
  BY DEF Init, NoRows, Phase, PC, Outcome, File
<1>6. writes \in 0..MaxWrites /\ crashes \in 0..MaxCrashes
  BY DEF Init
<1>7. up \in BOOLEAN /\ unsealed \in BOOLEAN /\ foreign \in BOOLEAN
  BY DEF Init
<1> QED
  BY <1>1, <1>2, <1>3, <1>4, <1>5, <1>6, <1>7 DEF Init, TypeOK

\* Landing a revision keeps the database well typed.
LEMMA LandTypeOK ==
  ASSUME TypeOK, NEW c \in Commits, Land(c)
  PROVE  /\ phase' \in [Commits -> Phase]
         /\ revisions' \in Seq([commit : Commits \cup {NoCommit}, hash : Contents])
BY DEF TypeOK, Land, Journal, Phase

\* A call of commit keeps the types.
LEMMA CommitStepTypeOK ==
  ASSUME TypeOK, NEW c \in Commits, CommitStep(c)
  PROVE  TypeOK'
<1> USE ContentAssumption, BoundAssumption
     DEF fileVars, dbVars, callVars, envVars, history, At, Goto, Return, Journal,
         Phase, Unresolved, PC, Live, Outcome, File
<1>1. CASE CheckBase(c)    BY <1>1 DEF CheckBase, TypeOK
<1>2. CASE RefuseBase(c)   BY <1>2 DEF RefuseBase, TypeOK
<1>3. CASE StartCopy(c)    BY <1>3 DEF StartCopy, TypeOK
<1>4. CASE FailCopy(c)     BY <1>4 DEF FailCopy, TypeOK
<1>5. ASSUME NEW content \in Contents, FinishCopy(c, content) PROVE TypeOK'
  BY <1>5 DEF FinishCopy, TypeOK
<1>6. CASE SealTemp(c)
  <2>1. UNCHANGED <<fileVars, dbVars, request, attempt, envVars, recovery, history>>
    BY <1>6 DEF SealTemp
  <2> HIDE DEF Goto, Return
  <2>2. Goto(c, "sealSource") \/ Goto(c, "cleanup") \/ Return(c, "error")
    BY <1>6 DEF SealTemp
  <2> USE DEF Goto, Return
  <2>3. pc' \in [Commits -> PC] /\ outcome' \in [Commits -> Outcome]
    BY ZenonT(40), <2>2 DEF TypeOK
  <2> QED
    BY <2>1, <2>3 DEF TypeOK
<1>7. CASE SealSource(c)   BY <1>7 DEF SealSource, TypeOK
<1>8. CASE Rename(c)       BY <1>8 DEF Rename, TypeOK
<1>9. CASE RenameBusy(c)
  <2>1. attempt' \in [Commits -> 0..MaxAttempts]
    BY <1>9 DEF RenameBusy, TypeOK
  <2>2. CASE Goto(c, "sealSource")
    BY <1>9, <2>1, <2>2 DEF RenameBusy, TypeOK
  <2>3. CASE Return(c, "error")
    BY <1>9, <2>1, <2>3 DEF RenameBusy, TypeOK
  <2> QED
    BY <1>9, <2>2, <2>3 DEF RenameBusy
<1>10. CASE FailRename(c)  BY <1>10 DEF FailRename, TypeOK
<1>11. CASE FsyncSource(c) BY <1>11 DEF FsyncSource, TypeOK
<1>12. CASE FailFsync(c)   BY <1>12 DEF FailFsync, TypeOK
<1>13. CASE Rehash(c)      BY ZenonT(40), <1>13 DEF Rehash, TypeOK
<1>14. CASE Finalize(c)
  <2>1. CASE Land(c) /\ Return(c, "ok")
    BY <1>14, <2>1, LandTypeOK DEF Finalize, TypeOK
  <2>2. CASE Return(c, "error") /\ UNCHANGED dbVars
    BY <1>14, <2>2 DEF Finalize, TypeOK
  <2> QED
    BY <1>14, <2>1, <2>2 DEF Finalize
<1>15. CASE CleanupTemp(c) BY <1>15 DEF CleanupTemp, TypeOK
<1>16. CASE AbortCommit(c) BY <1>16 DEF AbortCommit, TypeOK
<1> QED
  BY <1>1, <1>2, <1>3, <1>4, <1>5, <1>6, <1>7, <1>8, <1>9, <1>10, <1>11, <1>12,
     <1>13, <1>14, <1>15, <1>16 DEF CommitStep

\* So does recovery.
LEMMA RecoverRowTypeOK ==
  ASSUME TypeOK, NEW c \in Commits, RecoverRow(c)
  PROVE  TypeOK'
<1> USE ContentAssumption, BoundAssumption
     DEF fileVars, dbVars, callVars, envVars, history, Working, NextRow, Journal,
         Phase, Unresolved, RecoveryStep, File
<1>1. CASE HashSource(c)      BY <1>1 DEF HashSource, TypeOK
<1>2. CASE KeepEvidence(c)    BY <1>2 DEF KeepEvidence, TypeOK
<1>3. CASE AbortConflict(c)   BY <1>3 DEF AbortConflict, TypeOK
<1>4. CASE RollbackTemp(c)    BY <1>4 DEF RollbackTemp, TypeOK
<1>5. CASE RollbackRow(c)     BY <1>5 DEF RollbackRow, TypeOK
<1>6. CASE ResolveRef(c)
  <2>1. CASE recovery' = [recovery EXCEPT !.step = "finalize"]
    BY <1>6, <2>1 DEF ResolveRef, TypeOK
  <2>2. CASE NextRow
    BY <1>6, <2>2 DEF ResolveRef, TypeOK
  <2> QED
    BY <1>6, <2>1, <2>2 DEF ResolveRef
<1>7. CASE ForwardFinalize(c)
  <2>1. CASE Land(c)
    BY <1>7, <2>1, LandTypeOK DEF ForwardFinalize, TypeOK
  <2>2. CASE Journal(c, "finalized") /\ UNCHANGED revisions
    BY <1>7, <2>2 DEF ForwardFinalize, TypeOK
  <2> QED
    BY <1>7, <2>1, <2>2 DEF ForwardFinalize
<1> QED
  BY <1>1, <1>2, <1>3, <1>4, <1>5, <1>6, <1>7 DEF RecoverRow

\* And so does every other step.
LEMMA NextTypeOK == TypeOK /\ [Next]_vars => TypeOK'
<1> SUFFICES ASSUME TypeOK, [Next]_vars PROVE TypeOK'
  OBVIOUS
<1> USE ContentAssumption, BoundAssumption
     DEF fileVars, dbVars, callVars, envVars, history
<1>1. ASSUME NEW c \in Commits, NEW before \in Contents, NEW cand \in Contents,
             Begin(c, before, cand)
      PROVE  TypeOK'
  BY <1>1 DEF Begin, At, Goto, Journal, TypeOK, Phase, Unresolved, PC, Live
<1>2. ASSUME NEW c \in Commits, CommitStep(c) PROVE TypeOK'
  BY <1>2, CommitStepTypeOK
<1>3. ASSUME NEW c \in Commits, RecoverRow(c) PROVE TypeOK'
  BY <1>3, RecoverRowTypeOK
<1>4. ASSUME NEW mode \in RecoveryMode, StartRecovery(mode)
      PROVE  recovery' \in [mode : RecoveryMode, step : RecoveryStep,
                            todo : [Commits -> Phase],
                            row : Commits \cup {NoCommit},
                            saw : Contents \cup {Missing}]
  <2>1. UnresolvedRows \in [Commits -> Phase]
    BY DEF UnresolvedRows, Phase
  <2> QED
    BY <1>4, <2>1 DEF StartRecovery, Idle, RecoveryStep
<1>5. CASE RecoverManually
  BY <1>5, <1>4 DEF RecoverManually, TypeOK, RecoveryMode
<1>6. CASE Restart
  BY <1>6, <1>4 DEF Restart, TypeOK, RecoveryMode
<1>7. Idle \in [mode : RecoveryMode, step : RecoveryStep, todo : [Commits -> Phase],
               row : Commits \cup {NoCommit}, saw : Contents \cup {Missing}]
  BY DEF Idle, NoRows, RecoveryMode, RecoveryStep, Phase
<1>8. CASE FinishRecovery
  BY <1>8, <1>7 DEF FinishRecovery, TypeOK
<1>9. CASE Crash
  <2>1. pc' \in [Commits -> PC]
    BY <1>9 DEF Crash, TypeOK, PC
  <2>2. crashes' \in 0..MaxCrashes
    BY <1>9 DEF Crash, TypeOK
  <2> QED
    BY <1>9, <1>7, <2>1, <2>2 DEF Crash, TypeOK
<1>10. ASSUME NEW content \in Contents \cup {Missing}, ExternalWrite(content)
       PROVE  TypeOK'
  <2>1. writes' \in 0..MaxWrites
    BY <1>10 DEF ExternalWrite, TypeOK
  <2> QED
    BY <1>10, <2>1 DEF ExternalWrite, TypeOK
<1>11. CASE UNCHANGED vars
  BY <1>11 DEF vars, TypeOK
<1> QED
  BY <1>1, <1>2, <1>3, <1>5, <1>6, <1>8, <1>9, <1>10, <1>11 DEF Next, RecoverStep

\* Every reachable state of committer, journal and recovery is well typed,
\* manual recovery included.
THEOREM TypeCorrect == Spec => []TypeOK
<1>1. Init => TypeOK
  BY InitTypeOK
<1>2. TypeOK /\ [Next]_vars => TypeOK'
  BY NextTypeOK
<1> QED
  BY <1>1, <1>2, PTL DEF Spec

-----------------------------------------------------------------------------
(***************************************************************************)
(* The inductive invariant.  First what one call of commit does: no other  *)
(* call is running, and neither is recovery.                               *)
(***************************************************************************)

\* The initial process satisfies the invariant.
LEMMA InitCommitInv == Init => CommitInv
<1> SUFFICES ASSUME Init PROVE CommitInv
  OBVIOUS
<1>1. TypeOK
  BY InitTypeOK
<1>2. ASSUME NEW c \in Commits PROVE CallAt(c) /\ RowMeans(c)
  BY DEF Init, CallAt, RowMeans, NoRows, Live, Unresolved
<1>3. Exclusive /\ RecoveryAt
  BY DEF Init, Exclusive, RecoveryAt, Idle, NoRows, Live
<1>4. Len(revisions) = 1 /\ revisions[1] = [commit |-> NoCommit, hash |-> source]
  BY DEF Init
<1>5. LogAt
  BY <1>4 DEF Init, LogAt
<1>6. JournalMatchesLog
  BY <1>4, ContentAssumption DEF Init, JournalMatchesLog, HasRevision, NoRows
<1>7. RevisionsWereOnDisk
  BY <1>4 DEF Init, RevisionsWereOnDisk
<1> QED
  BY <1>1, <1>2, <1>3, <1>5, <1>6, <1>7 DEF CommitInv

\* A call that takes a step is the only one running, recovery is off, and the
\* step changes nothing that belongs to another commit.
LEMMA CommitStepFrame ==
  ASSUME CommitInv, NEW c \in Commits, CommitStep(c)
  PROVE  /\ pc[c] \in Live
         /\ recovery.mode = "off" /\ recovery' = recovery
         /\ up /\ up' /\ request' = request /\ held \subseteq held'
         /\ foreign' => foreign
         /\ \A d \in Commits : d # c =>
              /\ pc[d] \notin Live /\ pc'[d] = pc[d]
              /\ phase'[d] = phase[d] /\ outcome'[d] = outcome[d]
              /\ temp'[d] = temp[d]
              /\ d \in landed' <=> d \in landed
<1> DEFINE Frame == /\ pc[c] \in Live
                    /\ recovery' = recovery /\ up /\ up' /\ request' = request
                    /\ held \subseteq held'
                    /\ foreign' => foreign
                    /\ \A d \in Commits : d # c =>
                         /\ pc'[d] = pc[d]
                         /\ phase'[d] = phase[d] /\ outcome'[d] = outcome[d]
                         /\ temp'[d] = temp[d]
                         /\ d \in landed' <=> d \in landed
<1> SUFFICES Frame
  BY DEF CommitInv, Exclusive, ChainFree
<1> USE DEF fileVars, dbVars, callVars, envVars, history, At, Goto, Return, Journal,
            Live
<1>0. TypeOK
  BY DEF CommitInv
<1>1. CASE CheckBase(c)    BY <1>0, <1>1 DEF CheckBase, TypeOK
<1>2. CASE RefuseBase(c)   BY <1>0, <1>2 DEF RefuseBase, TypeOK
<1>3. CASE StartCopy(c)    BY <1>0, <1>3 DEF StartCopy, TypeOK
<1>4. CASE FailCopy(c)     BY <1>0, <1>4 DEF FailCopy, TypeOK
<1>5. ASSUME NEW content \in Contents, FinishCopy(c, content) PROVE Frame
  BY <1>0, <1>5 DEF FinishCopy, TypeOK
<1>6. CASE SealTemp(c)     BY <1>0, <1>6 DEF SealTemp, TypeOK
<1>7. CASE SealSource(c)   BY <1>0, <1>7 DEF SealSource, TypeOK
<1>8. CASE Rename(c)       BY <1>0, <1>8 DEF Rename, TypeOK
<1>9. CASE RenameBusy(c)   BY <1>0, <1>9 DEF RenameBusy, TypeOK
<1>10. CASE FailRename(c)  BY <1>0, <1>10 DEF FailRename, TypeOK
<1>11. CASE FsyncSource(c) BY <1>0, <1>11 DEF FsyncSource, TypeOK
<1>12. CASE FailFsync(c)   BY <1>0, <1>12 DEF FailFsync, TypeOK
<1>13. CASE Rehash(c)      BY <1>0, <1>13 DEF Rehash, TypeOK
<1>14. CASE Finalize(c)    BY <1>0, <1>14 DEF Finalize, Land, TypeOK
<1>15. CASE CleanupTemp(c) BY <1>0, <1>15 DEF CleanupTemp, TypeOK
<1>16. CASE AbortCommit(c) BY <1>0, <1>16 DEF AbortCommit, TypeOK
<1> QED
  BY <1>1, <1>2, <1>3, <1>4, <1>5, <1>6, <1>7, <1>8, <1>9, <1>10, <1>11, <1>12,
     <1>13, <1>14, <1>15, <1>16 DEF CommitStep

\* The call that takes a step is where its program counter says.
LEMMA CommitStepCall ==
  ASSUME CommitInv, NEW c \in Commits, CommitStep(c)
  PROVE  CallAt(c)' /\ RowMeans(c)'
<1> USE DEF fileVars, dbVars, callVars, envVars, history, At, Goto, Return, Journal,
            Live, Unresolved
<1>0. TypeOK /\ CallAt(c) /\ RowMeans(c) /\ RevisionsWereOnDisk /\ LogAt
  BY DEF CommitInv
<1>1. CASE CheckBase(c)     BY <1>0, <1>1 DEF CheckBase, TypeOK, CallAt, RowMeans
<1>2. CASE RefuseBase(c)    BY <1>0, <1>2 DEF RefuseBase, TypeOK, CallAt, RowMeans
<1>3. CASE StartCopy(c)     BY <1>0, <1>3 DEF StartCopy, TypeOK, CallAt, RowMeans
<1>4. CASE FailCopy(c)      BY <1>0, <1>4 DEF FailCopy, TypeOK, CallAt, RowMeans
<1>5. ASSUME NEW content \in Contents, FinishCopy(c, content) PROVE CallAt(c)' /\ RowMeans(c)'
  BY <1>0, <1>5 DEF FinishCopy, TypeOK, CallAt, RowMeans
<1>6. CASE SealTemp(c)      BY <1>0, <1>6 DEF SealTemp, TypeOK, CallAt, RowMeans
<1>7. CASE SealSource(c)    BY <1>0, <1>7 DEF SealSource, TypeOK, CallAt, RowMeans
<1>8. CASE Rename(c)        BY <1>0, <1>8 DEF Rename, TypeOK, CallAt, RowMeans
<1>9. CASE RenameBusy(c)    BY <1>0, <1>9 DEF RenameBusy, TypeOK, CallAt, RowMeans
<1>10. CASE FailRename(c)   BY <1>0, <1>10 DEF FailRename, TypeOK, CallAt, RowMeans
<1>11. CASE FsyncSource(c)  BY <1>0, <1>11 DEF FsyncSource, TypeOK, CallAt, RowMeans
<1>12. CASE FailFsync(c)    BY <1>0, <1>12 DEF FailFsync, TypeOK, CallAt, RowMeans
<1>13. CASE Rehash(c)       BY <1>0, <1>13 DEF Rehash, TypeOK, CallAt, RowMeans
<1>14. CASE Finalize(c)     BY <1>0, <1>14 DEF Finalize, Land, TypeOK, CallAt, RowMeans
<1>15. CASE CleanupTemp(c)  BY <1>0, <1>15 DEF CleanupTemp, TypeOK, CallAt, RowMeans
<1>16. CASE AbortCommit(c)  BY <1>0, <1>16 DEF AbortCommit, TypeOK, CallAt, RowMeans
<1> QED
  BY <1>1, <1>2, <1>3, <1>4, <1>5, <1>6, <1>7, <1>8, <1>9, <1>10, <1>11, <1>12,
     <1>13, <1>14, <1>15, <1>16 DEF CommitStep

\* Appending the revision of a commit that has none keeps journal and log in
\* agreement, provided its row is resolved in the same step.
LEMMA LandKeepsAgreement ==
  ASSUME TypeOK, JournalMatchesLog, RevisionsWereOnDisk, NEW c \in Commits,
         ~HasRevision(c), Land(c), request[c].cand \in held, held \subseteq held'
  PROVE  /\ JournalMatchesLog' /\ RevisionsWereOnDisk'
         /\ Len(revisions') = Len(revisions) + 1
         /\ revisions'[Len(revisions')].hash = request[c].cand
         /\ \A i \in 1..Len(revisions) : revisions'[i] = revisions[i]
<1> DEFINE r == [commit |-> c, hash |-> request[c].cand]
<1>1. revisions \in Seq([commit : Commits \cup {NoCommit}, hash : Contents])
  BY DEF TypeOK
<1>2. r \in [commit : Commits \cup {NoCommit}, hash : Contents]
  BY DEF TypeOK
<1>3. /\ Len(revisions) \in Nat /\ Len(revisions') = Len(revisions) + 1
      /\ revisions'[Len(revisions) + 1] = r
      /\ \A i \in 1..Len(revisions) : revisions'[i] = revisions[i]
  BY <1>1, <1>2 DEF Land
<1>4. \A d \in Commits : HasRevision(d)' <=> HasRevision(d) \/ d = c
  BY <1>3 DEF HasRevision
<1>5. \A d \in Commits : phase'[d] = IF d = c THEN "finalized" ELSE phase[d]
  BY DEF Land, Journal, TypeOK
<1>6. \A d \in Commits : HasRevision(d)' <=> phase'[d] = "finalized"
  BY <1>4, <1>5 DEF JournalMatchesLog
<1>7. ASSUME NEW i \in 1..Len(revisions'), NEW j \in 1..Len(revisions'),
             revisions'[i].commit = revisions'[j].commit
      PROVE  i = j
  <2>1. CASE i \in 1..Len(revisions) /\ j \in 1..Len(revisions)
    BY <2>1, <1>3, <1>7 DEF JournalMatchesLog
  <2>2. CASE i = Len(revisions) + 1 /\ j \in 1..Len(revisions)
    BY <2>2, <1>3, <1>7 DEF HasRevision
  <2>3. CASE j = Len(revisions) + 1 /\ i \in 1..Len(revisions)
    BY <2>3, <1>3, <1>7 DEF HasRevision
  <2> QED
    BY <2>1, <2>2, <2>3, <1>3
<1>8. JournalMatchesLog'
  BY <1>6, <1>7 DEF JournalMatchesLog
<1>9. RevisionsWereOnDisk'
  BY <1>3 DEF RevisionsWereOnDisk
<1> QED
  BY <1>3, <1>8, <1>9

\* Moving one row without touching the log keeps them in agreement, provided
\* the row neither was nor becomes finalized.
LEMMA JournalKeepsAgreement ==
  ASSUME TypeOK, JournalMatchesLog, RevisionsWereOnDisk, NEW c \in Commits, NEW p,
         phase[c] # "finalized", p # "finalized", Journal(c, p),
         revisions' = revisions, held \subseteq held'
  PROVE  JournalMatchesLog' /\ RevisionsWereOnDisk'
BY DEF TypeOK, JournalMatchesLog, RevisionsWereOnDisk, HasRevision, Journal

\* A call of commit keeps journal, log and file in agreement.
LEMMA CommitStepLog ==
  ASSUME CommitInv, NEW c \in Commits, CommitStep(c)
  PROVE  LogAt' /\ JournalMatchesLog' /\ RevisionsWereOnDisk'
<1> USE DEF fileVars, dbVars, callVars, envVars, history, At
<1> DEFINE Agree == LogAt' /\ JournalMatchesLog' /\ RevisionsWereOnDisk'
<1>0. TypeOK /\ CallAt(c) /\ RowMeans(c) /\ LogAt /\ JournalMatchesLog
        /\ RevisionsWereOnDisk
  BY DEF CommitInv
<1>1. ASSUME UNCHANGED <<source, phase, revisions, request, held, landed, foreign>>
      PROVE  Agree
  BY <1>0, <1>1 DEF LogAt, JournalMatchesLog, RevisionsWereOnDisk, HasRevision, Unrecorded
<1>2. ASSUME NEW p, Journal(c, p), phase[c] # "finalized", p # "finalized",
             c \in landed => p \in {"temp-ready", "source-replaced"},
             UNCHANGED <<source, revisions, request, held, landed, foreign>>
      PROVE  Agree
  <2>1. \A d \in Commits : Unrecorded(d) => Unrecorded(d)'
    BY <1>0, <1>2 DEF Unrecorded, Journal, TypeOK
  <2>2. LogAt'
    BY <1>0, <1>2, <2>1 DEF LogAt
  <2> QED
    BY <1>0, <1>2, <2>2, JournalKeepsAgreement
<1>3. CASE CheckBase(c) \/ FailCopy(c) \/ StartCopy(c) \/ SealTemp(c) \/ SealSource(c)
  BY <1>1, <1>3 DEF CheckBase, FailCopy, StartCopy, SealTemp, SealSource
<1>4. CASE RenameBusy(c) \/ FailRename(c) \/ FailFsync(c) \/ Rehash(c) \/ CleanupTemp(c)
  BY <1>1, <1>4 DEF RenameBusy, FailRename, FailFsync, Rehash, CleanupTemp
<1>5. CASE RefuseBase(c)
  BY <1>0, <1>2, <1>5 DEF RefuseBase, CallAt, RowMeans
<1>6. ASSUME NEW content \in Contents, FinishCopy(c, content) PROVE Agree
  BY <1>0, <1>2, <1>6 DEF FinishCopy, CallAt, RowMeans
<1>7. CASE FsyncSource(c)
  BY <1>0, <1>2, <1>7 DEF FsyncSource, CallAt
<1>8. CASE AbortCommit(c)
  BY <1>0, <1>2, <1>8 DEF AbortCommit, CallAt
<1>9. CASE Rename(c)
  <2>1. Unrecorded(c)'
    BY <1>0, <1>9 DEF Rename, CallAt, Unrecorded, TypeOK
  <2>2. LogAt'
    BY <1>0, <1>9, <2>1 DEF Rename, LogAt
  <2> QED
    BY <1>0, <1>9, <2>2 DEF Rename, JournalMatchesLog, RevisionsWereOnDisk, HasRevision
<1>10. CASE Finalize(c)
  <2>1. ~HasRevision(c)
    BY <1>0, <1>10 DEF Finalize, CallAt, JournalMatchesLog
  <2>2. Land(c) /\ held' = held /\ request[c].cand \in held
    BY <1>0, <1>10, <2>1 DEF Finalize, CallAt, RowMeans
  <2>3. /\ JournalMatchesLog' /\ RevisionsWereOnDisk'
        /\ Len(revisions') = Len(revisions) + 1
        /\ revisions'[Len(revisions')].hash = request[c].cand
    BY <1>0, <2>1, <2>2, LandKeepsAgreement
  <2>4. foreign \/ source = request[c].cand
    BY <1>0, <1>10 DEF Finalize, CallAt
  <2>5. LogAt'
    BY <1>0, <1>10, <2>3, <2>4 DEF Finalize, LogAt
  <2> QED
    BY <2>3, <2>5
<1> QED
  BY <1>3, <1>4, <1>5, <1>6, <1>7, <1>8, <1>9, <1>10 DEF CommitStep

\* Whatever a call of commit does, the invariant survives.
LEMMA CommitStepInv ==
  ASSUME CommitInv, NEW c \in Commits, CommitStep(c)
  PROVE  CommitInv'
<1>1. TypeOK'
  BY CommitStepTypeOK DEF CommitInv
<1>2. CallAt(c)' /\ RowMeans(c)'
  BY CommitStepCall
<1>3. ASSUME NEW d \in Commits, d # c PROVE CallAt(d)' /\ RowMeans(d)'
  <2>1. CallAt(d) /\ RowMeans(d)
    BY DEF CommitInv
  <2> QED
    BY <1>3, <2>1, CommitStepFrame DEF CallAt, RowMeans, Live, Unresolved
<1>4. Exclusive'
  BY CommitStepFrame DEF CommitInv, Exclusive
<1>5. RecoveryAt'
  <2>1. RecoveryAt /\ recovery.mode = "off" /\ recovery' = recovery
    BY CommitStepFrame DEF CommitInv
  <2>2. recovery.step = "pick" /\ \A d \in Commits : recovery.todo[d] = "none"
    BY <2>1 DEF RecoveryAt
  <2> QED
    BY <2>1, <2>2 DEF RecoveryAt
<1> QED
  BY <1>1, <1>2, <1>3, <1>4, <1>5, CommitStepLog DEF CommitInv

\* The chain admits a new call only when no other runs.
LEMMA BeginInv ==
  ASSUME ~ManualRecovery, CommitInv, NEW c \in Commits, NEW before \in Contents, NEW cand \in Contents,
         Begin(c, before, cand), TypeOK'
  PROVE  CommitInv'
<1> USE DEF Begin, fileVars, dbVars, callVars, envVars, history, At, Goto
<1>0. TypeOK /\ CallAt(c) /\ RowMeans(c) /\ Exclusive /\ LogAt
        /\ JournalMatchesLog /\ RevisionsWereOnDisk
  BY DEF CommitInv
<1>1. phase[c] = "none" /\ c \notin landed
  BY <1>0 DEF CallAt, RowMeans
<1>2. CallAt(c)' /\ RowMeans(c)'
  BY <1>0, <1>1 DEF CallAt, RowMeans, Journal, TypeOK, Live, Unresolved
<1>3. ASSUME NEW d \in Commits, d # c PROVE CallAt(d)' /\ RowMeans(d)'
  <2>1. CallAt(d) /\ RowMeans(d)
    BY DEF CommitInv
  <2> QED
    BY <1>0, <1>3, <2>1 DEF CallAt, RowMeans, Journal, TypeOK, Live, Unresolved
<1>4. recovery.mode = "off" /\ recovery' = recovery
  BY <1>0 DEF Exclusive
<1>5. Exclusive'
  BY <1>0, <1>4 DEF Exclusive, ChainFree, TypeOK
<1>6. RecoveryAt'
  BY <1>4 DEF CommitInv, RecoveryAt
<1>7. \A d \in Commits : Unrecorded(d) => Unrecorded(d)'
  BY <1>0, <1>1 DEF Unrecorded, Journal, TypeOK
<1>8. LogAt'
  BY <1>0, <1>7 DEF LogAt
<1>9. JournalMatchesLog' /\ RevisionsWereOnDisk'
  BY <1>0, <1>1, JournalKeepsAgreement
<1> QED
  BY <1>2, <1>3, <1>5, <1>6, <1>8, <1>9 DEF CommitInv

\* Recovery changes only the row it works on; the file and the calls are
\* untouched, and no call is running.
LEMMA RecoverRowFrame ==
  ASSUME CommitInv, NEW c \in Commits, RecoverRow(c)
  PROVE  /\ up /\ recovery.mode = "startup" /\ recovery.todo[c] # "none"
         /\ \A d \in Commits : pc[d] \notin Live
         /\ phase[c] \in Unresolved /\ recovery.todo[c] = phase[c]
         /\ UNCHANGED <<source, callVars, envVars, history>>
         /\ \A d \in Commits : d # c => phase'[d] = phase[d]
<1> USE DEF fileVars, dbVars, callVars, envVars, history, Working
<1>0. TypeOK /\ Exclusive /\ RecoveryAt
  BY DEF CommitInv
<1> DEFINE Frame == /\ up /\ recovery.mode # "off" /\ recovery.todo[c] # "none"
                    /\ UNCHANGED <<source, callVars, envVars, history>>
                    /\ \A d \in Commits : d # c => phase'[d] = phase[d]
<1> SUFFICES Frame
  BY <1>0 DEF Exclusive, ChainFree, RecoveryAt
<1>1. CASE HashSource(c)
  BY <1>0, <1>1 DEF HashSource
<1>2. CASE KeepEvidence(c)
  BY <1>0, <1>2 DEF KeepEvidence, RecoveryAt
<1>3. CASE AbortConflict(c)
  BY <1>0, <1>3 DEF AbortConflict, RecoveryAt, Journal, TypeOK
<1>4. CASE RollbackTemp(c)
  BY <1>0, <1>4 DEF RollbackTemp, RecoveryAt
<1>5. CASE RollbackRow(c)
  BY <1>0, <1>5 DEF RollbackRow, RecoveryAt, Journal, TypeOK
<1>6. CASE ResolveRef(c)
  BY <1>0, <1>6 DEF ResolveRef, RecoveryAt
<1>7. CASE ForwardFinalize(c)
  BY <1>0, <1>7 DEF ForwardFinalize, RecoveryAt, Land, Journal, TypeOK
<1> QED
  BY <1>1, <1>2, <1>3, <1>4, <1>5, <1>6, <1>7 DEF RecoverRow

\* A row that recovery finishes leaves the snapshot.
LEMMA NextRowKeeps ==
  ASSUME TypeOK, RecoveryAt, NextRow, recovery.row \in Commits,
         \A d \in Commits : d # recovery.row => phase'[d] = phase[d]
  PROVE  RecoveryAt'
<1>1. /\ recovery'.mode = recovery.mode /\ recovery'.step = "pick"
      /\ \A d \in Commits : recovery'.todo[d] =
           IF d = recovery.row THEN "none" ELSE recovery.todo[d]
  BY DEF TypeOK, NextRow
<1> QED
  BY <1>1 DEF RecoveryAt

\* The rows recovery works on keep their meaning.
LEMMA RecoverRowCalls ==
  ASSUME CommitInv, NEW c \in Commits, RecoverRow(c)
  PROVE  \A d \in Commits : CallAt(d)' /\ RowMeans(d)'
<1> USE DEF callVars, envVars, history
<1>0. TypeOK /\ CallAt(c) /\ RowMeans(c)
  BY DEF CommitInv
<1>1. ASSUME NEW d \in Commits, d # c PROVE CallAt(d)' /\ RowMeans(d)'
  <2>1. CallAt(d) /\ RowMeans(d)
    BY DEF CommitInv
  <2> QED
    BY <1>1, <2>1, RecoverRowFrame DEF CallAt, RowMeans, Live, Unresolved
<1>2. phase'[c] \in {phase[c], "finalized", "aborted"}
  BY <1>0 DEF RecoverRow, HashSource, KeepEvidence, AbortConflict, RollbackTemp,
     RollbackRow, ResolveRef, ForwardFinalize, Land, Journal, TypeOK, fileVars, dbVars
<1>3. CallAt(c)' /\ RowMeans(c)'
  BY <1>0, <1>2, RecoverRowFrame DEF CallAt, RowMeans, Live, Unresolved
<1> QED
  BY <1>1, <1>3

\* Recovery's own bookkeeping.
LEMMA RecoverRowRecovery ==
  ASSUME CommitInv, NEW c \in Commits, RecoverRow(c)
  PROVE  RecoveryAt' /\ Exclusive'
<1> USE DEF fileVars, dbVars, callVars, envVars, history, Working
<1> DEFINE Keeps == RecoveryAt' /\ recovery'.mode = recovery.mode
<1>0. TypeOK /\ RecoveryAt /\ Exclusive /\ LogAt
  BY DEF CommitInv
<1> SUFFICES Keeps
  BY <1>0, RecoverRowFrame DEF Exclusive, ChainFree
<1>1. ASSUME NextRow, recovery.row = c PROVE Keeps
  <2>1. recovery'.mode = recovery.mode
    BY <1>0, <1>1 DEF TypeOK, NextRow
  <2> QED
    BY <1>0, <1>1, <2>1, NextRowKeeps, RecoverRowFrame
<1>2. CASE HashSource(c)
  BY <1>0, <1>2 DEF HashSource, RecoveryAt, TypeOK, LogAt
<1>3. CASE KeepEvidence(c) \/ AbortConflict(c) \/ RollbackRow(c) \/ ForwardFinalize(c)
  BY <1>1, <1>3 DEF KeepEvidence, AbortConflict, RollbackRow, ForwardFinalize
<1>4. CASE RollbackTemp(c)
  BY <1>0, <1>4 DEF RollbackTemp, RecoveryAt, TypeOK, Untouched, Replaced
<1>5. CASE ResolveRef(c)
  <2>1. CASE recovery' = [recovery EXCEPT !.step = "finalize"]
    BY <1>0, <1>5, <2>1 DEF ResolveRef, RecoveryAt, TypeOK, Replaced
  <2>2. CASE NextRow
    BY <1>1, <1>5, <2>2 DEF ResolveRef
  <2> QED
    BY <1>5, <2>1, <2>2 DEF ResolveRef
<1> QED
  BY <1>2, <1>3, <1>4, <1>5 DEF RecoverRow

\* Recovery aborts a row only when the file shows that its replace is not what
\* the log misses, and lands a revision only for bytes it found on disk.
LEMMA RecoverRowLog ==
  ASSUME CommitInv, NEW c \in Commits, RecoverRow(c)
  PROVE  LogAt' /\ JournalMatchesLog' /\ RevisionsWereOnDisk'
<1> USE DEF fileVars, dbVars, callVars, envVars, history, Working
<1>0. /\ TypeOK /\ RecoveryAt /\ LogAt /\ JournalMatchesLog /\ RevisionsWereOnDisk
      /\ RowMeans(c)
  BY DEF CommitInv
<1> DEFINE Agree == LogAt' /\ JournalMatchesLog' /\ RevisionsWereOnDisk'
<1>1. ASSUME UNCHANGED <<phase, revisions>> PROVE Agree
  BY <1>0, <1>1, RecoverRowFrame
  DEF LogAt, JournalMatchesLog, RevisionsWereOnDisk, HasRevision, Unrecorded
<1>2. ASSUME Journal(c, "aborted"), revisions' = revisions,
             recovery.step # "pick", recovery.row = c, ~Replaced(c)
      PROVE  Agree
  <2>1. foreign \/ ~Unrecorded(c)
    BY <1>0, <1>2, RecoverRowFrame DEF RecoveryAt, Replaced, Unrecorded
  <2>2. \A d \in Commits : d # c /\ Unrecorded(d) => Unrecorded(d)'
    BY RecoverRowFrame DEF Unrecorded
  <2>3. LogAt'
    BY <1>0, <1>2, <2>1, <2>2, RecoverRowFrame DEF LogAt
  <2> QED
    BY <1>0, <1>2, <2>3, JournalKeepsAgreement, RecoverRowFrame DEF Unresolved
<1>3. CASE HashSource(c) \/ KeepEvidence(c) \/ RollbackTemp(c) \/ ResolveRef(c)
  BY <1>1, <1>3 DEF HashSource, KeepEvidence, RollbackTemp, ResolveRef
<1>4. CASE AbortConflict(c)
  BY <1>2, <1>4 DEF AbortConflict
<1>5. CASE RollbackRow(c)
  BY <1>0, <1>2, <1>5 DEF RollbackRow, RecoveryAt, Untouched
<1>6. CASE ForwardFinalize(c)
  <2>1. ~HasRevision(c)
    BY <1>0, RecoverRowFrame DEF JournalMatchesLog, Unresolved
  <2>2. Land(c)
    BY <1>6, <2>1 DEF ForwardFinalize
  <2>3. recovery.saw = request[c].cand /\ (foreign \/ source = request[c].cand)
        /\ request[c].cand \in held
    BY <1>0, <1>6, ContentAssumption DEF ForwardFinalize, RecoveryAt, Replaced, TypeOK
  <2>4. /\ JournalMatchesLog' /\ RevisionsWereOnDisk'
        /\ Len(revisions') = Len(revisions) + 1
        /\ revisions'[Len(revisions')].hash = request[c].cand
    BY <1>0, <2>1, <2>2, <2>3, LandKeepsAgreement, RecoverRowFrame
  <2>5. LogAt'
    BY <1>0, <2>3, <2>4, RecoverRowFrame DEF LogAt
  <2> QED
    BY <2>4, <2>5
<1> QED
  BY <1>3, <1>4, <1>5, <1>6 DEF RecoverRow

\* Everything else: starting and finishing recovery, crashes, other programs.
LEMMA EnvironmentInv ==
  ASSUME ~ManualRecovery, CommitInv, TypeOK',
         \/ RecoverManually \/ FinishRecovery \/ Crash \/ Restart
         \/ \E content \in Contents \cup {Missing} : ExternalWrite(content)
  PROVE  CommitInv'
<1> USE DEF fileVars, dbVars, callVars, envVars, history
<1>0. /\ TypeOK /\ Exclusive /\ RecoveryAt /\ LogAt /\ JournalMatchesLog
      /\ RevisionsWereOnDisk /\ \A c \in Commits : CallAt(c) /\ RowMeans(c)
  BY DEF CommitInv
<1>1. ASSUME UNCHANGED <<source, phase, revisions, request, held, landed, foreign>>
      PROVE  LogAt' /\ JournalMatchesLog' /\ RevisionsWereOnDisk'
  BY <1>0, <1>1 DEF LogAt, JournalMatchesLog, RevisionsWereOnDisk, HasRevision, Unrecorded
<1>2. CASE FinishRecovery
  <2>1. \A c \in Commits : CallAt(c)' /\ RowMeans(c)'
    BY <1>0, <1>2 DEF FinishRecovery, CallAt, RowMeans
  <2>2. Exclusive' /\ RecoveryAt'
    BY <1>0, <1>2 DEF FinishRecovery, Exclusive, ChainFree, RecoveryAt, Idle, NoRows
  <2> QED
    BY <1>1, <1>2, <2>1, <2>2 DEF FinishRecovery, CommitInv
<1>3. CASE Crash
  <2>1. \A c \in Commits : pc'[c] = IF pc[c] \in Live THEN "done" ELSE pc[c]
    BY <1>0, <1>3 DEF Crash, TypeOK
  <2>2. \A c \in Commits : CallAt(c)' /\ RowMeans(c)'
    BY <1>0, <1>3, <2>1 DEF Crash, CallAt, RowMeans, Live, Unresolved
  <2>3. Exclusive' /\ RecoveryAt'
    BY <1>0, <1>3, <2>1 DEF Crash, Exclusive, RecoveryAt, Idle, NoRows, Live
  <2> QED
    BY <1>1, <1>3, <2>2, <2>3 DEF Crash, CommitInv
<1>4. CASE Restart
  <2>1. \A c \in Commits : pc[c] \notin Live
    BY <1>0, <1>4 DEF Restart, CallAt
  <2>2. \A c \in Commits : CallAt(c)' /\ RowMeans(c)'
    BY <1>0, <1>4, <2>1 DEF Restart, CallAt, RowMeans, Live
  <2>3. /\ recovery'.mode = "startup" /\ recovery'.step = "pick"
        /\ \A c \in Commits : recovery'.todo[c] =
             IF phase[c] \in Unresolved THEN phase[c] ELSE "none"
    BY <1>4 DEF Restart, StartRecovery, Idle, UnresolvedRows
  <2>4. Exclusive' /\ RecoveryAt'
    BY <1>0, <1>4, <2>1, <2>3 DEF Restart, Exclusive, ChainFree, RecoveryAt
  <2> QED
    BY <1>1, <1>4, <2>2, <2>4 DEF Restart, CommitInv
<1>5. ASSUME NEW content \in Contents \cup {Missing}, ExternalWrite(content)
      PROVE  CommitInv'
  <2>1. \A c \in Commits : CallAt(c)' /\ RowMeans(c)'
    BY <1>0, <1>5 DEF ExternalWrite, CallAt, RowMeans
  <2>2. Exclusive' /\ RecoveryAt'
    BY <1>0, <1>5 DEF ExternalWrite, Exclusive, ChainFree, RecoveryAt, Replaced, Untouched
  <2>3. LogAt' /\ JournalMatchesLog' /\ RevisionsWereOnDisk'
    BY <1>0, <1>5 DEF ExternalWrite, LogAt, JournalMatchesLog, RevisionsWereOnDisk,
       HasRevision
  <2> QED
    BY <2>1, <2>2, <2>3 DEF CommitInv
<1> QED
  BY <1>2, <1>3, <1>4, <1>5 DEF RecoverManually

-----------------------------------------------------------------------------
(***************************************************************************)
(* The theorems                                                            *)
(***************************************************************************)

\* Every step preserves the invariant.
LEMMA NextCommitInv ==
  ASSUME ~ManualRecovery
  PROVE  CommitInv /\ [Next]_vars => CommitInv'
<1> SUFFICES ASSUME CommitInv, [Next]_vars PROVE CommitInv'
  OBVIOUS
<1>1. TypeOK'
  BY NextTypeOK DEF CommitInv
<1>2. ASSUME NEW c \in Commits, NEW before \in Contents, NEW cand \in Contents,
             Begin(c, before, cand)
      PROVE  CommitInv'
  BY <1>1, <1>2, BeginInv
<1>3. ASSUME NEW c \in Commits, CommitStep(c) PROVE CommitInv'
  BY <1>3, CommitStepInv
<1>4. ASSUME NEW c \in Commits, RecoverRow(c) PROVE CommitInv'
  BY <1>1, <1>4, RecoverRowCalls, RecoverRowRecovery, RecoverRowLog DEF CommitInv
<1>5. CASE RecoverManually \/ FinishRecovery \/ Crash \/ Restart
             \/ \E content \in Contents \cup {Missing} : ExternalWrite(content)
  BY <1>1, <1>5, EnvironmentInv
<1>6. CASE UNCHANGED vars
  <2>1. UNCHANGED <<source, temp, request, phase, revisions, up, pc, attempt, outcome,
                    recovery, writes, crashes, held, landed, unsealed, foreign>>
    BY <1>6 DEF vars, fileVars, dbVars, callVars, envVars, history
  <2>2. (\A c \in Commits : CallAt(c) /\ RowMeans(c))' /\ Exclusive'
    BY <2>1 DEF CommitInv, CallAt, RowMeans, Exclusive, ChainFree
  <2>3. RecoveryAt' /\ LogAt'
    BY <2>1 DEF CommitInv, RecoveryAt, Replaced, Untouched, LogAt, Unrecorded
  <2>4. JournalMatchesLog' /\ RevisionsWereOnDisk'
    BY <2>1 DEF CommitInv, JournalMatchesLog, HasRevision, RevisionsWereOnDisk
  <2> QED
    BY <1>1, <2>2, <2>3, <2>4 DEF CommitInv
<1> QED
  BY <1>2, <1>3, <1>4, <1>5, <1>6 DEF Next, RecoverStep

\* While recovery runs only at startup, the inductive invariant holds in every
\* reachable state of committer, recovery, crashes and other programs.
THEOREM CommitInvariant ==
  ASSUME ~ManualRecovery
  PROVE  Spec => []CommitInv
<1>1. Init => CommitInv
  BY InitCommitInv
<1>2. CommitInv /\ [Next]_vars => CommitInv'
  BY NextCommitInv
<1> QED
  BY <1>1, <1>2, PTL DEF Spec

\* The journal says "finalized" for exactly the commits whose revision is in
\* the log, and no commit has two revisions (finalizeCommitAtomically and
\* forwardFinalize, across any number of crashes and recoveries).
THEOREM JournalAndLogAgree ==
  ASSUME ~ManualRecovery
  PROVE  Spec => []JournalMatchesLog
<1>1. CommitInv => JournalMatchesLog
  BY DEF CommitInv
<1> QED
  BY <1>1, CommitInvariant, PTL

\* When the system is at rest and no other program has written since the last
\* rename, the newest revision is what the file holds.
THEOREM LogAndFileAgree ==
  ASSUME ~ManualRecovery
  PROVE  Spec => []LogMatchesFile
<1>1. CommitInv => LogMatchesFile
  BY DEF CommitInv, LogAt, LogMatchesFile, Quiescent, Unrecorded, Unresolved
<1> QED
  BY <1>1, CommitInvariant, PTL

\* What a caller of commit was told stays true: a refused commit never enters
\* the log or the file, an accepted one is in both histories for good.
THEOREM AnswersStayTrue ==
  ASSUME ~ManualRecovery
  PROVE  Spec => []AnswersAreFinal
<1>1. CommitInv => AnswersAreFinal
  BY DEF CommitInv, RowMeans, JournalMatchesLog, AnswersAreFinal
<1> QED
  BY <1>1, CommitInvariant, PTL

\* Only verified bytes ever replace the file, and only the authorised base is
\* ever destroyed, except in the gap after the last source seal (replaceAtomically).
THEOREM ReplaceSealed ==
  ASSUME ~ManualRecovery
  PROVE  Spec => ReplaceIsSealed
<1> DEFINE Sealed == \A c \in Commits : c \in landed' \ landed =>
                       /\ source' = request[c].cand
                       /\ source = request[c].before \/ unsealed
<1>1. ASSUME CommitInv, Next PROVE Sealed
  <2>1. SUFFICES ASSUME NEW c \in Commits, c \in landed' \ landed
                 PROVE  /\ source' = request[c].cand
                        /\ source = request[c].before \/ unsealed
    OBVIOUS
  <2>2. CASE \E d \in Commits : CommitStep(d)
    <3>1. CommitStep(c) /\ CallAt(c)
      BY <1>1, <2>1, <2>2, CommitStepFrame DEF CommitInv
    <3>2. Rename(c)
      BY <2>1, <3>1 DEF CommitStep, CheckBase, RefuseBase, StartCopy, FailCopy,
         FinishCopy, SealTemp, SealSource, RenameBusy, FailRename, FsyncSource,
         FailFsync, Rehash, Finalize, CleanupTemp, AbortCommit, history
    <3> QED
      BY <3>1, <3>2 DEF Rename, CallAt, At
  <2>3. CASE \E d \in Commits : RecoverRow(d)
    BY <1>1, <2>1, <2>3, RecoverRowFrame DEF history
  <2> QED
    BY <1>1, <2>1, <2>2, <2>3 DEF Next, RecoverStep, Begin, RecoverManually,
       FinishRecovery, Crash, Restart, ExternalWrite, history
<1>2. CommitInv /\ [Next]_vars => [Sealed]_vars
  BY <1>1
<1> QED
  BY <1>2, CommitInvariant, PTL DEF Spec, ReplaceIsSealed

\* A resolved row is never moved again and the log only grows.
THEOREM ResolvedStaysResolved ==
  ASSUME ~ManualRecovery
  PROVE  Spec => ResolvedIsFinal
<1> DEFINE Final ==
      /\ \A c \in Commits : phase[c] \in {"finalized", "aborted"} => phase'[c] = phase[c]
      /\ Len(revisions') >= Len(revisions)
      /\ \A i \in 1..Len(revisions) : revisions'[i] = revisions[i]
<1>1. ASSUME CommitInv, [Next]_vars PROVE Final
  <2>0. TypeOK /\ Len(revisions) \in Nat
    BY <1>1 DEF CommitInv, TypeOK
  <2>1. ASSUME phase' = phase, revisions' = revisions PROVE Final
    BY <2>0, <2>1
  <2>2. ASSUME NEW c \in Commits, phase[c] \in Unresolved \cup {"none"},
               \A d \in Commits : d # c => phase'[d] = phase[d],
               Land(c) \/ revisions' = revisions
        PROVE  Final
    <3>1. CASE revisions' = revisions
      BY <2>0, <2>2, <3>1 DEF Unresolved
    <3>2. CASE Land(c)
      <4>1. ~HasRevision(c)
        BY <1>1, <2>2 DEF CommitInv, JournalMatchesLog, Unresolved
      <4>2. /\ Len(revisions') = Len(revisions) + 1
            /\ \A i \in 1..Len(revisions) : revisions'[i] = revisions[i]
        BY <2>0, <3>2 DEF Land, TypeOK
      <4> QED
        BY <2>0, <2>2, <4>2 DEF Unresolved
    <3> QED
      BY <2>2, <3>1, <3>2
  <2>3. ASSUME NEW c \in Commits, CommitStep(c) PROVE Final
    <3>1. phase[c] \in Unresolved /\ \A d \in Commits : d # c => phase'[d] = phase[d]
      BY <1>1, <2>3, CommitStepFrame DEF CommitInv, CallAt, Live, Unresolved
    <3>2. Land(c) \/ revisions' = revisions
      BY <2>3 DEF CommitStep, CheckBase, RefuseBase, StartCopy, FailCopy, FinishCopy,
         SealTemp, SealSource, Rename, RenameBusy, FailRename, FsyncSource, FailFsync,
         Rehash, Finalize, CleanupTemp, AbortCommit, dbVars
    <3> QED
      BY <2>2, <3>1, <3>2
  <2>4. ASSUME NEW c \in Commits, RecoverRow(c) PROVE Final
    <3>1. phase[c] \in Unresolved /\ \A d \in Commits : d # c => phase'[d] = phase[d]
      BY <1>1, <2>4, RecoverRowFrame
    <3>2. Land(c) \/ revisions' = revisions
      BY <2>4 DEF RecoverRow, HashSource, KeepEvidence, AbortConflict, RollbackTemp,
         RollbackRow, ResolveRef, ForwardFinalize, dbVars
    <3> QED
      BY <2>2, <3>1, <3>2
  <2>5. ASSUME NEW c \in Commits, NEW before \in Contents, NEW cand \in Contents,
               Begin(c, before, cand)
        PROVE  Final
    <3>1. phase[c] = "none"
      BY <1>1, <2>5 DEF Begin, At, CommitInv, CallAt
    <3> QED
      BY <2>0, <2>2, <2>5, <3>1 DEF Begin, Journal, TypeOK
  <2>6. CASE RecoverManually \/ FinishRecovery \/ Crash \/ Restart
             \/ \E content \in Contents \cup {Missing} : ExternalWrite(content)
    BY <2>1, <2>6 DEF RecoverManually, FinishRecovery, Crash, Restart, ExternalWrite, dbVars
  <2>7. CASE UNCHANGED vars
    BY <2>1, <2>7 DEF vars, dbVars
  <2> QED
    BY <1>1, <2>3, <2>4, <2>5, <2>6, <2>7 DEF Next, RecoverStep
<1>2. CommitInv /\ [Next]_vars => [Final]_vars
  BY <1>1
<1> QED
  BY <1>2, CommitInvariant, PTL DEF Spec, ResolvedIsFinal

-----------------------------------------------------------------------------
(***************************************************************************)
(* What the log records was on disk, with recoverManually in a live        *)
(* process too: the hash that decides is of bytes that were read, and a    *)
(* commit that recovery works on keeps the request it was begun with.      *)
(***************************************************************************)
DiskInv ==
  /\ TypeOK
  /\ source \in held \cup {Missing}
  /\ \A c \in Commits : /\ pc[c] = "idle" => phase[c] = "none"
                        /\ pc[c] = "finalize" => request[c].cand \in held
                        /\ recovery.todo[c] # "none" => pc[c] # "idle"
  /\ recovery.step # "pick" =>
       /\ recovery.row \in Commits /\ pc[recovery.row] # "idle"
       /\ recovery.saw \in held \cup {Missing}
  /\ recovery.step = "finalize" => recovery.saw = request[recovery.row].cand
  /\ RevisionsWereOnDisk

\* A revision of bytes that were on disk.
LEMMA LandWasOnDisk ==
  ASSUME TypeOK, RevisionsWereOnDisk, NEW c \in Commits, Land(c),
         request[c].cand \in held, held' = held
  PROVE  RevisionsWereOnDisk'
<1> DEFINE r == [commit |-> c, hash |-> request[c].cand]
<1>1. revisions \in Seq([commit : Commits \cup {NoCommit}, hash : Contents])
  BY DEF TypeOK
<1>2. revisions' = Append(revisions, r)
  BY DEF Land
<1>3. Len(revisions') = Len(revisions) + 1 /\ Len(revisions) \in Nat
  BY <1>1, <1>2
<1>4. \A i \in 1 .. Len(revisions) : revisions'[i] = revisions[i]
  BY <1>1, <1>2
<1>5. revisions'[Len(revisions) + 1].hash = request[c].cand
  BY <1>1, <1>2
<1>6. \A i \in 1 .. Len(revisions') : i \in 1 .. Len(revisions) \/ i = Len(revisions) + 1
  BY <1>3
<1> QED
  BY <1>4, <1>5, <1>6 DEF RevisionsWereOnDisk

LEMMA CommitStepDisk ==
  ASSUME DiskInv, NEW c \in Commits, CommitStep(c), TypeOK'
  PROVE  DiskInv'
<1> USE DEF fileVars, dbVars, callVars, envVars, history, At, Goto, Return, Journal
<1>0. TypeOK
  BY DEF DiskInv
<1>1. ASSUME UNCHANGED <<request, recovery, revisions, held, source>>,
             pc[c] # "idle", pc'[c] # "idle", pc'[c] = "finalize" => source = request[c].cand,
             \A d \in Commits : d # c => pc'[d] = pc[d] /\ phase'[d] = phase[d]
      PROVE  DiskInv'
  <2>1. request[c].cand # Missing
    BY <1>0, ContentAssumption DEF TypeOK
  <2> QED
    BY <1>1, <2>1 DEF DiskInv, RevisionsWereOnDisk
<1>2. CASE CheckBase(c)    BY <1>0, <1>1, <1>2 DEF CheckBase, TypeOK
<1>3. CASE RefuseBase(c)   BY <1>0, <1>1, <1>3 DEF RefuseBase, TypeOK
<1>4. CASE StartCopy(c)    BY <1>0, <1>1, <1>4 DEF StartCopy, TypeOK
<1>5. CASE FailCopy(c)     BY <1>0, <1>1, <1>5 DEF FailCopy, TypeOK
<1>6. ASSUME NEW content \in Contents, FinishCopy(c, content) PROVE DiskInv'
  BY <1>0, <1>1, <1>6 DEF FinishCopy, TypeOK
<1>7. CASE SealTemp(c)     BY <1>0, <1>1, <1>7 DEF SealTemp, TypeOK
<1>8. CASE SealSource(c)   BY <1>0, <1>1, <1>8 DEF SealSource, TypeOK
<1>9. CASE RenameBusy(c)   BY <1>0, <1>1, <1>9 DEF RenameBusy, TypeOK
<1>10. CASE FailRename(c)  BY <1>0, <1>1, <1>10 DEF FailRename, TypeOK
<1>11. CASE FsyncSource(c) BY <1>0, <1>1, <1>11 DEF FsyncSource, TypeOK
<1>12. CASE FailFsync(c)   BY <1>0, <1>1, <1>12 DEF FailFsync, TypeOK
<1>13. CASE Rehash(c)      BY <1>0, <1>1, <1>13 DEF Rehash, TypeOK
<1>14. CASE CleanupTemp(c) BY <1>0, <1>1, <1>14 DEF CleanupTemp, TypeOK
<1>15. CASE AbortCommit(c) BY <1>0, <1>1, <1>15 DEF AbortCommit, TypeOK
<1>16. CASE Rename(c)
  <2>1. /\ source' \in held' /\ held \subseteq held' /\ pc[c] = "rename" /\ pc'[c] = "fsync"
        /\ UNCHANGED <<request, recovery, revisions, phase>>
        /\ \A d \in Commits : d # c => pc'[d] = pc[d]
    BY <1>0, <1>16 DEF Rename, TypeOK
  <2>2. RevisionsWereOnDisk'
    BY <2>1 DEF DiskInv, RevisionsWereOnDisk
  <2> QED
    BY <2>1, <2>2 DEF DiskInv
<1>17. CASE Finalize(c)
  <2>1. /\ UNCHANGED <<request, recovery, held, source>> /\ pc[c] = "finalize" /\ pc'[c] = "done"
        /\ \A d \in Commits : d # c => pc'[d] = pc[d] /\ phase'[d] = phase[d]
        /\ Land(c) \/ revisions' = revisions
    BY <1>0, <1>17 DEF Finalize, TypeOK, Land
  <2>2. RevisionsWereOnDisk'
    <3>1. CASE Land(c)
      BY <2>1, <3>1, LandWasOnDisk DEF DiskInv
    <3>2. CASE revisions' = revisions
      BY <2>1, <3>2 DEF DiskInv, RevisionsWereOnDisk
    <3> QED
      BY <2>1, <3>1, <3>2
  <2> QED
    BY <2>1, <2>2 DEF DiskInv
<1> QED
  BY <1>2, <1>3, <1>4, <1>5, <1>6, <1>7, <1>8, <1>9, <1>10, <1>11, <1>12, <1>13, <1>14,
     <1>15, <1>16, <1>17 DEF CommitStep

LEMMA RecoverRowDisk ==
  ASSUME DiskInv, NEW c \in Commits, RecoverRow(c), TypeOK'
  PROVE  DiskInv'
<1> USE DEF fileVars, dbVars, callVars, envVars, history, Working
<1>0. TypeOK /\ recovery.todo \in [Commits -> Phase] /\ recovery \in [mode : RecoveryMode,
        step : RecoveryStep, todo : [Commits -> Phase], row : Commits \cup {NoCommit},
        saw : Contents \cup {Missing}]
  BY DEF DiskInv, TypeOK
<1>1. ASSUME UNCHANGED <<source, callVars, history>>, pc[c] # "idle",
             \A d \in Commits : /\ d # c => phase'[d] = phase[d]
                                /\ recovery'.todo[d] # "none" => recovery.todo[d] # "none",
             recovery'.step # "pick" => /\ recovery'.row = c
                                        /\ recovery'.saw \in {recovery.saw, source},
             recovery'.step = "decide" => recovery'.saw = source,
             recovery'.step \in {"finalize", "abort"} =>
                recovery.step # "pick" /\ recovery'.saw = recovery.saw,
             recovery'.step = "finalize" => recovery.saw = request[c].cand,
             revisions' = revisions \/ (Land(c) /\ request[c].cand \in held)
      PROVE  DiskInv'
  <2>1. RevisionsWereOnDisk'
    <3>1. CASE Land(c) /\ request[c].cand \in held
      BY <1>1, <3>1, LandWasOnDisk DEF DiskInv
    <3>2. CASE revisions' = revisions
      BY <1>1, <3>2 DEF DiskInv, RevisionsWereOnDisk
    <3> QED
      BY <1>1, <3>1, <3>2
  <2>2. recovery'.step \in {"pick", "decide", "finalize", "abort"}
    BY DEF TypeOK, RecoveryStep
  <2>3. recovery'.step # "pick" => recovery'.saw \in held \cup {Missing}
    BY <1>1, <2>2 DEF DiskInv
  <2>4. \A d \in Commits : pc[d] = "idle" => phase'[d] = "none"
    BY <1>1 DEF DiskInv
  <2> QED
    BY <1>1, <2>1, <2>3, <2>4 DEF DiskInv
<1>2. ASSUME NextRow
      PROVE  /\ recovery'.step = "pick"
             /\ \A d \in Commits : recovery'.todo[d] # "none" => recovery.todo[d] # "none"
  BY <1>0, <1>2 DEF NextRow
<1>3. ASSUME recovery.step # "pick", recovery.row = c PROVE pc[c] # "idle"
  BY <1>3 DEF DiskInv
<1>4. CASE HashSource(c)
  <2>1. pc[c] # "idle"
    BY <1>4 DEF HashSource, DiskInv
  <2>2. recovery'.row = c /\ recovery'.saw = source /\ recovery'.step = "decide"
        /\ recovery'.todo = recovery.todo
    BY <1>0, <1>4 DEF HashSource
  <2> QED
    BY <1>1, <1>4, <2>1, <2>2 DEF HashSource
<1>5. CASE KeepEvidence(c)
  BY <1>1, <1>2, <1>3, <1>5 DEF KeepEvidence
<1>6. CASE AbortConflict(c) \/ RollbackRow(c)
  <2>1. \A d \in Commits : d # c => phase'[d] = phase[d]
    BY <1>0, <1>6 DEF AbortConflict, RollbackRow, Journal, TypeOK
  <2> QED
    BY <1>1, <1>2, <1>3, <1>6, <2>1 DEF AbortConflict, RollbackRow
<1>7. CASE RollbackTemp(c)
  <2>1. recovery'.row = c /\ recovery'.saw = recovery.saw /\ recovery'.step = "abort"
        /\ recovery'.todo = recovery.todo
    BY <1>0, <1>7 DEF RollbackTemp
  <2> QED
    BY <1>1, <1>3, <1>7, <2>1 DEF RollbackTemp
<1>8. CASE ResolveRef(c)
  <2>1. CASE NextRow
    BY <1>1, <1>2, <1>3, <1>8, <2>1 DEF ResolveRef
  <2>2. CASE recovery' = [recovery EXCEPT !.step = "finalize"]
    <3>1. recovery'.row = c /\ recovery'.saw = recovery.saw /\ recovery'.step = "finalize"
          /\ recovery'.todo = recovery.todo /\ recovery.saw = request[c].cand
      BY <1>0, <1>8, <2>2 DEF ResolveRef, Replaced
    <3> QED
      BY <1>1, <1>3, <1>8, <3>1 DEF ResolveRef
  <2> QED
    BY <1>8, <2>1, <2>2 DEF ResolveRef
<1>9. CASE ForwardFinalize(c)
  <2>1. recovery.step = "finalize" /\ recovery.row = c /\ NextRow
        /\ (Land(c) \/ (Journal(c, "finalized") /\ revisions' = revisions))
        /\ UNCHANGED <<source, callVars, history>>
    BY <1>9 DEF ForwardFinalize
  <2>2. request[c].cand \in held
    <3>1. recovery.saw = request[c].cand /\ recovery.saw \in held \cup {Missing}
      BY <2>1 DEF DiskInv
    <3>2. request[c].cand # Missing
      BY <1>0, ContentAssumption DEF TypeOK
    <3> QED
      BY <3>1, <3>2
  <2>3. \A d \in Commits : d # c => phase'[d] = phase[d]
    BY <1>0, <2>1 DEF Journal, Land, TypeOK
  <2> QED
    BY <1>1, <1>2, <1>3, <2>1, <2>2, <2>3
<1> QED
  BY <1>4, <1>5, <1>6, <1>7, <1>8, <1>9 DEF RecoverRow

LEMMA NextDisk == DiskInv /\ [Next]_vars => DiskInv'
<1> SUFFICES ASSUME DiskInv, [Next]_vars PROVE DiskInv'
  OBVIOUS
<1> USE DEF fileVars, dbVars, callVars, envVars, history
<1>0. TypeOK /\ TypeOK'
  BY NextTypeOK DEF DiskInv
<1>1. ASSUME NEW c \in Commits, NEW before \in Contents, NEW cand \in Contents, Begin(c, before, cand)
      PROVE  DiskInv'
  <2>1. /\ pc[c] = "idle" /\ pc'[c] = "checkBase"
        /\ \A d \in Commits : d # c => /\ pc'[d] = pc[d] /\ phase'[d] = phase[d]
                                       /\ request'[d] = request[d]
        /\ UNCHANGED <<source, revisions, recovery, held>>
    BY <1>0, <1>1 DEF Begin, At, Goto, Journal, TypeOK
  <2>2. recovery.step # "pick" => recovery.row # c
    BY <2>1 DEF DiskInv
  <2>3. recovery.step # "pick" => request'[recovery.row] = request[recovery.row]
    BY <2>1, <2>2 DEF DiskInv
  <2>4. RevisionsWereOnDisk'
    BY <2>1 DEF DiskInv, RevisionsWereOnDisk
  <2> QED
    BY <1>0, <2>1, <2>2, <2>3, <2>4 DEF DiskInv
<1>2. ASSUME NEW c \in Commits, CommitStep(c) \/ RecoverRow(c) PROVE DiskInv'
  BY <1>0, <1>2, CommitStepDisk, RecoverRowDisk
<1>3. CASE FinishRecovery
  BY <1>0, <1>3 DEF FinishRecovery, DiskInv, Idle, NoRows, RevisionsWereOnDisk
<1>4. CASE RecoverManually \/ Restart
  <2>1. /\ UNCHANGED <<source, held, phase, revisions, request, pc>>
        /\ recovery'.step = "pick" /\ recovery'.todo = UnresolvedRows
    BY <1>4 DEF RecoverManually, Restart, StartRecovery, Idle
  <2>2. \A c \in Commits : UnresolvedRows[c] # "none" => phase[c] # "none"
    BY DEF UnresolvedRows, Unresolved
  <2>3. \A c \in Commits : recovery'.todo[c] # "none" => pc[c] # "idle"
    BY <2>1, <2>2 DEF DiskInv
  <2> QED
    BY <1>0, <2>1, <2>3 DEF DiskInv, RevisionsWereOnDisk
<1>5. CASE Crash
  <2>1. \A c \in Commits : pc'[c] # "finalize" /\ (pc'[c] = "idle" => pc[c] = "idle")
    BY <1>0, <1>5 DEF Crash, Live
  <2> QED
    BY <1>0, <1>5, <2>1 DEF Crash, DiskInv, Idle, NoRows, RevisionsWereOnDisk
<1>6. ASSUME NEW content \in Contents \cup {Missing}, ExternalWrite(content) PROVE DiskInv'
  BY <1>0, <1>6 DEF ExternalWrite, DiskInv, RevisionsWereOnDisk
<1>7. CASE UNCHANGED vars
  BY <1>0, <1>7 DEF vars, DiskInv, RevisionsWereOnDisk
<1> QED
  BY <1>1, <1>2, <1>3, <1>4, <1>5, <1>6, <1>7 DEF Next, RecoverStep

\* Whatever crashes, retries and recoveries there are, at startup or in a live process, a
\* revision of the log is bytes that the source file has really held.
THEOREM RevisionsAreReal == Spec => []RevisionsWereOnDisk
<1>1. Init => DiskInv
  <2> SUFFICES ASSUME Init PROVE DiskInv
    OBVIOUS
  <2>1. /\ source \in held /\ \A c \in Commits : pc[c] = "idle" /\ phase[c] = "none"
        /\ recovery.step = "pick" /\ \A c \in Commits : recovery.todo[c] = "none"
    BY DEF Init, Idle, NoRows
  <2>2. RevisionsWereOnDisk
    BY InitCommitInv DEF CommitInv
  <2> QED
    BY <2>1, <2>2, InitTypeOK DEF DiskInv
<1>2. DiskInv => RevisionsWereOnDisk
  BY DEF DiskInv
<1> QED
  BY <1>1, <1>2, NextDisk, PTL DEF Spec

-----------------------------------------------------------------------------
(***************************************************************************)
(* Refinement                                                              *)
(***************************************************************************)

\* Every step of the protocol is a step of the abstract replace, or none.
LEMMA StepImplements ==
  ASSUME ~ManualRecovery, CommitInv, [Next]_vars
  PROVE  [Promise!AbsNext]_(Promise!absVars)
<1> DEFINE bytes == [c \in Commits |-> request[c].cand]
           fate  == [c \in Commits |-> Fate(c)]
<1> USE DEF fileVars, dbVars, callVars, envVars, history
<1>0. TypeOK /\ \A c \in Commits : CallAt(c) /\ RowMeans(c)
  BY DEF CommitInv
<1>1. ASSUME NEW c \in Commits, phase[c] \in Unresolved,
             \A d \in Commits : d # c => phase'[d] = phase[d],
             phase'[c] = "aborted",
             UNCHANGED <<source, held, request, revisions, landed>>
      PROVE  Promise!Abandon(c)
  <2>1. Fate(c) \in {"open", "replaced"} /\ Fate(c)' = "abandoned"
    BY <1>1 DEF Fate, Unresolved
  <2>2. \A d \in Commits : d # c => Fate(d)' = Fate(d)
    BY <1>1 DEF Fate
  <2>3. fate' = [fate EXCEPT ![c] = "abandoned"]
    BY <2>1, <2>2
  <2> QED
    BY <1>1, <2>1, <2>3 DEF Promise!Abandon, Promise!Settle
<1>2. ASSUME NEW c \in Commits, phase[c] \in Unresolved, Land(c),
             request[c].cand \in held,
             UNCHANGED <<source, held, request, landed>>
      PROVE  Promise!Record(c)
  <2>1. Fate(c) \in {"open", "replaced"} /\ Fate(c)' = "recorded"
    BY <1>0, <1>2 DEF Fate, Unresolved, Land, Journal, TypeOK
  <2>2. \A d \in Commits : d # c => Fate(d)' = Fate(d)
    BY <1>0, <1>2 DEF Fate, Land, Journal, TypeOK
  <2>3. fate' = [fate EXCEPT ![c] = "recorded"]
    BY <2>1, <2>2
  <2> QED
    BY <1>2, <2>1, <2>3 DEF Promise!Record, Promise!Settle, Land
<1>3. ASSUME \A d \in Commits : Fate(d)' = Fate(d),
             UNCHANGED <<source, held, request, revisions>>
      PROVE  UNCHANGED Promise!absVars
  BY <1>3 DEF Promise!absVars
<1>4. ASSUME UNCHANGED <<source, held, request, revisions, phase, landed>>
      PROVE  UNCHANGED Promise!absVars
  BY <1>3, <1>4 DEF Fate
<1>5. ASSUME NEW c \in Commits, NEW before \in Contents, NEW cand \in Contents,
             Begin(c, before, cand)
      PROVE  Promise!Open(c, cand)
  <2>1. phase[c] = "none" /\ c \notin landed
    BY <1>0, <1>5 DEF Begin, At, CallAt, RowMeans
  <2>2. Fate(c) = "none" /\ Fate(c)' = "open"
    BY <1>0, <1>5, <2>1 DEF Begin, Journal, Fate, TypeOK
  <2>3. \A d \in Commits : d # c => Fate(d)' = Fate(d)
    BY <1>0, <1>5 DEF Begin, Journal, Fate, TypeOK
  <2>4. fate' = [fate EXCEPT ![c] = "open"]
    BY <2>2, <2>3
  <2>5. bytes' = [bytes EXCEPT ![c] = cand]
    BY <1>0, <1>5 DEF Begin, TypeOK
  <2> QED
    BY <1>5, <2>2, <2>4, <2>5 DEF Begin, Promise!Open, Promise!Settle
<1>6. ASSUME NEW c \in Commits, CommitStep(c)
      PROVE  \/ \E d \in Commits : Promise!Replace(d) \/ Promise!Record(d) \/ Promise!Abandon(d)
             \/ UNCHANGED Promise!absVars
  <2>0. /\ pc[c] \in Live /\ phase[c] \in Unresolved /\ request' = request
        /\ \A d \in Commits : d # c =>
             phase'[d] = phase[d] /\ (d \in landed' <=> d \in landed)
    BY <1>0, <1>6, CommitStepFrame DEF CallAt, RowMeans, Unresolved, TypeOK, Phase
  <2>1. CASE Rename(c)
    <3>1. Fate(c) = "open" /\ Fate(c)' = "replaced" /\ source' = request[c].cand
          /\ held' = held \cup {request[c].cand}
      BY <1>0, <2>1 DEF Rename, At, CallAt, Fate
    <3>2. \A d \in Commits : d # c => Fate(d)' = Fate(d)
      BY <2>0 DEF Fate
    <3>3. fate' = [fate EXCEPT ![c] = "replaced"]
      BY <3>1, <3>2
    <3> QED
      BY <2>1, <3>1, <3>3 DEF Rename, Promise!Replace, Promise!Settle
  <2>2. CASE RefuseBase(c) \/ AbortCommit(c)
    BY <1>0, <1>1, <2>0, <2>2 DEF RefuseBase, AbortCommit, Journal, TypeOK
  <2>3. CASE Finalize(c)
    <3>1. CASE Land(c)
      BY <1>0, <1>2, <2>0, <2>3, <3>1 DEF Finalize, At, CallAt, RowMeans
    <3>2. CASE UNCHANGED dbVars
      BY <1>4, <2>0, <2>3, <3>2 DEF Finalize
    <3> QED
      BY <2>3, <3>1, <3>2 DEF Finalize
  <2>4. CASE FsyncSource(c) \/ \E content \in Contents : FinishCopy(c, content)
    <3>1. /\ phase'[c] \in Unresolved
          /\ UNCHANGED <<source, held, request, revisions, landed>>
      BY <1>0, <2>4 DEF FsyncSource, FinishCopy, Journal, TypeOK, Unresolved
    <3>2. \A d \in Commits : Fate(d)' = Fate(d)
      BY <2>0, <3>1 DEF Fate, Unresolved
    <3> QED
      BY <1>3, <3>1, <3>2
  <2>5. CASE CheckBase(c) \/ StartCopy(c) \/ FailCopy(c) \/ SealTemp(c) \/ SealSource(c)
             \/ RenameBusy(c) \/ FailRename(c) \/ FailFsync(c) \/ Rehash(c) \/ CleanupTemp(c)
    BY <1>4, <2>5 DEF CheckBase, StartCopy, FailCopy, SealTemp, SealSource, RenameBusy,
       FailRename, FailFsync, Rehash, CleanupTemp
  <2> QED
    BY <1>6, <2>1, <2>2, <2>3, <2>4, <2>5 DEF CommitStep
<1>7. ASSUME NEW c \in Commits, RecoverRow(c)
      PROVE  \/ \E d \in Commits : Promise!Record(d) \/ Promise!Abandon(d)
             \/ UNCHANGED Promise!absVars
  <2>0. /\ phase[c] \in Unresolved /\ UNCHANGED <<source, request, held, landed>>
        /\ \A d \in Commits : d # c => phase'[d] = phase[d]
    BY <1>7, RecoverRowFrame
  <2>1. CASE HashSource(c) \/ KeepEvidence(c) \/ RollbackTemp(c) \/ ResolveRef(c)
    BY <1>4, <2>0, <2>1 DEF HashSource, KeepEvidence, RollbackTemp, ResolveRef
  <2>2. CASE AbortConflict(c) \/ RollbackRow(c)
    BY <1>0, <1>1, <2>0, <2>2 DEF AbortConflict, RollbackRow, Journal, TypeOK
  <2>3. CASE ForwardFinalize(c)
    <3>1. ~HasRevision(c)
      BY <2>0 DEF CommitInv, JournalMatchesLog, Unresolved
    <3>2. Land(c)
      BY <2>3, <3>1 DEF ForwardFinalize
    <3>3. request[c].cand \in held
      BY <1>0, <2>3, ContentAssumption DEF ForwardFinalize, Working, CommitInv, RecoveryAt,
         Replaced, TypeOK
    <3> QED
      BY <1>2, <2>0, <3>2, <3>3
  <2> QED
    BY <1>7, <2>1, <2>2, <2>3 DEF RecoverRow
<1>8. ASSUME NEW content \in Contents \cup {Missing}, ExternalWrite(content)
      PROVE  Promise!Foreign(content)
  BY <1>8 DEF ExternalWrite, Promise!Foreign, Fate
<1>9. CASE RecoverManually \/ FinishRecovery \/ Crash \/ Restart \/ UNCHANGED vars
  BY <1>4, <1>9 DEF RecoverManually, FinishRecovery, Crash, Restart, vars
<1> QED
  BY <1>5, <1>6, <1>7, <1>8, <1>9 DEF Next, RecoverStep, Promise!AbsNext

\* The committer, with crashes and startup recovery, implements the abstract
\* replace: an interrupted commit has no third outcome.
THEOREM CommitImplementsPromise ==
  ASSUME ~ManualRecovery
  PROVE  Spec => ImplementsPromise
<1>1. Init => Promise!AbsInit
  BY DEF Init, NoRows, Fate, Promise!AbsInit
<1>2. CommitInv /\ [Next]_vars => [Promise!AbsNext]_(Promise!absVars)
  BY StepImplements
<1> QED
  BY <1>1, <1>2, CommitInvariant, PTL DEF Spec, ImplementsPromise, Promise!AbsSpec

=============================================================================
