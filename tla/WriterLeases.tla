---------------------------- MODULE WriterLeases ----------------------------
(***************************************************************************)
(* LeaseManager: at most one writer per session and per document, with     *)
(* fencing tokens that outlive the process (INV-02, INV-03).               *)
(*                                                                         *)
(* Two in-memory indexes of the active leases and, in the database, the    *)
(* greatest token ever issued to a session.  An operation is synchronous:  *)
(* its actions are conjoined to the step of the caller.                    *)
(***************************************************************************)
EXTENDS Naturals

CONSTANTS
  Sessions,    \* session ids; a reopened document is a new session
  Documents,   \* canonical source paths
  DocumentOf,  \* the document each session has open
  NoLease      \* "no lease"

ASSUME SessionAssumption == DocumentOf \in [Sessions -> Documents]

VARIABLES
  active,      \* active: the lease of each session
  bySource,    \* bySource: the lease of each document
  issued       \* lease rows: the latest fencing token of each session

leaseVars == <<active, bySource, issued>>

Owner == {"human", "agent"}
Lease == [session : Sessions, owner : Owner, token : Nat \ {0}]

ASSUME LeaseAssumption == NoLease \notin Lease

LeaseTypeOK ==
  /\ active \in [Sessions -> Lease \cup {NoLease}]
  /\ bySource \in [Documents -> Lease \cup {NoLease}]
  /\ issued \in [Sessions -> Nat]

LeaseInit ==
  /\ active = [s \in Sessions |-> NoLease]
  /\ bySource = [d \in Documents |-> NoLease]
  /\ issued = [s \in Sessions |-> 0]

\* Faulty: a second session of a document is admitted.
CanAcquirePerSession(s) == active[s] = NoLease

CanAcquire(s) == active[s] = NoLease /\ bySource[DocumentOf[s]] = NoLease

\* Faulty: the latest token is handed out again.
NextLeaseReused(s, owner) == [session |-> s, owner |-> owner, token |-> issued[s]]

NextLease(s, owner) == [session |-> s, owner |-> owner, token |-> issued[s] + 1]

\* The row is inserted first, then both indexes are set.
Acquire(s, owner) ==
  /\ CanAcquire(s)
  /\ issued' = [issued EXCEPT ![s] = @ + 1]
  /\ active' = [active EXCEPT ![s] = NextLease(s, owner)]
  /\ bySource' = [bySource EXCEPT ![DocumentOf[s]] = NextLease(s, owner)]

\* Faulty: the document index keeps the released lease.
ReleaseHalf(lease) ==
  /\ active' = [s \in Sessions |-> IF active[s] = lease THEN NoLease ELSE active[s]]
  /\ UNCHANGED <<bySource, issued>>

\* release and releaseForSession: nothing happens to a lease that is not
\* active (NoLease among them).
Release(lease) ==
  LET known == \E s \in Sessions : active[s] = lease IN
  /\ active' = [s \in Sessions |-> IF active[s] = lease THEN NoLease ELSE active[s]]
  /\ bySource' = [d \in Documents |->
                    IF known /\ bySource[d] = lease THEN NoLease ELSE bySource[d]]
  /\ UNCHANGED issued

\* Faulty: tokens start again with the process.
LoseLeasesAndTokens == active' = [s \in Sessions |-> NoLease]
                    /\ bySource' = [d \in Documents |-> NoLease]
                    /\ issued' = [s \in Sessions |-> 0]

\* A new process starts without leases; the rows remain.
LoseLeases ==
  /\ active' = [s \in Sessions |-> NoLease]
  /\ bySource' = [d \in Documents |-> NoLease]
  /\ UNCHANGED issued

-----------------------------------------------------------------------------
\* INV-02: the two indexes describe the same writers, so a document has at
\* most one, whichever sessions have it open; and each session's lease is the
\* last one the database knows of.
LeaseIndexesAgree ==
  /\ \A s \in Sessions : active[s] # NoLease =>
       /\ active[s].session = s
       /\ bySource[DocumentOf[s]] = active[s]
       /\ active[s].token = issued[s]
  /\ \A d \in Documents : bySource[d] # NoLease =>
       /\ DocumentOf[bySource[d].session] = d
       /\ active[bySource[d].session] = bySource[d]
=============================================================================
