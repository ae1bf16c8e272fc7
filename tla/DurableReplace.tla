--------------------------- MODULE DurableReplace ---------------------------
(***************************************************************************)
(* What the commit path promises (INV-11 and INV-15 of the design): a      *)
(* commit either replaces the whole file by its verified bytes or leaves   *)
(* it alone; it enters the revision log at most once and only with bytes   *)
(* that were on disk; once recorded or abandoned its fate never changes;   *)
(* and a crash adds nothing to this, it only delays.                       *)
(*                                                                         *)
(* Temps, phases, seals, retries, crashes and recovery do not appear.      *)
(***************************************************************************)
EXTENDS Sequences

CONSTANTS
  Commits,   \* commit ids
  Contents,  \* complete file contents
  Missing,   \* the file does not exist
  NoCommit   \* the opening revision's commit id

VARIABLES
  file,      \* the content of the source path
  onDisk,    \* every content the file has had
  bytes,     \* the verified bytes of each commit
  log,       \* the revisions, oldest first
  fate       \* "none", "open", "replaced", "recorded" or "abandoned"

absVars == <<file, onDisk, bytes, log, fate>>

AbsInit ==
  /\ file \in Contents
  /\ onDisk = {file}
  /\ bytes \in [Commits -> Contents]
  /\ log = <<[commit |-> NoCommit, hash |-> file]>>
  /\ fate = [c \in Commits |-> "none"]

Settle(c, f) == fate' = [fate EXCEPT ![c] = f]

\* A commit of content v is asked for.
Open(c, v) ==
  /\ fate[c] = "none"
  /\ Settle(c, "open")
  /\ bytes' = [bytes EXCEPT ![c] = v]
  /\ UNCHANGED <<file, onDisk, log>>

\* The file changes from one complete content to another, in one step.
Replace(c) ==
  /\ fate[c] = "open"
  /\ Settle(c, "replaced")
  /\ file' = bytes[c]
  /\ onDisk' = onDisk \cup {bytes[c]}
  /\ UNCHANGED <<bytes, log>>

\* The revision is recorded.  After a crash only the bytes on disk can be
\* consulted, so an open commit may be recorded when its bytes were there.
Record(c) ==
  /\ fate[c] \in {"open", "replaced"}
  /\ bytes[c] \in onDisk
  /\ Settle(c, "recorded")
  /\ log' = Append(log, [commit |-> c, hash |-> bytes[c]])
  /\ UNCHANGED <<file, onDisk, bytes>>

Abandon(c) ==
  /\ fate[c] \in {"open", "replaced"}
  /\ Settle(c, "abandoned")
  /\ UNCHANGED <<file, onDisk, bytes, log>>

\* Another program saves or deletes the file.
Foreign(v) ==
  /\ file' = v
  /\ onDisk' = onDisk \cup ({v} \ {Missing})
  /\ UNCHANGED <<bytes, log, fate>>

AbsNext ==
  \/ \E c \in Commits, v \in Contents : Open(c, v)
  \/ \E c \in Commits : Replace(c) \/ Record(c) \/ Abandon(c)
  \/ \E v \in Contents \cup {Missing} : Foreign(v)

AbsSpec == AbsInit /\ [][AbsNext]_absVars

=============================================================================
