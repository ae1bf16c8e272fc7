--------------------------- MODULE ArtifactStore ----------------------------
(***************************************************************************)
(* ArtifactStore: what a ref stands for.  The rest of the runtime names    *)
(* Office bytes by refs; the store alone knows their paths, keeps one ref  *)
(* per file, owns the staging copies and survives the process as rows.     *)
(*                                                                         *)
(* An operation takes a store to the store it leaves: the database answers *)
(* synchronously, so what an operation asks the maps and what it then does *)
(* to them has no other operation in between, and the one slow await, the  *)
(* copy, is to a file that nobody knows of yet.  Two operations have no    *)
(* caller in the runtime: registerStagingFile, which is left out, and      *)
(* purgeStaging.                                                           *)
(***************************************************************************)
EXTENDS Functions

CONSTANTS
  Refs,          \* artifact refs; random, so a new one was never used
  Paths,         \* paths of Office files, as callers spell them
  RealPath,      \* the path without links and aliases, of a file that exists
  StagingPath    \* where the staging copy of each ref is

ASSUME StoreAssumption ==
  /\ RealPath \in [Paths -> Paths] /\ StagingPath \in [Refs -> Paths]
  /\ \A p \in Paths : RealPath[RealPath[p]] = RealPath[p]
  /\ \A r, s \in Refs : RealPath[StagingPath[r]] = RealPath[StagingPath[s]] => r = s

Artifacts == [path : Paths, kind : {"source", "staging"}]

\* The files there are, the two maps in memory, and the table of artifacts.
Stores ==
  {st \in [files : SUBSET Paths,
           byRef : UNION {[R -> Artifacts] : R \in SUBSET Refs},
           byPath : UNION {[P -> Refs] : P \in SUBSET Paths},
           rows : UNION {[R -> Artifacts] : R \in SUBSET Refs}] :
     \A p \in st.files : RealPath[p] = p}

EmptyStore(files) ==
  [files |-> files, byRef |-> [r \in {} |-> r], byPath |-> [p \in {} |-> p], rows |-> [r \in {} |-> r]]

Put(f, x, y) == [z \in DOMAIN f \cup {x} |-> IF z = x THEN y ELSE f[z]]
Drop(f, X) == Restrict(f, DOMAIN f \ X)

-----------------------------------------------------------------------------
Exists(st, p) == RealPath[p] \in st.files

\* canonicalSourceKey: a path that leads nowhere is its own key.
Key(st, p) == IF Exists(st, p) THEN RealPath[p] ELSE p

\* saveArtifact and deleteArtifact: the rows they leave.
Saved(st, r, artifact) == Put(st.rows, r, artifact)
Unsaved(st, R) == Drop(st.rows, R)

\* bindArtifact: the row first, then bindInMemory.
BoundTo(st, r, artifact) ==
  [files |-> st.files, rows |-> Saved(st, r, artifact), byRef |-> Put(st.byRef, r, artifact),
   byPath |-> Put(st.byPath, Key(st, artifact.path), r)]

\* tryResolvePath and tryResolveRefByPath: what they find, if anything.
Resolves(st, r) == r \in DOMAIN st.byRef
NamedBy(st, p) == Key(st, p) \in DOMAIN st.byPath

\* register, of a file that exists, and the ref it answers.
Registered(st, p, new) ==
  IF NamedBy(st, p) THEN st ELSE BoundTo(st, new, [path |-> p, kind |-> "source"])
RefOf(st, p, new) == IF NamedBy(st, p) THEN st.byPath[Key(st, p)] ELSE new

\* createStagingCopy: the copy is on disk before it has a row.
Cloned(st, new) == [st EXCEPT !.files = @ \cup {RealPath[StagingPath[new]]}]
Staged(st, new) ==
  BoundTo(Cloned(st, new), new, [path |-> StagingPath[new], kind |-> "staging"])

\* removeQuiet
Removed(st, p) == [st EXCEPT !.files = @ \ {RealPath[p]}]

\* release, when the file can be removed; the key is taken when it is gone.
ReleasedRef(st, r) ==
  IF ~Resolves(st, r) THEN st
  ELSE LET a == st.byRef[r]
           left == IF a.kind = "staging" THEN Removed(st, a.path) ELSE st
       IN [files |-> left.files, rows |-> Unsaved(st, {r}), byRef |-> Drop(st.byRef, {r}),
           byPath |-> Drop(st.byPath, {Key(left, a.path)})]

\* releaseStaging forgets the ref and not the path.
ReleasedStaging(st, r) ==
  IF ~Resolves(st, r) \/ st.byRef[r].kind # "staging" THEN st
  ELSE [files |-> Removed(st, st.byRef[r].path).files, rows |-> Unsaved(st, {r}),
        byRef |-> Drop(st.byRef, {r}), byPath |-> st.byPath]

\* purgeStaging: the files of the staging directory nobody asks to keep.
Purgeable(st, keep) ==
  {r \in Refs : LET f == RealPath[StagingPath[r]] IN
     f \in st.files /\ ~(f \in DOMAIN st.byPath /\ st.byPath[f] \in keep)}
Purged(st, keep) ==
  LET gone == {RealPath[StagingPath[r]] : r \in Purgeable(st, keep)}
      named == {r \in Purgeable(st, keep) : RealPath[StagingPath[r]] \in DOMAIN st.byPath}
      refs == {st.byPath[RealPath[StagingPath[r]]] : r \in named}
  IN [files |-> st.files \ gone, rows |-> Unsaved(st, refs), byRef |-> Drop(st.byRef, refs),
      byPath |-> Drop(st.byPath, {StagingPath[r] : r \in named})]

\* hydrate, in a new process: every row is bound in memory; of two that have
\* one key the last is found.
Hydrations(st) ==
  {[st EXCEPT !.byRef = st.rows, !.byPath = f] :
     f \in {g \in [{Key(st, st.rows[r].path) : r \in DOMAIN st.rows} -> DOMAIN st.rows] :
              \A k \in DOMAIN g : Key(st, st.rows[g[k]].path) = k}}

-----------------------------------------------------------------------------
StagingFiles == {RealPath[StagingPath[r]] : r \in Refs}

\* A ref that was never used: no artifact, row, path or file has it.
Unused(st, r) ==
  /\ ~Resolves(st, r) /\ r \notin DOMAIN st.rows
  /\ RealPath[StagingPath[r]] \notin st.files \cup DOMAIN st.byPath

\* Documents are opened from outside of the staging directory, and what is
\* released are staging copies.
Sources(st) == {p \in Paths : Exists(st, p) /\ RealPath[p] \notin StagingFiles}
Copies(st) == {r \in DOMAIN st.byRef : st.byRef[r].kind = "staging"}

\* A restart finds every artifact under its real path: its file is there, or
\* the path has no other spelling.
Rehydrates(st) ==
  \A r \in DOMAIN st.rows :
    LET p == st.rows[r].path IN Exists(st, p) \/ RealPath[p] = p

\* What one operation, a restart or another program makes of a store.
Successors(st) ==
  LET new == {r \in Refs : Unused(st, r)} IN
       {Registered(st, p, r) : p \in Sources(st), r \in new}
  \cup (IF \E r \in DOMAIN st.byRef : Exists(st, st.byRef[r].path)
        THEN {Staged(st, r) : r \in new} ELSE {})
  \cup {ReleasedRef(st, r) : r \in Copies(st)} \cup {ReleasedStaging(st, r) : r \in Copies(st)}
  \cup {Purged(st, keep) : keep \in SUBSET Refs}
  \cup (IF Rehydrates(st) THEN Hydrations(st) ELSE {})
  \cup {[st EXCEPT !.files = files] : files \in SUBSET {RealPath[p] : p \in Paths}}

-----------------------------------------------------------------------------
\* Memory and rows agree, and every artifact is found under its real path.
Indexed(st) ==
  /\ st.byRef = st.rows
  /\ \A r \in DOMAIN st.byRef :
       LET f == RealPath[st.byRef[r].path] IN f \in DOMAIN st.byPath /\ st.byPath[f] = r

\* Staging copies are where their refs say, and sources are elsewhere.
StagingApart(st) ==
  \A r \in DOMAIN st.byRef :
    IF st.byRef[r].kind = "staging" THEN st.byRef[r].path = StagingPath[r]
                                    ELSE RealPath[st.byRef[r].path] \notin StagingFiles

\* A key is a real path and leads to the artifact that has it, unless the ref is gone: then
\* it was the path of a staging copy.
PathsLeadHome(st) ==
  \A p \in DOMAIN st.byPath :
    LET r == st.byPath[p] IN
    p = IF Resolves(st, r) THEN RealPath[st.byRef[r].path] ELSE RealPath[StagingPath[r]]

StoreInv(st) == st \in Stores /\ Indexed(st) /\ StagingApart(st) /\ PathsLeadHome(st)

=============================================================================
