------------------------- MODULE XlsxSidecar_proofs --------------------------
(***************************************************************************)
(* Type correctness of the sidecar client, and that it never loses a       *)
(* running process or an open workbook, for any number of callers, starts  *)
(* and sheets.                                                             *)
(***************************************************************************)
EXTENDS XlsxSidecar, TLAPS

\* A caller's record, seq and left without their bounds.
CallRecords == [at : {"idle", "returned", "fellback"} \cup Stages,
                seq : Nat, answer : {"none", "ok", "error"},
                left : 0..MaxSheets, known : BOOLEAN, failed : BOOLEAN]

Typed ==
    /\ child \in {0} \cup Processes
    /\ procs \in [Processes -> {"unborn", "failed", "live", "killed", "gone", "exited"}]
    /\ {startError, cooling, disposed} \subseteq BOOLEAN
    /\ pending \subseteq Requests
    /\ calls \in [Calls -> CallRecords]
    /\ stdin \subseteq [proc : Processes, request : Requests, command : Stages]
    /\ stdout \subseteq [request : Requests, ok : BOOLEAN]
    /\ sessions \subseteq Processes \X Calls

\* How many requests a caller can have made at its stage: two for every sheet that is done.
AskedBy(at, left, seq) ==
    /\ at \in {"idle", "returned", "fellback"} => seq = 0
    /\ at = "open" => seq <= 1
    /\ at = "read" => left >= 1 /\ seq <= 2 + 2 * (MaxSheets - left)
    /\ at = "probe" => left >= 1 /\ seq <= 3 + 2 * (MaxSheets - left)
    /\ at = "close" => seq <= 2 + 2 * MaxSheets

Asked(call) == AskedBy(call.at, call.left, call.seq)

Waits(c) == calls[c].at \in Stages /\ calls[c].answer = "none"

\* The pending requests are the last ones of the callers that wait.
LastIsPending ==
    /\ \A c \in Calls : Waits(c) => [call |-> c, seq |-> calls[c].seq] \in pending
    /\ \A r \in pending : Waits(r.call) /\ r.seq = calls[r.call].seq

\* Every process whose exit the client has still to handle is its child.
ChildIsKnown ==
    \A p \in Processes : procs[p] \in {"failed", "live", "killed", "gone"} => child = p

\* No line is older than its caller's last request, and none comes back from a later one.
LinesAreOld ==
    \A m \in stdout : /\ calls[m.request.call].at # "idle"
                      /\ calls[m.request.call].at \in Stages =>
                             m.request.seq <= calls[m.request.call].seq

\* What a live process has not read is pending and unanswered, at its caller's stage.
UnreadIsPending ==
    \A m \in stdin : /\ procs[m.proc] = "live" /\ m.request \in pending
                     /\ m.command = calls[m.request.call].at
                     /\ \A n \in stdout : n.request # m.request

\* Who holds a workbook open has not been told of its close, nor of a failed open,
\* and no such line is on its way.
HeldOpen ==
    \A s \in sessions :
        /\ procs[s[1]] = "live" /\ calls[s[2]].at \in Stages
        /\ calls[s[2]].at = "close" => calls[s[2]].answer = "none"
        /\ calls[s[2]].at = "open" =>
               calls[s[2]].answer # "error" /\ \A m \in stdin : m.request.call # s[2]
        /\ \A n \in stdout :
               n.request = [call |-> s[2], seq |-> calls[s[2]].seq] /\ Waits(s[2]) =>
                   /\ calls[s[2]].at # "close"
                   /\ calls[s[2]].at = "open" => n.ok

SidecarInv ==
    /\ Typed
    /\ \A c \in Calls : Asked(calls[c])
    /\ LastIsPending
    /\ startError => child = 0
    /\ ~disposed => ChildIsKnown /\ LinesAreOld /\ UnreadIsPending /\ HeldOpen


-----------------------------------------------------------------------------
LEMMA InvImpliesTypeOK ==
  SidecarInv => TypeOK
<1> SUFFICES ASSUME SidecarInv PROVE TypeOK
  OBVIOUS
<1>1. calls \in [Calls -> [at : {"idle", "returned", "fellback"} \cup Stages,
                           seq : 0..MaxRequests, answer : {"none", "ok", "error"},
                           left : 0..MaxSheets, known : BOOLEAN, failed : BOOLEAN]]
  <2>1. \A c \in Calls : calls[c].seq \in 0..MaxRequests
    BY SidecarAssumption DEF SidecarInv, Typed, Asked, AskedBy, CallRecords, Stages, MaxRequests
  <2> QED BY <2>1 DEF SidecarInv, Typed, CallRecords
<1>2. ASSUME NEW c \in Calls
      PROVE  {r \in pending : r.call = c} =
                 IF calls[c].at \in Stages /\ calls[c].answer = "none"
                 THEN {[call |-> c, seq |-> calls[c].seq]} ELSE {}
  <2>1. \A r \in pending : r = [call |-> r.call, seq |-> r.seq]
    BY DEF SidecarInv, Typed, Requests
  <2> QED BY <2>1 DEF SidecarInv, LastIsPending, Waits
<1> QED BY <1>1, <1>2 DEF TypeOK, SidecarInv, Typed

LEMMA IdleRecord ==
  Idle \in CallRecords /\ Idle.seq = 0
BY SidecarAssumption DEF Idle, CallRecords

LEMMA GivenUp ==
  ASSUME NEW r \in CallRecords, NEW s, s = [r EXCEPT !.failed = TRUE, !.left = 0, !.at = "close"]
  PROVE  s \in CallRecords /\ s.seq = r.seq /\ s.at = "close"
<1>1. 0 \in 0..MaxSheets /\ "close" \in Stages
  BY SidecarAssumption DEF Stages
<1> QED BY <1>1 DEF CallRecords

LEMMA InvHolds ==
  Init => SidecarInv
<1> SUFFICES ASSUME Init PROVE SidecarInv
  OBVIOUS
<1>1. Idle \in CallRecords /\ \A c \in Calls : calls[c] = Idle
  BY SidecarAssumption DEF Init, Idle, CallRecords
<1>2. Typed
  BY <1>1 DEF Init, Typed
<1>3. (\A c \in Calls : Asked(calls[c]) /\ ~Waits(c)) /\ LastIsPending
  BY <1>1 DEF Init, Idle, Asked, AskedBy, Waits, Stages, LastIsPending
<1>4. ChildIsKnown /\ LinesAreOld /\ UnreadIsPending /\ HeldOpen
  BY DEF Init, ChildIsKnown, LinesAreOld, UnreadIsPending, HeldOpen
<1> QED BY <1>2, <1>3, <1>4 DEF Init, SidecarInv

\* No live process: no line to read and no workbook open.
LEMMA NobodyLive ==
  ASSUME SidecarInv, ~disposed, \A p \in Processes : procs[p] # "live"
  PROVE  stdin = {} /\ sessions = {}
BY ZenonT(40) DEF SidecarInv, Typed, UnreadIsPending, HeldOpen

\* A request that fails changes nothing but its caller's answer.
LEMMA SettledKeeps ==
  ASSUME SidecarInv, NEW settled \in SUBSET pending, Settled(settled, "error")
  PROVE  /\ pending' \subseteq Requests /\ calls' \in [Calls -> CallRecords]
         /\ \A c \in Calls : /\ calls'[c].at = calls[c].at /\ calls'[c].seq = calls[c].seq
                             /\ Asked(calls'[c])
         /\ LastIsPending'
<1>1. \A r \in pending : /\ r \in Requests /\ r.call \in Calls /\ r = [call |-> r.call, seq |-> r.seq]
                         /\ Waits(r.call) /\ r.seq = calls[r.call].seq
  BY DEF SidecarInv, Typed, Requests, LastIsPending
<1>2. calls' \in [Calls -> CallRecords]
  BY DEF Settled, SidecarInv, Typed, CallRecords
<1>3. \A c \in Calls : /\ calls'[c].at = calls[c].at /\ calls'[c].seq = calls[c].seq
                       /\ calls'[c].left = calls[c].left
                       /\ calls'[c].answer = IF \E r \in settled : r.call = c THEN "error" ELSE calls[c].answer
  BY DEF Settled, SidecarInv, Typed, CallRecords
<1>4. \A c \in Calls : Asked(calls'[c])
  BY <1>3 DEF SidecarInv, Asked
<1>5. LastIsPending'
  <2>1. ASSUME NEW c \in Calls, Waits(c)'
        PROVE  [call |-> c, seq |-> calls'[c].seq] \in pending'
    BY <2>1, <1>3 DEF Waits, Settled, SidecarInv, LastIsPending
  <2>2. ASSUME NEW r \in pending'
        PROVE  Waits(r.call)' /\ r.seq = calls'[r.call].seq
    <3>1. r \in pending /\ r \notin settled
      BY <2>2 DEF Settled
    <3>2. ASSUME NEW q \in settled, q.call = r.call PROVE FALSE
      BY <3>1, <3>2, <1>1
    <3> QED BY <3>1, <3>2, <1>1, <1>3 DEF Waits
  <2> QED BY <2>1, <2>2 DEF LastIsPending
<1> QED BY <1>1, <1>2, <1>3, <1>4, <1>5 DEF Settled

-----------------------------------------------------------------------------
(* A caller that goes on with another request. *)

Moves(c, call) ==
    /\ call.at \in Stages /\ call.seq = calls[c].seq
    /\ \/ calls[c].at = "idle"
       \/ calls[c].at \in Stages /\ calls[c].answer # "none" /\ call.at # "open"
    /\ AskedBy(call.at, call.left, call.seq + 1)

LEMMA AskedOnce ==
  ASSUME SidecarInv, NEW c \in Calls, NEW call \in CallRecords, Moves(c, call)
  PROVE  /\ \A r \in pending : r.call # c
         /\ Asked(call)
         /\ ~disposed => \A m \in stdin : m.request.call # c
         /\ ~disposed /\ calls[c].at = "idle" =>
                \A m \in stdout : m.request.call # c
         /\ ~disposed => \A s \in sessions : s[2] = c => calls[c].at \in Stages \ {"close"}
<1>1. \A r \in pending : r.call # c
  BY DEF Moves, SidecarInv, LastIsPending, Waits, Stages
<1>2. Asked(call)
  BY SidecarAssumption DEF Moves, Asked, AskedBy, CallRecords, Stages
<1> QED BY <1>1, <1>2 DEF Moves, SidecarInv, UnreadIsPending, LinesAreOld, HeldOpen, Stages

LEMMA FailsKeeps ==
  ASSUME SidecarInv, NEW c \in Calls, NEW call \in CallRecords, Moves(c, call), Fails(c, call),
         ~disposed => \A p \in Processes : procs[p] # "live",
         startError' \in BOOLEAN, startError' => child = 0, UNCHANGED <<child, cooling, disposed>>
  PROVE  SidecarInv'
<1> USE DEF Fails, processVars
<1>0. /\ \A r \in pending : r.call # c
      /\ Asked(call)
      /\ ~disposed /\ calls[c].at = "idle" => \A m \in stdout : m.request.call # c
  BY AskedOnce
<1>1. /\ calls' \in [Calls -> CallRecords]
      /\ calls'[c] = [call EXCEPT !.answer = "error"]
      /\ \A d \in Calls \ {c} : calls'[d] = calls[d]
  BY DEF SidecarInv, Typed, CallRecords
<1>2. Typed'
  BY <1>1 DEF SidecarInv, Typed
<1>3. \A d \in Calls : Asked(calls'[d])
  BY <1>0, <1>1 DEF SidecarInv, Asked, CallRecords
<1>4. LastIsPending'
  <2>1. \A r \in pending : r.call \in Calls
    BY DEF SidecarInv, Typed, Requests
  <2> QED BY <1>0, <1>1, <2>1 DEF SidecarInv, LastIsPending, Waits, CallRecords
<1>5. ASSUME ~disposed'
      PROVE  (ChildIsKnown /\ LinesAreOld /\ UnreadIsPending /\ HeldOpen)'
  <2>1. stdin = {} /\ sessions = {}
    BY <1>5, NobodyLive
  <2>2. LinesAreOld'
    <3>1. \A m \in stdout : m.request.call \in Calls
      BY DEF SidecarInv, Typed, Requests
    <3> QED BY <1>0, <1>1, <1>5, <3>1 DEF Moves, SidecarInv, LinesAreOld, CallRecords, Stages
  <2> QED BY <1>5, <2>1, <2>2 DEF SidecarInv, ChildIsKnown, UnreadIsPending, HeldOpen
<1> QED BY <1>2, <1>3, <1>4, <1>5 DEF SidecarInv

LEMMA WritesKeeps ==
  ASSUME SidecarInv, NEW c \in Calls, NEW call \in CallRecords, Moves(c, call),
         NEW p \in Processes, Writes(c, call, p), ~startError,
         \/ procs' = procs /\ child = p
         \/ /\ child = 0 /\ procs[p] = "unborn"
            /\ \E s \in {"live", "failed"} : procs' = [procs EXCEPT ![p] = s],
         child' = p, UNCHANGED <<startError, cooling, disposed>>
  PROVE  SidecarInv'
<1> DEFINE next == [call EXCEPT !.seq = @ + 1, !.answer = "none"]
           request == [call |-> c, seq |-> next.seq]
<1>0. /\ \A r \in pending : r.call # c
      /\ ~disposed => \A m \in stdin : m.request.call # c
      /\ ~disposed /\ calls[c].at = "idle" => \A m \in stdout : m.request.call # c
      /\ ~disposed => \A s \in sessions : s[2] = c => calls[c].at \in Stages \ {"close"}
  BY AskedOnce
<1>1. /\ next \in CallRecords /\ next.seq = calls[c].seq + 1 /\ next.at = call.at
      /\ next.answer = "none" /\ Asked(next) /\ next.seq \in Nat
      /\ next.at = "open" => calls[c].at = "idle"
      /\ next.at \in Stages
  <2>1. /\ next \in CallRecords /\ next.seq = call.seq + 1 /\ next.at = call.at
        /\ next.left = call.left /\ next.answer = "none" /\ next.seq \in Nat
    <3>1. call.seq + 1 \in Nat
      BY DEF CallRecords
    <3> QED BY <3>1 DEF CallRecords
  <2> HIDE DEF next
  <2> QED BY <2>1 DEF Moves, Asked
<1>2. request \in Requests
  <2>1. next.seq \in 1..MaxRequests
    BY <1>1, SidecarAssumption DEF Asked, AskedBy, Stages, MaxRequests, SidecarInv, Typed, CallRecords
  <2> QED BY <2>1 DEF Requests
<1> HIDE DEF next
<1>3. /\ calls' = [calls EXCEPT ![c] = next] /\ pending' = pending \cup {request}
      /\ UNCHANGED <<stdout, sessions>>
      /\ stdin' = stdin \cup {m \in {[proc |-> p, request |-> request, command |-> next.at]} :
                                 procs'[p] = "live"}
  BY DEF Writes, next
<1> HIDE DEF request
<1>4. /\ calls' \in [Calls -> CallRecords] /\ calls'[c] = next
      /\ \A d \in Calls \ {c} : calls'[d] = calls[d]
  BY <1>1, <1>3 DEF SidecarInv, Typed
<1>5. /\ procs' \in [Processes -> {"unborn", "failed", "live", "killed", "gone", "exited"}]
      /\ \A q \in Processes : procs[q] = "live" => procs'[q] = "live"
      /\ ~disposed => \A q \in Processes :
             procs'[q] \in {"failed", "live", "killed", "gone"} => q = p
  <2>0. /\ procs \in [Processes -> {"unborn", "failed", "live", "killed", "gone", "exited"}]
        /\ ~disposed => \A q \in Processes :
               procs[q] \in {"failed", "live", "killed", "gone"} => child = q
    BY DEF SidecarInv, Typed, ChildIsKnown
  <2>1. CASE procs' = procs /\ child = p
    BY <2>0, <2>1
  <2>2. CASE child = 0 /\ procs[p] = "unborn"
             /\ \E s \in {"live", "failed"} : procs' = [procs EXCEPT ![p] = s]
    <3>1. \A q \in Processes : q # 0
      BY DEF Processes
    <3> QED BY <2>0, <2>2, <3>1
  <2> QED BY <2>1, <2>2
<1>6. Typed'
  <2>1. stdin' \subseteq [proc : Processes, request : Requests, command : Stages]
    BY <1>1, <1>2, <1>3 DEF SidecarInv, Typed
  <2> QED BY <1>2, <1>3, <1>4, <1>5, <2>1 DEF SidecarInv, Typed
<1>7. \A d \in Calls : Asked(calls'[d])
  BY <1>1, <1>4 DEF SidecarInv
<1>8. LastIsPending'
  <2>1. request.call = c /\ request.seq = next.seq
    BY DEF request
  <2>2. \A r \in pending : r.call \in Calls
    BY DEF SidecarInv, Typed, Requests
  <2> QED BY <1>0, <1>1, <1>3, <1>4, <2>1, <2>2 DEF SidecarInv, LastIsPending, Waits, request
<1>9. ASSUME ~disposed'
      PROVE  (ChildIsKnown /\ LinesAreOld /\ UnreadIsPending /\ HeldOpen)'
  <2>0. \A m \in stdout : m.request.call \in Calls /\ m.request.seq \in Nat
    BY DEF SidecarInv, Typed, Requests
  <2>1. LinesAreOld'
    <3>1. \A m \in stdout : m.request.call = c => m.request.seq <= calls[c].seq
      BY <1>0, <1>9 DEF SidecarInv, LinesAreOld, Moves
    <3>2. calls[c].seq \in Nat
      BY DEF SidecarInv, Typed, CallRecords
    <3> QED BY <1>1, <1>3, <1>4, <1>9, <2>0, <3>1, <3>2 DEF SidecarInv, LinesAreOld, Stages
  <2>2. \A n \in stdout : n.request # request
    <3>1. \A m \in stdout : m.request.call = c => m.request.seq <= calls[c].seq
      BY <1>0, <1>9 DEF SidecarInv, LinesAreOld, Moves
    <3>2. calls[c].seq \in Nat
      BY DEF SidecarInv, Typed, CallRecords
    <3> QED BY <1>1, <2>0, <3>1, <3>2 DEF request
  <2>3. UnreadIsPending'
    <3>1. ASSUME NEW m \in stdin
          PROVE  /\ procs'[m.proc] = "live" /\ m.request \in pending'
                 /\ m.command = calls'[m.request.call].at
                 /\ \A n \in stdout' : n.request # m.request
      BY <1>0, <1>3, <1>4, <1>5, <1>9, <3>1 DEF SidecarInv, UnreadIsPending, Typed, Requests
    <3>2. ASSUME NEW m \in stdin' \ stdin
          PROVE  /\ procs'[m.proc] = "live" /\ m.request \in pending'
                 /\ m.command = calls'[m.request.call].at
                 /\ \A n \in stdout' : n.request # m.request
      <4>1. m = [proc |-> p, request |-> request, command |-> next.at] /\ procs'[p] = "live"
        BY <1>3, <3>2
      <4>2. m.proc = p /\ m.request = request /\ m.command = next.at /\ request.call = c
        BY <4>1 DEF request
      <4> QED BY <1>3, <1>4, <2>2, <4>1, <4>2
    <3> QED BY <3>1, <3>2 DEF UnreadIsPending
  <2>4. HeldOpen'
    <3> SUFFICES ASSUME NEW s \in sessions
                 PROVE  /\ procs'[s[1]] = "live" /\ calls'[s[2]].at \in Stages
                        /\ calls'[s[2]].at = "close" => calls'[s[2]].answer = "none"
                        /\ calls'[s[2]].at = "open" =>
                               /\ calls'[s[2]].answer # "error"
                               /\ \A m \in stdin' : m.request.call # s[2]
                        /\ \A n \in stdout :
                               n.request = [call |-> s[2], seq |-> calls'[s[2]].seq] /\ Waits(s[2])' =>
                                   /\ calls'[s[2]].at # "close"
                                   /\ calls'[s[2]].at = "open" => n.ok
      BY <1>3 DEF HeldOpen
    <3>1. s[1] \in Processes /\ s[2] \in Calls
      BY DEF SidecarInv, Typed
    <3>2. CASE s[2] = c
      <4>1. calls[c].at # "idle" /\ next.at # "open"
        BY <1>0, <1>1, <1>9, <3>2 DEF Stages
      <4>2. \A n \in stdout : n.request # [call |-> c, seq |-> next.seq]
        BY <2>2 DEF request
      <4> QED BY <1>1, <1>4, <1>5, <1>9, <3>1, <3>2, <4>1, <4>2 DEF SidecarInv, HeldOpen
    <3>3. CASE s[2] # c
      <4>1. \A m \in stdin' \ stdin : m.request.call = c
        BY <1>3 DEF request
      <4> QED BY <1>4, <1>5, <1>9, <3>1, <3>3, <4>1 DEF SidecarInv, HeldOpen, Waits
    <3> QED BY <3>2, <3>3
  <2>5. ChildIsKnown'
    BY <1>5, <1>9 DEF ChildIsKnown
  <2> QED BY <2>1, <2>3, <2>4, <2>5
<1> QED BY <1>6, <1>7, <1>8, <1>9 DEF SidecarInv

LEMMA AskKeeps ==
  ASSUME SidecarInv, NEW c \in Calls, NEW call \in CallRecords, Moves(c, call), Ask(c, call)
  PROVE  SidecarInv'
<1>1. CASE NotStarted(c, call)
  <2>1. startError' \in BOOLEAN /\ child = 0
    BY <1>1 DEF NotStarted, SidecarInv, Typed
  <2>2. ~disposed => \A p \in Processes : procs[p] # "live"
    BY <2>1 DEF SidecarInv, ChildIsKnown, Processes
  <2> QED BY <1>1, <2>1, <2>2, FailsKeeps DEF NotStarted
<1>2. CASE Starts(c, call)
  BY <1>2, WritesKeeps DEF Starts
<1>3. CASE Reuses(c, call)
  <2>1. child \in Processes
    BY <1>3 DEF Reuses, SidecarInv, Typed
  <2>2. CASE UNCHANGED procs /\ Writes(c, call, child)
    BY <1>3, <2>1, <2>2, WritesKeeps DEF Reuses, clientVars
  <2>3. CASE procs[child] = "gone" /\ Fails(c, call)
    <3>1. ~disposed => \A p \in Processes : procs[p] # "live"
      BY <2>1, <2>3 DEF SidecarInv, ChildIsKnown
    <3> QED BY <1>3, <2>3, <3>1, FailsKeeps DEF Reuses, clientVars, SidecarInv, Typed
  <2> QED BY <1>3, <2>2, <2>3 DEF Reuses
<1> QED BY <1>1, <1>2, <1>3 DEF Ask

LEMMA EndsKeeps ==
  ASSUME SidecarInv, NEW c \in Calls, NEW at \in {"returned", "fellback"},
         Ends(c, at), calls[c].at \in Stages, calls[c].answer # "none",
         ~disposed => \A s \in sessions : s[2] # c
  PROVE  SidecarInv'
<1> DEFINE last == [Idle EXCEPT !.at = at]
<1>1. /\ last \in CallRecords /\ Asked(last) /\ last.at = at /\ at \notin Stages /\ at # "idle"
  BY IdleRecord DEF CallRecords, Asked, AskedBy, Stages
<1> HIDE DEF last
<1>2. /\ calls' \in [Calls -> CallRecords] /\ calls'[c] = last
      /\ \A d \in Calls \ {c} : calls'[d] = calls[d]
      /\ UNCHANGED <<child, startError, cooling, disposed, procs, stdin, stdout, sessions, pending>>
  BY <1>1 DEF Ends, last, SidecarInv, Typed, clientVars, processVars
<1>3. \A r \in pending : r.call \in Calls \ {c}
  BY DEF SidecarInv, Typed, LastIsPending, Waits, Requests
<1>4. Typed' /\ (\A d \in Calls : Asked(calls'[d]))
  BY <1>1, <1>2 DEF SidecarInv, Typed
<1>5. LastIsPending'
  BY <1>1, <1>2, <1>3 DEF SidecarInv, LastIsPending, Waits
<1>6. ASSUME ~disposed'
      PROVE  (ChildIsKnown /\ LinesAreOld /\ UnreadIsPending /\ HeldOpen)'
  <2>1. ChildIsKnown'
    BY <1>2, <1>6 DEF SidecarInv, ChildIsKnown
  <2>2. LinesAreOld'
    <3>1. \A m \in stdout : m.request.call \in Calls
      BY DEF SidecarInv, Typed, Requests
    <3> QED BY <1>1, <1>2, <1>6, <3>1 DEF SidecarInv, LinesAreOld
  <2>3. UnreadIsPending'
    BY <1>2, <1>3, <1>6 DEF SidecarInv, UnreadIsPending
  <2>4. HeldOpen'
    <3>1. \A s \in sessions : s[2] \in Calls \ {c}
      BY <1>2, <1>6 DEF SidecarInv, Typed
    <3> QED BY <1>2, <1>6, <3>1 DEF SidecarInv, HeldOpen, Waits
  <2> QED BY <2>1, <2>2, <2>3, <2>4
<1> QED BY <1>2, <1>4, <1>5, <1>6 DEF SidecarInv

LEMMA CallKeeps ==
  ASSUME SidecarInv, NEW c \in Calls, Call(c)
  PROVE  SidecarInv'
<1> DEFINE call == [Idle EXCEPT !.at = "open"]
<1>1. call \in CallRecords /\ call.at = "open" /\ call.seq = 0
  BY IdleRecord DEF CallRecords, Stages
<1> HIDE DEF call
<1>2. calls[c].seq = 0
  BY DEF Call, SidecarInv, Asked, AskedBy
<1>3. Moves(c, call)
  BY <1>1, <1>2 DEF Moves, Call, AskedBy, Stages
<1> QED BY <1>1, <1>3, AskKeeps DEF Call, call

LEMMA ContinueKeeps ==
  ASSUME SidecarInv, NEW c \in Calls, Continue(c)
  PROVE  SidecarInv'
<1>0. /\ calls[c] \in CallRecords /\ Asked(calls[c])
      /\ MaxSheets \in Nat
  BY SidecarAssumption DEF SidecarInv, Typed
<1>1. CASE OpenSettled(c)
  <2>1. CASE calls[c].answer = "error" /\ Ends(c, "fellback")
    BY <1>1, <2>1, EndsKeeps DEF OpenSettled, Stages, SidecarInv, HeldOpen
  <2>2. CASE calls[c].answer = "ok"
    <3>1. PICK left \in 0..MaxSheets, known \in BOOLEAN :
               Ask(c, [calls[c] EXCEPT !.left = left, !.known = known,
                                       !.at = IF left = 0 THEN "close" ELSE "read"])
      BY <1>0, <1>1, <2>2 DEF OpenSettled, Goes, CallRecords
    <3> DEFINE call == [calls[c] EXCEPT !.left = left, !.known = known,
                                        !.at = IF left = 0 THEN "close" ELSE "read"]
    <3>2. /\ call \in CallRecords /\ call.seq = calls[c].seq /\ call.left = left
          /\ call.at = IF left = 0 THEN "close" ELSE "read"
      BY <1>0 DEF CallRecords, Stages
    <3>3. calls[c].seq \in Nat /\ calls[c].seq <= 1 /\ calls[c].at = "open"
      BY <1>0, <1>1 DEF OpenSettled, CallRecords, Asked, AskedBy
    <3> HIDE DEF call
    <3>4. Moves(c, call)
      BY <1>0, <2>2, <3>2, <3>3 DEF Moves, AskedBy, Stages
    <3> USE DEF call
    <3> QED BY <3>1, <3>2, <3>4, AskKeeps
  <2> QED BY <1>1, <2>1, <2>2 DEF OpenSettled
<1>2. CASE ReadSettled(c)
  <2>0. calls[c].at \in {"read", "probe"}
    BY <1>2 DEF ReadSettled
  <2>1. CASE calls[c].answer = "ok" /\ Goes(c, [calls[c] EXCEPT !.left = @ - 1])
    <3> DEFINE call == [calls[c] EXCEPT !.left = @ - 1,
                                        !.at = IF calls[c].left - 1 = 0 THEN "close" ELSE "read"]
    <3>1. Ask(c, call)
      BY <1>0, <2>1 DEF Goes, CallRecords
    <3>2. /\ calls[c].seq \in Nat /\ calls[c].left \in 1..MaxSheets
          /\ calls[c].seq <= 3 + 2 * (MaxSheets - calls[c].left)
      BY <1>0, <2>0 DEF CallRecords, Asked, AskedBy
    <3>3. /\ call \in CallRecords /\ call.seq = calls[c].seq /\ call.left = calls[c].left - 1
          /\ call.at = IF calls[c].left - 1 = 0 THEN "close" ELSE "read"
      <4> DEFINE left == calls[c].left - 1
                 at == IF calls[c].left - 1 = 0 THEN "close" ELSE "read"
      <4>1. left \in 0..MaxSheets /\ at \in Stages
        BY <1>0, <3>2 DEF Stages
      <4>2. call = [calls[c] EXCEPT !.left = left, !.at = at]
        OBVIOUS
      <4> HIDE DEF call, left, at
      <4>3. call \in CallRecords /\ call.seq = calls[c].seq /\ call.at = at /\ call.left = left
        <5>1. ASSUME NEW r \in CallRecords, call = [r EXCEPT !.left = left, !.at = at]
              PROVE  call \in CallRecords /\ call.seq = r.seq /\ call.at = at /\ call.left = left
          BY <4>1, <5>1 DEF CallRecords
        <5> QED BY <1>0, <4>2, <5>1
      <4> QED BY <4>3 DEF left, at
    <3> HIDE DEF call
    <3>4. Moves(c, call)
      BY <1>0, <2>0, <2>1, <3>2, <3>3 DEF Moves, AskedBy, Stages
    <3> USE DEF call
    <3> QED BY <3>1, <3>3, <3>4, AskKeeps
  <2>2. CASE /\ calls[c].answer = "error" /\ calls[c].at = "read"
             /\ Ask(c, [calls[c] EXCEPT !.at = "probe"])
    <3>1. [calls[c] EXCEPT !.at = "probe"] \in CallRecords /\ Moves(c, [calls[c] EXCEPT !.at = "probe"])
      BY <1>0, <2>2 DEF CallRecords, Moves, Asked, AskedBy, Stages
    <3> QED BY <2>2, <3>1, AskKeeps
  <2>3. CASE calls[c].answer = "error" /\ Goes(c, [calls[c] EXCEPT !.failed = TRUE, !.left = 0])
    <3> DEFINE call == [calls[c] EXCEPT !.failed = TRUE, !.left = 0, !.at = "close"]
    <3>1. Ask(c, call)
      BY <1>0, <2>3 DEF Goes, CallRecords
    <3>2. /\ calls[c].seq \in Nat /\ calls[c].left \in 1..MaxSheets
          /\ calls[c].seq <= 3 + 2 * (MaxSheets - calls[c].left)
      BY <1>0, <2>0 DEF CallRecords, Asked, AskedBy
    <3>3. call \in CallRecords /\ call.seq = calls[c].seq /\ call.at = "close"
      BY <1>0, GivenUp, Zenon
    <3> HIDE DEF call
    <3>4. Moves(c, call)
      BY <1>0, <2>0, <2>3, <3>2, <3>3 DEF Moves, AskedBy, Stages
    <3> USE DEF call
    <3> QED BY <3>1, <3>3, <3>4, AskKeeps
  <2> QED BY <1>2, <2>1, <2>2, <2>3 DEF ReadSettled
<1>3. CASE CloseSettled(c)
  <2>1. ~disposed => \A s \in sessions : s[2] # c
    BY <1>3 DEF CloseSettled, SidecarInv, HeldOpen
  <2> QED BY <1>3, <2>1, EndsKeeps DEF CloseSettled, Stages
<1> QED BY <1>1, <1>2, <1>3 DEF Continue

-----------------------------------------------------------------------------
(* The handlers of the client, and the process. *)

LEMMA ServeKeeps ==
  ASSUME SidecarInv, NEW m \in stdin, Serve(m)
  PROVE  SidecarInv'
<1> DEFINE mine == <<m.proc, m.request.call>>
<1>1. PICK ok \in BOOLEAN :
          /\ sessions' = CASE m.command = "open" /\ ok -> sessions \cup {mine}
                           [] m.command = "close" -> sessions \ {mine}
                           [] OTHER -> sessions
          /\ stdout' = IF m.request \in pending
                       THEN stdout \cup {[request |-> m.request, ok |-> ok]} ELSE stdout
  BY DEF Serve
<1>2. /\ m.proc \in Processes /\ m.request \in Requests /\ m.request.call \in Calls
      /\ m.command \in Stages
      /\ m = [proc |-> m.proc, request |-> m.request, command |-> m.command]
      /\ m.request = [call |-> m.request.call, seq |-> m.request.seq]
  BY DEF SidecarInv, Typed, Requests
<1>3. /\ stdin' = stdin \ {m}
      /\ UNCHANGED <<child, startError, cooling, disposed, procs, pending, calls>>
  BY DEF Serve, clientVars
<1>4. sessions' \subseteq sessions \cup {mine}
  BY <1>1
<1>5. Typed'
  BY <1>1, <1>2, <1>3, <1>4 DEF SidecarInv, Typed
<1>6. (\A c \in Calls : Asked(calls[c]))' /\ LastIsPending' /\ (startError => child = 0)'
  BY <1>3 DEF SidecarInv, LastIsPending, Waits
<1>7. ASSUME ~disposed'
      PROVE  (ChildIsKnown /\ LinesAreOld /\ UnreadIsPending /\ HeldOpen)'
  <2>0. /\ ChildIsKnown /\ LinesAreOld /\ UnreadIsPending /\ HeldOpen /\ LastIsPending
    BY <1>3, <1>7 DEF SidecarInv
  <2>1. /\ m.request \in pending /\ procs[m.proc] = "live" /\ m.command = calls[m.request.call].at
        /\ Waits(m.request.call) /\ m.request.seq = calls[m.request.call].seq
        /\ \A n \in stdout : n.request # m.request
    BY <2>0 DEF UnreadIsPending, LastIsPending
  <2>2. \A n \in stdout' \ stdout : n.request = m.request /\ n.ok = ok
    BY <1>1
  <2>3. ChildIsKnown'
    BY <1>3, <2>0 DEF ChildIsKnown
  <2>4. LinesAreOld'
    <3>1. calls[m.request.call].seq \in Nat
      BY <1>2 DEF SidecarInv, Typed, CallRecords
    <3> QED BY <1>3, <2>0, <2>1, <2>2, <3>1 DEF LinesAreOld, Waits, Stages
  <2>5. ASSUME NEW n \in stdin', n.request = m.request
        PROVE  FALSE
    <3>1. n \in stdin /\ n # m
      BY <1>3, <2>5
    <3>2. n.proc \in Processes /\ n = [proc |-> n.proc, request |-> n.request, command |-> n.command]
      BY <3>1 DEF SidecarInv, Typed
    <3>3. n.proc = m.proc /\ n.command = m.command
      BY <1>2, <2>0, <2>1, <2>5, <3>1, <3>2 DEF UnreadIsPending, ChildIsKnown
    <3> QED BY <1>2, <2>5, <3>1, <3>2, <3>3
  <2>6. UnreadIsPending'
    BY <1>3, <2>0, <2>2, <2>5 DEF UnreadIsPending
  <2>7. HeldOpen'
    <3> SUFFICES ASSUME NEW s \in sessions'
                 PROVE  /\ procs[s[1]] = "live" /\ calls[s[2]].at \in Stages
                        /\ calls[s[2]].at = "close" => calls[s[2]].answer = "none"
                        /\ calls[s[2]].at = "open" =>
                               /\ calls[s[2]].answer # "error"
                               /\ \A n \in stdin' : n.request.call # s[2]
                        /\ \A n \in stdout' :
                               n.request = [call |-> s[2], seq |-> calls[s[2]].seq] /\ Waits(s[2]) =>
                                   /\ calls[s[2]].at # "close"
                                   /\ calls[s[2]].at = "open" => n.ok
      BY <1>3 DEF HeldOpen, Waits
    <3>0. \A n \in stdin' : n.request.call = m.request.call => n.request = m.request
      <4>1. \A n \in stdin : /\ n.request.seq = calls[n.request.call].seq
                             /\ n.request = [call |-> n.request.call, seq |-> n.request.seq]
        BY <2>0 DEF UnreadIsPending, LastIsPending, SidecarInv, Typed, Requests
      <4> QED BY <1>2, <1>3, <2>1, <4>1
    <3>1. CASE s \notin sessions
      <4>1. s = mine /\ ok /\ calls[m.request.call].at = "open"
        BY <1>1, <1>4, <2>1, <3>1
      <4>2. \A n \in stdout : n.request # [call |-> m.request.call, seq |-> calls[m.request.call].seq]
        BY <1>2, <2>1
      <4>3. \A n \in stdin' : n.request.call # m.request.call
        BY <3>0, <2>5
      <4> QED BY <2>1, <2>2, <4>1, <4>2, <4>3 DEF Waits, Stages
    <3>2. CASE s \in sessions
      <4>0. s[1] \in Processes /\ s[2] \in Calls /\ s = <<s[1], s[2]>>
        BY <3>2 DEF SidecarInv, Typed
      <4>1. CASE s[2] # m.request.call
        BY <1>3, <2>0, <2>2, <3>2, <4>0, <4>1, <1>2 DEF HeldOpen
      <4>2. CASE s[2] = m.request.call
        <5>1. s[1] = m.proc
          BY <1>2, <2>0, <2>1, <3>2, <4>0 DEF HeldOpen, ChildIsKnown
        <5>2. calls[s[2]].at # "close"
          <6>1. s = mine
            BY <4>0, <4>2, <5>1
          <6> QED BY <1>1, <2>1, <4>2, <6>1
        <5>3. calls[s[2]].at # "open"
          BY <2>0, <3>2, <4>2 DEF HeldOpen
        <5> QED BY <2>0, <3>2, <5>2, <5>3 DEF HeldOpen
      <4> QED BY <4>1, <4>2
    <3> QED BY <3>1, <3>2
  <2> QED BY <2>3, <2>4, <2>6, <2>7
<1> QED BY <1>5, <1>6, <1>7 DEF SidecarInv

LEMMA LineKeeps ==
  ASSUME SidecarInv, NEW m \in stdout, Line(m)
  PROVE  SidecarInv'
<1>0. /\ m.request \in Requests /\ m.request.call \in Calls /\ m.ok \in BOOLEAN
      /\ m.request = [call |-> m.request.call, seq |-> m.request.seq]
      /\ stdout' = stdout \ {m}
      /\ UNCHANGED <<child, startError, cooling, disposed, procs, stdin, sessions>>
  BY DEF SidecarInv, Typed, Requests, Line, clientVars
<1>1. CASE UNCHANGED <<pending, calls>>
  BY <1>0, <1>1 DEF SidecarInv, Typed, LastIsPending, Waits, ChildIsKnown, LinesAreOld, UnreadIsPending, HeldOpen
<1>2. CASE /\ m.request \in pending
           /\ pending' = pending \ {m.request}
           /\ calls' = [calls EXCEPT ![m.request.call] =
                  [@ EXCEPT !.answer = IF m.ok THEN "ok" ELSE "error"]]
  <2> DEFINE c == m.request.call
  <2>0. c \in Calls /\ Waits(c) /\ m.request.seq = calls[c].seq
    BY <1>0, <1>2 DEF SidecarInv, LastIsPending
  <2>1. /\ calls' \in [Calls -> CallRecords]
        /\ \A d \in Calls : calls'[d].at = calls[d].at /\ calls'[d].seq = calls[d].seq
                            /\ calls'[d].left = calls[d].left
        /\ calls'[c].answer = IF m.ok THEN "ok" ELSE "error"
        /\ \A d \in Calls \ {c} : calls'[d] = calls[d]
    <3>1. [calls[c] EXCEPT !.answer = IF m.ok THEN "ok" ELSE "error"] \in CallRecords
      BY <2>0 DEF SidecarInv, Typed, CallRecords
    <3> QED BY <1>2, <2>0, <3>1 DEF SidecarInv, Typed, CallRecords
  <2>2. Typed'
    BY <1>0, <1>2, <2>1 DEF SidecarInv, Typed
  <2>3. (\A d \in Calls : Asked(calls[d]))'
    BY <2>1 DEF SidecarInv, Asked
  <2>4. \A r \in pending : r \in Requests /\ r.call \in Calls /\ r = [call |-> r.call, seq |-> r.seq]
                           /\ r.seq = calls[r.call].seq
    BY DEF SidecarInv, Typed, Requests, LastIsPending
  <2>5. LastIsPending'
    <3>1. \A r \in pending' : r.call # c
      BY <1>0, <1>2, <2>0, <2>4
    <3>2. ~Waits(c)'
      BY <2>1 DEF Waits
    <3>3. \A d \in Calls : Waits(d)' => d # c /\ Waits(d)
      BY <2>1, <3>2 DEF Waits
    <3> HIDE DEF c
    <3>4. \A d \in Calls \ {c} : [call |-> d, seq |-> calls[d].seq] # m.request
      BY <1>0 DEF c
    <3> QED BY <1>2, <2>1, <2>4, <3>1, <3>3, <3>4 DEF SidecarInv, LastIsPending, Waits
  <2>6. ASSUME ~disposed'
        PROVE  (ChildIsKnown /\ LinesAreOld /\ UnreadIsPending /\ HeldOpen)'
    <3>0. ChildIsKnown /\ LinesAreOld /\ UnreadIsPending /\ HeldOpen
      BY <1>0, <2>6 DEF SidecarInv
    <3>1. ChildIsKnown'
      BY <1>0, <3>0 DEF ChildIsKnown
    <3>2. LinesAreOld'
      <4>1. \A n \in stdout : n.request.call \in Calls
        BY DEF SidecarInv, Typed, Requests
      <4> QED BY <1>0, <2>1, <3>0, <4>1 DEF LinesAreOld
    <3>3. UnreadIsPending'
      <4>1. \A n \in stdin : n.request # m.request /\ n.request.call \in Calls
        BY <3>0 DEF UnreadIsPending, SidecarInv, Typed, Requests
      <4> QED BY <1>0, <1>2, <2>1, <3>0, <4>1 DEF UnreadIsPending
    <3>4. HeldOpen'
      <4> SUFFICES ASSUME NEW s \in sessions
                   PROVE  /\ procs[s[1]] = "live" /\ calls'[s[2]].at \in Stages
                          /\ calls'[s[2]].at = "close" => calls'[s[2]].answer = "none"
                          /\ calls'[s[2]].at = "open" =>
                                 /\ calls'[s[2]].answer # "error"
                                 /\ \A n \in stdin : n.request.call # s[2]
                          /\ \A n \in stdout' :
                                 n.request = [call |-> s[2], seq |-> calls'[s[2]].seq] /\ Waits(s[2])' =>
                                     /\ calls'[s[2]].at # "close"
                                     /\ calls'[s[2]].at = "open" => n.ok
        BY <1>0 DEF HeldOpen
      <4>1. s[2] \in Calls
        BY DEF SidecarInv, Typed
      <4>2. CASE s[2] = c
        <5>1. m.request = [call |-> s[2], seq |-> calls[s[2]].seq] /\ Waits(s[2])
          BY <1>0, <2>0, <4>2
        <5>2. calls[s[2]].at # "close" /\ (calls[s[2]].at = "open" => m.ok)
          BY <3>0, <5>1 DEF HeldOpen
        <5> QED BY <2>1, <3>0, <4>1, <4>2, <5>2 DEF HeldOpen, Waits
      <4>3. CASE s[2] # c
        BY <1>0, <2>1, <3>0, <4>1, <4>3 DEF HeldOpen, Waits
      <4> QED BY <4>2, <4>3
    <3> QED BY <3>1, <3>2, <3>3, <3>4
  <2> QED BY <1>0, <2>2, <2>3, <2>5, <2>6 DEF SidecarInv
<1> QED BY <1>1, <1>2 DEF Line

LEMMA TimeoutKeeps ==
  ASSUME SidecarInv, NEW r \in pending, Timeout(r)
  PROVE  SidecarInv'
<1>1. Settled({r}, "error") /\ Kill(child) /\ cooling' = TRUE
      /\ UNCHANGED <<child, startError, disposed, stdout>>
  BY DEF Timeout
<1>2. /\ pending' \subseteq Requests /\ calls' \in [Calls -> CallRecords]
      /\ \A c \in Calls : /\ calls'[c].at = calls[c].at /\ calls'[c].seq = calls[c].seq
                          /\ Asked(calls'[c])
      /\ LastIsPending'
  BY <1>1, SettledKeeps
<1>3. procs' \in [Processes -> {"unborn", "failed", "live", "killed", "gone", "exited"}]
      /\ \A q \in Processes : procs'[q] = IF q = child /\ procs[q] = "live" THEN "killed" ELSE procs[q]
  BY <1>1 DEF Kill, Ceases, SidecarInv, Typed
<1>4. Typed'
  BY <1>1, <1>2, <1>3 DEF SidecarInv, Typed, Kill, Ceases
<1>5. ASSUME ~disposed'
      PROVE  (ChildIsKnown /\ LinesAreOld /\ UnreadIsPending /\ HeldOpen)'
  <2>0. ChildIsKnown /\ LinesAreOld /\ UnreadIsPending /\ HeldOpen
    BY <1>1, <1>5 DEF SidecarInv
  <2>1. ChildIsKnown'
    BY <1>1, <1>3, <2>0 DEF ChildIsKnown
  <2>2. stdin' = {} /\ sessions' = {}
    <3>1. \A m \in stdin : m.proc \in Processes /\ procs[m.proc] = "live"
      BY <2>0 DEF UnreadIsPending, SidecarInv, Typed
    <3>2. \A s \in sessions : s[1] \in Processes /\ procs[s[1]] = "live"
      BY <2>0 DEF HeldOpen, SidecarInv, Typed
    <3> QED BY <1>1, <2>0, <3>1, <3>2 DEF ChildIsKnown, Kill, Ceases
  <2>3. LinesAreOld'
    <3>1. \A m \in stdout : m.request.call \in Calls
      BY DEF SidecarInv, Typed, Requests
    <3> QED BY <1>1, <1>2, <2>0, <3>1 DEF LinesAreOld
  <2> QED BY <2>1, <2>2, <2>3 DEF UnreadIsPending, HeldOpen
<1> QED BY <1>1, <1>2, <1>4, <1>5 DEF SidecarInv

\* Everything pending fails, when no process of the client is live.
LEMMA AllFailKeeps ==
  ASSUME SidecarInv, FailAllPending, startError' \in BOOLEAN, cooling' \in BOOLEAN, disposed' \in BOOLEAN,
         child' \in {0} \cup Processes, startError' => child' = 0,
         procs' \in [Processes -> {"unborn", "failed", "live", "killed", "gone", "exited"}],
         stdin' \subseteq stdin, sessions' \subseteq sessions,
         ~disposed' => ~disposed /\ ChildIsKnown' /\ \A p \in Processes : procs[p] # "live"
  PROVE  SidecarInv'
<1>1. /\ pending' \subseteq Requests /\ calls' \in [Calls -> CallRecords]
      /\ \A c \in Calls : Asked(calls'[c])
      /\ LastIsPending'
  BY SettledKeeps DEF FailAllPending
<1>2. stdout' = {}
  BY DEF FailAllPending
<1>3. Typed'
  BY <1>1, <1>2 DEF SidecarInv, Typed
<1>4. ~disposed' => stdin' = {} /\ sessions' = {}
  BY NobodyLive
<1> QED BY <1>1, <1>2, <1>3, <1>4 DEF SidecarInv, LinesAreOld, UnreadIsPending, HeldOpen

LEMMA HandlersKeep ==
  ASSUME SidecarInv, NEW p \in Processes, StdinError(p) \/ Exit(p) \/ StartFails(p)
  PROVE  SidecarInv'
<1>1. CASE StdinError(p)
  <2>1. ~disposed => \A q \in Processes : procs[q] # "live"
    BY <1>1 DEF StdinError, SidecarInv, ChildIsKnown
  <2> QED BY <1>1, <2>1, AllFailKeeps DEF StdinError, clientVars, SidecarInv, Typed, ChildIsKnown
<1>2. CASE Exit(p) \/ StartFails(p)
  <2>1. Handled(p) /\ procs[p] \in {"gone", "failed"} /\ startError' \in BOOLEAN
    BY <1>2 DEF Exit, StartFails, SidecarInv, Typed
  <2>2. ~disposed => \A q \in Processes : procs[q] # "live"
    BY <2>1 DEF SidecarInv, ChildIsKnown
  <2>3. procs' \in [Processes -> {"unborn", "failed", "live", "killed", "gone", "exited"}]
        /\ \A q \in Processes : procs'[q] = IF q = p THEN "exited" ELSE procs[q]
    BY <2>1 DEF Handled, SidecarInv, Typed
  <2>4. ~disposed' => ChildIsKnown'
    BY <2>1, <2>3 DEF Handled, SidecarInv, ChildIsKnown
  <2> QED BY <2>1, <2>2, <2>3, <2>4, AllFailKeeps DEF Handled, SidecarInv, Typed
<1> QED BY <1>1, <1>2

LEMMA DisposeKeeps ==
  ASSUME SidecarInv, Dispose
  PROVE  SidecarInv'
<1>1. procs' \in [Processes -> {"unborn", "failed", "live", "killed", "gone", "exited"}]
  BY DEF Dispose, Kill, Ceases, SidecarInv, Typed
<1>2. /\ FailAllPending /\ UNCHANGED <<startError, cooling>> /\ disposed' = TRUE /\ child' = 0
      /\ stdin' \subseteq stdin /\ sessions' \subseteq sessions
  BY DEF Dispose, Kill, Ceases
<1>3. startError' \in BOOLEAN /\ cooling' \in BOOLEAN /\ disposed' \in BOOLEAN /\ ~(~disposed')
      /\ child' \in {0} \cup Processes /\ (startError' => child' = 0)
  BY <1>2 DEF SidecarInv, Typed
<1>4. ~disposed' => ~disposed /\ ChildIsKnown' /\ \A p \in Processes : procs[p] # "live"
  BY <1>2
<1> QED BY <1>1, <1>2, <1>3, <1>4, AllFailKeeps

LEMMA DieKeeps ==
  ASSUME SidecarInv, NEW p \in Processes, Die(p)
  PROVE  SidecarInv'
<1>1. /\ UNCHANGED <<child, startError, cooling, disposed, stdout, pending, calls>>
      /\ stdin' \subseteq stdin /\ sessions' \subseteq sessions
      /\ procs[p] \in {"live", "killed"} /\ procs' = [procs EXCEPT ![p] = "gone"]
      /\ procs[p] = "live" => stdin' = {m \in stdin : m.proc # p} /\ sessions' = {s \in sessions : s[1] # p}
  BY DEF Die, Ceases, clientVars, SidecarInv, Typed
<1>2. Typed' /\ (\A c \in Calls : Asked(calls[c]))' /\ LastIsPending'
  BY <1>1 DEF SidecarInv, Typed, LastIsPending, Waits
<1>3. ASSUME ~disposed'
      PROVE  (ChildIsKnown /\ LinesAreOld /\ UnreadIsPending /\ HeldOpen)'
  <2>1. ChildIsKnown' /\ LinesAreOld'
    BY <1>1, <1>3 DEF SidecarInv, Typed, ChildIsKnown, LinesAreOld
  <2>2. UnreadIsPending'
    <3>1. \A m \in stdin' : m \in stdin /\ m.proc \in Processes /\ m.proc # p /\ procs'[m.proc] = procs[m.proc]
      BY <1>1, <1>3 DEF SidecarInv, Typed, UnreadIsPending
    <3> QED BY <1>1, <1>3, <3>1 DEF SidecarInv, UnreadIsPending
  <2>3. HeldOpen'
    <3>1. \A s \in sessions' : s \in sessions /\ s[1] \in Processes /\ s[1] # p /\ procs'[s[1]] = procs[s[1]]
      BY <1>1, <1>3 DEF SidecarInv, Typed, HeldOpen
    <3> QED BY <1>1, <1>3, <3>1 DEF SidecarInv, HeldOpen, Waits
  <2> QED BY <2>1, <2>2, <2>3
<1> QED BY <1>1, <1>2, <1>3 DEF SidecarInv

LEMMA CooledDownKeeps ==
  ASSUME SidecarInv, CooledDown \/ UNCHANGED vars
  PROVE  SidecarInv'
<1>1. /\ UNCHANGED <<child, startError, disposed, procs, stdin, stdout, sessions, pending, calls>>
      /\ cooling' \in BOOLEAN
  BY DEF CooledDown, vars, clientVars, processVars, SidecarInv, Typed
<1>2. Typed' /\ (\A c \in Calls : Asked(calls[c]))' /\ LastIsPending'
  BY <1>1 DEF SidecarInv, Typed, LastIsPending, Waits
<1>3. (ChildIsKnown' <=> ChildIsKnown) /\ (LinesAreOld' <=> LinesAreOld)
      /\ (UnreadIsPending' <=> UnreadIsPending)
  BY <1>1 DEF ChildIsKnown, LinesAreOld, UnreadIsPending
<1>4. HeldOpen' <=> HeldOpen
  BY <1>1 DEF HeldOpen, Waits
<1> QED BY <1>1, <1>2, <1>3, <1>4 DEF SidecarInv

LEMMA NextKeeps ==
  SidecarInv /\ [Next]_vars => SidecarInv'
<1> SUFFICES ASSUME SidecarInv, [Next]_vars PROVE SidecarInv'
  OBVIOUS
<1>1. ASSUME NEW c \in Calls, Call(c) \/ Continue(c) PROVE SidecarInv'
  BY <1>1, CallKeeps, ContinueKeeps
<1>2. ASSUME NEW m \in stdin, Serve(m) PROVE SidecarInv'
  BY <1>2, ServeKeeps
<1>3. ASSUME NEW m \in stdout, Line(m) PROVE SidecarInv'
  BY <1>3, LineKeeps
<1>4. ASSUME NEW r \in pending, Timeout(r) PROVE SidecarInv'
  BY <1>4, TimeoutKeeps
<1>5. ASSUME NEW p \in Processes, Die(p) \/ StdinError(p) \/ Exit(p) \/ StartFails(p) PROVE SidecarInv'
  BY <1>5, DieKeeps, HandlersKeep
<1>6. CASE CooledDown \/ UNCHANGED vars
  BY <1>6, CooledDownKeeps
<1>7. CASE Dispose
  BY <1>7, DisposeKeeps
<1> QED BY <1>1, <1>2, <1>3, <1>4, <1>5, <1>6, <1>7 DEF Next

-----------------------------------------------------------------------------
\* The inductive invariant of the client: what the child, the lines on their way, the open
\* workbooks and the callers know of each other, until the client is disposed.
THEOREM SidecarInvariant == Spec => []SidecarInv
BY InvHolds, NextKeeps, PTL DEF Spec

\* Every reachable state is well typed; a caller waits for its last request, that one is
\* pending and no other, and it never makes more than two per sheet and two.
THEOREM SidecarTypeCorrect == Spec => []TypeOK
BY SidecarInvariant, InvImpliesTypeOK, PTL

\* The client knows the one process that runs, so that it can always be killed.
THEOREM NoSidecarIsLost == Spec => []OneSidecar
<1>1. SidecarInv => OneSidecar
  BY DEF SidecarInv, ChildIsKnown, OneSidecar
<1> QED BY <1>1, SidecarInvariant, PTL

\* A workbook is open in a running process only for a caller that has yet to close it.
THEOREM NoWorkbookIsLeftOpen == Spec => []SessionsAreClosed
<1>1. SidecarInv => SessionsAreClosed
  BY DEF SidecarInv, HeldOpen, SessionsAreClosed
<1> QED BY <1>1, SidecarInvariant, PTL

=============================================================================
