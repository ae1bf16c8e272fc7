---------------------------- MODULE XlsxSidecar -----------------------------
(***************************************************************************)
(* XlsxSidecarClient: the client of a native process that it starts on     *)
(* demand, talks to in lines, kills when a request times out, and starts   *)
(* again.  Callers are sidecarPreviewWindow: open a workbook, read a       *)
(* window of each sheet, close, whatever happened in between.              *)
(*                                                                         *)
(* A promise that settles and the code that awaits it are two steps here   *)
(* (answer, Continue); the event loop runs them back to back.  A request's *)
(* timer is armed exactly as long as its entry is in pending.              *)
(***************************************************************************)
EXTENDS Naturals, FiniteSets

CONSTANTS
    Calls,         \* calls of sidecarPreviewWindow, over the client's life
    MaxSpawns,     \* bound: after that many processes the binary is missing
    MaxSheets      \* the sheets that one call reads

VARIABLES
    child,         \* this.child; 0: none
    procs,         \* what became of each process, and whether its exit was handled
    startError,    \* the latched start failure
    cooling,       \* Date.now() < unhealthyUntil
    disposed,
    pending,       \* the requests that nothing settled yet
    calls,         \* where each caller stands
    stdin, stdout, \* the lines that a live process has yet to read, the client yet to handle
    sessions       \* the workbooks that the live processes hold open: <<process, call>>

clientVars == <<child, startError, cooling, disposed>>
processVars == <<procs, stdin, stdout, sessions>>
vars == <<clientVars, processVars, pending, calls>>

ASSUME SidecarAssumption ==
    /\ IsFiniteSet(Calls)
    /\ MaxSpawns \in Nat \ {0} /\ MaxSheets \in Nat

Processes == 1..MaxSpawns
MaxRequests == 2 * MaxSheets + 2
Requests == [call : Calls, seq : 1..MaxRequests]
Stages == {"open", "read", "probe", "close"}

Idle == [at |-> "idle", seq |-> 0, answer |-> "none",
         left |-> 0, known |-> TRUE, failed |-> FALSE]

TypeOK ==
    /\ child \in {0} \cup Processes
    /\ procs \in [Processes -> {"unborn", "failed", "live", "killed", "gone", "exited"}]
    /\ {startError, cooling, disposed} \subseteq BOOLEAN
    /\ pending \subseteq Requests
    /\ calls \in [Calls -> [at : {"idle", "returned", "fellback"} \cup Stages,
                            seq : 0..MaxRequests, answer : {"none", "ok", "error"},
                            left : 0..MaxSheets, known : BOOLEAN, failed : BOOLEAN]]
    /\ stdin \subseteq [proc : Processes, request : Requests, command : Stages]
    /\ stdout \subseteq [request : Requests, ok : BOOLEAN]
    /\ sessions \subseteq Processes \X Calls
    /\ \A c \in Calls :      \* a caller waits for its last request, and that one is pending
           {r \in pending : r.call = c} =
               IF calls[c].at \in Stages /\ calls[c].answer = "none"
               THEN {[call |-> c, seq |-> calls[c].seq]} ELSE {}

Init ==
    /\ child = 0 /\ procs = [p \in Processes |-> "unborn"]
    /\ startError = FALSE /\ cooling = FALSE /\ disposed = FALSE
    /\ pending = {} /\ calls = [c \in Calls |-> Idle]
    /\ stdin = {} /\ stdout = {} /\ sessions = {}

-----------------------------------------------------------------------------
(***************************************************************************)
(* request: start the process unless it runs, then write the line.  "call" *)
(* is the caller's record with the stage that the request is for.          *)
(***************************************************************************)
Fails(c, call) ==
    /\ calls' = [calls EXCEPT ![c] = [call EXCEPT !.answer = "error"]]
    /\ UNCHANGED <<processVars, pending>>

Writes(c, call, p) ==
    LET next == [call EXCEPT !.seq = @ + 1, !.answer = "none"]
        request == [call |-> c, seq |-> next.seq]
    IN  /\ pending' = pending \cup {request}
        /\ stdin' = stdin \cup {m \in {[proc |-> p, request |-> request, command |-> next.at]} :
                                 procs'[p] = "live"}
        /\ calls' = [calls EXCEPT ![c] = next]
        /\ UNCHANGED <<stdout, sessions>>

\* ensureStarted throws: a latched error, the cooldown, or no binary to start.
NotStarted(c, call) ==
    /\ \/ startError /\ UNCHANGED startError
       \/ ~startError /\ child = 0 /\ cooling /\ UNCHANGED startError
       \/ ~startError /\ child = 0 /\ ~cooling /\ startError' = TRUE
    /\ Fails(c, call)
    /\ UNCHANGED <<child, cooling, disposed>>

\* spawn returns at once: that the process could not be started is an event that follows.
Starts(c, call) ==
    /\ ~startError /\ child = 0 /\ ~cooling
    /\ \E p \in Processes, s \in {"live", "failed"} :
           /\ procs[p] = "unborn" /\ \A q \in 1..(p - 1) : procs[q] # "unborn"
           /\ procs' = [procs EXCEPT ![p] = s] /\ child' = p
           /\ Writes(c, call, p)
    /\ UNCHANGED <<startError, cooling, disposed>>

Reuses(c, call) ==
    /\ ~startError /\ child # 0
    /\ \/ UNCHANGED procs /\ Writes(c, call, child)
       \/ procs[child] = "gone" /\ Fails(c, call)       \* the write throws
    /\ UNCHANGED clientVars

Ask(c, call) == NotStarted(c, call) \/ Starts(c, call) \/ Reuses(c, call)

-----------------------------------------------------------------------------
(***************************************************************************)
(* sidecarPreviewWindow                                                    *)
(***************************************************************************)
Call(c) ==
    /\ calls[c].at = "idle"
    /\ Ask(c, [Idle EXCEPT !.at = "open"])

Ends(c, at) ==
    /\ calls' = [calls EXCEPT ![c] = [Idle EXCEPT !.at = at]]
    /\ UNCHANGED <<clientVars, processVars, pending>>

\* Faulty: no finally, a read that fails leaves the workbook open.
GoesWithoutFinally(c, call) ==
    IF call.failed
    THEN Ends(c, "fellback")
    ELSE Ask(c, [call EXCEPT !.at = IF call.left = 0 THEN "close" ELSE "read"])

\* The next sheet, or close: every path that has a session ends there, the finally.
Goes(c, call) ==
    Ask(c, [call EXCEPT !.at = IF call.left = 0 THEN "close" ELSE "read"])

\* left counts the sheets with something to read: those whose extent ends before the
\* window begins are answered without a request, and an explicit sheet that the workbook
\* does not have leaves none.  known: the workbook states their extents.
OpenSettled(c) ==
    /\ calls[c].at = "open"
    /\ \/ calls[c].answer = "error" /\ Ends(c, "fellback")
       \/ /\ calls[c].answer = "ok"
          /\ \E left \in 0..MaxSheets, known \in BOOLEAN :
                 /\ left = 0 => known
                 /\ Goes(c, [calls[c] EXCEPT !.left = left, !.known = known])

\* The probe follows a failed read only where the extent is not known.
ReadSettled(c) ==
    /\ calls[c].at \in {"read", "probe"}
    /\ \/ calls[c].answer = "ok" /\ Goes(c, [calls[c] EXCEPT !.left = @ - 1])
       \/ /\ calls[c].answer = "error" /\ calls[c].at = "read" /\ ~calls[c].known
          /\ Ask(c, [calls[c] EXCEPT !.at = "probe"])
       \/ /\ calls[c].answer = "error" /\ (calls[c].at = "probe" \/ calls[c].known)
          /\ Goes(c, [calls[c] EXCEPT !.failed = TRUE, !.left = 0])

\* What close answers is ignored.
CloseSettled(c) ==
    /\ calls[c].at = "close" /\ calls[c].answer # "none"
    /\ Ends(c, IF calls[c].failed THEN "fellback" ELSE "returned")

Continue(c) == OpenSettled(c) \/ ReadSettled(c) \/ CloseSettled(c)

-----------------------------------------------------------------------------
(***************************************************************************)
(* The handlers of the client                                              *)
(***************************************************************************)
Settled(settled, answer) ==
    /\ pending' = pending \ settled
    /\ calls' = [c \in Calls |-> IF \E r \in settled : r.call = c
                                 THEN [calls[c] EXCEPT !.answer = answer] ELSE calls[c]]

\* Faulty: the timers are cleared and the entries dropped, nobody is told.
DropAllPending == pending' = {} /\ stdout' = {} /\ UNCHANGED calls

\* The lines still on their way are for nobody now, and are no longer kept.
FailAllPending == Settled(pending, "error") /\ stdout' = {}

\* Faulty: the entry stays in the map when its line is handled.
LineKeepsEntry(m) ==
    /\ stdout' = stdout \ {m}
    /\ \/ /\ m.request \in pending
          /\ calls' = [calls EXCEPT ![m.request.call] =
                  [@ EXCEPT !.answer = IF m.ok THEN "ok" ELSE "error"]]
       \/ UNCHANGED calls
    /\ UNCHANGED <<clientVars, procs, stdin, sessions, pending>>

\* A line for a request that was settled meanwhile is ignored, and so is one that does not
\* parse.
Line(m) ==
    /\ stdout' = stdout \ {m}
    /\ \/ /\ m.request \in pending
          /\ pending' = pending \ {m.request}
          /\ calls' = [calls EXCEPT ![m.request.call] =
                  [@ EXCEPT !.answer = IF m.ok THEN "ok" ELSE "error"]]
       \/ UNCHANGED <<pending, calls>>
    /\ UNCHANGED <<clientVars, procs, stdin, sessions>>

\* Of a process that is no longer live, what it holds and has not read does not matter.
Ceases(p, status) ==
    /\ procs' = [q \in Processes |-> IF q = p /\ procs[q] = "live" THEN status ELSE procs[q]]
    /\ stdin' = {m \in stdin : m.proc # p}
    /\ sessions' = {s \in sessions : s[1] # p}

\* It may take its time to die.
Kill(p) == Ceases(p, "killed")

\* Faulty: the child is forgotten where it is killed, and its exit forgets the next one.
TimeoutForgetsChild(r) ==
    /\ r \in pending
    /\ Settled({r}, "error")
    /\ cooling' = TRUE /\ child' = 0
    /\ Kill(child)
    /\ UNCHANGED <<startError, disposed, stdout>>

Timeout(r) ==
    /\ r \in pending
    /\ Settled({r}, "error")
    /\ cooling' = TRUE
    /\ Kill(child)
    /\ UNCHANGED <<child, startError, disposed, stdout>>

CooledDown ==
    /\ cooling /\ cooling' = FALSE
    /\ UNCHANGED <<child, startError, disposed, processVars, pending, calls>>

\* The pipe breaks under what was written to a process that is gone.
StdinError(p) ==
    /\ procs[p] = "gone" /\ pending # {}
    /\ FailAllPending
    /\ UNCHANGED <<clientVars, procs, stdin, sessions>>

\* The handlers of a process act on the client's child, whichever that is by now.
Handled(p) ==
    /\ procs' = [procs EXCEPT ![p] = "exited"]
    /\ child' = 0
    /\ FailAllPending
    /\ UNCHANGED <<cooling, disposed, stdin, sessions>>

Exit(p) ==
    /\ procs[p] = "gone"
    /\ Handled(p)
    /\ UNCHANGED startError

StartFails(p) ==
    /\ procs[p] = "failed"
    /\ startError' = TRUE
    /\ Handled(p)

Dispose ==
    /\ ~disposed /\ disposed' = TRUE
    /\ Kill(child)
    /\ child' = 0
    /\ FailAllPending
    /\ UNCHANGED <<startError, cooling>>

-----------------------------------------------------------------------------
(***************************************************************************)
(* The process: it may answer anything or nothing, and die at any time.    *)
(* Only who holds which workbook open is of interest.                      *)
(***************************************************************************)
Serve(m) ==
    /\ stdin' = stdin \ {m}
    /\ \E ok \in BOOLEAN :
           LET mine == <<m.proc, m.request.call>>
           IN  /\ sessions' = CASE m.command = "open" /\ ok -> sessions \cup {mine}
                                [] m.command = "close" -> sessions \ {mine}
                                [] OTHER -> sessions
               /\ ok /\ m.command # "open" => mine \in sessions
               /\ stdout' = IF m.request \in pending
                            THEN stdout \cup {[request |-> m.request, ok |-> ok]} ELSE stdout
    /\ UNCHANGED <<clientVars, procs, pending, calls>>

Die(p) ==
    /\ \/ procs[p] = "live" /\ Ceases(p, "gone")
       \/ procs[p] = "killed" /\ procs' = [procs EXCEPT ![p] = "gone"] /\ UNCHANGED <<stdin, sessions>>
    /\ UNCHANGED <<clientVars, stdout, pending, calls>>

-----------------------------------------------------------------------------
Next ==
    \/ \E c \in Calls : Call(c) \/ Continue(c)
    \/ \E m \in stdin : Serve(m)
    \/ \E m \in stdout : Line(m)
    \/ \E r \in pending : Timeout(r)
    \/ \E p \in Processes : Die(p) \/ StdinError(p) \/ Exit(p) \/ StartFails(p)
    \/ CooledDown
    \/ Dispose

\* Promises continue and timers fire; of the process nothing is asked, not even that it dies.
Fairness ==
    \A c \in Calls : /\ WF_vars(Continue(c))
                     /\ WF_vars(\E r \in pending : r.call = c /\ Timeout(r))

Spec == Init /\ [][Next]_vars
FairSpec == Spec /\ Fairness

-----------------------------------------------------------------------------
(***************************************************************************)
(* Properties                                                              *)
(***************************************************************************)
\* At most one process is left running, and it is the one that the client knows: the next
\* request or dispose can still kill it.  Timeouts, exits and new starts overlap, and the
\* exit handler does not ask whose exit it is; what keeps it true is that a killed child
\* stays this.child until its exit.  (Once the client is disposed this fails: the close
\* that follows a read rejected by dispose starts a process, and the exit of the disposed
\* one makes the client forget it.)
OneSidecar == ~disposed => \A p \in Processes : procs[p] = "live" => child = p

\* A workbook that a running process holds open belongs to a caller that has yet to close
\* it, so a long-lived sidecar does not collect the workbooks of the previews that failed:
\* where the close could not be told, the process was killed or is gone.
SessionsAreClosed ==
    ~disposed => \A s \in sessions : calls[s[2]].at \in Stages

\* Every preview window is answered or given up, so that the caller can fall back, whatever
\* the process does: it dies, hangs, writes garbage, ignores the kill, does not start, or
\* is disposed of.
EveryReadSettles ==
    \A c \in Calls : (calls[c].at # "idle") ~> (calls[c].at \in {"returned", "fellback"})
=============================================================================
