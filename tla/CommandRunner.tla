--------------------------- MODULE CommandRunner ---------------------------
(***************************************************************************)
(* LocalCommandRunner (plugins/commands.py): requests to run a configured  *)
(* command, each under an id of the caller's choice, at most once per id.  *)
(* A request awaits approval, starts a process, awaits its end or the      *)
(* timeout and stops what is left of it.  cancel() and close() cancel the  *)
(* tasks of requests and wait for them to end.                             *)
(*                                                                         *)
(* An action is what a task does between two awaits.  A cancelled task is  *)
(* hit at the await it is in, when it next runs.                           *)
(***************************************************************************)
EXTENDS Naturals

CONSTANTS
  Task,
  Request,  \* request ids
  Nobody    \* no task, and no request

VARIABLES
  closed,     \* _closed
  running,    \* _running: the task of each request under way
  attempted,  \* _attempted
  results,    \* _results: the requests whose result is kept
  call,       \* where each task is, and the request it is about
  hit,        \* tasks with a CancelledError to raise
  waits,      \* tasks that cancel() or close() wait for
  alive,      \* requests whose process has not been reaped
  aborted,    \* those of them whose process asyncio killed while it started
  launched,   \* history: how often the process of a request was started
  cancelled   \* history: requests cancelled after they were attempted

vars == <<closed, running, attempted, results, call, hit, waits, alive,
          aborted, launched, cancelled>>
registry == <<closed, attempted, results>>
processes == <<alive, aborted, launched>>
signals == <<hit, cancelled>>

\* The awaits of run(): the approval, the start of the process, its end if
\* the start is cancelled, its output and end, and _stop() after it ended,
\* timed out or the task was cancelled.
Running == {"approval", "starting", "aborting", "output", "ended", "expired",
            "unwound"}
At == {"out", "cancel", "close"} \cup Running
Out == [at |-> "out", request |-> Nobody]

TypeOK ==
  /\ closed \in BOOLEAN
  /\ running \in [Request -> Task \cup {Nobody}]
  /\ attempted \subseteq Request /\ results \subseteq Request
  /\ call \in [Task -> [at : At, request : Request \cup {Nobody}]]
  /\ hit \subseteq Task
  /\ waits \in [Task -> SUBSET Task]
  /\ aborted \subseteq alive /\ alive \subseteq Request
  /\ launched \in [Request -> Nat]
  /\ cancelled \subseteq Request

Init ==
  /\ closed = FALSE
  /\ running = [r \in Request |-> Nobody]
  /\ attempted = {} /\ results = {} /\ hit = {} /\ cancelled = {}
  /\ alive = {} /\ aborted = {}
  /\ call = [t \in Task |-> Out]
  /\ waits = [t \in Task |-> {}]
  /\ launched = [r \in Request |-> 0]

MoveTo(t, at) == call' = [call EXCEPT ![t].at = at]

\* run() is left: its task is no longer in _running.
Leave(t) ==
  /\ call' = [call EXCEPT ![t] = Out]
  /\ running' = [running EXCEPT ![call[t].request] = Nobody]

\* The task ends with CancelledError, and whoever waits for it sees that.
EndHit(t) ==
  /\ hit' = hit \ {t}
  /\ waits' = [s \in Task |-> waits[s] \ {t}]
  /\ UNCHANGED cancelled

LeaveHit(t) == Leave(t) /\ EndHit(t)

\* Task.cancel() of the tasks S.
Hit(S) ==
  /\ hit' = hit \cup S
  /\ cancelled' = cancelled \cup {r \in attempted : running[r] \in S}

(***************************************************************************)
(* run()                                                                   *)
(***************************************************************************)
\* (mutant) an id whose command did not finish may be used again.
UnusedUnlessKept(r) == r \notin results
Unused(r) == r \notin attempted

\* A request that is refused at once, and one whose result is kept, change
\* nothing.
Run(t, r) ==
  /\ call[t] = Out
  /\ ~closed
  /\ running[r] = Nobody
  /\ Unused(r)
  /\ running' = [running EXCEPT ![r] = t]
  /\ call' = [call EXCEPT ![t] = [at |-> "approval", request |-> r]]
  /\ UNCHANGED <<registry, signals, waits, processes>>

Denied(t) ==
  /\ call[t].at = "approval"
  /\ t \notin hit
  /\ Leave(t)
  /\ UNCHANGED <<registry, signals, waits, processes>>

\* Approved: the process is forked before create_subprocess_exec first
\* awaits, or cannot be started.
Approved(t, starts) ==
  LET r == call[t].request
  IN  /\ call[t].at = "approval"
      /\ t \notin hit
      /\ attempted' = attempted \cup {r}
      /\ IF starts
           THEN /\ MoveTo(t, "starting")
                /\ alive' = alive \cup {r}
                /\ launched' = [launched EXCEPT ![r] = @ + 1]
                /\ UNCHANGED <<running, aborted>>
           ELSE Leave(t) /\ UNCHANGED processes
      /\ UNCHANGED <<closed, results, signals, waits>>

Started(t) ==
  /\ call[t].at = "starting"
  /\ t \notin hit
  /\ MoveTo(t, "output")
  /\ UNCHANGED <<running, registry, signals, waits, processes>>

\* The output has ended and the process too.
Ended(t) ==
  /\ call[t].at = "output"
  /\ t \notin hit
  /\ call[t].request \notin alive
  /\ MoveTo(t, "ended")
  /\ UNCHANGED <<running, registry, signals, waits, processes>>

TimedOut(t) ==
  /\ call[t].at = "output"
  /\ t \notin hit
  /\ MoveTo(t, "expired")
  /\ UNCHANGED <<running, registry, signals, waits, processes>>

\* The task is cancelled while the process runs: _stop() kills it and waits
\* for it before the CancelledError goes on.
Unwind(t) ==
  /\ call[t].at = "output"
  /\ t \in hit
  /\ MoveTo(t, "unwound")
  /\ hit' = hit \ {t}
  /\ UNCHANGED <<running, registry, cancelled, waits, processes>>

\* The task is cancelled while the process starts.  There is nothing to
\* _stop() yet: asyncio kills the process and waits for its end.
AbortStart(t) ==
  /\ call[t].at = "starting"
  /\ t \in hit
  /\ MoveTo(t, "aborting")
  /\ hit' = hit \ {t}
  /\ aborted' = aborted \cup ({call[t].request} \cap alive)
  /\ UNCHANGED <<running, registry, cancelled, waits, alive, launched>>

\* The task is cancelled while it awaits approval.
GiveUp(t) ==
  /\ call[t].at = "approval"
  /\ t \in hit
  /\ LeaveHit(t)
  /\ UNCHANGED <<registry, processes>>

Stopping(t) == call[t].at \in {"ended", "expired", "unwound"}

\* (mutant) _stop() kills the process and does not wait for it.
ReapedAtOnce(t) == TRUE
Reaped(t) == call[t].request \notin alive

\* (mutant) a cancellation that arrives in _stop() is forgotten.
CancelledBefore(t) == call[t].at = "unwound"
Cancelled(t) == call[t].at = "unwound" \/ t \in hit

\* The wait of asyncio is not shielded: a second cancellation ends it.
LeaveStart(t) ==
  /\ call[t].at = "aborting"
  /\ Reaped(t) \/ t \in hit
  /\ LeaveHit(t)
  /\ UNCHANGED <<registry, processes>>

\* _stop() returns when the process is reaped, and raises then if the task
\* was cancelled meanwhile; run() keeps the result of a command that ended.
Stopped(t) ==
  /\ Stopping(t)
  /\ Reaped(t)
  /\ IF Cancelled(t)
       THEN LeaveHit(t) /\ UNCHANGED results
       ELSE /\ Leave(t)
            /\ results' = IF call[t].at = "ended"
                            THEN results \cup {call[t].request} ELSE results
            /\ UNCHANGED <<signals, waits>>
  /\ UNCHANGED <<closed, attempted, processes>>

(***************************************************************************)
(* cancel() and close()                                                    *)
(***************************************************************************)
Await(t, at, S) ==
  /\ call[t] = Out
  /\ call' = [call EXCEPT ![t].at = at]
  /\ waits' = [waits EXCEPT ![t] = S]
  /\ Hit(S)

Cancel(t, r) ==
  /\ running[r] # Nobody
  /\ Await(t, "cancel", {running[r]})
  /\ UNCHANGED <<running, registry, processes>>

Tasks == {running[r] : r \in Request} \ {Nobody}

Close(t) ==
  /\ closed' = TRUE
  /\ Await(t, "close", Tasks)
  /\ UNCHANGED <<running, attempted, results, processes>>

GoneSoon(t) == TRUE  \* (mutant) nobody waits
Gone(t) == waits[t] = {}

Waited(t) ==
  /\ call[t].at \in {"cancel", "close"}
  /\ Gone(t)
  /\ call' = [call EXCEPT ![t] = Out]
  /\ UNCHANGED <<running, registry, signals, waits, processes>>

\* Whoever awaits the tasks S is cancelled or times out.
Interrupt(S) ==
  /\ S \ hit # {}
  /\ Hit(S)
  /\ UNCHANGED <<running, registry, call, waits, processes>>

\* A cancelled task ends that is not inside run().
EndElsewhere(t) ==
  /\ call[t] = Out
  /\ EndHit(t)
  /\ UNCHANGED <<running, registry, call, processes>>

\* A process ends by itself, or because it was killed.
Exits(r) ==
  /\ r \in alive
  /\ alive' = alive \ {r}
  /\ aborted' = aborted \ {r}
  /\ UNCHANGED <<running, registry, call, signals, waits, launched>>

\* (mutant) _stop() waits for the process and does not kill it.
KilledByAsyncio(r) == r \in aborted
Killed(r) ==
  r \in aborted \/ (r \in alive /\ running[r] # Nobody /\ Stopping(running[r]))

(***************************************************************************)
(* The runner among callers of any kind                                    *)
(***************************************************************************)
Next ==
  \/ \E t \in Task, r \in Request : Run(t, r) \/ Cancel(t, r)
  \/ \E t \in Task :
       \/ Denied(t) \/ GiveUp(t)
       \/ \E starts \in BOOLEAN : Approved(t, starts)
       \/ Started(t) \/ AbortStart(t) \/ LeaveStart(t)
       \/ Ended(t) \/ TimedOut(t) \/ Unwind(t) \/ Stopped(t)
       \/ Close(t) \/ Waited(t) \/ EndElsewhere(t)
  \/ \E S \in SUBSET Task : Interrupt(S)
  \/ \E r \in Request : Exits(r)

Spec == Init /\ [][Next]_vars

(***************************************************************************)
(* Properties                                                              *)
(***************************************************************************)
\* The process of a request id is started at most once, whatever was denied,
\* cancelled, timed out or closed in between.
RunsOnce == \A r \in Request : launched[r] <= 1

\* A process is alive only while the task that started it waits for it,
\* however often that task is cancelled; but for one that asyncio has killed
\* while it started.
NoProcessLeft ==
  \A r \in alive \ aborted : /\ running[r] \in Task
                             /\ call[running[r]].request = r

\* When the last close() has returned nothing runs; what may be left has been
\* killed while it started.
CloseIsQuiet ==
  closed /\ (\A t \in Task : call[t].at # "close") =>
    alive \subseteq aborted /\ Tasks = {}

\* A request that was cancelled while or after its process started has no
\* result, then or ever: not when the process ends by itself before the
\* cancellation is seen, nor from a later call with its id.
CancelledHasNoResult == cancelled \cap results = {}

\* The docs: cancellation, timeout and close kill the processes and wait for
\* them to be reaped; so none outlives run().
KilledIsAwaited == \A r \in alive : running[r] \in Task

(***************************************************************************)
(* The invariant behind them                                               *)
(***************************************************************************)
\* A request is under way exactly while its task is inside run(), and is
\* attempted exactly when that is past the approval.
Registered ==
  /\ \A t \in Task : call[t].at \in Running =>
       call[t].request \in Request /\ running[call[t].request] = t
  /\ \A r \in Request : running[r] \in Task =>
       call[running[r]].at \in Running /\ call[running[r]].request = r
  /\ \A t \in Task : call[t].at \in Running =>
       (call[t].request \in attempted <=> call[t].at # "approval")

\* A process was started for what was attempted, once, and is alive while its
\* task is past the approval.
Launched ==
  /\ \A r \in Request :
       launched[r] = 0 \/ (launched[r] = 1 /\ r \in attempted)
  /\ \A r \in alive \ aborted :
       running[r] \in Task /\ call[running[r]].at \notin {"approval", "aborting"}

\* What runs after close() somebody who closes waits for.
Closing ==
  closed => \A r \in Request : running[r] \in Task =>
    \E s \in Task : call[s].at = "close" /\ running[r] \in waits[s]

\* A result is kept when run() is left.  A cancelled request has none, and if
\* it is under way its task will see the cancellation or has.
Spoilt ==
  /\ \A r \in results : r \in attempted /\ running[r] = Nobody
  /\ \A r \in cancelled :
       /\ r \in attempted /\ r \notin results
       /\ running[r] \in Task =>
            running[r] \in hit \/ call[running[r]].at \in {"aborting", "unwound"}

IInv == TypeOK /\ Registered /\ Launched /\ Closing /\ Spoilt
=============================================================================
