------------------------ MODULE CodingActionsProofs ------------------------
(***************************************************************************)
(* Proofs about CodingActions for any tasks, requests, changes and         *)
(* contents.  The invariant of the runner is proved of CommandRunner       *)
(* alone, among callers of any kind; CodingActions implements              *)
(* CommandRunner, so it holds among the tools of an agent.                 *)
(***************************************************************************)
EXTENDS CodingActions, SequenceTheorems, TLAPS

(***************************************************************************)
(* The runner by itself                                                    *)
(***************************************************************************)
\* Nobody is no task; the runner's proofs need no more of it.
LEMMA NobodyIsNoTask == Nobody \notin Task
BY NobodyAssumption

\* The invariant holds when the runner is made.
LEMMA RunnerInit == Runner!Init => Runner!IInv
<1> SUFFICES ASSUME Runner!Init PROVE Runner!IInv
  OBVIOUS
<1> USE NobodyIsNoTask DEF Runner!Init, Runner!Out, Runner!At,
                           Runner!Running
<1>1. Runner!TypeOK
  BY DEF Runner!TypeOK
<1>2. Runner!Registered /\ Runner!Launched /\ Runner!Closing /\ Runner!Spoilt
  BY DEF Runner!Registered, Runner!Launched, Runner!Closing, Runner!Spoilt
<1> QED
  BY <1>1, <1>2 DEF Runner!IInv

\* A task that goes on is still the one that runs its request; the id may be
\* used up on the way.
LEMMA MoveRegistered ==
  ASSUME Runner!IInv, NEW t \in Task, NEW at \in Runner!Running \ {"approval"},
         call[t].at \in Runner!Running,
         Runner!MoveTo(t, at), running' = running,
         \/ attempted' = attempted /\ call[t].at # "approval"
         \/ attempted' = attempted \cup {call[t].request}
  PROVE  Runner!Registered'
<1> USE NobodyIsNoTask DEF Runner!IInv
<1>1. /\ call'[t].at = at /\ call'[t].request = call[t].request
      /\ \A s \in Task : s # t => call'[s] = call[s]
  BY DEF Runner!MoveTo, Runner!TypeOK
<1>2. \A s \in Task : call'[s].at \in Runner!Running =>
        /\ call[s].at \in Runner!Running /\ call'[s].request = call[s].request
        /\ call'[s].request \in Request /\ running'[call'[s].request] = s
  BY <1>1 DEF Runner!Registered
<1>3. \A r \in Request : running'[r] \in Task =>
        call'[running'[r]].at \in Runner!Running
        /\ call'[running'[r]].request = r
  BY <1>1 DEF Runner!Registered
<1>4. ASSUME NEW s \in Task, call'[s].at \in Runner!Running
      PROVE  call'[s].request \in attempted' <=> call'[s].at # "approval"
  <2>1. running[call[s].request] = s /\ running[call[t].request] = t
        /\ call'[s].request = call[s].request
    BY <1>2, <1>4 DEF Runner!Registered
  <2>2. call[s].request \in attempted <=> call[s].at # "approval"
    BY <1>2, <1>4 DEF Runner!Registered
  <2>3. CASE s = t
    BY <1>1, <2>1, <2>2, <2>3
  <2>4. CASE s # t
    BY <1>1, <2>1, <2>2, <2>4
  <2> QED
    BY <2>3, <2>4
<1> QED
  BY <1>2, <1>3, <1>4 DEF Runner!Registered

\* Steps of run() whose task goes on to another await.
LEMMA MoveInv ==
  ASSUME Runner!IInv, NEW t \in Task,
         \/ Runner!Started(t) \/ Runner!AbortStart(t) \/ Runner!Ended(t)
         \/ Runner!TimedOut(t) \/ Runner!Unwind(t)
  PROVE  Runner!IInv'
<1>1. PICK at \in Runner!Running \ {"approval"} :
        /\ Runner!MoveTo(t, at)
        /\ t \in hit => at \in {"aborting", "unwound"}
        /\ at = "aborting" => call[t].request \notin alive \ aborted'
  BY DEF Runner!Started, Runner!AbortStart, Runner!Ended, Runner!TimedOut,
         Runner!Unwind, Runner!Running
<1>2. /\ call[t].at \in {"starting", "output"}
      /\ hit' \subseteq hit /\ hit \ {t} \subseteq hit'
      /\ aborted \subseteq aborted' /\ aborted' \subseteq alive
      /\ UNCHANGED <<closed, running, attempted, results, waits, alive,
                     launched, cancelled>>
  BY DEF Runner!IInv, Runner!TypeOK, Runner!Started, Runner!AbortStart,
         Runner!Ended, Runner!TimedOut, Runner!Unwind, Runner!registry,
         Runner!processes, Runner!signals
<1>3. call' = [call EXCEPT ![t].at = at]
  BY <1>1 DEF Runner!MoveTo
<1>4. /\ call' \in [Task -> [at : Runner!At, request : Request \cup {Nobody}]]
      /\ call'[t].at = at
      /\ \A s \in Task : call'[s].request = call[s].request
      /\ \A s \in Task : s # t => call'[s].at = call[s].at
  BY <1>3 DEF Runner!IInv, Runner!TypeOK, Runner!At
<1>5. Runner!TypeOK'
  BY <1>2, <1>4 DEF Runner!IInv, Runner!TypeOK
<1>6. Runner!Registered'
  BY <1>1, <1>2, MoveRegistered DEF Runner!Running
<1>7. Runner!Launched'
  <2>1. ASSUME NEW r \in alive' \ aborted'
        PROVE  /\ running'[r] \in Task
               /\ call'[running'[r]].at \notin {"approval", "aborting"}
    <3>1. /\ r \in Request /\ running[r] \in Task /\ running'[r] = running[r]
          /\ call[running[r]].at \notin {"approval", "aborting"}
          /\ call[running[r]].request = r
      BY <1>2, <2>1
         DEF Runner!IInv, Runner!TypeOK, Runner!Launched, Runner!Registered
    <3>2. CASE running[r] = t
      BY <1>1, <1>2, <1>4, <2>1, <3>1, <3>2 DEF Runner!Running
    <3>3. CASE running[r] # t
      BY <1>4, <3>1, <3>3
    <3> QED
      BY <3>2, <3>3
  <2> QED
    BY <1>2, <2>1 DEF Runner!IInv, Runner!Launched
<1>9. Runner!Spoilt'
  <2>1. ASSUME NEW r \in cancelled, running[r] \in Task
        PROVE  \/ running[r] \in hit'
               \/ call'[running[r]].at \in {"aborting", "unwound"}
    <3>1. \/ running[r] \in hit
          \/ call[running[r]].at \in {"aborting", "unwound"}
      BY <2>1 DEF Runner!IInv, Runner!Spoilt
    <3> QED
      BY <1>1, <1>2, <1>4, <2>1, <3>1
  <2> QED
    BY <1>2, <2>1 DEF Runner!IInv, Runner!Spoilt
<1>8. Runner!Closing'
  <2> SUFFICES ASSUME closed', NEW r \in Request, running'[r] \in Task
               PROVE  \E s \in Task : call'[s].at = "close"
                                   /\ running'[r] \in waits'[s]
    BY DEF Runner!Closing
  <2>1. PICK s \in Task : call[s].at = "close" /\ running[r] \in waits[s]
    BY <1>2 DEF Runner!IInv, Runner!Closing
  <2>2. s # t
    BY <1>2, <2>1 DEF Runner!Running
  <2> QED
    BY <1>2, <1>4, <2>1, <2>2
<1> QED
  BY <1>5, <1>6, <1>7, <1>8, <1>9 DEF Runner!IInv

\* A task that leaves run() is nobody's any more, and those who wait for
\* others still do.
LEMMA LeaveInv ==
  ASSUME Runner!IInv, NEW t \in Task,
         \/ Runner!Denied(t) \/ Runner!GiveUp(t)
         \/ Runner!LeaveStart(t) \/ Runner!Stopped(t)
  PROVE  Runner!IInv'
<1> USE NobodyIsNoTask DEF Runner!IInv, Runner!TypeOK, Runner!At,
                           Runner!Running
<1>1. /\ call[t].at \in Runner!Running /\ call[t].request \in Request
      /\ running[call[t].request] = t
  BY DEF Runner!Denied, Runner!GiveUp, Runner!LeaveStart, Runner!Stopped,
         Runner!Stopping, Runner!Registered
<1>2. /\ call' = [call EXCEPT ![t] = Runner!Out]
      /\ running' = [running EXCEPT ![call[t].request] = Nobody]
      /\ UNCHANGED <<closed, attempted, alive, aborted, launched, cancelled>>
  BY DEF Runner!Denied, Runner!GiveUp, Runner!LeaveStart, Runner!Stopped,
         Runner!LeaveHit, Runner!EndHit, Runner!Leave, Runner!registry,
         Runner!processes, Runner!signals
<1>3. /\ hit' \subseteq Task /\ hit \ {t} \subseteq hit'
      /\ waits' \in [Task -> SUBSET Task]
      /\ \A s \in Task : waits[s] \ {t} \subseteq waits'[s]
  BY <1>1 DEF Runner!Denied, Runner!GiveUp, Runner!LeaveStart, Runner!Stopped,
              Runner!LeaveHit, Runner!EndHit, Runner!registry, Runner!signals
<1>9. \/ results' = results
      \/ /\ results' = results \cup {call[t].request}
         /\ call[t].at = "ended" /\ t \notin hit
  BY DEF Runner!Denied, Runner!GiveUp, Runner!LeaveStart, Runner!Stopped,
         Runner!Cancelled, Runner!registry
<1>4. call[t].request \notin alive \ aborted
  BY <1>1 DEF Runner!Denied, Runner!GiveUp, Runner!LeaveStart, Runner!Stopped,
              Runner!Reaped, Runner!Launched
<1>5. Runner!TypeOK'
  BY <1>1, <1>2, <1>3, <1>9 DEF Runner!Out
<1>6. Runner!Registered'
  BY <1>1, <1>2 DEF Runner!Registered, Runner!Out
<1>7. Runner!Launched'
  BY <1>1, <1>2, <1>4 DEF Runner!Launched, Runner!Registered, Runner!Out
<1>10. Runner!Spoilt'
  <2>1. \A r \in results' : r \in attempted' /\ running'[r] = Nobody
    BY <1>1, <1>2, <1>9 DEF Runner!Spoilt, Runner!Registered
  <2>2. ASSUME NEW r \in cancelled', running'[r] \in Task
        PROVE  \/ running'[r] \in hit'
               \/ call'[running'[r]].at \in {"aborting", "unwound"}
    <3>1. r \in Request /\ r # call[t].request /\ running'[r] = running[r]
      BY <1>1, <1>2, <2>2
    <3>2. running[r] # t
      BY <2>2, <3>1 DEF Runner!Registered
    <3> QED
      BY <1>2, <1>3, <2>2, <3>1, <3>2 DEF Runner!Spoilt
  <2>3. \A r \in cancelled' : r \in attempted' /\ r \notin results'
    BY <1>1, <1>2, <1>9 DEF Runner!Spoilt
  <2> QED
    BY <2>1, <2>2, <2>3 DEF Runner!Spoilt
<1>8. Runner!Closing'
  <2> SUFFICES ASSUME closed', NEW r \in Request, running'[r] \in Task
               PROVE  \E s \in Task : call'[s].at = "close"
                                   /\ running'[r] \in waits'[s]
    BY DEF Runner!Closing
  <2>1. r # call[t].request /\ running'[r] = running[r]
    BY <1>1, <1>2
  <2>2. running[r] # t
    BY <2>1 DEF Runner!Registered
  <2>3. PICK s \in Task : call[s].at = "close" /\ running[r] \in waits[s]
    BY <1>2, <2>1 DEF Runner!Closing
  <2>4. s # t
    BY <1>1, <2>3
  <2> QED
    BY <1>2, <1>3, <2>1, <2>2, <2>3, <2>4
<1> QED
  BY <1>5, <1>6, <1>7, <1>8, <1>10

\* The process is started for the first time, after the approval.
LEMMA StartInv ==
  ASSUME Runner!IInv, NEW t \in Task, Runner!Approved(t, TRUE)
  PROVE  Runner!IInv'
<1> USE NobodyIsNoTask DEF Runner!IInv, Runner!TypeOK, Runner!Approved,
                           Runner!MoveTo, Runner!At, Runner!Running,
                           Runner!signals
<1>1. call[t].request \in Request /\ running[call[t].request] = t
  BY DEF Runner!Registered
<1>2. call[t].request \notin attempted
  BY DEF Runner!Registered
<1>3. Runner!TypeOK'
  BY <1>1
<1>4. Runner!Registered'
  BY MoveRegistered
<1>5. Runner!Launched'
  BY <1>1, <1>2 DEF Runner!Launched, Runner!Registered
<1>6. Runner!Closing'
  BY <1>1 DEF Runner!Closing
<1>7. Runner!Spoilt'
  BY <1>1, <1>2 DEF Runner!Spoilt
<1> QED
  BY <1>3, <1>4, <1>5, <1>6, <1>7

\* The process cannot be started: the id is used up all the same.
LEMMA StartFailsInv ==
  ASSUME Runner!IInv, NEW t \in Task, Runner!Approved(t, FALSE)
  PROVE  Runner!IInv'
<1> DEFINE r == call[t].request
<1> USE NobodyIsNoTask DEF Runner!IInv, Runner!TypeOK, Runner!At,
                           Runner!Running
<1>1. /\ call[t].at = "approval"
      /\ attempted' = attempted \cup {r}
      /\ call' = [call EXCEPT ![t] = Runner!Out]
      /\ running' = [running EXCEPT ![r] = Nobody]
      /\ UNCHANGED <<closed, results, hit, waits, alive, aborted, launched,
                     cancelled>>
  BY DEF Runner!Approved, Runner!Leave, Runner!processes, Runner!signals
<1>2. r \in Request /\ running[r] = t
  BY <1>1 DEF Runner!Registered
<1>3. r \notin alive \ aborted
  BY <1>1, <1>2 DEF Runner!Launched
<1>4. Runner!TypeOK'
  BY <1>1, <1>2 DEF Runner!Out
<1>5. Runner!Registered'
  <2>1. \A s \in Task : s # t /\ call[s].at \in Runner!Running =>
          call[s].request # r
    BY <1>2 DEF Runner!Registered
  <2>2. /\ call'[t] = Runner!Out
        /\ \A s \in Task : s # t => call'[s] = call[s]
        /\ running'[r] = Nobody
        /\ \A q \in Request : q # r => running'[q] = running[q]
    BY <1>1, <1>2
  <2>3. \A s \in Task : call'[s].at \in Runner!Running =>
          call'[s].request \in Request /\ running'[call'[s].request] = s
    BY <2>1, <2>2 DEF Runner!Registered, Runner!Out
  <2>4. ASSUME NEW q \in Request, running'[q] \in Task
        PROVE  call'[running'[q]].at \in Runner!Running
               /\ call'[running'[q]].request = q
    <3>1. q # r /\ running'[q] = running[q] /\ running[q] \in Task
      BY <2>2, <2>4
    <3>2. running[q] # t
      BY <3>1 DEF Runner!Registered
    <3> QED
      BY <2>2, <3>1, <3>2 DEF Runner!Registered
  <2>5. \A s \in Task : call'[s].at \in Runner!Running =>
          (call'[s].request \in attempted' <=> call'[s].at # "approval")
    BY <1>1, <2>1, <2>2 DEF Runner!Registered, Runner!Out
  <2> QED
    BY <2>3, <2>4, <2>5 DEF Runner!Registered
<1>6. Runner!Launched'
  BY <1>1, <1>2, <1>3 DEF Runner!Launched, Runner!Registered, Runner!Out
<1>7. Runner!Closing'
  <2> SUFFICES ASSUME closed', NEW q \in Request, running'[q] \in Task
               PROVE  \E s \in Task : call'[s].at = "close"
                                   /\ running'[q] \in waits'[s]
    BY DEF Runner!Closing
  <2>1. running'[q] = running[q]
    BY <1>1, <1>2
  <2>2. PICK s \in Task : call[s].at = "close" /\ running[q] \in waits[s]
    BY <1>1, <2>1 DEF Runner!Closing
  <2> QED
    BY <1>1, <2>1, <2>2
<1>8. Runner!Spoilt'
  BY <1>1, <1>2 DEF Runner!Spoilt
<1> QED
  BY <1>4, <1>5, <1>6, <1>7, <1>8

\* A new request.
LEMMA RunInv ==
  ASSUME Runner!IInv, NEW t \in Task, NEW r \in Request, Runner!Run(t, r)
  PROVE  Runner!IInv'
<1> USE NobodyIsNoTask DEF Runner!IInv, Runner!TypeOK, Runner!Run,
                           Runner!registry, Runner!processes, Runner!Out,
                           Runner!At, Runner!Running, Runner!Unused,
                           Runner!signals
<1>1. Runner!TypeOK'
  OBVIOUS
<1>2. Runner!Registered'
  BY DEF Runner!Registered
<1>3. Runner!Launched'
  BY DEF Runner!Launched, Runner!Registered
<1>4. Runner!Closing'
  BY DEF Runner!Closing
<1>5. Runner!Spoilt'
  BY DEF Runner!Spoilt
<1> QED
  BY <1>1, <1>2, <1>3, <1>4, <1>5

\* Somebody calls cancel().
LEMMA CancelInv ==
  ASSUME Runner!IInv, NEW t \in Task, NEW r \in Request,
         Runner!Cancel(t, r)
  PROVE  Runner!IInv'
<1> USE NobodyIsNoTask DEF Runner!IInv, Runner!TypeOK, Runner!Cancel,
                           Runner!Await, Runner!Hit, Runner!registry,
                           Runner!processes, Runner!Out, Runner!At,
                           Runner!Running
<1>1. Runner!TypeOK'
  OBVIOUS
<1>2. Runner!Registered'
  BY DEF Runner!Registered
<1>3. Runner!Launched'
  BY DEF Runner!Launched, Runner!Registered
<1>4. Runner!Closing'
  BY DEF Runner!Closing
<1>5. Runner!Spoilt'
  <2>1. /\ cancelled' = cancelled \cup {q \in attempted : running[q] = running[r]}
        /\ hit' = hit \cup {running[r]}
    OBVIOUS
  <2>2. \A s \in Task : call[s].at \in {"aborting", "unwound"} => s # t
    OBVIOUS
  <2> QED
    BY <2>1, <2>2 DEF Runner!Spoilt
<1> QED
  BY <1>1, <1>2, <1>3, <1>4, <1>5

\* Somebody calls close(): it waits for all that is under way.
LEMMA CloseInv ==
  ASSUME Runner!IInv, NEW t \in Task, Runner!Close(t)
  PROVE  Runner!IInv'
<1> USE NobodyIsNoTask DEF Runner!IInv, Runner!TypeOK, Runner!Close,
                           Runner!Await, Runner!Hit, Runner!processes,
                           Runner!Out, Runner!At, Runner!Running
<1>1. Runner!Tasks \subseteq Task
  BY DEF Runner!Tasks
<1>2. Runner!TypeOK'
  BY <1>1
<1>3. Runner!Registered'
  BY DEF Runner!Registered
<1>4. Runner!Launched'
  BY DEF Runner!Launched, Runner!Registered
<1>5. Runner!Closing'
  BY DEF Runner!Closing, Runner!Tasks
<1>6. Runner!Spoilt'
  <2>1. /\ hit' = hit \cup Runner!Tasks /\ Nobody \notin Runner!Tasks
        /\ cancelled' = cancelled \cup {r \in attempted : running[r] \in Runner!Tasks}
    BY DEF Runner!Tasks
  <2>2. \A s \in Task : call[s].at \in {"aborting", "unwound"} =>
          call'[s].at = call[s].at
    OBVIOUS
  <2> QED
    BY <2>1, <2>2 DEF Runner!Spoilt
<1> QED
  BY <1>2, <1>3, <1>4, <1>5, <1>6

\* cancel() or close() returns: nobody it waited for is under way.
LEMMA WaitedInv ==
  ASSUME Runner!IInv, NEW t \in Task, Runner!Waited(t)
  PROVE  Runner!IInv'
<1> USE NobodyIsNoTask DEF Runner!IInv, Runner!TypeOK, Runner!Waited,
                           Runner!Gone, Runner!registry, Runner!processes,
                           Runner!signals, Runner!Out, Runner!At,
                           Runner!Running
<1>1. Runner!TypeOK'
  OBVIOUS
<1>2. Runner!Registered'
  BY DEF Runner!Registered
<1>3. Runner!Launched'
  BY DEF Runner!Launched, Runner!Registered
<1>4. Runner!Closing'
  BY DEF Runner!Closing
<1>5. Runner!Spoilt'
  BY DEF Runner!Spoilt
<1> QED
  BY <1>1, <1>2, <1>3, <1>4, <1>5

\* A cancelled task ends elsewhere; it is not one that is under way.
LEMMA EndElsewhereInv ==
  ASSUME Runner!IInv, NEW t \in Task, Runner!EndElsewhere(t)
  PROVE  Runner!IInv'
<1> USE NobodyIsNoTask DEF Runner!IInv, Runner!TypeOK, Runner!EndElsewhere,
                           Runner!EndHit, Runner!registry, Runner!processes,
                           Runner!Out, Runner!At, Runner!Running
<1>1. Runner!TypeOK'
  OBVIOUS
<1>2. Runner!Registered' /\ Runner!Launched'
  BY DEF Runner!Registered, Runner!Launched
<1>3. \A r \in Request : running[r] # t
  BY DEF Runner!Registered
<1>4. Runner!Closing'
  BY <1>3 DEF Runner!Closing
<1>5. Runner!Spoilt'
  BY <1>3 DEF Runner!Spoilt
<1> QED
  BY <1>1, <1>2, <1>4, <1>5

\* Tasks are cancelled, processes end, and other components take steps.
LEMMA OutsideInv ==
  ASSUME Runner!IInv,
         \/ \E S \in SUBSET Task : Runner!Interrupt(S)
         \/ \E r \in Request : Runner!Exits(r)
         \/ UNCHANGED Runner!vars
  PROVE  Runner!IInv'
<1>1. /\ hit' \subseteq Task /\ hit \subseteq hit' /\ cancelled' \subseteq Request
      /\ \A r \in cancelled' : \/ r \in cancelled
                               \/ /\ r \in attempted
                                  /\ running[r] \in Task /\ running[r] \in hit'
      /\ alive' \subseteq alive /\ aborted' \subseteq alive'
      /\ alive' \ aborted' \subseteq alive \ aborted
      /\ UNCHANGED <<running, closed, attempted, results, call, waits,
                     launched>>
  <2>1. CASE \E S \in SUBSET Task : Runner!Interrupt(S)
    BY <2>1 DEF Runner!IInv, Runner!TypeOK, Runner!Interrupt, Runner!Hit,
                Runner!registry, Runner!processes
  <2>2. CASE \E r \in Request : Runner!Exits(r)
    BY <2>2 DEF Runner!IInv, Runner!TypeOK, Runner!Exits, Runner!registry,
                Runner!signals
  <2>3. CASE UNCHANGED Runner!vars
    BY <2>3 DEF Runner!IInv, Runner!TypeOK, Runner!vars
  <2> QED
    BY <2>1, <2>2, <2>3
<1>2. Runner!TypeOK'
  BY <1>1 DEF Runner!IInv, Runner!TypeOK, Runner!At, Runner!Running
<1>3. Runner!Registered' /\ Runner!Launched' /\ Runner!Closing'
  BY <1>1 DEF Runner!IInv, Runner!Registered, Runner!Launched, Runner!Closing
<1>4. Runner!Spoilt'
  <2>1. ASSUME NEW r \in cancelled'
        PROVE  /\ r \in attempted' /\ r \notin results'
               /\ running'[r] \in Task =>
                    \/ running'[r] \in hit'
                    \/ call'[running'[r]].at \in {"aborting", "unwound"}
    BY <1>1, <2>1, NobodyIsNoTask DEF Runner!IInv, Runner!Spoilt
  <2> QED
    BY <1>1, <2>1 DEF Runner!IInv, Runner!Spoilt
<1> QED
  BY <1>2, <1>3, <1>4 DEF Runner!IInv

\* Every step keeps the invariant.
LEMMA RunnerNext ==
  Runner!IInv /\ [Runner!Next]_(Runner!vars) => Runner!IInv'
<1> SUFFICES ASSUME Runner!IInv, [Runner!Next]_(Runner!vars) PROVE Runner!IInv'
  OBVIOUS
<1>1. CASE \E t \in Task, r \in Request :
             Runner!Run(t, r) \/ Runner!Cancel(t, r)
  BY <1>1, RunInv, CancelInv
<1>2. CASE \E t \in Task :
             \/ Runner!Denied(t) \/ Runner!GiveUp(t)
             \/ Runner!LeaveStart(t) \/ Runner!Stopped(t)
  BY <1>2, LeaveInv
<1>3. CASE \E t \in Task, starts \in BOOLEAN : Runner!Approved(t, starts)
  BY <1>3, StartInv, StartFailsInv
<1>4. CASE \E t \in Task :
             \/ Runner!Started(t) \/ Runner!AbortStart(t) \/ Runner!Ended(t)
             \/ Runner!TimedOut(t) \/ Runner!Unwind(t)
  BY <1>4, MoveInv
<1>5. CASE \E t \in Task :
             Runner!Close(t) \/ Runner!Waited(t) \/ Runner!EndElsewhere(t)
  BY <1>5, CloseInv, WaitedInv, EndElsewhereInv
<1>6. CASE \/ \E S \in SUBSET Task : Runner!Interrupt(S)
           \/ \E r \in Request : Runner!Exits(r)
           \/ UNCHANGED Runner!vars
  BY <1>6, OutsideInv
<1> QED
  BY <1>1, <1>2, <1>3, <1>4, <1>5, <1>6
     DEF Runner!Next

\* IInv is an invariant of the runner among callers of any kind.
THEOREM RunnerInvariance ==
  Runner!Spec => []Runner!IInv
<1>1. Runner!Init => Runner!IInv
  BY RunnerInit
<1>2. Runner!IInv /\ [Runner!Next]_(Runner!vars) => Runner!IInv'
  BY RunnerNext
<1> QED
  BY <1>1, <1>2, PTL DEF Runner!Spec

\* What the invariant says: ids are run once; no process that has started
\* outlives the task that waits for it; nothing but processes killed while
\* they started is left when close() has returned; and what was cancelled has
\* no result.
LEMMA InvImplies ==
  ASSUME Runner!IInv
  PROVE  /\ Runner!RunsOnce /\ Runner!NoProcessLeft /\ Runner!CloseIsQuiet
         /\ Runner!CancelledHasNoResult
<1>1. Runner!RunsOnce
  BY DEF Runner!IInv, Runner!TypeOK, Runner!Launched, Runner!RunsOnce
<1>2. Runner!NoProcessLeft
  BY DEF Runner!IInv, Runner!TypeOK, Runner!Launched, Runner!Registered,
         Runner!NoProcessLeft
<1>3. Runner!CloseIsQuiet
  BY DEF Runner!IInv, Runner!TypeOK, Runner!Launched, Runner!Closing,
         Runner!CloseIsQuiet, Runner!Tasks
<1>4. Runner!CancelledHasNoResult
  BY DEF Runner!IInv, Runner!Spoilt, Runner!CancelledHasNoResult
<1> QED
  BY <1>1, <1>2, <1>3, <1>4

(***************************************************************************)
(* The runner among the tools                                              *)
(***************************************************************************)
\* Each step of a tool that runs, cancels or stops commands is one of the
\* runner.
LEMMA CommandSteps ==
  ASSUME NEW t \in Task
  PROVE  /\ CommandStep(t) \/ CommandGivenUp(t) => Runner!Next
         /\ CommandTimedOut(t) \/ CloseRunner(t) => Runner!Next
         /\ \A r \in Request : RunCommand(t, r) => Runner!Next
         /\ \A r \in Request : CancelCommand(t, r) => Runner!Next
         /\ \A yes \in BOOLEAN : CommandAnswered(t, yes) => Runner!Next
BY DEF CommandStep, CommandGivenUp, CommandTimedOut, CloseRunner, RunCommand,
       CancelCommand, CommandAnswered, Runner!Next

\* Steps of a task in a change, on the console, or neither.
LEMMA OtherSteps ==
  /\ \A t \in Task : ChangeGivenUp(t) => Runner!Next
  /\ \A t \in Task : ChangeTurn(t) \/ ShowPrompt(t) => UNCHANGED runner
  /\ \A t \in Task, yes \in BOOLEAN : ChangeAnswered(t, yes) => UNCHANGED runner
  /\ \A t \in Task, c \in Change : ApplyChange(t, c) => UNCHANGED runner
  /\ \A c \in Change, content \in Content :
       PreviewChange(c, content) => UNCHANGED runner
  /\ \A content \in Content \cup {Nobody} :
       EditFile(content) => UNCHANGED runner
  /\ \A yes \in BOOLEAN : TypeLine(yes) => UNCHANGED runner
  /\ ReadChat => UNCHANGED runner
<1>1. \A t \in Task : ChangeGivenUp(t) => Runner!Next
  BY DEF ChangeGivenUp, Runner!Next
<1>2. \A t \in Task : ChangeTurn(t) \/ ShowPrompt(t) => UNCHANGED runner
  BY DEF ChangeTurn, ShowPrompt, OnlyConsole
<1>3. /\ \A t \in Task, yes \in BOOLEAN :
            ChangeAnswered(t, yes) => UNCHANGED runner
      /\ \A t \in Task, c \in Change : ApplyChange(t, c) => UNCHANGED runner
  BY DEF ChangeAnswered, ApplyChange
<1>4. /\ \A c \in Change, content \in Content :
            PreviewChange(c, content) => UNCHANGED runner
      /\ \A content \in Content \cup {Nobody} :
            EditFile(content) => UNCHANGED runner
  BY DEF PreviewChange, EditFile, OnlyChanges
<1>5. /\ \A yes \in BOOLEAN : TypeLine(yes) => UNCHANGED runner
      /\ ReadChat => UNCHANGED runner
  BY DEF TypeLine, ReadChat, OnlyConsole
<1> QED
  BY <1>1, <1>2, <1>3, <1>4, <1>5

\* Cancellation from outside, of tasks only, and the end of a process.
LEMMA AroundSteps ==
  ASSUME Runner!TypeOK
  PROVE  /\ TurnInterrupted => Runner!Next
         /\ \A r \in Request : ProcessExits(r) => Runner!Next
<1>1. ASSUME TurnInterrupted PROVE Runner!Next
  <2>1. Runner!Tasks \cup Editing \in SUBSET Task
    BY DEF Runner!Tasks, Editing, Runner!TypeOK
  <2> QED
    BY <1>1, <2>1 DEF TurnInterrupted, Runner!Next
<1>2. \A r \in Request : ProcessExits(r) => Runner!Next
  BY DEF ProcessExits, Runner!Next
<1> QED
  BY <1>1, <1>2

\* Every step of the tools is a step of the runner or leaves it alone.
LEMMA StepSimulation ==
  ASSUME Runner!TypeOK, [Next]_vars PROVE [Runner!Next]_(Runner!vars)
<1>1. CASE \E t \in Task : Proceeds(t)
  BY <1>1, CommandSteps, OtherSteps
     DEF Proceeds, runner, Runner!vars
<1>2. CASE \/ \E t \in Task, r \in Request :
                RunCommand(t, r) \/ CancelCommand(t, r)
           \/ \E t \in Task : CloseRunner(t) \/ CommandTimedOut(t)
  BY <1>2, CommandSteps
<1>3. CASE TurnInterrupted \/ \E r \in Request : ProcessExits(r)
  BY <1>3, AroundSteps
<1>4. CASE \/ \E c \in Change, content \in Content : PreviewChange(c, content)
           \/ \E t \in Task, c \in Change : ApplyChange(t, c)
           \/ \E content \in Content \cup {Nobody} : EditFile(content)
           \/ \E yes \in BOOLEAN : TypeLine(yes)
           \/ ReadChat
  BY <1>4, OtherSteps DEF runner, Runner!vars
<1>5. CASE UNCHANGED vars
  BY <1>5 DEF vars, runner, Runner!vars
<1> QED
  BY <1>1, <1>2, <1>3, <1>4, <1>5
     DEF Next

\* The invariant of the runner holds among the tools of an agent.
THEOREM RunnerInvariant == Spec => []Runner!IInv
<1>1. Init => Runner!IInv
  BY RunnerInit DEF Init
<1>2. Runner!IInv /\ [Next]_vars => Runner!IInv'
  BY StepSimulation, RunnerNext DEF Runner!IInv
<1> QED
  BY <1>1, <1>2, PTL DEF Spec

\* CodingActions implements CommandRunner: its commands are run, denied,
\* stopped and cancelled as LocalCommandRunner runs them for any callers.
THEOREM RefinesRunner == Spec => Runner!Spec
<1>1. Runner!IInv /\ [Next]_vars => [Runner!Next]_(Runner!vars)
  BY StepSimulation DEF Runner!IInv
<1>2. Init => Runner!Init
  BY DEF Init
<1> QED
  BY <1>1, <1>2, RunnerInvariant, PTL
     DEF Spec, Runner!Spec

\* Whatever is denied, cancelled, timed out or closed in between, the process
\* of a request id is started at most once (LocalCommandRunner._run).
THEOREM RunsOnceHolds == Spec => []RunsOnce
<1>1. Runner!IInv => RunsOnce
  BY InvImplies DEF RunsOnce, Runner!RunsOnce
<1> QED
  BY <1>1, RunnerInvariant, PTL

\* No process that was started outlives the task that waits for it (_stop);
\* one that asyncio has killed while it started may.
THEOREM NoProcessLeftHolds == Spec => []NoProcessLeft
<1>1. Runner!IInv => NoProcessLeft
  BY InvImplies
     DEF NoProcessLeft, Runner!NoProcessLeft
<1> QED
  BY <1>1, RunnerInvariant, PTL

\* When every close() has returned no command is under way, and no process is
\* left but one that asyncio has killed while it started.
THEOREM CloseIsQuietHolds == Spec => []CloseIsQuiet
<1>1. Runner!IInv => CloseIsQuiet
  BY InvImplies
     DEF CloseIsQuiet, Runner!CloseIsQuiet, Runner!Tasks
<1> QED
  BY <1>1, RunnerInvariant, PTL

\* A request that was cancelled while or after its process started never has
\* a result, in whichever await the cancellation met it and whatever is
\* called with its id later (run(), _stop()).
THEOREM CancelledHasNoResultHolds == Spec => []CancelledHasNoResult
<1>1. Runner!IInv => CancelledHasNoResult
  BY InvImplies DEF CancelledHasNoResult, Runner!CancelledHasNoResult
<1> QED
  BY <1>1, RunnerInvariant, PTL

(***************************************************************************)
(* Changes                                                                 *)
(***************************************************************************)
\* No change is written when the tools start.
LEMMA ChangesInit == Init => Changes!IInv
<1> SUFFICES ASSUME Init PROVE Changes!IInv
  OBVIOUS
<1> QED
  BY NobodyAssumption DEF Init, Changes!Init, Changes!IInv, Changes!None

\* Who applies a change gets the lock only for one that is not applied yet.
LEMMA ChangesBegin ==
  ASSUME Changes!IInv, NEW t \in Task,
         \/ \E c \in Change : Changes!Apply(t, c) \/ Changes!ApplyLater(t, c)
         \/ Changes!ApplyNext(t)
  PROVE  Changes!IInv'
<1> USE NobodyAssumption DEF Changes!IInv
<1>1. ASSUME NEW c \in Change, Changes!Apply(t, c) PROVE Changes!IInv'
  <2>1. /\ writer' = t /\ changing' = [changing EXCEPT ![t] = c]
        /\ c \notin applied /\ pending[c] # Changes!None
        /\ UNCHANGED <<pending, applied, writes>>
    BY <1>1 DEF Changes!Apply, Changes!Live
  <2> QED
    BY <2>1 DEF Changes!Live
<1>2. ASSUME NEW c \in Change, Changes!ApplyLater(t, c) PROVE Changes!IInv'
  <2>1. /\ changing[t] = Nobody /\ changing' = [changing EXCEPT ![t] = c]
        /\ UNCHANGED <<pending, applied, writer, writes>>
    BY <1>2 DEF Changes!ApplyLater
  <2>2. writer # t
    BY <2>1
  <2> QED
    BY <2>1, <2>2 DEF Changes!Live
<1>3. CASE Changes!ApplyNext(t)
  <2>1. /\ writer' = t /\ changing[t] \notin applied /\ changing[t] # Nobody
        /\ pending[changing[t]] # Changes!None
        /\ UNCHANGED <<pending, applied, changing, writes>>
    BY <1>3 DEF Changes!ApplyNext, Changes!Live, Changes!Turn
  <2> QED
    BY <2>1 DEF Changes!Live
<1> QED
  BY <1>1, <1>2, <1>3

\* Who is refused or cancelled leaves the lock and no trace; who writes a
\* change marks it applied while it still holds the lock.
LEMMA ChangesEnd ==
  ASSUME Changes!IInv, NEW t \in Task,
         \/ Changes!ApplyGone(t) \/ Changes!Rejected(t) \/ Changes!Abandon(t)
         \/ Changes!Written(t)
  PROVE  Changes!IInv'
<1> USE NobodyAssumption DEF Changes!IInv
<1>1. CASE Changes!ApplyGone(t) \/ Changes!Rejected(t) \/ Changes!Abandon(t)
  <2>1. /\ changing' = [changing EXCEPT ![t] = Nobody]
        /\ writer' = IF writer = t THEN Nobody ELSE writer
        /\ UNCHANGED <<pending, applied, writes>>
    BY <1>1 DEF Changes!ApplyGone, Changes!Rejected, Changes!Abandon,
                Changes!Finish
  <2> QED
    BY <2>1 DEF Changes!Live
<1>2. CASE Changes!Written(t)
  <2> DEFINE c == changing[t]
  <2>1. /\ writer = t /\ writer' = Nobody
        /\ applied' = applied \cup {c}
        /\ pending' = [pending EXCEPT ![c] = Changes!None]
        /\ changing' = [changing EXCEPT ![t] = Nobody]
        /\ writes' = [writes EXCEPT ![c] = @ + 1]
    BY <1>2 DEF Changes!Written, Changes!Finish
  <2>2. \A d \in Change : writes'[d] = 0 \/ (writes'[d] = 1 /\ d \in applied')
    BY <2>1 DEF Changes!Live
  <2>3. \A s \in Task : writer' # s
    BY <2>1
  <2>4. DOMAIN pending' = Change /\ pending' = [d \in Change |-> pending'[d]]
    BY <2>1
  <2>5. /\ changing' \in [Task -> Change \cup {Nobody}]
        /\ writes' \in [Change -> Nat]
    BY <2>1
  <2> QED
    BY <2>1, <2>2, <2>3, <2>4, <2>5
<1> QED
  BY <1>1, <1>2

\* Previews and writes of other programs; a preview has a new id.
LEMMA ChangesAround ==
  ASSUME Changes!IInv,
         \/ \E c \in Change, content \in Content : Changes!Propose(c, content)
         \/ \E content \in Content \cup {Nobody} : Changes!Edit(content)
         \/ UNCHANGED changes
  PROVE  Changes!IInv'
<1> USE DEF Changes!IInv
<1>1. ASSUME NEW c \in Change, NEW content \in Content,
             Changes!Propose(c, content)
      PROVE  Changes!IInv'
  <2>1. /\ \E p : pending' = [pending EXCEPT ![c] = p]
        /\ pending[c] = Changes!None
        /\ UNCHANGED <<applied, writer, changing, writes>>
    BY <1>1 DEF Changes!Propose
  <2>2. \A d \in Change : d # c => pending'[d] = pending[d]
    BY <2>1
  <2>3. DOMAIN pending' = Change /\ pending' = [d \in Change |-> pending'[d]]
    BY <2>1
  <2> QED
    BY <2>1, <2>2, <2>3 DEF Changes!Live
<1>2. CASE (\E content \in Content \cup {Nobody} : Changes!Edit(content))
           \/ UNCHANGED changes
  BY <1>2 DEF Changes!Edit, Changes!Live, changes
<1> QED
  BY <1>1, <1>2

\* Every step of the tools keeps the invariant of the changes.
LEMMA ChangesNext ==
  Changes!IInv /\ [Next]_vars => Changes!IInv'
<1> SUFFICES ASSUME Changes!IInv, [Next]_vars PROVE Changes!IInv'
  OBVIOUS
<1>1. CASE \E t \in Task : \/ ChangeTurn(t) \/ ChangeGivenUp(t)
                          \/ \E yes \in BOOLEAN : ChangeAnswered(t, yes)
                          \/ \E c \in Change : ApplyChange(t, c)
  BY <1>1, ChangesBegin, ChangesEnd
     DEF ChangeTurn, ChangeGivenUp, ChangeAnswered, ApplyChange
<1>2. CASE \/ \E c \in Change, content \in Content : PreviewChange(c, content)
           \/ \E content \in Content \cup {Nobody} : EditFile(content)
  BY <1>2, ChangesAround DEF PreviewChange, EditFile
<1>3. ASSUME \/ \E t \in Task :
                  \/ CommandStep(t) \/ CommandGivenUp(t) \/ ShowPrompt(t)
                  \/ CloseRunner(t) \/ CommandTimedOut(t)
                  \/ \E yes \in BOOLEAN : CommandAnswered(t, yes)
                  \/ \E r \in Request : RunCommand(t, r) \/ CancelCommand(t, r)
             \/ \E r \in Request : ProcessExits(r)
             \/ \E yes \in BOOLEAN : TypeLine(yes)
             \/ ReadChat \/ TurnInterrupted \/ UNCHANGED vars
      PROVE  UNCHANGED changes
  BY <1>3 DEF CommandStep, CommandGivenUp, ShowPrompt, CloseRunner,
              CommandTimedOut, CommandAnswered, RunCommand, CancelCommand,
              ProcessExits, TypeLine, ReadChat, TurnInterrupted, OnlyRunner,
              OnlyConsole, vars
<1> QED
  BY <1>1, <1>2, <1>3, ChangesAround
     DEF Next, Proceeds

\* However often and by whomever a change is applied, and whatever happens to
\* the file, it is written at most once (LocalWorkspaceChanges.apply).
THEOREM AppliedOnceHolds == Spec => []AppliedOnce
<1>1. Changes!IInv => AppliedOnce
  BY DEF Changes!IInv, AppliedOnce, Changes!AppliedOnce
<1> QED
  BY ChangesInit, ChangesNext, <1>1, PTL
     DEF Spec

(***************************************************************************)
(* Prompts                                                                 *)
(***************************************************************************)
\* Whoever has the console or is in line for it asks about something; the
\* prompt on the screen is that of the one who has it.
InLine ==
  /\ asking \in [Task -> Request \cup Change \cup {Nobody}]
  /\ holder \in Task \cup {Nobody}
  /\ queue \in Seq(Task)
  /\ \A m, n \in 1..Len(queue) : queue[m] = queue[n] => m = n
  /\ \A n \in 1..Len(queue) : queue[n] # holder /\ asking[queue[n]] # Nobody
  /\ \A t \in Task : holder = t => asking[t] # Nobody /\ screen = asking[t]

\* A task asks about the request whose approval it awaits, or about the change
\* it has the lock for, and is never in both.
AsksForIts(t) ==
  /\ call[t].at = "approval" => asking[t] = call[t].request
  /\ writer = t => asking[t] = changing[t]
  /\ asking[t] # Nobody => call[t].at = "approval" \/ writer = t
  /\ changing[t] # Nobody => call[t] = Runner!Out

PromptInv == InLine /\ \A t \in Task : AsksForIts(t)

\* Leaving a line in which one is once, or not at all.
LEMMA LeftLine ==
  ASSUME NEW s \in Seq(Task), NEW t,
         \A m, n \in 1..Len(s) : s[m] = s[n] => m = n
  PROVE  LET r == Console!RemoveFirst(s, t)
         IN  /\ r \in Seq(Task)
             /\ \A m, n \in 1..Len(r) : r[m] = r[n] => m = n
             /\ \A n \in 1..Len(r) :
                  r[n] # t /\ \E m \in 1..Len(s) : r[n] = s[m]
<1> DEFINE r == Console!RemoveFirst(s, t)
<1>1. CASE \A m \in 1..Len(s) : s[m] # t
  <2>1. r = s
    BY <1>1 DEF Console!RemoveFirst
  <2> QED
    BY <1>1, <2>1
<1>2. ASSUME NEW n \in 1..Len(s), s[n] = t
      PROVE  /\ r \in Seq(Task)
             /\ Len(r) = Len(s) - 1
             /\ \A m \in 1..(Len(s) - 1) : r[m] = IF m < n THEN s[m] ELSE s[m + 1]
  <2> DEFINE I == {m \in 1..Len(s) : s[m] = t}
             a == SubSeq(s, 1, n - 1)
             b == SubSeq(s, n + 1, Len(s))
  <2>1. I = {n}
    BY <1>2
  <2>2. Console!SelectInSeq(s, LAMBDA v : v = t) = n
    BY <2>1 DEF Console!SelectInSeq, Console!Min
  <2>3. r = a \o b
    BY <1>2, <2>2 DEF Console!RemoveFirst, Console!RemoveAt
  <2>4. a \in Seq(Task) /\ Len(a) = n - 1 /\ \A m \in 1..(n - 1) : a[m] = s[m]
    <3>1. \A m \in 1..(n - 1) : s[m] \in Task
      OBVIOUS
    <3> QED
      BY <3>1, SubSeqProperties, SMT
  <2>5. /\ b \in Seq(Task) /\ Len(b) = Len(s) - n
        /\ \A m \in 1..(Len(s) - n) : b[m] = s[m + n]
    <3>1. \A m \in (n + 1)..Len(s) : s[m] \in Task
      OBVIOUS
    <3> QED
      BY <3>1, SubSeqProperties, SMT
  <2> HIDE DEF a, b, r
  <2>6. /\ a \o b \in Seq(Task)
        /\ Len(a \o b) = Len(s) - 1
        /\ \A m \in 1..(Len(s) - 1) :
             (a \o b)[m] = IF m < n THEN s[m] ELSE s[m + 1]
    <3>1. /\ a \o b \in Seq(Task) /\ Len(a \o b) = Len(a) + Len(b)
          /\ \A m \in 1..(Len(a) + Len(b)) :
               (a \o b)[m] = IF m <= Len(a) THEN a[m] ELSE b[m - Len(a)]
      BY <2>4, <2>5, ConcatProperties
    <3>2. Len(a) = n - 1 /\ Len(a) + Len(b) = Len(s) - 1
      BY <2>4, <2>5
    <3>3. ASSUME NEW m \in 1..(Len(s) - 1)
          PROVE  (a \o b)[m] = IF m < n THEN s[m] ELSE s[m + 1]
      <4>1. CASE m < n
        <5>1. (a \o b)[m] = a[m] /\ m \in 1..(n - 1)
          BY <3>1, <3>2, <4>1
        <5> QED
          BY <2>4, <4>1, <5>1
      <4>2. CASE ~(m < n)
        <5>1. (a \o b)[m] = b[m - (n - 1)] /\ m - (n - 1) \in 1..(Len(s) - n)
          BY <3>1, <3>2, <4>2
        <5>2. b[m - (n - 1)] = s[(m - (n - 1)) + n] /\ (m - (n - 1)) + n = m + 1
          BY <2>5, <5>1
        <5> QED
          BY <4>2, <5>1, <5>2
      <4> QED
        BY <4>1, <4>2
    <3> QED
      BY <3>1, <3>2, <3>3
  <2> QED
    BY <2>3, <2>6
<1> HIDE DEF r
<1>3. ASSUME NEW n \in 1..Len(s), s[n] = t
      PROVE  /\ r \in Seq(Task)
             /\ \A m, k \in 1..Len(r) : r[m] = r[k] => m = k
             /\ \A m \in 1..Len(r) :
                  r[m] # t /\ \E k \in 1..Len(s) : r[m] = s[k]
  <2>1. /\ r \in Seq(Task) /\ Len(r) = Len(s) - 1
        /\ \A m \in 1..(Len(s) - 1) : r[m] = IF m < n THEN s[m] ELSE s[m + 1]
    BY <1>2, <1>3
  <2> DEFINE old(m) == IF m < n THEN m ELSE m + 1
  <2>2. \A m \in 1..Len(r) : old(m) \in 1..Len(s) /\ old(m) # n /\ r[m] = s[old(m)]
    BY <2>1
  <2>3. \A m, k \in 1..Len(r) : old(m) = old(k) => m = k
    BY <2>1
  <2>4. \A m \in 1..Len(r) : s[old(m)] # t
    BY <1>3, <2>2
  <2> HIDE DEF old
  <2>5. ASSUME NEW m \in 1..Len(r), NEW k \in 1..Len(r), r[m] = r[k]
        PROVE  m = k
    <3>1. old(m) \in 1..Len(s) /\ old(k) \in 1..Len(s) /\ s[old(m)] = s[old(k)]
      BY <2>2, <2>5
    <3> QED
      BY <2>3, <3>1
  <2>6. \A m \in 1..Len(r) : r[m] # t /\ \E k \in 1..Len(s) : r[m] = s[k]
    BY <2>2, <2>4
  <2> QED
    BY <2>1, <2>5, <2>6
<1> QED
  BY <1>1, <1>3 DEF r

\* Who asks is in line, or has the console with the prompt on the screen.
LEMMA AskKeepsLine ==
  ASSUME InLine, NEW t \in Task, NEW x \in Request \cup Change,
         Console!Ask(t, x)
  PROVE  InLine'
<1> USE NobodyAssumption DEF InLine
<1>1. /\ asking' = [asking EXCEPT ![t] = x] /\ asking[t] = Nobody
      /\ x # Nobody
  BY DEF Console!Ask
<1>2. \A n \in 1..Len(queue) : queue[n] # t
  BY <1>1
<1>3. CASE Console!Locked
  <2>1. queue' = Append(queue, t) /\ holder' = holder /\ screen' = screen
    BY <1>3 DEF Console!Ask
  <2>2. /\ queue' \in Seq(Task) /\ Len(queue') = Len(queue) + 1
        /\ queue'[Len(queue) + 1] = t
        /\ \A n \in 1..Len(queue) : queue'[n] = queue[n]
    BY <2>1
  <2>3. \A m, n \in 1..Len(queue') : queue'[m] = queue'[n] => m = n
    BY <1>2, <2>2
  <2>4. holder # t
    BY <1>1
  <2> QED
    BY <1>1, <2>1, <2>2, <2>3, <2>4
<1>4. CASE ~Console!Locked
  <2>1. holder' = t /\ screen' = x /\ queue' = queue /\ queue = <<>>
    BY <1>4 DEF Console!Ask, Console!Locked
  <2> QED
    BY <1>1, <2>1
<1> QED
  BY <1>3, <1>4

\* Who is answered or withdraws leaves the line and the console.
LEMMA DoneKeepsLine ==
  ASSUME InLine, NEW t \in Task, Console!Done(t), screen' = screen
  PROVE  InLine'
<1> USE NobodyAssumption DEF InLine
<1>1. /\ asking' = [asking EXCEPT ![t] = Nobody]
      /\ holder' = IF holder = t THEN Nobody ELSE holder
      /\ queue' = Console!RemoveFirst(queue, t)
  BY DEF Console!Done
<1>2. /\ queue' \in Seq(Task)
      /\ \A m, n \in 1..Len(queue') : queue'[m] = queue'[n] => m = n
      /\ \A n \in 1..Len(queue') :
           queue'[n] # t /\ \E m \in 1..Len(queue) : queue'[n] = queue[m]
  BY <1>1, LeftLine
<1>3. \A n \in 1..Len(queue') : queue'[n] # holder' /\ asking'[queue'[n]] # Nobody
  <2> SUFFICES ASSUME NEW n \in 1..Len(queue')
               PROVE  queue'[n] # holder' /\ asking'[queue'[n]] # Nobody
    OBVIOUS
  <2>1. queue'[n] \in Task /\ queue'[n] # t
    BY <1>2
  <2>2. PICK m \in 1..Len(queue) : queue'[n] = queue[m]
    BY <1>2
  <2>3. queue[m] # holder /\ asking[queue[m]] # Nobody
    OBVIOUS
  <2>4. asking'[queue'[n]] = asking[queue'[n]]
    BY <1>1, <2>1
  <2> QED
    BY <1>1, <2>1, <2>2, <2>3, <2>4
<1>4. \A s \in Task : holder' = s => asking'[s] # Nobody /\ screen' = asking'[s]
  BY <1>1
<1>5. asking' \in [Task -> Request \cup Change \cup {Nobody}]
      /\ holder' \in Task \cup {Nobody}
  BY <1>1
<1> QED
  BY <1>2, <1>3, <1>4, <1>5

\* The first in line gets the console, and its prompt the screen.
LEMMA PromptKeepsLine ==
  ASSUME InLine, NEW t \in Task, Console!Prompt(t) PROVE InLine'
<1> USE NobodyAssumption DEF InLine
<1>1. /\ queue # <<>> /\ t = Head(queue) /\ queue' = Tail(queue)
      /\ holder' = t /\ screen' = asking[t] /\ asking' = asking
  BY DEF Console!Prompt
<1>2. /\ Len(queue) > 0 /\ t = queue[1] /\ queue' \in Seq(Task)
      /\ Len(queue') = Len(queue) - 1
      /\ \A n \in 1..Len(queue') : queue'[n] = queue[n + 1]
  BY <1>1
<1>3. ASSUME NEW m \in 1..Len(queue'), NEW n \in 1..Len(queue'),
             queue'[m] = queue'[n]
      PROVE  m = n
  <2>1. m + 1 \in 1..Len(queue) /\ n + 1 \in 1..Len(queue)
    BY <1>2
  <2>2. queue[m + 1] = queue[n + 1]
    BY <1>2, <1>3
  <2>3. m + 1 = n + 1
    BY <2>1, <2>2
  <2> QED
    BY <2>3
<1>4. \A n \in 1..Len(queue') : queue'[n] # t /\ asking[queue'[n]] # Nobody
  BY <1>2
<1>5. asking[t] # Nobody
  BY <1>2
<1> QED
  BY <1>1, <1>2, <1>3, <1>4, <1>5

\* What a task asks about is a matter of its own call, change and lock.
LEMMA OthersAsk ==
  ASSUME PromptInv, NEW t \in Task, NEW s \in Task, s # t,
         call'[s] = call[s], asking'[s] = asking[s],
         changing'[s] = changing[s], writer' = s <=> writer = s
  PROVE  AsksForIts(s)'
BY DEF PromptInv, AsksForIts

\* A command that is run asks about its request.
LEMMA RunAsks ==
  ASSUME Runner!IInv, Changes!IInv, PromptInv,
         NEW t \in Task, NEW r \in Request, RunCommand(t, r)
  PROVE  PromptInv'
<1>1. /\ Free(t) /\ Console!Ask(t, r) /\ UNCHANGED changes
      /\ call' = [call EXCEPT ![t] = [at |-> "approval", request |-> r]]
  BY DEF RunCommand, Runner!Run
<1>2. InLine'
  BY <1>1, AskKeepsLine DEF PromptInv
<1>3. asking' = [asking EXCEPT ![t] = r] /\ writer' = writer
      /\ changing' = changing
  BY <1>1 DEF Console!Ask, changes
<1>4. call'[t] = [at |-> "approval", request |-> r] /\ asking'[t] = r
  BY <1>1, <1>3 DEF PromptInv, InLine, Runner!IInv, Runner!TypeOK
<1>5. changing[t] = Nobody /\ writer # t
  BY <1>1, NobodyAssumption DEF Free, Changes!IInv
<1>6. AsksForIts(t)'
  BY <1>3, <1>4, <1>5 DEF AsksForIts
<1>7. \A s \in Task : s # t => AsksForIts(s)'
  BY <1>1, <1>3, OthersAsk
<1> QED
  BY <1>2, <1>6, <1>7 DEF PromptInv

\* A command that is answered or given up asks no more.
LEMMA AnswerAsks ==
  ASSUME Runner!IInv, Changes!IInv, PromptInv, NEW t \in Task,
         CommandGivenUp(t) \/ \E yes \in BOOLEAN : CommandAnswered(t, yes)
  PROVE  PromptInv'
<1>1. /\ call[t].at = "approval" /\ Console!Done(t)
      /\ screen' = screen /\ UNCHANGED changes
      /\ \/ call' = [call EXCEPT ![t] = Runner!Out]
         \/ call' = [call EXCEPT ![t].at = "starting"]
  BY DEF CommandGivenUp, CommandAnswered, Runner!GiveUp, Runner!Approved,
         Runner!Denied, Runner!LeaveHit, Runner!Leave, Runner!MoveTo,
         Console!Withdraw, Console!Reply
<1>2. InLine'
  BY <1>1, DoneKeepsLine DEF PromptInv
<1>3. asking' = [asking EXCEPT ![t] = Nobody] /\ writer' = writer
      /\ changing' = changing
  BY <1>1 DEF Console!Done, changes
<1>4. /\ asking'[t] = Nobody /\ call'[t].at # "approval"
      /\ \A s \in Task : s # t =>
           call'[s] = call[s] /\ asking'[s] = asking[s]
  BY <1>1, <1>3
     DEF PromptInv, InLine, Runner!IInv, Runner!TypeOK, Runner!Out
<1>5. changing[t] = Nobody /\ writer # t
  <2>1. call[t] # Runner!Out
    BY <1>1 DEF Runner!Out
  <2> QED
    BY <2>1, NobodyAssumption DEF PromptInv, AsksForIts, Changes!IInv
<1>6. AsksForIts(t)'
  BY <1>3, <1>4, <1>5 DEF AsksForIts
<1>7. \A s \in Task : s # t => AsksForIts(s)'
  BY <1>3, <1>4, OthersAsk
<1> QED
  BY <1>2, <1>6, <1>7 DEF PromptInv

\* The other steps of commands, cancel() and close() ask about nothing.
LEMMA CommandMovesOn ==
  ASSUME Runner!IInv, Changes!IInv, PromptInv, NEW t \in Task,
         \/ CommandStep(t) \/ CommandTimedOut(t) \/ CloseRunner(t)
         \/ \E r \in Request : CancelCommand(t, r)
  PROVE  PromptInv'
<1>1. /\ call[t].at # "approval" /\ UNCHANGED <<changes, console>>
      /\ changing[t] = Nobody
      /\ \/ call' = [call EXCEPT ![t] = Runner!Out]
         \/ \E at \in Runner!At \ {"approval"} :
              call' = [call EXCEPT ![t].at = at]
  <2>1. CASE CommandStep(t) \/ CommandTimedOut(t)
    <3>1. /\ call[t].at # "approval" /\ call[t].at # "out"
          /\ UNCHANGED <<changes, console>>
          /\ \/ call' = [call EXCEPT ![t] = Runner!Out]
             \/ \E at \in Runner!At \ {"approval"} :
                  call' = [call EXCEPT ![t].at = at]
      BY <2>1 DEF CommandStep, CommandTimedOut, OnlyRunner, Runner!Started,
                  Runner!AbortStart, Runner!LeaveStart, Runner!Ended,
                  Runner!Unwind, Runner!Stopped, Runner!Waited,
                  Runner!TimedOut, Runner!MoveTo, Runner!Stopping,
                  Runner!LeaveHit, Runner!Leave, Runner!At, Runner!Running
    <3>2. call[t] # Runner!Out
      BY <3>1 DEF Runner!Out
    <3> QED
      BY <3>1, <3>2 DEF PromptInv, AsksForIts
  <2>2. CASE CloseRunner(t) \/ \E r \in Request : CancelCommand(t, r)
    <3>1. /\ Free(t) /\ UNCHANGED <<changes, console>>
          /\ \E at \in {"cancel", "close"} : call' = [call EXCEPT ![t].at = at]
      BY <2>2 DEF CloseRunner, CancelCommand, OnlyRunner, Runner!Close,
                  Runner!Cancel, Runner!Await
    <3>2. {"cancel", "close"} \subseteq Runner!At \ {"approval"}
      BY DEF Runner!At
    <3>3. call[t].at # "approval" /\ changing[t] = Nobody
      BY <3>1 DEF Free, Runner!Out
    <3> QED
      BY <3>1, <3>2, <3>3
  <2> QED
    BY <2>1, <2>2
<1>2. UNCHANGED <<asking, holder, queue, screen, writer, changing>>
  BY <1>1 DEF changes, console
<1>3. InLine'
  BY <1>2 DEF PromptInv, InLine
<1>4. call'[t].at # "approval" /\ \A s \in Task : s # t => call'[s] = call[s]
  BY <1>1 DEF Runner!IInv, Runner!TypeOK, Runner!Out
<1>5. AsksForIts(t)'
  BY <1>1, <1>2, <1>4, NobodyAssumption
     DEF PromptInv, AsksForIts, Changes!IInv
<1>6. \A s \in Task : s # t => AsksForIts(s)'
  BY <1>2, <1>4, OthersAsk
<1> QED
  BY <1>3, <1>5, <1>6 DEF PromptInv

\* Who gets the lock of the changes asks about the change; who waits for the
\* lock asks about nothing yet.
LEMMA ChangeAsks ==
  ASSUME Runner!IInv, Changes!IInv, PromptInv, NEW t \in Task,
         ChangeTurn(t) \/ \E c \in Change : ApplyChange(t, c)
  PROVE  PromptInv'
<1> USE NobodyAssumption
<1>1. UNCHANGED runner /\ call' = call
  BY DEF ChangeTurn, ApplyChange, runner
<1>2. ASSUME NEW c \in Change, call[t] = Runner!Out, Console!Ask(t, c),
             writer = Nobody, writer' = t, changing'[t] = c,
             \A s \in Task : s # t => changing'[s] = changing[s]
      PROVE  PromptInv'
  <2>1. InLine'
    BY <1>2, AskKeepsLine DEF PromptInv
  <2>2. asking' = [asking EXCEPT ![t] = c]
    BY <1>2 DEF Console!Ask
  <2>3. AsksForIts(t)'
    BY <1>1, <1>2, <2>2 DEF PromptInv, InLine, AsksForIts, Runner!Out
  <2>4. \A s \in Task : s # t => AsksForIts(s)'
    BY <1>1, <1>2, <2>2, OthersAsk
  <2> QED
    BY <2>1, <2>3, <2>4 DEF PromptInv
<1>3. ASSUME UNCHANGED console, call[t] = Runner!Out, writer' = writer,
             writer # t, changing' \in [Task -> Change \cup {Nobody}],
             \A s \in Task : s # t => changing'[s] = changing[s]
      PROVE  PromptInv'
  <2>1. UNCHANGED <<asking, holder, queue, screen>>
    BY <1>3 DEF console
  <2>2. InLine'
    BY <2>1 DEF PromptInv, InLine
  <2>3. AsksForIts(t)'
    BY <1>1, <1>3, <2>1 DEF PromptInv, AsksForIts, Runner!Out
  <2>4. \A s \in Task : s # t => AsksForIts(s)'
    BY <1>1, <1>3, <2>1, OthersAsk
  <2> QED
    BY <2>2, <2>3, <2>4 DEF PromptInv
<1>4. ASSUME NEW c \in Change, ApplyChange(t, c) PROVE PromptInv'
  <2>1. call[t] = Runner!Out /\ changing[t] = Nobody /\ writer # t
    BY <1>4 DEF ApplyChange, Free, Changes!IInv
  <2>2. CASE Changes!Apply(t, c) /\ Console!Ask(t, c)
    BY <1>2, <2>1, <2>2 DEF Changes!Apply, Changes!IInv
  <2>3. CASE Changes!ApplyLater(t, c) /\ UNCHANGED console
    BY <1>3, <2>1, <2>3 DEF Changes!ApplyLater, Changes!IInv
  <2> QED
    BY <1>4, <2>2, <2>3 DEF ApplyChange
<1>5. CASE ChangeTurn(t)
  <2>1. changing[t] \in Change /\ call[t] = Runner!Out /\ writer = Nobody
    BY <1>5 DEF ChangeTurn, Changes!ApplyNext, Changes!ApplyGone,
                Changes!Turn, Changes!IInv, PromptInv, AsksForIts
  <2>2. CASE Changes!ApplyNext(t) /\ Console!Ask(t, changing[t])
    BY <1>2, <2>1, <2>2 DEF Changes!ApplyNext
  <2>3. CASE Changes!ApplyGone(t) /\ UNCHANGED console
    BY <1>3, <2>1, <2>3
       DEF Changes!ApplyGone, Changes!Finish, Changes!IInv
  <2> QED
    BY <1>5, <2>2, <2>3 DEF ChangeTurn
<1> QED
  BY <1>4, <1>5

\* Who is answered about a change, or gives it up, leaves lock and console.
LEMMA ChangeEndsAsking ==
  ASSUME Runner!IInv, Changes!IInv, PromptInv, NEW t \in Task,
         ChangeGivenUp(t) \/ \E yes \in BOOLEAN : ChangeAnswered(t, yes)
  PROVE  PromptInv'
<1> USE NobodyAssumption
<1>1. /\ call' = call /\ changing[t] # Nobody
      /\ changing' = [changing EXCEPT ![t] = Nobody]
      /\ writer' = IF writer = t THEN Nobody ELSE writer
  BY DEF ChangeGivenUp, ChangeAnswered, Runner!EndElsewhere, runner,
         Changes!Abandon, Changes!Rejected, Changes!Written, Changes!Finish,
         Changes!IInv
<1>2. call[t] = Runner!Out
  BY <1>1 DEF PromptInv, AsksForIts
<1>3. \/ Console!Done(t) /\ screen' = screen
      \/ asking[t] = Nobody /\ UNCHANGED console
  BY DEF ChangeGivenUp, ChangeAnswered, Console!Reply, Console!Withdraw
<1>4. InLine' /\ asking'[t] = Nobody
      /\ \A s \in Task : s # t => asking'[s] = asking[s]
  <2>1. CASE Console!Done(t) /\ screen' = screen
    BY <2>1, DoneKeepsLine DEF PromptInv, InLine, Console!Done
  <2>2. CASE asking[t] = Nobody /\ UNCHANGED console
    BY <2>2 DEF PromptInv, InLine, console
  <2> QED
    BY <1>3, <2>1, <2>2
<1>5. /\ changing'[t] = Nobody /\ writer' # t
      /\ \A s \in Task : s # t => /\ changing'[s] = changing[s]
                                  /\ writer' = s <=> writer = s
  BY <1>1 DEF Changes!IInv
<1>6. AsksForIts(t)'
  BY <1>1, <1>2, <1>4, <1>5 DEF AsksForIts, Runner!Out
<1>7. \A s \in Task : s # t => AsksForIts(s)'
  BY <1>1, <1>4, <1>5, OthersAsk
<1> QED
  BY <1>4, <1>6, <1>7 DEF PromptInv

\* The chat takes the screen when nobody asks; nothing else touches a prompt
\* but the one that is shown next.
LEMMA AroundPrompts ==
  ASSUME Runner!IInv, Changes!IInv, PromptInv,
         \/ \E t \in Task : ShowPrompt(t)
         \/ \E r \in Request : ProcessExits(r)
         \/ \E c \in Change, content \in Content : PreviewChange(c, content)
         \/ \E content \in Content \cup {Nobody} : EditFile(content)
         \/ \E yes \in BOOLEAN : TypeLine(yes)
         \/ ReadChat \/ TurnInterrupted \/ UNCHANGED vars
  PROVE  PromptInv'
<1> USE NobodyAssumption
<1>1. UNCHANGED <<call, asking, changing, writer>>
  BY DEF ShowPrompt, ProcessExits, PreviewChange, EditFile, TypeLine,
         ReadChat, TurnInterrupted, OnlyRunner, OnlyChanges, OnlyConsole,
         Console!Prompt, Console!Type, Console!Chat, Changes!Propose,
         Changes!Edit, Runner!Exits, Runner!Interrupt, vars, runner, changes,
         console
<1>2. \A t \in Task : AsksForIts(t)'
  BY <1>1 DEF PromptInv, AsksForIts
<1>3. CASE \E t \in Task : ShowPrompt(t)
  BY <1>2, <1>3, PromptKeepsLine DEF ShowPrompt, PromptInv
<1>4. CASE ReadChat
  <2>1. Runner!Tasks = {} /\ Editing = {} /\ UNCHANGED <<asking, holder, queue>>
    BY <1>4 DEF ReadChat, Console!Chat
  <2>2. ASSUME NEW t \in Task, holder = t PROVE FALSE
    <3>1. asking[t] # Nobody
      BY <2>2 DEF PromptInv, InLine
    <3>2. CASE call[t].at = "approval"
      <4>1. call[t].request \in Request /\ running[call[t].request] = t
        BY <3>2 DEF Runner!IInv, Runner!Registered, Runner!Running
      <4> QED
        BY <2>1, <4>1 DEF Runner!Tasks
    <3>3. CASE writer = t
      BY <2>1, <3>3 DEF Changes!IInv, Editing
    <3> QED
      BY <3>1, <3>2, <3>3 DEF PromptInv, AsksForIts
  <2> QED
    BY <1>2, <2>1, <2>2 DEF PromptInv, InLine
<1>5. ASSUME UNCHANGED <<holder, queue, screen>> PROVE PromptInv'
  BY <1>1, <1>2, <1>5 DEF PromptInv, InLine
<1>6. CASE \/ \E r \in Request : ProcessExits(r)
           \/ \E c \in Change, content \in Content : PreviewChange(c, content)
           \/ \E content \in Content \cup {Nobody} : EditFile(content)
           \/ \E yes \in BOOLEAN : TypeLine(yes)
           \/ TurnInterrupted \/ UNCHANGED vars
  BY <1>5, <1>6
     DEF ProcessExits, PreviewChange, EditFile, TypeLine, TurnInterrupted,
         OnlyRunner, OnlyChanges, OnlyConsole, Console!Type, vars, console
<1> QED
  BY <1>2, <1>3, <1>4, <1>6 DEF PromptInv

LEMMA PromptNext ==
  Runner!IInv /\ Changes!IInv /\ PromptInv /\ [Next]_vars => PromptInv'
<1> SUFFICES ASSUME Runner!IInv, Changes!IInv, PromptInv, [Next]_vars
             PROVE  PromptInv'
  OBVIOUS
<1>1. CASE \E t \in Task :
             \/ Proceeds(t) \/ CloseRunner(t) \/ CommandTimedOut(t)
             \/ \E r \in Request : RunCommand(t, r) \/ CancelCommand(t, r)
             \/ \E c \in Change : ApplyChange(t, c)
  BY <1>1, RunAsks, AnswerAsks, CommandMovesOn, ChangeAsks, ChangeEndsAsking,
     AroundPrompts DEF Proceeds
<1>2. CASE \/ \E r \in Request : ProcessExits(r)
           \/ \E c \in Change, content \in Content : PreviewChange(c, content)
           \/ \E content \in Content \cup {Nobody} : EditFile(content)
           \/ \E yes \in BOOLEAN : TypeLine(yes)
           \/ ReadChat \/ TurnInterrupted \/ UNCHANGED vars
  BY <1>2, AroundPrompts
<1> QED
  BY <1>1, <1>2 DEF Next

\* The prompts of commands and changes share one console and keep apart.
THEOREM PromptInvariance == Spec => []PromptInv
<1>1. Init => PromptInv
  <2> SUFFICES ASSUME Init PROVE PromptInv
    OBVIOUS
  <2>1. InLine
    BY NobodyAssumption DEF Init, Console!Init, InLine
  <2>2. \A t \in Task : AsksForIts(t)
    BY NobodyAssumption DEF Init, Console!Init, Changes!Init, Runner!Init,
                            Runner!Out, AsksForIts
  <2> QED
    BY <2>1, <2>2 DEF PromptInv
<1>2. Spec => []Changes!IInv
  BY ChangesInit, ChangesNext, PTL DEF Spec
<1> QED
  BY <1>1, <1>2, RunnerInvariant, PromptNext, PTL DEF Spec

\* What the next line decides is what the screen shows: the request or change
\* of the task that has the console (ConsoleApproval.confirm), however many
\* commands and changes await approval beside it and whichever of them were
\* cancelled.
THEOREM AnswerIsForThePromptHolds == Spec => []AnswerIsForThePrompt
<1>1. ASSUME Changes!IInv, PromptInv, NEW t \in Task, holder = t
      PROVE  /\ screen # Nobody
             /\ screen = IF changing[t] # Nobody THEN changing[t]
                                             ELSE call[t].request
  <2>1. asking[t] # Nobody /\ screen = asking[t]
    BY <1>1 DEF PromptInv, InLine
  <2>2. CASE changing[t] # Nobody
    <3>1. call[t].at # "approval"
      BY <1>1, <2>2 DEF PromptInv, AsksForIts, Runner!Out
    <3> QED
      BY <1>1, <2>1, <2>2, <3>1 DEF PromptInv, AsksForIts
  <2>3. CASE changing[t] = Nobody
    <3>1. writer # t
      BY <1>1, <2>3, NobodyAssumption DEF Changes!IInv
    <3> QED
      BY <1>1, <2>1, <2>3, <3>1 DEF PromptInv, AsksForIts
  <2> QED
    BY <2>1, <2>2, <2>3
<1>2. Changes!IInv /\ PromptInv => AnswerIsForThePrompt
  BY <1>1 DEF AnswerIsForThePrompt
<1>3. Spec => []Changes!IInv
  BY ChangesInit, ChangesNext, PTL DEF Spec
<1> QED
  BY <1>2, <1>3, PromptInvariance, PTL
=============================================================================
