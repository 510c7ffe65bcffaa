--------------------------- MODULE SessionsProofs ---------------------------
(***************************************************************************)
(* The lock and _busy leave one turn at a time between its first and its   *)
(* last write, so that what a turn has read is still there when it writes. *)
(***************************************************************************)
EXTENDS Sessions, TLAPS

(***************************************************************************)
(* The invariant                                                           *)
(***************************************************************************)
\* Turns run in the process that has the lock, which is the one with a
\* runtime, and that runtime is busy.
Held ==
  /\ \A t \in Task : Active(t) => Up(Home[t]) /\ busy[Home[t]]
  /\ \A p \in Process : version[p] # None <=> Up(p)

Saved(t) == stored[run[t].session]

\* How far a turn is can be read from what is saved.
Progress ==
  \A t \in Task :
    /\ run[t].at = "mark" => Fits(Saved(t), t)
    /\ run[t].at \in {"work", "finish", "return"} =>
         Saved(t) # None /\ Saved(t).last = run[t].turn
    /\ run[t].at \in {"work", "finish"} => Saved(t).completion = "incomplete"
    /\ run[t].at \in {"finish", "return"} => run[t].turn \in Saved(t).answered
    /\ run[t].at = "return" => Saved(t).completion = "succeeded"

\* A turn that has not been marked is in no session, and only questions are
\* answered.
Fresh ==
  /\ \A s \in Session : /\ Asked(stored[s]) \subseteq used
                        /\ Answered(stored[s]) \subseteq Asked(stored[s])
  /\ \A t \in Task :
       /\ Active(t) => run[t].turn \in used
       /\ run[t].at \in {"load", "mark"} =>
            \A s \in Session : run[t].turn \notin Asked(stored[s])

Writing(t) == run[t].at \in {"work", "finish", "return"}

\* What is saved and was not told is older than the runtime, or of a failed
\* session, or of the turn that runs.
Answerable ==
  /\ \A t \in Task : Active(t) => run[t].session \notin failed[Home[t]]
  /\ \A p \in Process, s \in Session, q \in Turn :
       /\ Up(p)
       /\ s \notin failed[p]
       /\ q \in Asked(stored[s])
       => \/ q \in told \cup old[p]
          \/ \E t \in Task : Writing(t) /\ run[t].session = s /\ run[t].turn = q

IInv ==
  /\ TypeOK
  /\ Held
  /\ OneWriter
  /\ Progress
  /\ Fresh
  /\ Answerable
  /\ HistoryIsCoherent
  /\ ToldIsKept

LEMMA InitIInv == Init => IInv
  BY SessionsAssumption, SMTT(30)
  DEF Init, IInv, TypeOK, Held, OneWriter, Progress, Fresh, Answerable, Active,
      Up, Idle, Asked, Answered, Writing, HistoryIsCoherent, ToldIsKept

\* What a task does in one of its states tells what that state is.
LEMMA RunType ==
  ASSUME TypeOK, NEW t \in Task, Active(t)
  PROVE  /\ run[t] \in Run
         /\ run[t].turn \in Turn
         /\ run[t].session \in Session
         /\ run[t].workspace \in Workspace
         /\ run[t].at \in {"load", "mark", "work", "finish", "return"}
  BY DEF TypeOK, Active, Run

LEMMA AtActive ==
  ASSUME NEW t \in Task, run[t].at # "idle"
  PROVE  Active(t)
  BY DEF Active, Idle

\* The one task that is active is the only one a step can be of.
LEMMA Alone ==
  ASSUME IInv, NEW t \in Task, Active(t)
  PROVE  /\ Up(Home[t])
         /\ busy[Home[t]]
         /\ Home[t] \in Process
         /\ version[Home[t]] \in Version
         /\ \A u \in Task : u # t => run[u] = Idle
  BY SessionsAssumption DEF IInv, Held, OneWriter, TypeOK, Active

LEMMA AskedTypes ==
  ASSUME TypeOK
  PROVE  \A s \in Session : /\ Asked(stored[s]) \in SUBSET Turn
                            /\ Answered(stored[s]) \in SUBSET Turn
                            /\ stored[s] # None => stored[s] \in Record
  BY DEF TypeOK, Record, Asked, Answered

(***************************************************************************)
(* The steps of processes                                                  *)
(***************************************************************************)
LEMMA StartKeeps ==
  ASSUME IInv, NEW p \in Process, NEW v \in Version, Start(p, v)
  PROVE  IInv'
<1>1. \A t \in Task : run[t] = Idle
  BY SessionsAssumption DEF IInv, Held, Start, LockFree, Active, Up
<1>2. TypeOK'
  BY DEF IInv, TypeOK, Start, NewRuntime
<1>3. Held' /\ OneWriter' /\ Progress' /\ Fresh'
  BY <1>1, SessionsAssumption
  DEF IInv, TypeOK, Held, OneWriter, Progress, Fresh, Start, LockFree, NewRuntime,
      Active, Up, Idle
<1>4. Answerable'
  BY <1>1, SessionsAssumption
  DEF IInv, TypeOK, Answerable, Fresh, Start, NewRuntime, Active, Up, Writing
<1>5. HistoryIsCoherent' /\ ToldIsKept'
  BY DEF IInv, HistoryIsCoherent, ToldIsKept, Start
<1> QED
  BY <1>2, <1>3, <1>4, <1>5 DEF IInv

LEMMA RebuildKeeps ==
  ASSUME IInv, NEW p \in Process, NEW v \in Version, Rebuild(p, v)
  PROVE  IInv'
<1>1. \A t \in Task : run[t] = Idle
  BY SessionsAssumption DEF IInv, Held, Rebuild, Quiet, Active, Up
<1>2. TypeOK'
  BY DEF IInv, TypeOK, Rebuild, NewRuntime
<1>3. Held' /\ OneWriter' /\ Progress' /\ Fresh'
  BY <1>1, SessionsAssumption
  DEF IInv, TypeOK, Held, OneWriter, Progress, Fresh, Rebuild, NewRuntime,
      Active, Up, Idle
<1>4. Answerable'
  BY <1>1, SessionsAssumption
  DEF IInv, TypeOK, Answerable, Fresh, Rebuild, NewRuntime, Active, Up, Writing
<1>5. HistoryIsCoherent' /\ ToldIsKept'
  BY DEF IInv, HistoryIsCoherent, ToldIsKept, Rebuild
<1> QED
  BY <1>2, <1>3, <1>4, <1>5 DEF IInv

\* An orderly end is a crash at a moment when nothing runs.
LEMMA EndKeeps ==
  ASSUME IInv, NEW p \in Process, Close(p) \/ Crash(p)
  PROVE  IInv'
<1>1. /\ Up(p)
      /\ lock' = Nobody
      /\ NewRuntime(p, None)
      /\ stored' = stored /\ used' = used /\ told' = told
  BY DEF Close, Crash
<1>2. run' \in [Task -> Run \cup {Idle}] /\ \A t \in Task : run'[t] = Idle
  BY <1>1, SessionsAssumption
  DEF IInv, TypeOK, Held, Close, Crash, Quiet, Active, Up
<1>3. TypeOK'
  BY <1>1, <1>2 DEF IInv, TypeOK, NewRuntime
<1>4. Held' /\ OneWriter' /\ Progress' /\ Fresh'
  BY <1>1, <1>2, SessionsAssumption
  DEF IInv, TypeOK, Held, OneWriter, Progress, Fresh, NewRuntime, Active, Up, Idle
<1>5. Answerable'
  BY <1>1, <1>2, SessionsAssumption DEF Answerable, Active, Up
<1>6. HistoryIsCoherent' /\ ToldIsKept'
  BY <1>1 DEF IInv, HistoryIsCoherent, ToldIsKept
<1> QED
  BY <1>3, <1>4, <1>5, <1>6 DEF IInv

(***************************************************************************)
(* The steps of turns                                                      *)
(***************************************************************************)
LEMMA MarkTypes ==
  ASSUME IInv, NEW t \in Task, Mark(t)
  PROVE  TypeOK' /\ stored'[run[t].session] # None
<1> DEFINE s == run[t].session
           new == [workspace |-> run[t].workspace, version |-> version[Home[t]],
                   past |-> Asked(stored[s]), last |-> run[t].turn,
                   answered |-> Answered(stored[s]),
                   completion |-> "incomplete"]
<1>1. Active(t)
  BY AtActive DEF Mark
<1>2. run[t] \in Run /\ run[t].session \in Session
  BY <1>1, RunType DEF IInv
<1>3. version[Home[t]] \in Version
  BY <1>1, SessionsAssumption DEF IInv, Held, TypeOK
<1>4. \A r \in Session : /\ Asked(stored[r]) \in SUBSET Turn
                         /\ Answered(stored[r]) \in SUBSET Turn
  BY DEF IInv, TypeOK, Record, Asked, Answered
<1>5. new \in Record
  BY <1>1, <1>2, <1>3, <1>4, RunType DEF IInv, Record
<1>6. stored' = [stored EXCEPT ![s] = new]
  BY <1>2 DEF IInv, TypeOK, Mark
<1>7. stored' \in [Session -> Record \cup {None}] /\ stored'[s] # None
  <2> HIDE DEF new
  <2> QED
    BY <1>2, <1>5, <1>6, NoneAssumption DEF IInv, TypeOK
<1>8. run' \in [Task -> Run \cup {Idle}]
  BY <1>2 DEF IInv, TypeOK, Mark, Run
<1> QED
  BY <1>7, <1>8 DEF IInv, TypeOK, Mark, runtime

LEMMA AskKeeps ==
  ASSUME IInv, NEW t \in Task, NEW q \in Turn, NEW s \in Session,
         NEW w \in Workspace, Ask(t, q, s, w)
  PROVE  IInv'
<1>1. /\ Up(Home[t]) /\ Home[t] \in Process
      /\ ~busy[Home[t]]
      /\ run' = [run EXCEPT ![t] = [at |-> "load", turn |-> q, session |-> s,
                                    workspace |-> w]]
      /\ busy' = [busy EXCEPT ![Home[t]] = TRUE]
      /\ q \notin used /\ used' = used \cup {q}
      /\ s \notin failed[Home[t]]
      /\ UNCHANGED <<stored, failed, told, lock, version, old>>
  BY SessionsAssumption DEF Ask, Free, runtime
<1>2. \A u \in Task : run[u] = Idle
  BY <1>1 DEF IInv, Held, Active, Up
<1>3. /\ run'[t] = [at |-> "load", turn |-> q, session |-> s, workspace |-> w]
      /\ \A u \in Task : u # t => run'[u] = Idle
      /\ run' \in [Task -> Run \cup {Idle}]
  BY <1>1, <1>2 DEF IInv, TypeOK, Run
<1>4. TypeOK'
  BY <1>1, <1>3 DEF IInv, TypeOK, Ask
<1>5. Held' /\ OneWriter'
  BY <1>1, <1>3 DEF IInv, TypeOK, Held, OneWriter, Active, Up
<1>6. Progress' /\ Fresh'
  BY <1>1, <1>3 DEF IInv, Progress, Fresh, Active, Idle
<1>7. Answerable'
  BY <1>1, <1>2, <1>3 DEF IInv, Answerable, Active, Up, Writing, Idle
<1>8. HistoryIsCoherent' /\ ToldIsKept'
  BY <1>1 DEF IInv, HistoryIsCoherent, ToldIsKept
<1> QED
  BY <1>4, <1>5, <1>6, <1>7, <1>8 DEF IInv

\* Whatever ends a turn leaves nobody active.
LEMMA DoneTypes ==
  ASSUME IInv, NEW t \in Task, Active(t), Done(t)
  PROVE  /\ run' \in [Task -> Run \cup {Idle}]
         /\ busy' \in [Process -> BOOLEAN]
         /\ \A u \in Task : run'[u] = Idle
  BY Alone DEF IInv, TypeOK, Done

LEMMA LoadKeeps ==
  ASSUME IInv, NEW t \in Task, Load(t)
  PROVE  IInv'
<1>1. Active(t)
  BY AtActive DEF Load
<1>2. UNCHANGED <<stored, failed, bound, used, told, lock, version, old>>
  BY DEF Load, runtime
<1>3. HistoryIsCoherent' /\ ToldIsKept'
  BY <1>2 DEF IInv, HistoryIsCoherent, ToldIsKept
<1>4. CASE ~Fits(stored[run[t].session], t)
  <2>1. Done(t)
    BY <1>4 DEF Load
  <2>2. TypeOK' /\ Held' /\ OneWriter' /\ Progress' /\ Fresh'
    BY <1>1, <1>2, <2>1, DoneTypes
    DEF IInv, TypeOK, Held, OneWriter, Progress, Fresh, Active, Up, Idle
  <2>3. Answerable'
    BY <1>1, <1>2, <2>1, DoneTypes, Alone
    DEF IInv, Load, Answerable, Active, Up, Writing, Idle
  <2> QED
    BY <1>3, <2>2, <2>3 DEF IInv
<1>5. CASE Fits(stored[run[t].session], t)
  <2>1. run' = [run EXCEPT ![t].at = "mark"] /\ busy' = busy
    BY <1>5 DEF Load
  <2>2. /\ run' \in [Task -> Run \cup {Idle}]
        /\ run'[t].at = "mark"
        /\ run'[t].turn = run[t].turn
        /\ run'[t].session = run[t].session
        /\ run'[t].workspace = run[t].workspace
        /\ \A u \in Task : u # t => run'[u] = Idle
    BY <1>1, <2>1, RunType, Alone DEF IInv, TypeOK, Run
  <2>3. TypeOK' /\ Held' /\ OneWriter'
    BY <1>1, <1>2, <2>1, <2>2 DEF IInv, TypeOK, Held, OneWriter, Active, Up
  <2>4. Progress' /\ Fresh'
    BY <1>1, <1>2, <1>5, <2>2
    DEF IInv, Load, Progress, Fresh, Saved, Fits, Active, Idle
  <2>5. Answerable'
    BY <1>1, <1>2, <2>2, Alone
    DEF IInv, Load, Answerable, Active, Up, Writing, Idle
  <2> QED
    BY <1>3, <2>3, <2>4, <2>5 DEF IInv
<1> QED
  BY <1>4, <1>5 DEF Load

LEMMA ReturnKeeps ==
  ASSUME IInv, NEW t \in Task, Return(t)
  PROVE  IInv'
<1>1. Active(t) /\ Done(t) /\ run[t].at = "return"
  BY AtActive DEF Return
<1>2. /\ UNCHANGED <<stored, failed, bound, used, lock, version, old>>
      /\ told' = told \cup {run[t].turn}
  BY DEF Return, runtime
<1>3. TypeOK' /\ Held' /\ OneWriter' /\ Progress' /\ Fresh'
  BY <1>1, <1>2, DoneTypes, RunType
  DEF IInv, TypeOK, Held, OneWriter, Progress, Fresh, Active, Up, Idle
<1>4. Answerable'
  BY <1>1, <1>2, DoneTypes, Alone
  DEF IInv, Answerable, Active, Up, Writing, Idle
<1>5. HistoryIsCoherent'
  BY <1>2 DEF IInv, HistoryIsCoherent
<1>6. ToldIsKept'
  BY <1>1, <1>2, RunType DEF IInv, ToldIsKept, Progress, Saved
<1> QED
  BY <1>3, <1>4, <1>5, <1>6 DEF IInv

LEMMA FailKeeps ==
  ASSUME IInv, NEW t \in Task, Fail(t)
  PROVE  IInv'
<1>1. Active(t) /\ Done(t) /\ Home[t] \in Process
  BY SessionsAssumption DEF Fail
<1>2. /\ UNCHANGED <<stored, bound, used, told, lock, version, old>>
      /\ failed' = [failed EXCEPT ![Home[t]] = @ \cup {run[t].session}]
  BY DEF Fail, runtime
<1>3. TypeOK' /\ Held' /\ OneWriter' /\ Progress' /\ Fresh'
  BY <1>1, <1>2, DoneTypes, RunType
  DEF IInv, TypeOK, Held, OneWriter, Progress, Fresh, Active, Up, Idle
<1>4. Answerable'
  BY <1>1, <1>2, DoneTypes, Alone
  DEF IInv, TypeOK, Answerable, Active, Up, Writing, Idle
<1>5. HistoryIsCoherent' /\ ToldIsKept'
  BY <1>2 DEF IInv, HistoryIsCoherent, ToldIsKept
<1> QED
  BY <1>3, <1>4, <1>5 DEF IInv

LEMMA MarkKeeps ==
  ASSUME IInv, NEW t \in Task, Mark(t)
  PROVE  IInv'
<1> DEFINE s == run[t].session
<1>1. Active(t) /\ run[t].at = "mark"
  BY AtActive DEF Mark
<1>2. s \in Session /\ s \notin failed[Home[t]] /\ Fits(stored[s], t)
  BY <1>1, RunType DEF IInv, Answerable, Progress, Saved
<1>3. /\ stored'[s] # None
      /\ stored'[s].workspace = run[t].workspace
      /\ stored'[s].version = version[Home[t]]
      /\ stored'[s].past = Asked(stored[s])
      /\ stored'[s].last = run[t].turn
      /\ stored'[s].answered = Answered(stored[s])
      /\ stored'[s].completion = "incomplete"
      /\ \A r \in Session : r # s => stored'[r] = stored[r]
  <2>1. /\ stored'[s] = [workspace |-> run[t].workspace,
                          version |-> version[Home[t]],
                          past |-> Asked(stored[s]), last |-> run[t].turn,
                          answered |-> Answered(stored[s]),
                          completion |-> "incomplete"]
        /\ \A r \in Session : r # s => stored'[r] = stored[r]
    BY <1>2 DEF IInv, TypeOK, Mark
  <2>2. stored'[s] # None
    BY MarkTypes
  <2> QED
    BY <2>1, <2>2
<1>4. /\ run'[t].at = "work"
      /\ run'[t].turn = run[t].turn
      /\ run'[t].session = s
      /\ \A u \in Task : u # t => run'[u] = Idle
  BY <1>1, RunType, Alone DEF IInv, TypeOK, Mark, Run
<1>5. UNCHANGED <<failed, bound, busy, used, told, lock, version, old>>
  BY DEF Mark, runtime
<1>6. /\ Asked(stored'[s]) = Asked(stored[s]) \cup {run[t].turn}
      /\ Answered(stored'[s]) = Answered(stored[s])
      /\ \A r \in Session : r # s => Asked(stored'[r]) = Asked(stored[r])
  BY <1>3 DEF Asked, Answered
<1>7. TypeOK'
  BY MarkTypes
<1>8. Held' /\ OneWriter'
  BY <1>1, <1>4, <1>5 DEF IInv, Held, OneWriter, Active, Up
<1>9. Progress'
  BY <1>2, <1>3, <1>4 DEF Progress, Saved, Idle
<1>10. Fresh'
  BY <1>1, <1>2, <1>3, <1>4, <1>5, <1>6 DEF IInv, Fresh, Active, Idle, Answered
<1>11. Answerable'
  <2>1. \A u \in Task : ~Writing(u)
    BY <1>1, Alone DEF Writing, Idle
  <2>2. ASSUME NEW p \in Process, NEW r \in Session, NEW q \in Turn,
               Up(p)', r \notin failed'[p], q \in Asked(stored'[r])
        PROVE  \/ q \in told' \cup old'[p]
               \/ \E u \in Task : Writing(u)' /\ run'[u].session = r
                                  /\ run'[u].turn = q
    BY <1>2, <1>4, <1>5, <1>6, <2>1, <2>2 DEF IInv, Answerable, Up, Writing
  <2>3. \A u \in Task : Active(u)' => run'[u].session \notin failed'[Home[u]]
    BY <1>2, <1>4, <1>5 DEF Active
  <2> QED
    BY <2>2, <2>3 DEF Answerable
<1>12. HistoryIsCoherent'
  BY <1>2, <1>3 DEF IInv, HistoryIsCoherent, Fits, Asked, Answered
<1>13. ToldIsKept'
  <2> SUFFICES ASSUME NEW q \in told'
               PROVE  \E r \in Session :
                        /\ stored'[r] # None
                        /\ q \in stored'[r].answered
                        /\ \/ stored'[r].completion = "succeeded"
                           \/ q \in stored'[r].past
    BY DEF ToldIsKept
  <2>1. PICK r \in Session :
          /\ stored[r] # None
          /\ q \in stored[r].answered
          /\ \/ stored[r].completion = "succeeded"
             \/ q \in stored[r].past
    BY <1>5 DEF IInv, ToldIsKept
  <2>2. CASE r # s
    BY <1>3, <2>1, <2>2
  <2>3. CASE r = s
    <3>1. q \in Asked(stored[s])
      BY <1>2, <2>1, <2>3 DEF IInv, Fresh, Answered
    <3> QED
      BY <1>2, <1>3, <2>1, <2>3, <3>1 DEF Answered
  <2> QED
    BY <2>2, <2>3
<1> QED
  BY <1>7, <1>8, <1>9, <1>10, <1>11, <1>12, <1>13 DEF IInv

\* Both writes of an answer change one field of one record.
LEMMA AnswerTypes ==
  ASSUME IInv, NEW t \in Task, NEW new \in Record,
         run[t].at # "idle",
         stored' = [stored EXCEPT ![run[t].session] = new]
  PROVE  /\ stored' \in [Session -> Record \cup {None}]
         /\ stored'[run[t].session] = new
         /\ new # None
         /\ \A r \in Session : r # run[t].session => stored'[r] = stored[r]
  BY AtActive, RunType, NoneAssumption DEF IInv, TypeOK

LEMMA MovesOn ==
  ASSUME IInv, NEW t \in Task, Active(t),
         NEW at \in {"finish", "return"},
         run' = [run EXCEPT ![t].at = at]
  PROVE  /\ run' \in [Task -> Run \cup {Idle}]
         /\ run'[t].at = at
         /\ run'[t].turn = run[t].turn
         /\ run'[t].session = run[t].session
         /\ \A u \in Task : u # t => run'[u] = Idle
  BY RunType, Alone DEF IInv, TypeOK, Run

LEMMA StillAnswerable ==
  ASSUME IInv, NEW t \in Task, Active(t), Writing(t),
         Writing(t)', run'[t].turn = run[t].turn, run'[t].session = run[t].session,
         \A u \in Task : u # t => run'[u] = Idle,
         UNCHANGED <<failed, told, lock, old>>,
         \A r \in Session : Asked(stored'[r]) = Asked(stored[r])
  PROVE  Answerable'
<1>1. \A u \in Task : Active(u)' => u = t
  BY DEF Active
<1>2. run[t].session \notin failed[Home[t]]
  BY DEF IInv, Answerable
<1>3. ASSUME NEW u \in Task, Writing(u)
      PROVE  u = t
  BY <1>3, Alone DEF Writing, Idle
<1>4. ASSUME NEW p \in Process, NEW r \in Session, NEW q \in Turn,
             Up(p)', r \notin failed'[p], q \in Asked(stored'[r])
      PROVE  \/ q \in told' \cup old'[p]
             \/ Writing(t)' /\ run'[t].session = r /\ run'[t].turn = q
  BY <1>3, <1>4 DEF IInv, Answerable, Up
<1> QED
  BY <1>1, <1>2, <1>4 DEF Answerable

LEMMA WorkKeeps ==
  ASSUME IInv, NEW t \in Task, Work(t)
  PROVE  IInv'
<1> DEFINE s == run[t].session
           rec == stored[s]
           new == [rec EXCEPT !.answered = @ \cup {run[t].turn}]
<1>1. Active(t) /\ run[t].at = "work"
  BY AtActive DEF Work
<1>2. /\ s \in Session /\ run[t].turn \in Turn /\ rec \in Record /\ rec # None
      /\ rec.last = run[t].turn /\ rec.completion = "incomplete"
  BY <1>1, RunType, AskedTypes DEF IInv, Progress, Saved
<1>3. /\ new \in Record
      /\ new.past = rec.past /\ new.last = rec.last
      /\ new.completion = rec.completion
      /\ new.answered = rec.answered \cup {rec.last}
  BY <1>2 DEF Record
<1>4. stored' = [stored EXCEPT ![s] = new]
  BY <1>2 DEF IInv, TypeOK, Work
<1> HIDE DEF new
<1>5. /\ stored' \in [Session -> Record \cup {None}]
      /\ stored'[s] = new /\ new # None
      /\ \A r \in Session : r # s => stored'[r] = stored[r]
  BY <1>1, <1>3, <1>4, AnswerTypes
<1>6. /\ run' \in [Task -> Run \cup {Idle}]
      /\ run'[t].at = "finish"
      /\ run'[t].turn = run[t].turn
      /\ run'[t].session = s
      /\ \A u \in Task : u # t => run'[u] = Idle
  BY <1>1, MovesOn DEF Work
<1>7. UNCHANGED <<failed, bound, busy, used, told, lock, version, old>>
  BY DEF Work, runtime
<1>8. \A r \in Session : Asked(stored'[r]) = Asked(stored[r])
  BY <1>2, <1>3, <1>5 DEF Asked
<1>9. TypeOK' /\ Held' /\ OneWriter'
  BY <1>1, <1>5, <1>6, <1>7 DEF IInv, TypeOK, Held, OneWriter, Active, Up
<1>10. Progress'
  BY <1>2, <1>3, <1>5, <1>6 DEF Progress, Saved, Idle
<1>11. Fresh'
  BY <1>1, <1>2, <1>3, <1>5, <1>6, <1>7, <1>8
  DEF IInv, Fresh, Active, Idle, Answered, Asked
<1>12. Answerable'
  BY <1>1, <1>6, <1>7, <1>8, StillAnswerable DEF Writing
<1>13. HistoryIsCoherent'
  BY <1>2, <1>3, <1>5 DEF IInv, HistoryIsCoherent, Asked
<1>14. ToldIsKept'
  BY <1>2, <1>3, <1>5, <1>7 DEF IInv, ToldIsKept
<1> QED
  BY <1>9, <1>10, <1>11, <1>12, <1>13, <1>14 DEF IInv

LEMMA FinishKeeps ==
  ASSUME IInv, NEW t \in Task, Finish(t)
  PROVE  IInv'
<1> DEFINE s == run[t].session
           rec == stored[s]
           new == [rec EXCEPT !.completion = "succeeded"]
<1>1. Active(t) /\ run[t].at = "finish"
  BY AtActive DEF Finish
<1>2. /\ s \in Session /\ rec \in Record /\ rec # None
      /\ rec.last = run[t].turn /\ run[t].turn \in rec.answered
      /\ rec.completion = "incomplete"
  BY <1>1, RunType, AskedTypes DEF IInv, Progress, Saved
<1>3. /\ new \in Record
      /\ new.past = rec.past /\ new.last = rec.last
      /\ new.completion = "succeeded"
      /\ new.answered = rec.answered
  BY <1>2 DEF Record
<1>4. stored' = [stored EXCEPT ![s] = new]
  BY <1>2 DEF IInv, TypeOK, Finish
<1> HIDE DEF new
<1>5. /\ stored' \in [Session -> Record \cup {None}]
      /\ stored'[s] = new /\ new # None
      /\ \A r \in Session : r # s => stored'[r] = stored[r]
  BY <1>1, <1>3, <1>4, AnswerTypes
<1>6. /\ run' \in [Task -> Run \cup {Idle}]
      /\ run'[t].at = "return"
      /\ run'[t].turn = run[t].turn
      /\ run'[t].session = s
      /\ \A u \in Task : u # t => run'[u] = Idle
  BY <1>1, MovesOn DEF Finish
<1>7. UNCHANGED <<failed, bound, busy, used, told, lock, version, old>>
  BY DEF Finish, runtime
<1>8. \A r \in Session : Asked(stored'[r]) = Asked(stored[r])
  BY <1>2, <1>3, <1>5 DEF Asked
<1>9. TypeOK' /\ Held' /\ OneWriter'
  BY <1>1, <1>5, <1>6, <1>7 DEF IInv, TypeOK, Held, OneWriter, Active, Up
<1>10. Progress'
  BY <1>2, <1>3, <1>5, <1>6 DEF Progress, Saved, Idle
<1>11. Fresh'
  BY <1>1, <1>2, <1>3, <1>5, <1>6, <1>7, <1>8
  DEF IInv, Fresh, Active, Idle, Answered
<1>12. Answerable'
  BY <1>1, <1>6, <1>7, <1>8, StillAnswerable DEF Writing
<1>13. HistoryIsCoherent'
  BY <1>2, <1>3, <1>5 DEF IInv, HistoryIsCoherent, Asked
<1>14. ToldIsKept'
  BY <1>2, <1>3, <1>5, <1>7 DEF IInv, ToldIsKept
<1> QED
  BY <1>9, <1>10, <1>11, <1>12, <1>13, <1>14 DEF IInv

(***************************************************************************)
(* The theorems                                                            *)
(***************************************************************************)
LEMMA NextKeeps ==
  ASSUME IInv, [Next]_vars
  PROVE  IInv'
<1>1. CASE UNCHANGED vars
  <2> USE <1>1 DEF vars
  <2>1. TypeOK' /\ Held' /\ OneWriter'
    BY DEF IInv, TypeOK, Held, OneWriter, Active, Up
  <2>2. Progress' /\ Fresh'
    BY DEF IInv, Progress, Fresh, Saved, Fits, Active
  <2>3. Answerable' /\ HistoryIsCoherent' /\ ToldIsKept'
    BY DEF IInv, Answerable, Writing, Active, Up, HistoryIsCoherent, ToldIsKept
  <2> QED
    BY <2>1, <2>2, <2>3 DEF IInv
<1>2. ASSUME NEW p \in Process, ProcessStep(p)
      PROVE  IInv'
  BY <1>2, StartKeeps, RebuildKeeps, EndKeeps DEF ProcessStep
<1>3. ASSUME NEW t \in Task, TaskStep(t)
      PROVE  IInv'
  BY <1>3, AskKeeps, LoadKeeps, MarkKeeps, WorkKeeps, FinishKeeps, ReturnKeeps,
     FailKeeps DEF TaskStep
<1> QED
  BY <1>1, <1>2, <1>3 DEF Next

\* The invariant the others follow from.
THEOREM SessionInvariance == Spec => []IInv
  BY InitIInv, NextKeeps, PTL DEF Spec

\* The variables have their types.
THEOREM SessionTypes == Spec => []TypeOK
<1>1. IInv => TypeOK
  BY DEF IInv
<1> QED
  BY <1>1, SessionInvariance, PTL

\* One turn at a time, over all processes and tasks: the flock and _busy.
THEOREM OneWriterHolds == Spec => []OneWriter
<1>1. IInv => OneWriter
  BY DEF IInv
<1> QED
  BY <1>1, SessionInvariance, PTL

\* No history with a hole in it is ever continued.
THEOREM HistoryHolds == Spec => []HistoryIsCoherent
<1>1. IInv => HistoryIsCoherent
  BY DEF IInv
<1> QED
  BY <1>1, SessionInvariance, PTL

\* What run() has returned is saved for good.
THEOREM ToldIsKeptHolds == Spec => []ToldIsKept
<1>1. IInv => ToldIsKept
  BY DEF IInv
<1> QED
  BY <1>1, SessionInvariance, PTL

\* What the writes of a turn do to the session it is of.
LEMMA MarkWrites ==
  ASSUME IInv, NEW t \in Task, Mark(t)
  PROVE  LET s == run[t].session IN
         /\ s \in Session /\ Fits(stored[s], t)
         /\ stored'[s] # None
         /\ stored'[s].workspace = run[t].workspace
         /\ stored'[s].version = version[Home[t]]
         /\ stored'[s].past = Asked(stored[s])
         /\ stored'[s].last = run[t].turn
         /\ stored'[s].completion = "incomplete"
         /\ \A r \in Session : r # s => stored'[r] = stored[r]
<1> DEFINE s == run[t].session
<1>1. Active(t) /\ run[t].at = "mark"
  BY AtActive DEF Mark
<1>2. s \in Session /\ Fits(stored[s], t)
  BY <1>1, RunType DEF IInv, Progress, Saved
<1>3. /\ stored'[s] = [workspace |-> run[t].workspace,
                       version |-> version[Home[t]],
                       past |-> Asked(stored[s]), last |-> run[t].turn,
                       answered |-> Answered(stored[s]),
                       completion |-> "incomplete"]
      /\ \A r \in Session : r # s => stored'[r] = stored[r]
  BY <1>2 DEF IInv, TypeOK, Mark
<1>4. stored'[s] # None
  BY MarkTypes
<1> QED
  BY <1>2, <1>3, <1>4

LEMMA AnswerWrites ==
  ASSUME IInv, NEW t \in Task, Work(t) \/ Finish(t)
  PROVE  LET s == run[t].session IN
         /\ s \in Session /\ stored[s] # None /\ stored'[s] # None
         /\ stored'[s].workspace = stored[s].workspace
         /\ stored'[s].version = stored[s].version
         /\ stored'[s].past = stored[s].past
         /\ stored'[s].last = stored[s].last
         /\ stored[s].last = run[t].turn
         /\ stored[s].completion = "incomplete"
         /\ stored'[s].completion =
              IF run[t].at = "work" THEN "incomplete" ELSE "succeeded"
         /\ \A r \in Session : r # s => stored'[r] = stored[r]
<1> DEFINE s == run[t].session
<1>1. Active(t) /\ run[t].at \in {"work", "finish"}
  BY AtActive DEF Work, Finish
<1>2. /\ s \in Session /\ stored[s] \in Record /\ stored[s] # None
      /\ stored[s].last = run[t].turn /\ stored[s].completion = "incomplete"
  BY <1>1, RunType, AskedTypes DEF IInv, Progress, Saved
<1>3. /\ stored'[s] = IF run[t].at = "work"
                        THEN [stored[s] EXCEPT !.answered = @ \cup {run[t].turn}]
                        ELSE [stored[s] EXCEPT !.completion = "succeeded"]
      /\ \A r \in Session : r # s => stored'[r] = stored[r]
  BY <1>1, <1>2 DEF IInv, TypeOK, Work, Finish
<1>4. stored'[s] # None
  <2>1. run'[t].at \in {"finish", "return"} /\ run'[t].session = s
    BY <1>1, MovesOn DEF Work, Finish
  <2>2. Progress'
    BY WorkKeeps, FinishKeeps DEF IInv
  <2> QED
    BY <2>1, <2>2 DEF Progress, Saved
<1> QED
  BY <1>2, <1>3, <1>4 DEF Record

\* All other steps write nothing.
LEMMA OtherSteps ==
  ASSUME [Next]_vars
  PROVE  \/ stored' = stored
         \/ \E t \in Task : Mark(t) \/ Work(t) \/ Finish(t)
  BY DEF Next, vars, ProcessStep, TaskStep, Start, Rebuild, Close, Crash, Ask, Load,
         Return, Fail

LEMMA StaysStep ==
  ASSUME IInv, [Next]_vars, NEW s \in Session, stored[s] # None
  PROVE  /\ stored'[s].workspace = stored[s].workspace
         /\ stored'[s].version = stored[s].version
<1>1. CASE stored' = stored
  BY <1>1
<1>2. ASSUME NEW t \in Task, Mark(t)
      PROVE  /\ stored'[s].workspace = stored[s].workspace
             /\ stored'[s].version = stored[s].version
  BY <1>2, MarkWrites DEF Fits
<1>3. ASSUME NEW t \in Task, Work(t) \/ Finish(t)
      PROVE  /\ stored'[s].workspace = stored[s].workspace
             /\ stored'[s].version = stored[s].version
  BY <1>3, AnswerWrites
<1> QED
  BY <1>1, <1>2, <1>3, OtherSteps

\* All turns of a session have one workspace, model, tools and prompt.
THEOREM StaysAtHomeHolds == Spec => StaysAtHome
<1>1. IInv /\ [Next]_vars =>
        \A s \in Session : stored[s] # None =>
          /\ stored'[s].workspace = stored[s].workspace
          /\ stored'[s].version = stored[s].version
  BY StaysStep
<1> QED
  BY <1>1, SessionInvariance, PTL DEF Spec, StaysAtHome

\* A runtime does not continue past an answer its caller never got.
THEOREM NoUntoldTurnHolds == Spec => NoUntoldTurn
<1> DEFINE Told(t, s) == Asked(stored[s]) \subseteq told \cup old[Home[t]]
           Marks(t, s) == /\ run[t].at = "mark" /\ run'[t].at = "work"
                          /\ s = run[t].session
<1>1. ASSUME IInv, NEW t \in Task, NEW s \in Session, Marks(t, s)
      PROVE  Told(t, s)
  <2>1. Active(t) /\ run[t].at = "mark"
    BY <1>1, AtActive
  <2>2. \A u \in Task : ~Writing(u)
    BY <1>1, <2>1, Alone DEF Writing, Idle
  <2>3. Up(Home[t]) /\ Home[t] \in Process /\ s \notin failed[Home[t]]
    BY <1>1, <2>1, Alone DEF IInv, Answerable
  <2>4. Asked(stored[s]) \subseteq Turn
    BY <1>1, AskedTypes DEF IInv
  <2> QED
    BY <1>1, <2>2, <2>3, <2>4 DEF IInv, Answerable
<1>2. IInv /\ [Next]_vars =>
        \A t \in Task, s \in Session : Marks(t, s) => Told(t, s)
  BY <1>1
<1> QED
  BY <1>2, SessionInvariance, PTL DEF Spec, NoUntoldTurn

(***************************************************************************)
(* Sessions implement conversations                                        *)
(***************************************************************************)
LEMMA BeginStep ==
  ASSUME IInv, NEW t \in Task, Mark(t),
         NEW s \in Session, s = run[t].session
  PROVE  Promise!Begin(s, run[t].turn) /\ run[t].turn \in Turn
<1>1. run[t].turn \in Turn /\ run[t].turn \notin Asked(stored[s])
  BY AtActive, RunType DEF IInv, Fresh, Mark
<1>2. Open[s] = {} /\ Answers[s] = Asked(stored[s])
  BY MarkWrites DEF Open, Answers, Complete, Fits, Asked
<1>3. /\ stored'[s] # None
      /\ stored'[s].past = Asked(stored[s])
      /\ stored'[s].last = run[t].turn
      /\ stored'[s].completion = "incomplete"
      /\ \A r \in Session : r # s => stored'[r] = stored[r]
  BY MarkWrites
<1>4. Open' = [Open EXCEPT ![s] = {run[t].turn}]
  BY <1>3 DEF Open, Complete
<1>5. Answers' = Answers
  BY <1>2, <1>3 DEF Answers, Complete, Asked
<1> QED
  BY <1>1, <1>2, <1>4, <1>5 DEF Promise!Begin

LEMMA CompleteStep ==
  ASSUME IInv, NEW t \in Task, Finish(t),
         NEW s \in Session, s = run[t].session
  PROVE  Promise!Complete(s, run[t].turn) /\ run[t].turn \in Turn
<1>1. run[t].turn \in Turn
  BY AtActive, RunType DEF IInv, Finish
<1>2. /\ stored[s] # None /\ stored'[s] # None
      /\ stored'[s].past = stored[s].past
      /\ stored[s].last = run[t].turn /\ stored'[s].last = run[t].turn
      /\ stored[s].completion = "incomplete"
      /\ stored'[s].completion = "succeeded"
      /\ \A r \in Session : r # s => stored'[r] = stored[r]
  BY AnswerWrites DEF Finish
<1>3. Open[s] = {run[t].turn}
  BY <1>2 DEF Open, Complete
<1>4. Open' = [Open EXCEPT ![s] = {}]
  BY <1>2 DEF Open, Complete
<1>5. Answers' = [Answers EXCEPT ![s] = @ \cup {run[t].turn}]
  BY <1>2 DEF Answers, Complete, Asked
<1> QED
  BY <1>1, <1>3, <1>4, <1>5 DEF Promise!Complete

LEMMA AnswerStep ==
  ASSUME IInv, NEW t \in Task, Work(t)
  PROVE  UNCHANGED <<Answers, Open>>
<1> DEFINE s == run[t].session
<1>1. /\ s \in Session /\ stored[s] # None /\ stored'[s] # None
      /\ stored'[s].past = stored[s].past
      /\ stored'[s].last = stored[s].last
      /\ stored[s].completion = "incomplete"
      /\ stored'[s].completion = "incomplete"
      /\ \A r \in Session : r # s => stored'[r] = stored[r]
  BY AnswerWrites DEF Work
<1> HIDE DEF s
<1> QED
  BY <1>1 DEF Answers, Open, Complete, Asked

LEMMA PromiseStep ==
  ASSUME IInv, [Next]_vars
  PROVE  [Promise!Next]_<<Answers, Open>>
<1>1. CASE stored' = stored
  BY <1>1 DEF Answers, Open, Complete, Asked
<1>2. ASSUME NEW t \in Task, Mark(t)
      PROVE  Promise!Next
  BY <1>2, BeginStep, MarkWrites DEF Promise!Next
<1>3. ASSUME NEW t \in Task, Work(t)
      PROVE  UNCHANGED <<Answers, Open>>
  BY <1>3, AnswerStep
<1>4. ASSUME NEW t \in Task, Finish(t)
      PROVE  Promise!Next
  BY <1>4, CompleteStep, AnswerWrites DEF Promise!Next
<1> QED
  BY <1>1, <1>2, <1>3, <1>4, OtherSteps

\* Every behaviour of the sessions is one of the conversations the guide
\* promises, whatever fails and whoever starts again.
THEOREM SessionsImplementConversations == Spec => KeepsPromise
<1>1. Init => Promise!Init
  BY DEF Init, Promise!Init, Answers, Open
<1> QED
  BY <1>1, PromiseStep, SessionInvariance, PTL DEF Spec, KeepsPromise, Promise!Spec
=============================================================================
