------------------------------ MODULE Sessions ------------------------------
(***************************************************************************)
(* Conversations that are kept in a database: LangChainRuntime.run()       *)
(* (plugins/langchain/runtime.py) over the checkpoints of the SQLite       *)
(* plugin (plugins/langchain/sqlite_checkpoint.py).                        *)
(*                                                                         *)
(* Processes come and go, by an orderly end or by a crash, and may be      *)
(* started while another one has the database.  In each, tasks ask the one *)
(* runtime of the process, which the dynamic host may make anew when       *)
(* nobody uses it.  A turn is saved in three writes: the question with the *)
(* mark "incomplete", the answer, and the mark "succeeded".  An error, a   *)
(* limit, the timeout or a cancellation may end it at any of its awaits.   *)
(***************************************************************************)
CONSTANTS
  Process,
  Task,       \* tasks that ask
  Home,       \* the process of each task
  Session,    \* session ids
  Turn,       \* questions; each is asked once (the uuid of its message)
  Workspace,
  Version,    \* hashes of model, tools and prompt
  None,       \* nothing saved, no workspace, no runtime
  Nobody      \* nobody has the lock

ASSUME SessionsAssumption ==
  /\ Home \in [Task -> Process]
  /\ Nobody \notin Process
  /\ None \notin Workspace \cup Version

VARIABLES
  stored,   \* the checkpoint of each session
  lock,     \* the process that has the exclusive flock
  failed,   \* _failed_sessions of each process
  bound,    \* _workspace of each process
  version,  \* _version of each process
  busy,     \* _busy of each process
  run,      \* what each task asks, and how far it is
  used,     \* (history) the turns that were asked
  told,     \* (history) the turns whose result the caller has got
  old       \* (history) the turns older than the runtime of each process

vars == <<stored, lock, failed, bound, version, busy, run, used, told, old>>
runtime == <<lock, version, old>>

\* The messages of a session are its questions, the last of which stands for
\* itself, and the answers.
Record == [workspace : Workspace, version : Version, past : SUBSET Turn,
           last : Turn, answered : SUBSET Turn,
           completion : {"incomplete", "succeeded"}]

ASSUME NoneAssumption == None \notin Record

Idle == [at |-> "idle"]
Run == [at : {"load", "mark", "work", "finish", "return"}, turn : Turn,
        session : Session, workspace : Workspace]

TypeOK ==
  /\ stored \in [Session -> Record \cup {None}]
  /\ lock \in Process \cup {Nobody}
  /\ failed \in [Process -> SUBSET Session]
  /\ bound \in [Process -> Workspace \cup {None}]
  /\ version \in [Process -> Version \cup {None}]
  /\ busy \in [Process -> BOOLEAN]
  /\ run \in [Task -> Run \cup {Idle}]
  /\ used \subseteq Turn
  /\ told \subseteq Turn
  /\ old \in [Process -> SUBSET Turn]

Active(t) == run[t] # Idle
Up(p) == lock = p
Quiet(p) == \A t \in Task : Home[t] = p => ~Active(t)

Init ==
  /\ stored = [s \in Session |-> None]
  /\ lock = Nobody
  /\ failed = [p \in Process |-> {}]
  /\ bound = [p \in Process |-> None]
  /\ version = [p \in Process |-> None]
  /\ busy = [p \in Process |-> FALSE]
  /\ run = [t \in Task |-> Idle]
  /\ used = {}
  /\ told = {}
  /\ old = [p \in Process |-> {}]

(***************************************************************************)
(* Processes                                                               *)
(***************************************************************************)
\* LangChainRuntime(): what it remembers starts empty.
NewRuntime(p, v) ==
  /\ failed' = [failed EXCEPT ![p] = {}]
  /\ bound' = [bound EXCEPT ![p] = None]
  /\ version' = [version EXCEPT ![p] = v]
  /\ busy' = [busy EXCEPT ![p] = FALSE]
  /\ old' = [old EXCEPT ![p] = IF v = None THEN {} ELSE used]

\* (mutant) the lock of another process does not count.
Unlocked(p) == ~Up(p)

\* A second process is refused at once.
LockFree(p) == lock = Nobody

Start(p, v) ==
  /\ LockFree(p)
  /\ lock' = p
  /\ NewRuntime(p, v)
  /\ UNCHANGED <<stored, run, used, told>>

\* The dynamic host replaces the plugin of the runtime; it waits until no
\* call is in flight.
Rebuild(p, v) ==
  /\ Up(p)
  /\ Quiet(p)
  /\ NewRuntime(p, v)
  /\ UNCHANGED <<stored, lock, run, used, told>>

\* The runtime goes first, then the connection, then the lock.
Close(p) ==
  /\ Up(p)
  /\ Quiet(p)
  /\ lock' = Nobody
  /\ NewRuntime(p, None)
  /\ UNCHANGED <<stored, run, used, told>>

\* Nothing of the process is left but what it has written.
Crash(p) ==
  /\ Up(p)
  /\ lock' = Nobody
  /\ NewRuntime(p, None)
  /\ run' = [t \in Task |-> IF Home[t] = p THEN Idle ELSE run[t]]
  /\ UNCHANGED <<stored, used, told>>

(***************************************************************************)
(* run()                                                                   *)
(***************************************************************************)
\* (mutant) a request may come while another one runs.
FreeAlways(p) == TRUE

Free(p) == ~busy[p]

\* Before the first await.  What is refused changes nothing: a runtime that
\* remembers a failed session is bound to a workspace already.
Ask(t, q, s, w) ==
  LET p == Home[t]
  IN  /\ Up(p)
      /\ ~Active(t)
      /\ q \notin used
      /\ Free(p)
      /\ bound[p] \in {None, w}
      /\ s \notin failed[p]
      /\ bound' = [bound EXCEPT ![p] = w]
      /\ busy' = [busy EXCEPT ![p] = TRUE]
      /\ run' = [run EXCEPT ![t] =
                   [at |-> "load", turn |-> q, session |-> s, workspace |-> w]]
      /\ used' = used \cup {q}
      /\ UNCHANGED <<stored, failed, told, runtime>>

\* (mutant) a session of another workspace or version will do.
FitsAny(rec, t) == rec # None => rec.completion = "succeeded"

\* (mutant) an incomplete session will do.
FitsIncomplete(rec, t) ==
  rec # None =>
    /\ rec.workspace = run[t].workspace
    /\ rec.version = version[Home[t]]

Fits(rec, t) ==
  rec # None =>
    /\ rec.workspace = run[t].workspace
    /\ rec.completion = "succeeded"
    /\ rec.version = version[Home[t]]

Done(t) ==
  /\ run' = [run EXCEPT ![t] = Idle]
  /\ busy' = [busy EXCEPT ![Home[t]] = FALSE]

Load(t) ==
  /\ run[t].at = "load"
  /\ \/ /\ Fits(stored[run[t].session], t)
        /\ run' = [run EXCEPT ![t].at = "mark"]
        /\ UNCHANGED busy
     \/ /\ ~Fits(stored[run[t].session], t)
        /\ Done(t)
  /\ UNCHANGED <<stored, failed, bound, used, told, runtime>>

Asked(rec) == IF rec = None THEN {} ELSE rec.past \cup {rec.last}
Answered(rec) == IF rec = None THEN {} ELSE rec.answered

\* The question is committed before the model is called.
Mark(t) ==
  /\ run[t].at = "mark"
  /\ stored' = [stored EXCEPT ![run[t].session] =
       [workspace |-> run[t].workspace, version |-> version[Home[t]],
        past |-> Asked(@), last |-> run[t].turn, answered |-> Answered(@),
        completion |-> "incomplete"]]
  /\ run' = [run EXCEPT ![t].at = "work"]
  /\ UNCHANGED <<failed, bound, busy, used, told, runtime>>

\* The model has given its final answer, which is saved with the messages.
Work(t) ==
  /\ run[t].at = "work"
  /\ stored' = [stored EXCEPT ![run[t].session].answered = @ \cup {run[t].turn}]
  /\ run' = [run EXCEPT ![t].at = "finish"]
  /\ UNCHANGED <<failed, bound, busy, used, told, runtime>>

\* (mutant) the update is left to itself.
FinishLater(t) ==
  /\ run[t].at = "finish"
  /\ run' = [run EXCEPT ![t].at = "return"]
  /\ UNCHANGED <<stored, failed, bound, busy, used, told, runtime>>

\* aupdate_state(); the caller goes on in a step of its own.
Finish(t) ==
  /\ run[t].at = "finish"
  /\ stored' = [stored EXCEPT ![run[t].session].completion = "succeeded"]
  /\ run' = [run EXCEPT ![t].at = "return"]
  /\ UNCHANGED <<failed, bound, busy, used, told, runtime>>

Return(t) ==
  /\ run[t].at = "return"
  /\ Done(t)
  /\ told' = told \cup {run[t].turn}
  /\ UNCHANGED <<stored, failed, bound, used, runtime>>

\* (mutant) only what fails before the last write counts as failed.
FailBefore(t) ==
  /\ Active(t)
  /\ failed' = [failed EXCEPT ![Home[t]] =
                  IF run[t].at = "return" THEN @ ELSE @ \cup {run[t].session}]
  /\ Done(t)
  /\ UNCHANGED <<stored, bound, used, told, runtime>>

\* A limit, the timeout, a cancellation or any other error.
Fail(t) ==
  /\ Active(t)
  /\ failed' = [failed EXCEPT ![Home[t]] = @ \cup {run[t].session}]
  /\ Done(t)
  /\ UNCHANGED <<stored, bound, used, told, runtime>>

(***************************************************************************)
(* Specification                                                           *)
(***************************************************************************)
ProcessStep(p) ==
  \/ \E v \in Version : Start(p, v) \/ Rebuild(p, v)
  \/ Close(p)
  \/ Crash(p)

TaskStep(t) ==
  \/ \E q \in Turn, s \in Session, w \in Workspace : Ask(t, q, s, w)
  \/ Load(t)
  \/ Mark(t)
  \/ Work(t)
  \/ Finish(t)
  \/ Return(t)
  \/ Fail(t)

Next ==
  \/ \E p \in Process : ProcessStep(p)
  \/ \E t \in Task : TaskStep(t)

Spec == Init /\ [][Next]_vars

(***************************************************************************)
(* Properties                                                              *)
(***************************************************************************)
\* One turn at a time is between its first and its last write, in whatever
\* processes: the lock keeps processes apart and _busy the tasks of one.
OneWriter ==
  \A t, u \in Task : Active(t) /\ Active(u) => t = u

\* A session that counts as succeeded has an answer to every question, and in any
\* other only the last one may be missing: the model never continues a broken history,
\* whichever awaits were cut short and whoever starts again afterwards.
HistoryIsCoherent ==
  \A s \in Session :
    stored[s] # None =>
      /\ stored[s].past \subseteq stored[s].answered
      /\ stored[s].completion = "succeeded" =>
           Asked(stored[s]) \subseteq stored[s].answered

\* What a caller was told is in the database, in a session that still can be
\* continued or has been.
ToldIsKept ==
  \A q \in told :
    \E s \in Session :
      /\ stored[s] # None
      /\ q \in stored[s].answered
      /\ \/ stored[s].completion = "succeeded"
         \/ q \in stored[s].past

\* A runtime does not continue a conversation past an answer its caller never
\* got, also when the answer was saved before the call was cut short.
NoUntoldTurn ==
  [][\A t \in Task, s \in Session :
       /\ run[t].at = "mark" /\ run'[t].at = "work"
       /\ s = run[t].session
       => Asked(stored[s]) \subseteq told \cup old[Home[t]]]_vars

\* All turns of a session have the same workspace and the same model, tools and
\* prompt, however often the runtime is replaced or started elsewhere.
StaysAtHome ==
  [][\A s \in Session :
       stored[s] # None =>
         /\ stored'[s].workspace = stored[s].workspace
         /\ stored'[s].version = stored[s].version]_vars

\* Sessions implement conversations: the first write of a turn begins it and
\* its last write completes it.
Complete(rec) == rec # None /\ rec.completion = "succeeded"

Answers == [s \in Session |->
              IF stored[s] = None THEN {}
              ELSE IF Complete(stored[s]) THEN Asked(stored[s])
              ELSE stored[s].past]
Open == [s \in Session |->
           IF stored[s] = None \/ Complete(stored[s]) THEN {}
           ELSE {stored[s].last}]

Promise == INSTANCE Conversation WITH turns <- Answers, open <- Open

KeepsPromise == Promise!Spec
=============================================================================
