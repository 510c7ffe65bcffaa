----------------------------- MODULE LeaseGate -----------------------------
(***************************************************************************)
(* DynamicHost.lease and DynamicHost._mutation (kernel/dynamic.py): how    *)
(* service calls ("leases") and lifecycle changes ("mutations") of one     *)
(* host exclude each other.                                                *)
(*                                                                         *)
(* The host keeps an asyncio.Lock (gate), an asyncio.Event (idle), a       *)
(* counter of leases in flight and the task that changes the host          *)
(* (mutator).  Two context variables, copied into every task a task        *)
(* creates, let a call inside a call, and a call inside a change, go past  *)
(* the gate: the lease group (a counter shared by the calls below one      *)
(* outermost call) and the mutation window.  An action is what one task    *)
(* does between two awaits.                                                *)
(***************************************************************************)
EXTENDS Integers, Sequences, FiniteSets

CONSTANTS
  Task,      \* asyncio tasks that may exist at the same time
  NoTask,    \* nobody
  Group,     \* LeaseGroup objects that may be alive at the same time
  NoGroup,   \* no LeaseGroup, or one whose count is back to 0
  MaxNest    \* bound: nested "async with" blocks per task

ASSUME TaskAssumption == IsFiniteSet(Task) /\ NoTask \notin Task
ASSUME GroupAssumption == NoGroup \notin Group
ASSUME NestAssumption == MaxNest \in Nat \ {0}

VARIABLES
  pc,        \* what each task is doing
  ask,       \* what a task that is not running waits for
  frames,    \* the "async with" blocks each task is inside, outermost first
  group,     \* ContextVar _lease_group as each task sees it
  windowed,  \* tasks whose ContextVar _mutation_window is the active window
  count,     \* LeaseGroup.count
  gate,      \* the task that holds the lock _gate
  queue,     \* tasks waiting for _gate, first come first served
  idle,      \* the event _idle
  leases,    \* _leases
  mutator,   \* _mutator
  closed     \* _closed

calling == <<frames, group, count, idle, leases>>
waiting == <<pc, ask, queue>>
vars == <<pc, ask, frames, group, windowed, count, gate, queue, idle,
          leases, mutator, closed>>

PC == {"absent", "running", "queued", "draining", "drained"}
Ask == {"none", "lease", "mutate", "close"}

\* A block is the outermost lease of its group, a lease inside that group, a
\* lease inside a mutation window (which nobody counts), or the window.
Frame == [kind : {"outer", "nested", "free", "window"},
          group : Group \cup {NoGroup}]
Counted == {"outer", "nested"}

TypeOK ==
  /\ pc \in [Task -> PC]
  /\ ask \in [Task -> Ask]
  /\ frames \in [Task -> Seq(Frame)]
  /\ group \in [Task -> Group \cup {NoGroup}]
  /\ windowed \in SUBSET Task
  /\ count \in [Group -> Nat]
  /\ gate \in Task \cup {NoTask}
  /\ queue \in Seq(Task)
  /\ idle \in BOOLEAN
  /\ leases \in Nat
  /\ mutator \in Task \cup {NoTask}
  /\ closed \in BOOLEAN

Init ==
  /\ pc = [t \in Task |-> "absent"]
  /\ ask = [t \in Task |-> "none"]
  /\ frames = [t \in Task |-> <<>>]
  /\ group = [t \in Task |-> NoGroup]
  /\ windowed = {}
  /\ count = [g \in Group |-> 0]
  /\ gate = NoTask
  /\ queue = <<>>
  /\ idle = TRUE
  /\ leases = 0
  /\ mutator = NoTask
  /\ closed = FALSE

(***************************************************************************)
(* Tasks.  A task created by another copies its context variables.         *)
(***************************************************************************)
Start(t) ==
  /\ pc[t] = "absent"
  /\ pc' = [pc EXCEPT ![t] = "running"]
  /\ UNCHANGED <<ask, frames, group, windowed, count, gate, queue, idle,
                 leases, mutator, closed>>

Spawn(t, u) ==
  /\ pc[t] = "running"
  /\ pc[u] = "absent"
  /\ pc' = [pc EXCEPT ![u] = "running"]
  /\ group' = [group EXCEPT ![u] = group[t]]
  /\ windowed' = IF t \in windowed THEN windowed \cup {u} ELSE windowed
  /\ UNCHANGED <<ask, frames, count, gate, queue, idle, leases, mutator,
                 closed>>

Finish(t) ==
  /\ pc[t] = "running"
  /\ frames[t] = <<>>
  /\ pc' = [pc EXCEPT ![t] = "absent"]
  /\ group' = [group EXCEPT ![t] = NoGroup]
  /\ windowed' = windowed \ {t}
  /\ UNCHANGED <<ask, frames, count, gate, queue, idle, leases, mutator,
                 closed>>

(***************************************************************************)
(* Blocks and the lock                                                     *)
(***************************************************************************)
HasRoom(t) == pc[t] = "running" /\ Len(frames[t]) < MaxNest

Push(t, kind, g) ==
  frames' = [frames EXCEPT ![t] = Append(@, [kind |-> kind, group |-> g])]

Depth(t) == Len(frames[t])
Top(t) == frames[t][Depth(t)]
InBlock(t) == pc[t] = "running" /\ Depth(t) > 0
Pop(t) == frames' = [frames EXCEPT ![t] = SubSeq(@, 1, Len(@) - 1)]

\* asyncio.Lock: an acquire succeeds at once only if the lock is free and
\* nobody, not even a waiter that was already woken, is in line.
GateFree == gate = NoTask /\ queue = <<>>

Enqueue(t, a) ==
  /\ pc' = [pc EXCEPT ![t] = "queued"]
  /\ ask' = [ask EXCEPT ![t] = a]
  /\ queue' = Append(queue, t)

AtHead(t) == gate = NoTask /\ queue # <<>> /\ Head(queue) = t

LeaveQueue(t) ==
  /\ pc' = [pc EXCEPT ![t] = "running"]
  /\ ask' = [ask EXCEPT ![t] = "none"]

(***************************************************************************)
(* lease()                                                                 *)
(***************************************************************************)
\* Inside an active window: the block is entered and nothing is counted.
LeaseFree(t) ==
  /\ HasRoom(t)
  /\ t \in windowed
  /\ Push(t, "free", NoGroup)
  /\ UNCHANGED <<pc, ask, group, windowed, count, gate, queue, idle, leases,
                 mutator, closed>>

JoinsGroupNever(t) == FALSE  \* (mutant) a call inside a call takes the gate

\* The group the call belongs to still has a call in flight: no gate.
JoinsGroup(t) == group[t] # NoGroup

LeaseNested(t) ==
  /\ HasRoom(t)
  /\ t \notin windowed
  /\ JoinsGroup(t)
  /\ Push(t, "nested", group[t])
  /\ count' = [count EXCEPT ![group[t]] = @ + 1]
  /\ leases' = leases + 1
  /\ UNCHANGED <<pc, ask, group, windowed, gate, queue, idle, mutator, closed>>

\* The part of lease() under the gate, which is released without an await.
LeaseRefused == closed

\* (mutant) the outermost lease does not count itself.
OpenGroupUncounted(t) ==
  \E g \in Group :
    /\ count[g] = 0
    /\ Push(t, "outer", g)
    /\ group' = [group EXCEPT ![t] = g]
    /\ UNCHANGED <<count, leases>>
    /\ idle' = FALSE

OpenGroup(t) ==
  \E g \in Group :
    /\ count[g] = 0
    /\ Push(t, "outer", g)
    /\ group' = [group EXCEPT ![t] = g]
    /\ count' = [count EXCEPT ![g] = 1]
    /\ leases' = leases + 1
    /\ idle' = FALSE

PassGate(t) ==
  IF LeaseRefused THEN UNCHANGED calling ELSE OpenGroup(t)

LeaseAsk(t) ==
  /\ HasRoom(t)
  /\ t \notin windowed
  /\ ~JoinsGroup(t)
  /\ IF GateFree
       THEN PassGate(t) /\ UNCHANGED waiting
       ELSE Enqueue(t, "lease") /\ UNCHANGED calling
  /\ UNCHANGED <<windowed, gate, mutator, closed>>

LeaseGranted(t) ==
  /\ AtHead(t)
  /\ ask[t] = "lease"
  /\ LeaveQueue(t)
  /\ queue' = Tail(queue)
  /\ PassGate(t)
  /\ UNCHANGED <<windowed, gate, mutator, closed>>

ForgetsOwn(t, u) ==  \* (mutant) a dead group still lets calls past the gate
  u = t /\ Top(t).kind = "outer"

\* Leaving a counted lease.  A group nobody is in any more is dead for every
\* task that still refers to it, and the last lease out sets _idle, which
\* wakes the task that drains.
Forgets(t, u) ==
  LET g == Top(t).group
  IN  (u = t /\ Top(t).kind = "outer") \/ (group[u] = g /\ count[g] = 1)

LastOutEarly == leases <= 2  \* (mutant) off by one: _idle is set too early
LastOut == leases = 1

LeaseExit(t) ==
  /\ InBlock(t)
  /\ Top(t).kind \in Counted
  /\ Pop(t)
  /\ count' = [count EXCEPT ![Top(t).group] = @ - 1]
  /\ leases' = leases - 1
  /\ group' = [u \in Task |-> IF Forgets(t, u) THEN NoGroup ELSE group[u]]
  /\ idle' = (idle \/ LastOut)
  /\ pc' = [u \in Task |-> IF LastOut /\ pc[u] = "draining"
                              THEN "drained" ELSE pc[u]]
  /\ UNCHANGED <<ask, windowed, gate, queue, mutator, closed>>

FreeExit(t) ==
  /\ InBlock(t)
  /\ Top(t).kind = "free"
  /\ Pop(t)
  /\ UNCHANGED <<pc, ask, group, windowed, count, gate, queue, idle, leases,
                 mutator, closed>>

(***************************************************************************)
(* _mutation() and close()                                                 *)
(***************************************************************************)
MutationRefusedNever(a) == FALSE  \* (mutant) _closed is not checked
MutationRefused(a) == closed /\ a # "close"

\* The window opens.  The body of close() sets _closed before its first
\* await, so in the same step.
OpenWindow(t, a) ==
  /\ mutator' = t
  /\ windowed' = {t}
  /\ closed' = (closed \/ a = "close")
  /\ Push(t, "window", NoGroup)

QuietAlways == TRUE  \* (mutant) the change does not wait for _idle

\* The task has acquired the gate: it raises, opens the window, or holds
\* the gate while it waits for _idle.
Quiet == idle

HoldGate(t, a) ==
  IF MutationRefused(a)
    THEN /\ pc' = [pc EXCEPT ![t] = "running"]
         /\ ask' = [ask EXCEPT ![t] = "none"]
         /\ UNCHANGED <<gate, mutator, windowed, closed, frames>>
    ELSE /\ gate' = t
         /\ IF Quiet
              THEN /\ pc' = [pc EXCEPT ![t] = "running"]
                   /\ ask' = [ask EXCEPT ![t] = "none"]
                   /\ OpenWindow(t, a)
              ELSE /\ pc' = [pc EXCEPT ![t] = "draining"]
                   /\ ask' = [ask EXCEPT ![t] = a]
                   /\ UNCHANGED <<mutator, windowed, closed, frames>>

\* A task inside the window that is not the mutator gets HostStateError
\* (nothing changes); the mutator itself re-enters (see CloseInWindow).
MutateAsk(t, a) ==
  /\ HasRoom(t)
  /\ ~MutationRefused(a)
  /\ t \notin windowed
  /\ IF GateFree
       THEN HoldGate(t, a) /\ UNCHANGED queue
       ELSE /\ Enqueue(t, a)
            /\ UNCHANGED <<gate, mutator, windowed, closed, frames>>
  /\ UNCHANGED <<group, count, idle, leases>>

MutateGranted(t) ==
  /\ AtHead(t)
  /\ ask[t] \in {"mutate", "close"}
  /\ queue' = Tail(queue)
  /\ HoldGate(t, ask[t])
  /\ UNCHANGED <<group, count, idle, leases>>

\* _idle.wait() returned: the window opens without looking at _idle again.
Drained(t) ==
  /\ pc[t] = "drained"
  /\ LeaveQueue(t)
  /\ OpenWindow(t, ask[t])
  /\ UNCHANGED <<group, count, gate, queue, idle, leases>>

\* The drain timeout expires, or the task is cancelled; either may win the
\* race against _idle.
DrainAborted(t) ==
  /\ pc[t] \in {"draining", "drained"}
  /\ LeaveQueue(t)
  /\ gate' = NoTask
  /\ UNCHANGED <<frames, group, windowed, count, queue, idle, leases, mutator,
                 closed>>

\* (mutant) a cancelled task stays in line.
QueueCancelledInLine(t) ==
  /\ pc[t] = "queued"
  /\ LeaveQueue(t)
  /\ UNCHANGED <<queue, frames, group, windowed, count, gate, idle, leases,
                 mutator, closed>>

\* A task is cancelled while it waits for the gate.
QueueCancelled(t) ==
  /\ pc[t] = "queued"
  /\ LeaveQueue(t)
  /\ \E i \in 1..Len(queue) :
       /\ queue[i] = t
       /\ queue' = SubSeq(queue, 1, i - 1) \o SubSeq(queue, i + 1, Len(queue))
  /\ UNCHANGED <<frames, group, windowed, count, gate, idle, leases, mutator,
                 closed>>

\* close() called by the task that already changes the host (outside a
\* batch) re-enters _mutation() and closes at once.
CloseInWindow(t) ==
  /\ pc[t] = "running"
  /\ mutator = t
  /\ closed' = TRUE
  /\ UNCHANGED <<pc, ask, frames, group, windowed, count, gate, queue, idle,
                 leases, mutator>>

WindowExit(t) ==
  /\ InBlock(t)
  /\ Top(t).kind = "window"
  /\ Pop(t)
  /\ windowed' = {}
  /\ mutator' = NoTask
  /\ gate' = NoTask
  /\ UNCHANGED <<pc, ask, group, count, queue, idle, leases, closed>>

(***************************************************************************)
(* Specification                                                           *)
(***************************************************************************)
Step(t) ==
  \/ Start(t)
  \/ \E u \in Task : Spawn(t, u)
  \/ Finish(t)
  \/ LeaseFree(t)
  \/ LeaseNested(t)
  \/ LeaseAsk(t)
  \/ LeaseGranted(t)
  \/ LeaseExit(t)
  \/ FreeExit(t)
  \/ \E a \in {"mutate", "close"} : MutateAsk(t, a)
  \/ MutateGranted(t)
  \/ Drained(t)
  \/ DrainAborted(t)
  \/ QueueCancelled(t)
  \/ CloseInWindow(t)
  \/ WindowExit(t)

Next == \E t \in Task : Step(t)

Spec == Init /\ [][Next]_vars

\* The event loop runs a woken task and the drain timeout fires; the body of
\* a change, and a call it makes itself, end.  Nothing is assumed of calls.
Fairness ==
  \A t \in Task :
    /\ WF_vars(LeaseGranted(t) \/ MutateGranted(t))
    /\ WF_vars(Drained(t) \/ DrainAborted(t))
    /\ SF_vars(WindowExit(t))
    /\ WF_vars(mutator = t /\ FreeExit(t))

FairSpec == Spec /\ Fairness

(***************************************************************************)
(* Properties                                                              *)
(***************************************************************************)
\* The calls in flight that the host counts.
Members(g) ==
  {c \in Task \X (1..MaxNest) :
     /\ c[2] <= Len(frames[c[1]])
     /\ frames[c[1]][c[2]].kind \in Counted
     /\ frames[c[1]][c[2]].group = g}

Held ==
  {c \in Task \X (1..MaxNest) :
     /\ c[2] <= Len(frames[c[1]])
     /\ frames[c[1]][c[2]].kind \in Counted}

\* While a lifecycle change runs no counted call is in flight, in any task,
\* although calls inside a call take neither the gate nor the closed check.
WindowExcludesCalls == mutator # NoTask => Held = {}

\* The three ways the host counts calls agree with the blocks the tasks are
\* inside, so that a drain neither ends early nor waits for nobody.
CountsAgree ==
  /\ leases = Cardinality(Held)
  /\ idle <=> Held = {}
  /\ \A t \in Task : pc[t] = "draining" => Held # {}

\* A task with a counted call in flight never waits in line for another one:
\* behind a draining change it would wait for itself.
NoCallBehindItself ==
  \A t \in Task :
    (\E c \in Held : c[1] = t) => ~(pc[t] = "queued" /\ ask[t] = "lease")

\* After close() no counted call starts, and a change that was already in
\* line at the gate is refused; only another close() gets through.
ClosedIsFinal ==
  [][closed => /\ closed'
               /\ Held' \subseteq Held
               /\ mutator' \notin {mutator, NoTask} =>
                    ask[mutator'] # "mutate"]_vars

\* What makes the properties above inductive.
Counters ==
  /\ leases = Cardinality(Held)
  /\ \A g \in Group : count[g] = Cardinality(Members(g))
  /\ idle <=> leases = 0

\* A task refers to a group only while a call of the group is in flight.
GroupsAlive == \A t \in Task : group[t] # NoGroup => count[group[t]] > 0

FramesOK ==
  \A t \in Task :
    /\ Len(frames[t]) <= MaxNest
    /\ pc[t] = "absent" => frames[t] = <<>>
    /\ pc[t] \in {"queued", "draining", "drained"} => Len(frames[t]) < MaxNest
    /\ \A i \in 1..Len(frames[t]) :
         frames[t][i].kind \in Counted => frames[t][i].group \in Group

\* The lock is held by the task that drains or changes the host, by nobody
\* else; a window that opens after the drain finds no call in flight.
GateHeld ==
  /\ mutator # NoTask => gate = mutator /\ leases = 0
  /\ \A t \in Task :
       /\ pc[t] \in {"draining", "drained"} =>
            gate = t /\ mutator = NoTask /\ ask[t] \in {"mutate", "close"}
       /\ pc[t] = "draining" => leases > 0
       /\ pc[t] = "drained" => leases = 0
       /\ pc[t] \in {"absent", "running"} => ask[t] = "none"

OneWindow ==
  \A t \in Task : \A i \in 1..Len(frames[t]) :
    frames[t][i].kind = "window" =>
      /\ mutator = t
      /\ \A j \in 1..Len(frames[t]) : frames[t][j].kind = "window" => i = j

ClosedIsQuiet ==
  closed =>
    /\ leases = 0
    /\ \A t \in Task :
         pc[t] \in {"draining", "drained"} => ask[t] # "mutate"

IInv ==
  /\ TypeOK
  /\ FramesOK
  /\ Counters
  /\ GroupsAlive
  /\ GateHeld
  /\ OneWindow
  /\ ClosedIsQuiet

\* Every call and every change that waits in line leaves the line, even if
\* the calls in flight never end: the drain in front of it times out.
Served == \A t \in Task : pc[t] = "queued" ~> pc[t] # "queued"

\* The docs: a change waits until the calls in flight in the whole host have
\* ended.  Stated of every task outside the change, counted or not.
CallsDrained ==
  mutator # NoTask =>
    \A t \in Task \ windowed : \A i \in 1..Len(frames[t]) :
      frames[t][i].kind = "window"

\* The promise of CallGuard, kept by the gate, the counters and the context
\* variables.
Guard == INSTANCE CallGuard WITH
  Call <- Task \X (1..MaxNest),
  calls <- Held,
  writer <- mutator,
  shut <- closed

Refines == Guard!Spec
=============================================================================
