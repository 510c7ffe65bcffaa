----------------------------- MODULE PluginHost -----------------------------
(***************************************************************************)
(* The static host (kernel/host.py): it starts its plugins once, in the    *)
(* order of their plan, and releases them once, in the reverse order,      *)
(* whether a start fails, a start is cancelled or the host is closed, and  *)
(* however many tasks close it and are cancelled while they wait.          *)
(***************************************************************************)
EXTENDS ActivationPlan

CONSTANTS
  Key,           \* service keys
  Task,          \* tasks that call start() and close()
  Declarations,  \* what the plugins declare
  NoPlugin       \* no plugin is being activated

ASSUME DeclarationsAssumption ==
  \A d \in Declarations : d \in Seq([requires : SUBSET Key, provides : SUBSET Key])
ASSUME NoPluginAssumption == \A d \in Declarations : NoPlugin \notin DOMAIN d

VARIABLES
  decl,      \* _plugins
  state,     \* _state
  contexts,  \* _contexts, in the order of activation
  current,   \* the plugin whose activate() is running
  services,  \* the plugins that have published: _services
  open,      \* the plugins whose resources are not released
  released,  \* history: how often each plugin's resources were released
  cleanup,   \* _cleanup_task: its phase and the state it leaves behind
  pc,        \* where each task is
  cancelled  \* the tasks cancelled while they wait

vars == <<decl, state, contexts, current, services, open, released, cleanup,
          pc, cancelled>>
fixed == <<decl, cancelled>>

Plugin == DOMAIN decl
State == {"NEW", "STARTING", "RUNNING", "CLOSING", "CLOSED", "FAILED"}

TypeOK ==
  /\ state \in State
  /\ contexts \in Seq(Plugin)
  /\ current \in Plugin \cup {NoPlugin}
  /\ services \subseteq Plugin /\ open \subseteq Plugin
  /\ released \in [Plugin -> Nat]
  /\ cleanup \in [phase : {"none", "running", "done"},
                  final : {"NEW", "CLOSED", "FAILED"}, left : 0..Len(decl)]
  /\ pc \in [Task -> {"out", "starting", "waiting", "returned"}]
  /\ cancelled \subseteq Task

Init ==
  /\ decl \in Declarations
  /\ state = "NEW"
  /\ contexts = <<>>
  /\ current = NoPlugin
  /\ services = {}
  /\ open = {}
  /\ released = [i \in Plugin |-> 0]
  /\ cleanup = [phase |-> "none", final |-> "NEW", left |-> 0]
  /\ pc = [t \in Task |-> "out"]
  /\ cancelled = {}

At(t, where) == pc' = [pc EXCEPT ![t] = where]

CleanupTask(final) ==
  [phase |-> "running", final |-> final, left |-> Len(contexts)]

\* (mutant) every close() starts a clean-up of its own.
BeginCleanupAgain(final) == cleanup' = CleanupTask(final)

BeginCleanup(final) ==
  cleanup' = IF cleanup.phase = "none" THEN CleanupTask(final) ELSE cleanup

(***************************************************************************)
(* start()                                                                 *)
(***************************************************************************)
Fail(t) ==
  /\ BeginCleanup("FAILED")
  /\ current' = NoPlugin
  /\ At(t, "waiting")

\* The plan is refused, or a constructor raises before any activation.
Start(t) ==
  /\ pc[t] = "out"
  /\ state = "NEW"
  /\ state' = "STARTING"
  /\ \/ ~Refused(decl) /\ At(t, "starting") /\ UNCHANGED <<cleanup, current>>
     \/ Fail(t)
  /\ UNCHANGED <<fixed, contexts, services, open, released>>

Activate(t) ==
  /\ pc[t] = "starting"
  /\ current = NoPlugin
  /\ Len(contexts) < Len(decl)
  /\ LET i == Plan(decl)[Len(contexts) + 1]
     IN  /\ contexts' = Append(contexts, i)
         /\ current' = i
         /\ open' = open \cup {i}
  /\ UNCHANGED <<fixed, state, services, released, cleanup, pc>>

Publish(t) ==
  /\ pc[t] = "starting"
  /\ current # NoPlugin
  /\ services' = services \cup {current}
  /\ current' = NoPlugin
  /\ UNCHANGED <<fixed, state, contexts, open, released, cleanup, pc>>

\* activate() or publish() raises, or the task is cancelled.
ActivationFails(t) ==
  /\ pc[t] = "starting"
  /\ current # NoPlugin
  /\ Fail(t)
  /\ UNCHANGED <<fixed, state, contexts, services, open, released>>

AllUp == current = NoPlugin /\ Len(contexts) = Len(decl)

Started(t) ==
  /\ pc[t] = "starting"
  /\ AllUp
  /\ state' = "RUNNING"
  /\ At(t, "out")
  /\ UNCHANGED <<fixed, contexts, current, services, open, released, cleanup>>

(***************************************************************************)
(* close() and the clean-up task                                           *)
(***************************************************************************)
Closable == {"RUNNING", "CLOSING"}

Close(t) ==
  /\ pc[t] = "out"
  /\ state \in Closable
  /\ state' = "CLOSING"
  /\ BeginCleanup("CLOSED")
  /\ At(t, "waiting")
  /\ UNCHANGED <<fixed, contexts, current, services, open, released>>

CloseNew(t) ==
  /\ pc[t] = "out"
  /\ state = "NEW"
  /\ state' = "CLOSED"
  /\ At(t, "returned")
  /\ UNCHANGED <<fixed, contexts, current, services, open, released, cleanup>>

CloseEnded(t) ==
  /\ pc[t] = "out"
  /\ state \in {"CLOSED", "FAILED"}
  /\ At(t, "returned")
  /\ UNCHANGED <<fixed, state, contexts, current, services, open, released, cleanup>>

Oldest == contexts[Len(contexts) + 1 - cleanup.left]  \* (mutant) first in, first out
Youngest == contexts[cleanup.left]

\* One context; its callbacks' errors are collected.
Release ==
  /\ cleanup.phase = "running"
  /\ cleanup.left > 0
  /\ open' = open \ {Youngest}
  /\ services' = services \ {Youngest}
  /\ released' = [released EXCEPT ![Youngest] = @ + 1]
  /\ cleanup' = [cleanup EXCEPT !.left = @ - 1]
  /\ UNCHANGED <<fixed, state, contexts, current, pc>>

Released ==
  /\ cleanup.phase = "running"
  /\ cleanup.left = 0
  /\ cleanup' = [cleanup EXCEPT !.phase = "done"]
  /\ contexts' = <<>>
  /\ services' = {}
  /\ state' = cleanup.final
  /\ UNCHANGED <<fixed, current, open, released, pc>>

\* _wait_cleanup(): the waiter notes that it was cancelled and goes on.
Cancel(t) ==
  /\ pc[t] = "waiting"
  /\ cancelled' = cancelled \cup {t}
  /\ UNCHANGED <<decl, state, contexts, current, services, open, released, cleanup, pc>>

MayLeaveClosed(t) == state = "CLOSED"  \* (mutant) FAILED is an end, too

\* (mutant) a cancelled waiter leaves at once.
MayLeaveCancelled(t) == cleanup.phase = "done" \/ t \in cancelled
MayLeave(t) == cleanup.phase = "done"

Waited(t) ==
  /\ pc[t] = "waiting"
  /\ MayLeave(t)
  /\ At(t, "returned")
  /\ UNCHANGED <<fixed, state, contexts, current, services, open, released, cleanup>>

(***************************************************************************)
(* Specification                                                           *)
(***************************************************************************)
Call(t) ==
  Start(t) \/ Activate(t) \/ Publish(t) \/ ActivationFails(t) \/ Started(t)
    \/ Close(t) \/ CloseNew(t) \/ CloseEnded(t) \/ Cancel(t)
Cleanup == Release \/ Released
Next == Cleanup \/ \E t \in Task : Call(t) \/ Waited(t)

Spec == Init /\ [][Next]_vars

\* The clean-up callbacks end and a waiter whose task is done is woken.
FairSpec == Spec /\ WF_vars(Cleanup) /\ \A t \in Task : WF_vars(Waited(t))

(***************************************************************************)
(* Properties                                                              *)
(***************************************************************************)
\* A plan is an order of the plugins, and refused only when there is none.
PlanIsRight ==
  /\ RefusedRightly(decl)
  /\ ~Refused(decl) => IsOrder(decl, Plan(decl))

\* While a plugin holds resources, whatever it depends on holds its own; and
\* what it depends on has published by the time it is activated.
ProvidersOutliveUsers ==
  /\ \A i \in open : Dependencies(decl, i) \subseteq open
  /\ current # NoPlugin => Dependencies(decl, current) \subseteq services

\* Whoever comes back from close() or from a failed start() finds everything
\* released, cancelled or not.
ReturnedMeansReleased ==
  (\E t \in Task : pc[t] = "returned") => open = {} /\ services = {}

\* No plugin's resources are released twice, although every task that closes
\* the host, and a start that fails, asks for the clean-up.
ReleasedOnce == \A i \in Plugin : released[i] <= 1

\* Every close(), and every start() that failed, comes back.
WaitersReturn == \A t \in Task : pc[t] = "waiting" ~> pc[t] = "returned"
=============================================================================
