----------------------------- MODULE CallGuard -----------------------------
(***************************************************************************)
(* What the dynamic host promises about calls and lifecycle changes,       *)
(* whatever gate, counters and context variables it keeps the promise      *)
(* with: calls overlap freely, a lifecycle change starts only when no call *)
(* is in flight and nothing starts while it lasts, and once the host is    *)
(* shut no call ever starts again.                                         *)
(***************************************************************************)
CONSTANTS
  Task,      \* the asyncio tasks that call the host
  NoTask,    \* "nobody changes the host"
  Call       \* the calls that may be in flight

VARIABLES
  calls,     \* the calls in flight
  writer,    \* the task that is changing the host
  shut       \* the host was closed

vars == <<calls, writer, shut>>

Init ==
  /\ calls = {}
  /\ writer = NoTask
  /\ shut = FALSE

\* A call starts: nobody is changing the host and the host is not shut.
Begin(c) ==
  /\ writer = NoTask
  /\ ~shut
  /\ c \notin calls
  /\ calls' = calls \cup {c}
  /\ UNCHANGED <<writer, shut>>

End(c) ==
  /\ c \in calls
  /\ calls' = calls \ {c}
  /\ UNCHANGED <<writer, shut>>

\* A change starts once every call has ended; only a closing change may
\* start on a shut host, and it may shut it in the same step.
Enter(t) ==
  /\ writer = NoTask
  /\ calls = {}
  /\ writer' = t
  /\ shut' \in {shut, TRUE}
  /\ UNCHANGED calls

\* The running change closes the host.
Shut ==
  /\ writer # NoTask
  /\ shut' = TRUE
  /\ UNCHANGED <<calls, writer>>

Leave ==
  /\ writer # NoTask
  /\ writer' = NoTask
  /\ UNCHANGED <<calls, shut>>

Next ==
  \/ \E c \in Call : Begin(c) \/ End(c)
  \/ \E t \in Task : Enter(t)
  \/ Shut
  \/ Leave

Spec == Init /\ [][Next]_vars
=============================================================================
