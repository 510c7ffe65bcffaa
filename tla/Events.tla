------------------------------- MODULE Events -------------------------------
(***************************************************************************)
(* The listeners of one event and the dispatches in flight                 *)
(* (kernel/events.py).  A dispatch takes a snapshot of the listeners and   *)
(* calls them one after another, all at once, or each inside the one       *)
(* before; meanwhile listeners come, go and use themselves up.             *)
(*                                                                         *)
(* emit, bail and waterfall_sync run without an await: while one of them   *)
(* is under way only the listener it has called runs, which may register,  *)
(* dispose and dispatch in its turn.                                       *)
(***************************************************************************)
EXTENDS Integers, Sequences, FiniteSets, SequencesExt

CONSTANTS
  Hook,   \* registrations of a listener
  Call,   \* dispatches
  Once,   \* the hooks registered with once=True
  Heard,  \* Heard[c]: the hooks c selects, global ones included
  Modes   \* the ways callers dispatch

ASSUME HeardAssumption == Once \subseteq Hook /\ \A c \in Call : Heard[c] \subseteq Hook

Sync == {"emit", "bail", "waterfall_sync"}
Wrap == {"waterfall", "waterfall_sync"}
First == {"bail", "serial"}
ASSUME ModesAssumption == Modes \subseteq Sync \cup Wrap \cup First \cup {"parallel"}

VARIABLES
  listeners,  \* _listeners[name], in the order they are called
  hook,       \* Hook.active, and whether the hook exists yet
  call,       \* the dispatches
  stack,      \* the dispatches without an await under way, innermost last
  ran         \* how often each callback has run (2 stands for more)

vars == <<listeners, hook, call, stack, ran>>

Idle == [mode |-> "idle", snap |-> <<>>, said |-> <<>>, result |-> "none"]

\* What each listener of the snapshot has done, or that the dispatch does not
\* select it.  The last entry is the base of a waterfall, the function its last
\* listener calls as next.
Said == {"todo", "unheard", "up", "skipped", "nothing", "value", "error"}

TypeOK ==
  /\ listeners \in Seq(Hook)
  /\ hook \in [Hook -> {"new", "active", "disposed"}]
  /\ \A c \in Call :
       /\ call[c].mode \in Modes \cup {"idle"}
       /\ call[c].snap \in Seq(Hook)
       /\ call[c].said \in Seq(Said)
       /\ call[c].result \in {"none", "nothing", "error"}
                              \cup IF call[c].mode \in First \cup Wrap THEN {"value"} ELSE {}
  /\ stack \in Seq(Call)
  /\ ran \in [Hook -> 0..2]

Init ==
  /\ listeners = <<>>
  /\ hook = [h \in Hook |-> "new"]
  /\ call = [c \in Call |-> Idle]
  /\ stack = <<>>
  /\ ran = [h \in Hook |-> 0]

(***************************************************************************)
(* Who runs                                                                *)
(***************************************************************************)
Pending(c) == call[c].mode # "idle" /\ call[c].result = "none"
Up(c) == {j \in DOMAIN call[c].said : call[c].said[j] = "up"}
Depth(c) == CHOOSE j \in Up(c) \cup {0} : \A n \in Up(c) : n <= j

\* A dispatch goes from one listener to the next without an await; only
\* parallel() leaves that to the event loop.
Between ==
  {c \in Call : Pending(c) /\ call[c].mode # "parallel" /\ Up(c) = {}}

\* The code of a caller or of a listener may run.
CodeRuns == Between = {}

\* The dispatch, or the listener it has called last, may take its next step.
Turn(c) ==
  /\ Pending(c)
  /\ Between \subseteq {c}
  /\ IF call[c].mode \in Sync THEN c = Last(stack) ELSE stack = <<>>

Say(c, j, what) == call' = [call EXCEPT ![c].said[j] = what]

Leave(c) == IF call[c].mode \in Sync THEN Front(stack) ELSE stack

End(c, j, what, result) ==
  /\ call' = [call EXCEPT ![c].result = result,
                          ![c].said = IF j = 0 THEN @ ELSE [@ EXCEPT ![j] = what]]
  /\ stack' = Leave(c)

(***************************************************************************)
(* Listeners                                                               *)
(***************************************************************************)
On(h, prepend) ==
  /\ CodeRuns
  /\ hook[h] = "new"
  /\ hook' = [hook EXCEPT ![h] = "active"]
  /\ listeners' = IF prepend THEN <<h>> \o listeners ELSE Append(listeners, h)
  /\ UNCHANGED <<call, stack, ran>>

Revoke(h) ==
  /\ hook' = [hook EXCEPT ![h] = "disposed"]
  /\ listeners' = RemoveFirst(listeners, h)

\* Disposing twice does nothing.
Dispose(h) ==
  /\ CodeRuns
  /\ hook[h] = "active"
  /\ Revoke(h)
  /\ UNCHANGED <<call, stack, ran>>

(***************************************************************************)
(* Dispatches                                                              *)
(***************************************************************************)
\* _callbacks(): the snapshot, and who of it is called.
Callbacks(c, mode) ==
  [mode |-> mode, snap |-> listeners, result |-> "none",
   said |-> [j \in 1..(Len(listeners) + IF mode \in Wrap THEN 1 ELSE 0) |->
               IF j \in DOMAIN listeners /\ listeners[j] \notin Heard[c]
                 THEN "unheard" ELSE "todo"]]

Dispatch(c, mode) ==
  /\ CodeRuns
  /\ call[c] = Idle
  /\ mode \notin Sync => stack = <<>>
  /\ call' = [call EXCEPT ![c] = Callbacks(c, mode)]
  /\ stack' = IF mode \in Sync THEN Append(stack, c) ELSE stack
  /\ UNCHANGED <<listeners, hook, ran>>

\* wrapped(): the snapshot may hold a hook disposed or used up since.
Alive(h) == hook[h] = "active"

RevokeNever(h) == UNCHANGED <<hook, listeners>>  \* (mutant) once is not revoked
UseUp(h) == IF h \in Once THEN Revoke(h) ELSE UNCHANGED <<hook, listeners>>

Enter(c, j) ==
  LET h == call[c].snap[j]
  IN  /\ Alive(h)
      /\ Say(c, j, "up")
      /\ ran' = [ran EXCEPT ![h] = IF @ = 2 THEN 2 ELSE @ + 1]
      /\ UseUp(h)
      /\ UNCHANGED stack

Todo(c) == {j \in DOMAIN call[c].said : call[c].said[j] = "todo"}
IsNext(c, j) == j \in Todo(c) /\ \A n \in Todo(c) : j <= n

\* emit, bail, serial: one after another.  parallel: one task each, started in
\* order.
Invoke(c, j) ==
  /\ Turn(c)
  /\ call[c].mode \notin Wrap
  /\ IsNext(c, j)
  /\ call[c].mode # "parallel" => Up(c) = {}
  /\ \/ Enter(c, j)
     \/ /\ ~Alive(call[c].snap[j])
        /\ Say(c, j, "skipped")
        /\ UNCHANGED <<listeners, hook, stack, ran>>

\* (mutant) parallel() gathers without return_exceptions.
EndsAtError(mode, what) == what = "error" \/ (mode \in First /\ what = "value")

\* bail() and serial() stop at an answer; an error ends any but parallel().
Ends(mode, what) ==
  \/ mode \in First /\ what = "value"
  \/ mode # "parallel" /\ what = "error"

Answer(c, j, what) ==
  /\ Turn(c)
  /\ call[c].mode \notin Wrap
  /\ j \in Up(c)
  /\ what \in {"nothing", "value", "error"}
  /\ IF Ends(call[c].mode, what)
       THEN End(c, j, what, what)
       ELSE Say(c, j, what) /\ UNCHANGED stack
  /\ UNCHANGED <<listeners, hook, ran>>

\* parallel() has waited for every task and gathered their errors.
Outcome(c) ==
  IF \E j \in DOMAIN call[c].said : call[c].said[j] = "error"
    THEN "error" ELSE "nothing"

Exhausted(c) ==
  /\ Turn(c)
  /\ call[c].mode \notin Wrap
  /\ Todo(c) = {}
  /\ Up(c) = {}
  /\ End(c, 0, "", Outcome(c))
  /\ UNCHANGED <<listeners, hook, ran>>

\* The entry after j: the next listener that is selected, or the base.
IsAfter(c, j, n) ==
  LET After == {k \in DOMAIN call[c].said : k > j /\ call[c].said[k] # "unheard"}
  IN  n \in After /\ \A k \in After : n <= k

\* waterfall: step(index), called first by the dispatch and then by any
\* listener that calls next, which may call it again.  A hook that is gone
\* answers None in place of its callback and calls nothing.
NextStep(c, j) ==
  /\ Turn(c)
  /\ call[c].mode \in Wrap
  /\ IsAfter(c, Depth(c), j)
  /\ IF j > Len(call[c].snap)
       THEN Say(c, j, "up") /\ UNCHANGED <<listeners, hook, stack, ran>>
       ELSE \/ Enter(c, j)
            \/ /\ ~Alive(call[c].snap[j])
               /\ IF Up(c) = {} THEN End(c, j, "skipped", "nothing")
                                ELSE Say(c, j, "skipped") /\ UNCHANGED stack
               /\ UNCHANGED <<listeners, hook, ran>>

\* The innermost listener returns to the one around it, which may handle its
\* error; what nobody handles ends the dispatch.
ReturnStep(c, what) ==
  /\ Turn(c)
  /\ call[c].mode \in Wrap
  /\ Up(c) # {}
  /\ what \in {"nothing", "value"}
  /\ IF Up(c) = {Depth(c)}
       THEN End(c, Depth(c), what, what)
       ELSE Say(c, Depth(c), what) /\ UNCHANGED stack
  /\ UNCHANGED <<listeners, hook, ran>>

RaiseStep(c) ==
  /\ Turn(c)
  /\ call[c].mode \in Wrap
  /\ Up(c) # {}
  /\ call' = [call EXCEPT ![c].result = "error",
                ![c].said = [j \in DOMAIN @ |-> IF @[j] = "up" THEN "error" ELSE @[j]]]
  /\ stack' = Leave(c)
  /\ UNCHANGED <<listeners, hook, ran>>

(***************************************************************************)
(* Specification                                                           *)
(***************************************************************************)
Proceed(c) ==
  \/ \E j \in DOMAIN call[c].said : Invoke(c, j)
  \/ \E j \in DOMAIN call[c].said, what \in Said : Answer(c, j, what)
  \/ Exhausted(c)
  \/ \E j \in DOMAIN call[c].said : NextStep(c, j)
  \/ \E what \in Said : ReturnStep(c, what)
  \/ RaiseStep(c)

Next ==
  \/ \E h \in Hook, prepend \in BOOLEAN : On(h, prepend)
  \/ \E h \in Hook : Dispose(h)
  \/ \E c \in Call, mode \in Modes : Dispatch(c, mode)
  \/ \E c \in Call : Proceed(c)

Spec == Init /\ [][Next]_vars

(***************************************************************************)
(* Properties                                                              *)
(***************************************************************************)
\* A listener registered with once runs at most once, however many dispatches
\* have it in their snapshots and whatever it dispatches itself.
OnceRunsOnce == \A h \in Once : ran[h] <= 1

\* A dispatch that has ended has left nobody running, and nobody out who was
\* there when it began and still is: whoever was not called comes after an
\* answer or an error that ends such a dispatch.  It raises when somebody
\* raised, and answers when somebody it asks did.
Decides(c, j) ==
  \/ call[c].said[j] = "value" /\ call[c].mode \in First
  \/ call[c].said[j] = "error" /\ call[c].mode # "parallel"

Heeded(c) ==
  \A j \in DOMAIN call[c].snap :
    /\ call[c].said[j] # "up"
    /\ call[c].snap[j] \in Heard[c] /\ hook[call[c].snap[j]] = "active" =>
         \/ call[c].said[j] \in {"nothing", "value", "error"}
         \/ \E i \in 1..(j - 1) : Decides(c, i)

DispatchIsComplete ==
  \A c \in Call : call[c].mode \notin Wrap /\ call[c].result # "none" =>
    /\ Heeded(c)
    /\ call[c].result = "error" <=>
         \E j \in DOMAIN call[c].said : call[c].said[j] = "error"
    /\ call[c].result = "value" <=>
         \E j \in DOMAIN call[c].said :
           call[c].said[j] = "value" /\ call[c].mode \in First

\* The docs: a listener gets next and intercepts by not calling it; so if
\* nothing was raised and nobody intercepted, the base has run.
Intercepted(c) ==
  \E j, n \in DOMAIN call[c].said :
    /\ IsAfter(c, j, n)
    /\ call[c].said[j] \in {"nothing", "value"} /\ call[c].said[n] = "todo"
BaseRunsUnlessIntercepted ==
  \A c \in Call :
    call[c].mode \in Wrap /\ call[c].result \in {"nothing", "value"} =>
      Intercepted(c) \/ Last(call[c].said) # "todo"
=============================================================================
