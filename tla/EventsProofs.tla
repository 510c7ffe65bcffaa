---------------------------- MODULE EventsProofs ----------------------------
(***************************************************************************)
(* Proofs about Events for any hooks, dispatches, filters and modes.       *)
(*                                                                         *)
(* Only two actions call a listener, Invoke and NextStep, and both through *)
(* Enter.  That once is once looks at no more than what they do to the     *)
(* hooks; that a dispatch is complete needs what it has made of its        *)
(* snapshot, which may hold hooks that are gone.                           *)
(***************************************************************************)
EXTENDS Events, SequenceTheorems, WellFoundedInduction, TLAPS

\* A hook registered with once has not run before it is disposed, and its
\* first call disposes it.
Spent ==
  \A h \in Once : /\ ran[h] <= 1
                  /\ hook[h] # "disposed" => ran[h] = 0

IInv ==
  /\ hook \in [Hook -> {"new", "active", "disposed"}]
  /\ ran \in [Hook -> 0..2]
  /\ Spent

\* What any step does to the hooks: one is registered that was not before,
\* one is disposed, or one that is active is called.
Registers(h) ==
  /\ hook[h] = "new"
  /\ hook' = [hook EXCEPT ![h] = "active"]
  /\ ran' = ran

Disposes(h) ==
  /\ hook' = [hook EXCEPT ![h] = "disposed"]
  /\ ran' = ran

Calls(h) ==
  /\ hook[h] = "active"
  /\ hook' = IF h \in Once THEN [hook EXCEPT ![h] = "disposed"] ELSE hook
  /\ ran' = [ran EXCEPT ![h] = IF @ = 2 THEN 2 ELSE @ + 1]

\* A listener is called while its hook is active, and one registered with
\* once is disposed before it runs (wrapped()).
LEMMA EnterCalls ==
  ASSUME NEW c, NEW j, Enter(c, j)
  PROVE  Calls(call[c].snap[j])
BY DEF Enter, Alive, UseUp, Revoke, Calls

\* A dispatch registers and disposes nothing itself: it calls a listener or
\* leaves the hooks as they are.
LEMMA ProceedCalls ==
  ASSUME NEW c \in Call, Proceed(c)
  PROVE  (\E h : Calls(h)) \/ UNCHANGED <<hook, ran>>
<1>1. ASSUME NEW j, Invoke(c, j)
      PROVE  (\E h : Calls(h)) \/ UNCHANGED <<hook, ran>>
  BY <1>1, EnterCalls DEF Invoke
<1>2. CASE \E j : NextStep(c, j)
  <2>1. \/ \E j : Enter(c, j)
        \/ UNCHANGED <<hook, ran>>
    BY <1>2 DEF NextStep
  <2> QED
    BY <2>1, EnterCalls
<1>3. CASE \/ \E j, what : Answer(c, j, what)
           \/ Exhausted(c) \/ RaiseStep(c)
           \/ \E what : ReturnStep(c, what)
  BY <1>3 DEF Answer, Exhausted, RaiseStep, ReturnStep
<1> QED
  BY <1>1, <1>2, <1>3 DEF Proceed

\* Every step does one of the three, or leaves the hooks as they are.
LEMMA StepKinds ==
  ASSUME [Next]_vars
  PROVE  \/ \E h \in Hook : Registers(h) \/ Disposes(h)
         \/ \E h : Calls(h)
         \/ UNCHANGED <<hook, ran>>
<1>1. CASE \E h \in Hook, prepend \in BOOLEAN : On(h, prepend)
  BY <1>1 DEF On, Registers
<1>2. CASE \E h \in Hook : Dispose(h)
  BY <1>2 DEF Dispose, Revoke, Disposes
<1>3. CASE \E c \in Call, mode \in Modes : Dispatch(c, mode)
  BY <1>3 DEF Dispatch
<1>4. CASE \E c \in Call : Proceed(c)
  BY <1>4, ProceedCalls
<1>5. CASE UNCHANGED vars
  BY <1>5 DEF vars
<1> QED
  BY <1>1, <1>2, <1>3, <1>4, <1>5 DEF Next

\* The invariant holds before anything is registered.
LEMMA InitInv == Init => IInv
BY HeardAssumption DEF Init, IInv, Spent

\* A call keeps the invariant: an active hook registered with once has not
\* run yet.
LEMMA CallsInv ==
  ASSUME IInv, NEW h, Calls(h)
  PROVE  IInv'
<1> USE HeardAssumption DEF IInv, Calls
<1>1. hook' \in [Hook -> {"new", "active", "disposed"}]
  OBVIOUS
<1>2. ran' \in [Hook -> 0..2]
  <2>1. ASSUME NEW g \in Hook PROVE ran'[g] \in 0..2
    <3>1. ran[g] \in 0..2
      OBVIOUS
    <3>2. CASE g = h
      BY <3>1, <3>2
    <3>3. CASE g # h
      BY <3>1, <3>3
    <3> QED
      BY <3>2, <3>3
  <2>2. ran' = [g \in Hook |-> ran'[g]]
    OBVIOUS
  <2> QED
    BY <2>1, <2>2
<1>3. Spent'
  <2> SUFFICES ASSUME NEW o \in Once
               PROVE  ran'[o] <= 1 /\ (hook'[o] # "disposed" => ran'[o] = 0)
    BY DEF Spent
  <2>1. CASE o = h
    <3>1. ran[o] = 0
      BY <2>1 DEF Spent
    <3> QED
      BY <2>1, <3>1
  <2>2. CASE o # h
    BY <2>2 DEF Spent
  <2> QED
    BY <2>1, <2>2
<1> QED
  BY <1>1, <1>2, <1>3

\* Every step keeps the invariant: a hook once disposed is never registered
\* again.
LEMMA NextInv == IInv /\ [Next]_vars => IInv'
<1> SUFFICES ASSUME IInv, [Next]_vars PROVE IInv'
  OBVIOUS
<1>1. CASE \E h \in Hook : Registers(h)
  BY <1>1, HeardAssumption DEF IInv, Spent, Registers
<1>2. CASE \E h \in Hook : Disposes(h)
  BY <1>2, HeardAssumption DEF IInv, Spent, Disposes
<1>3. CASE \E h : Calls(h)
  BY <1>3, CallsInv
<1>4. CASE UNCHANGED <<hook, ran>>
  BY <1>4 DEF IInv, Spent
<1> QED
  BY <1>1, <1>2, <1>3, <1>4, StepKinds

\* In every reachable state a once listener has not run before its hook is
\* disposed (Events.on, wrapped()).
THEOREM EventsInvariance == Spec => []IInv
BY InitInv, NextInv, PTL DEF Spec

\* A listener registered with once runs at most once, however many dispatches
\* hold it in their snapshots, awaited or not, and whatever it dispatches
\* while it runs (Events.on, wrapped()).
THEOREM OnceRunsOnceHolds == Spec => []OnceRunsOnce
<1>1. IInv => OnceRunsOnce
  BY DEF IInv, Spent, OnceRunsOnce
<1> QED
  BY <1>1, EventsInvariance, PTL


(***************************************************************************)
(* What has become of each listener of a dispatch                          *)
(***************************************************************************)
\* Registered once, a hook is never new again.
Registered == {h \in Hook : hook[h] # "new"}

Results == {"none", "nothing", "value", "error"}
Dispatches(H) ==
  [mode : Modes \cup {"idle"}, snap : Seq(H), said : Seq(Said), result : Results]

Typed ==
  /\ hook \in [Hook -> {"new", "active", "disposed"}]
  /\ listeners \in Seq(Registered)
  /\ call \in [Call -> Dispatches(Registered)]

\* A non-empty set of natural numbers has a least one.
LEMMA LeastOne ==
  ASSUME NEW I \in SUBSET Nat, I # {}
  PROVE  Min(I) \in I
<1>1. IsWellFoundedOn(OpToRel(<, Nat), Nat)
  BY NatLessThanWellFounded, Zenon
<1>2. PICK x \in I : \A y \in I : <<y, x>> \notin OpToRel(<, Nat)
  BY <1>1, WFMin, Zenon
<1>3. \A y \in I : ~(y < x)
  BY <1>2, Zenon DEF OpToRel
<1>4. \A y \in I : x <= y
  BY <1>3
<1> QED
  BY <1>4 DEF Min

\* Who leaves the listeners brings nobody in.
LEMMA LeftListeners ==
  ASSUME NEW S, NEW s \in Seq(S), NEW h
  PROVE  RemoveFirst(s, h) \in Seq(S)
<1> DEFINE I == {i \in 1..Len(s) : s[i] = h}
<1>1. CASE I = {}
  BY <1>1 DEF RemoveFirst
<1>2. CASE I # {}
  <2> DEFINE n == Min(I)
             a == SubSeq(s, 1, n - 1)
             b == SubSeq(s, n + 1, Len(s))
  <2>1. n \in 1..Len(s)
    <3>1. I \in SUBSET Nat
      OBVIOUS
    <3> QED
      BY <1>2, <3>1, LeastOne
  <2>2. RemoveFirst(s, h) = a \o b
    BY <1>2 DEF RemoveFirst, RemoveAt, SelectInSeq
  <2> HIDE DEF n
  <2>3. a \in Seq(S)
    <3>1. \A i \in 1..(n - 1) : s[i] \in S
      BY <2>1
    <3> QED
      BY <2>1, <3>1, SubSeqProperties, SMT
  <2>4. b \in Seq(S)
    <3>1. \A i \in (n + 1)..Len(s) : s[i] \in S
      BY <2>1
    <3> QED
      BY <2>1, <3>1, SubSeqProperties, SMT
  <2> HIDE DEF a, b
  <2> QED
    BY <2>2, <2>3, <2>4, ConcatProperties
<1> QED
  BY <1>1, <1>2

\* A hook is registered once and disposed once.
LEMMA HooksAge ==
  ASSUME Typed, [Next]_vars
  PROVE  /\ hook' \in [Hook -> {"new", "active", "disposed"}]
         /\ Registered \subseteq Registered'
         /\ \A h \in Hook : hook[h] = "disposed" => hook'[h] = "disposed"
<1> USE DEF Typed, Registered
<1>1. CASE \E h \in Hook : Registers(h)
  BY <1>1 DEF Registers
<1>2. CASE \E h \in Hook : Disposes(h)
  BY <1>2 DEF Disposes
<1>3. CASE \E h : Calls(h)
  BY <1>3 DEF Calls
<1>4. CASE UNCHANGED <<hook, ran>>
  BY <1>4
<1> QED
  BY <1>1, <1>2, <1>3, <1>4, StepKinds

\* What a step of a dispatch makes of what its listeners have done and of its
\* result; the rest of it, and the other dispatches, stay.
Becomes(c, s, r) ==
  call' = [call EXCEPT ![c].said = s, ![c].result = r]

LEMMA BecomesTyped ==
  ASSUME Typed, NEW c \in Call, NEW s \in Seq(Said), NEW r \in Results,
         Becomes(c, s, r)
  PROVE  /\ call' \in [Call -> Dispatches(Registered)]
         /\ call'[c].mode = call[c].mode /\ call'[c].snap = call[c].snap
         /\ call'[c].said = s /\ call'[c].result = r
         /\ \A d \in Call \ {c} : call'[d] = call[d]
BY DEF Typed, Becomes, Dispatches

\* An entry is written in its place, or nowhere.
Written(c, j, what) == [call[c].said EXCEPT ![j] = what]

LEMMA WrittenTyped ==
  ASSUME Typed, NEW c \in Call, NEW j, NEW what \in Said
  PROVE  /\ Written(c, j, what) \in Seq(Said)
         /\ DOMAIN Written(c, j, what) = DOMAIN call[c].said
         /\ \A k \in DOMAIN call[c].said :
              Written(c, j, what)[k] = IF k = j THEN what ELSE call[c].said[k]
<1>1. call[c].said \in Seq(Said)
  BY DEF Typed, Dispatches
<1>2. CASE j \in DOMAIN call[c].said
  BY <1>1, <1>2, ExceptSeq DEF Written
<1>3. CASE j \notin DOMAIN call[c].said
  <2>1. Written(c, j, what) = call[c].said
    BY <1>1, <1>3 DEF Written
  <2> QED
    BY <1>1, <1>3, <2>1
<1> QED
  BY <1>2, <1>3

LEMMA SayBecomes ==
  ASSUME Typed, NEW c \in Call, NEW j, NEW what, Say(c, j, what)
  PROVE  Becomes(c, Written(c, j, what), call[c].result)
BY DEF Say, Becomes, Written, Typed, Dispatches

LEMMA EndBecomes ==
  ASSUME Typed, NEW c \in Call, NEW j, NEW what, NEW r, End(c, j, what, r)
  PROVE  Becomes(c, IF j = 0 THEN call[c].said ELSE Written(c, j, what), r)
BY DEF End, Becomes, Written, Typed, Dispatches

\* Every step of a dispatch is of that form.
LEMMA ProceedBecomes ==
  ASSUME Typed, NEW c \in Call, Proceed(c)
  PROVE  \E s \in Seq(Said), r \in Results : Becomes(c, s, r)
<1>1. call[c].said \in Seq(Said) /\ call[c].result \in Results
  BY DEF Typed, Dispatches
<1>2. ASSUME NEW j, NEW what \in Said, Say(c, j, what)
      PROVE  \E s \in Seq(Said), r \in Results : Becomes(c, s, r)
  BY <1>1, <1>2, SayBecomes, WrittenTyped
<1>3. ASSUME NEW j, NEW what \in Said, NEW r \in Results, End(c, j, what, r)
      PROVE  \E s \in Seq(Said), q \in Results : Becomes(c, s, q)
  BY <1>1, <1>3, EndBecomes, WrittenTyped
<1>4. ASSUME NEW j, Enter(c, j)
      PROVE  \E what \in Said : Say(c, j, what)
  BY <1>4 DEF Enter, Said
<1>5. ASSUME NEW j, Invoke(c, j)
      PROVE  \E what \in Said : Say(c, j, what)
  BY <1>4, <1>5 DEF Invoke, Said
<1>6. ASSUME NEW j, NEW what, Answer(c, j, what)
      PROVE  /\ what \in Said \cap Results
             /\ Say(c, j, what) \/ End(c, j, what, what)
  BY <1>6 DEF Answer, Said, Results
<1>7. ASSUME NEW j, NextStep(c, j)
      PROVE  (\E what \in Said : Say(c, j, what)) \/ End(c, j, "skipped", "nothing")
  BY <1>4, <1>7 DEF NextStep, Said
<1>8. ASSUME NEW what, ReturnStep(c, what)
      PROVE  /\ what \in Said \cap Results
             /\ Say(c, Depth(c), what) \/ End(c, Depth(c), what, what)
  BY <1>8 DEF ReturnStep, Said, Results
<1>9. CASE Exhausted(c)
  <2>1. End(c, 0, "", Outcome(c)) /\ Outcome(c) \in Results
    BY <1>9 DEF Exhausted, Outcome, Results
  <2> QED
    BY <1>1, <2>1, EndBecomes
<1>10. CASE RaiseStep(c)
  <2> DEFINE s == [j \in DOMAIN call[c].said |->
                     IF call[c].said[j] = "up" THEN "error" ELSE call[c].said[j]]
  <2>1. s \in Seq(Said)
    BY <1>1 DEF Said
  <2>2. Becomes(c, s, "error")
    BY <1>10 DEF RaiseStep, Becomes, Typed, Dispatches
  <2> QED
    BY <2>1, <2>2 DEF Results
<1>11. "skipped" \in Said /\ "nothing" \in Results
  BY DEF Said, Results
<1> QED
  BY <1>2, <1>3, <1>5, <1>6, <1>7, <1>8, <1>9, <1>10, <1>11 DEF Proceed

\* Who listens is registered.
LEMMA ListenersTyped ==
  ASSUME Typed, [Next]_vars
  PROVE  listeners' \in Seq(Registered')
<1>1. Registered \subseteq Registered'
  BY HooksAge
<1>2. listeners \in Seq(Registered')
  BY <1>1, SeqMonotonic DEF Typed
<1>3. ASSUME NEW h, listeners' = RemoveFirst(listeners, h)
      PROVE  listeners' \in Seq(Registered')
  BY <1>2, <1>3, LeftListeners
<1>4. ASSUME NEW h \in Hook, NEW prepend \in BOOLEAN, On(h, prepend)
      PROVE  listeners' \in Seq(Registered')
  <2>1. h \in Registered'
    BY <1>4 DEF On, Registered, Typed
  <2>2. <<h>> \in Seq(Registered')
    BY <2>1
  <2>3. <<h>> \o listeners \in Seq(Registered')
    BY <1>2, <2>2, ConcatProperties
  <2>4. Append(listeners, h) \in Seq(Registered')
    BY <1>2, <2>1, AppendProperties
  <2> QED
    BY <1>4, <2>3, <2>4 DEF On
<1>5. ASSUME NEW c, NEW j, Enter(c, j)
      PROVE  listeners' \in Seq(Registered')
  BY <1>2, <1>3, <1>5 DEF Enter, UseUp, Revoke
<1>6. CASE \E h \in Hook : Dispose(h)
  BY <1>3, <1>6 DEF Dispose, Revoke
<1>7. CASE \E c \in Call, mode \in Modes : Dispatch(c, mode)
  BY <1>2, <1>7 DEF Dispatch
<1>8. ASSUME NEW c \in Call, Proceed(c)
      PROVE  (\E j : Enter(c, j)) \/ listeners' = listeners
  BY <1>8 DEF Proceed, Invoke, Answer, Exhausted, NextStep, ReturnStep, RaiseStep
<1>9. CASE UNCHANGED vars
  BY <1>2, <1>9 DEF vars
<1> QED
  BY <1>2, <1>4, <1>5, <1>6, <1>7, <1>8, <1>9 DEF Next

\* A dispatch begins with the snapshot and with what it selects of it.
LEMMA BeginsTyped ==
  ASSUME Typed, NEW c \in Call, NEW mode \in Modes, Dispatch(c, mode)
  PROVE  /\ call' \in [Call -> Dispatches(Registered)]
         /\ call'[c] = Callbacks(c, mode)
         /\ \A d \in Call \ {c} : call'[d] = call[d]
<1> DEFINE n == Len(listeners) + (IF mode \in Wrap THEN 1 ELSE 0)
           s == [j \in 1..n |->
                  IF j \in DOMAIN listeners /\ listeners[j] \notin Heard[c]
                    THEN "unheard" ELSE "todo"]
<1>1. listeners \in Seq(Registered) /\ n \in Nat
  BY DEF Typed
<1>2. s \in Seq(Said)
  <2> HIDE DEF n
  <2> QED
    BY <1>1 DEF Said
<1>3. Callbacks(c, mode) =
        [mode |-> mode, snap |-> listeners, result |-> "none", said |-> s]
  BY DEF Callbacks
<1> HIDE DEF s
<1>4. Callbacks(c, mode) \in Dispatches(Registered)
  BY <1>1, <1>2, <1>3 DEF Dispatches, Results
<1> QED
  BY <1>4 DEF Dispatch, Typed

LEMMA TypedInv == Typed /\ [Next]_vars => Typed'
<1> SUFFICES ASSUME Typed, [Next]_vars PROVE Typed'
  OBVIOUS
<1>1. call' \in [Call -> Dispatches(Registered)]
  <2>1. CASE \E h \in Hook, prepend \in BOOLEAN : On(h, prepend)
    BY <2>1 DEF On, Typed
  <2>2. CASE \E h \in Hook : Dispose(h)
    BY <2>2 DEF Dispose, Typed
  <2>3. CASE \E c \in Call, mode \in Modes : Dispatch(c, mode)
    BY <2>3, BeginsTyped
  <2>4. CASE \E c \in Call : Proceed(c)
    BY <2>4, ProceedBecomes, BecomesTyped
  <2>5. CASE UNCHANGED vars
    BY <2>5 DEF vars, Typed
  <2> QED
    BY <2>1, <2>2, <2>3, <2>4, <2>5 DEF Next
<1>2. Registered \subseteq Registered'
  BY HooksAge
<1>3. Dispatches(Registered) \subseteq Dispatches(Registered')
  <2>1. \A q \in Seq(Registered) : q \in Seq(Registered')
    BY <1>2, SeqMonotonic
  <2> QED
    BY <2>1 DEF Dispatches
<1>4. call' \in [Call -> Dispatches(Registered')]
  BY <1>1, <1>3
<1> QED
  BY <1>4, HooksAge, ListenersTyped DEF Typed, Dispatches

(***************************************************************************)
(* Who is called, and what that comes to                                   *)
(***************************************************************************)
\* Who is passed over is not selected, or gone.
PassedOver(c) ==
  \A j \in DOMAIN call[c].said :
    /\ call[c].said[j] = "unheard" => call[c].snap[j] \notin Heard[c]
    /\ call[c].said[j] = "skipped" => hook[call[c].snap[j]] = "disposed"

\* While a dispatch goes on nothing has decided it.  Those who run come before
\* those to be called; but for parallel() there is one of them.
InTurn(c) ==
  call[c].result = "none" =>
    /\ \A j \in DOMAIN call[c].said : ~Decides(c, j)
    /\ \A i, j \in DOMAIN call[c].said :
         call[c].said[i] = "up" =>
           /\ call[c].said[j] = "todo" => i < j
           /\ call[c].said[j] = "up" /\ call[c].mode # "parallel" => i = j

\* Whoever is still to be called comes after what decided the dispatch.
Concluded(c) ==
  call[c].result # "none" =>
    /\ \A j \in DOMAIN call[c].said :
         /\ call[c].said[j] # "up"
         /\ call[c].said[j] = "todo" => \E i \in 1..(j - 1) : Decides(c, i)
    /\ call[c].result = "error" <=>
         \E j \in DOMAIN call[c].said : call[c].said[j] = "error"
    /\ call[c].result = "value" <=>
         \E j \in DOMAIN call[c].said :
           call[c].said[j] = "value" /\ call[c].mode \in First

Told(c) ==
  call[c].mode \notin Wrap =>
    /\ DOMAIN call[c].said = DOMAIN call[c].snap
    /\ PassedOver(c) /\ InTurn(c) /\ Concluded(c)

\* Nothing is taken back of what a dispatch was told while others go on.
LEMMA StaysTold ==
  ASSUME Typed, [Next]_vars, NEW c \in Call, Told(c), call'[c] = call[c]
  PROVE  Told(c)'
<1>1. ASSUME NEW j \in DOMAIN call[c].snap, hook[call[c].snap[j]] = "disposed"
      PROVE  hook'[call[c].snap[j]] = "disposed"
  BY <1>1, HooksAge DEF Typed, Dispatches, Registered
<1> QED
  BY <1>1 DEF Told, PassedOver, InTurn, Concluded, Decides

\* A new dispatch has called nobody.
LEMMA BeginsTold ==
  ASSUME Typed, NEW c \in Call, NEW mode \in Modes, Dispatch(c, mode)
  PROVE  Told(c)'
<1>1. call'[c] = Callbacks(c, mode) /\ listeners \in Seq(Registered)
  BY BeginsTyped DEF Typed
<1> QED
  BY <1>1 DEF Callbacks, Told, PassedOver, InTurn, Concluded, Decides, First

\* The next listener is called, or is gone.
LEMMA InvokeTold ==
  ASSUME Typed, [Next]_vars, NEW c \in Call, Told(c), NEW j \in DOMAIN call[c].said,
         Invoke(c, j)
  PROVE  Told(c)'
<1> DEFINE m == call[c]
           h == m.snap[j]
<1>1. PICK what \in {"up", "skipped"} :
        Say(c, j, what) /\ (what = "skipped" => hook[h] # "active" /\ hook' = hook)
  BY DEF Invoke, Enter, Alive
<1>2. m.mode \notin Wrap /\ m.result = "none" /\ IsNext(c, j)
      /\ (m.mode # "parallel" => Up(c) = {})
  BY DEF Invoke, Turn, Pending
<1>3. /\ call'[c].mode = m.mode /\ call'[c].snap = m.snap /\ call'[c].result = "none"
      /\ DOMAIN call'[c].said = DOMAIN m.said
      /\ \A k \in DOMAIN m.said :
           call'[c].said[k] = IF k = j THEN what ELSE m.said[k]
  <2>1. what \in Said /\ m.result \in Results
    BY <1>1 DEF Said, Typed, Dispatches
  <2> QED
    BY <1>1, <1>2, <2>1, SayBecomes, WrittenTyped, BecomesTyped
<1>4. DOMAIN m.said = DOMAIN m.snap /\ DOMAIN m.said \subseteq Nat
  BY <1>2 DEF Told, Typed, Dispatches
<1>5. \A k \in DOMAIN m.snap : m.snap[k] \in Hook /\ hook[m.snap[k]] # "new"
  BY DEF Typed, Dispatches, Registered
<1>6. PassedOver(c)'
  <2>1. what = "skipped" => hook'[h] = "disposed"
    BY <1>1, <1>4, <1>5 DEF Typed
  <2> QED
    BY <1>1, <1>2, <1>3, <1>4, <1>5, <2>1, HooksAge DEF Told, PassedOver
<1>7. InTurn(c)'
  <2>1. \A k \in DOMAIN m.said : k # j /\ m.said[k] = "todo" => j < k
    BY <1>2, <1>4 DEF IsNext, Todo
  <2>2. m.mode # "parallel" => \A k \in DOMAIN m.said : m.said[k] # "up"
    BY <1>2 DEF Up
  <2>3. m.said[j] = "todo"
    BY <1>2 DEF IsNext, Todo
  <2> QED
    BY <1>1, <1>2, <1>3, <1>4, <2>1, <2>2, <2>3 DEF Told, InTurn, Decides
<1> QED
  BY <1>2, <1>3, <1>4, <1>6, <1>7 DEF Told, Concluded

\* A listener returns: the dispatch goes on, or is decided by it.
LEMMA AnswerTold ==
  ASSUME Typed, [Next]_vars, NEW c \in Call, Told(c), NEW j \in DOMAIN call[c].said,
         NEW what \in Said, Answer(c, j, what)
  PROVE  Told(c)'
<1> DEFINE m == call[c]
<1>1. /\ m.mode \notin Wrap /\ m.result = "none" /\ m.said[j] = "up"
      /\ what \in {"nothing", "value", "error"} /\ hook' = hook
  BY DEF Answer, Turn, Pending, Up
<1>2. m.said \in Seq(Said) /\ DOMAIN m.said = DOMAIN m.snap
      /\ DOMAIN m.said \subseteq Nat \ {0}
  BY <1>1 DEF Told, Typed, Dispatches
<1>3. Becomes(c, Written(c, j, what),
              IF Ends(m.mode, what) THEN what ELSE "none")
  <2>1. j # 0
    BY <1>2
  <2> QED
    BY <1>1, <2>1, SayBecomes, EndBecomes DEF Answer
<1>4. /\ call'[c].mode = m.mode /\ call'[c].snap = m.snap
      /\ call'[c].result = IF Ends(m.mode, what) THEN what ELSE "none"
      /\ DOMAIN call'[c].said = DOMAIN m.said
      /\ \A k \in DOMAIN m.said :
           call'[c].said[k] = IF k = j THEN what ELSE m.said[k]
  <2>1. (IF Ends(m.mode, what) THEN what ELSE "none") \in Results
    BY <1>1 DEF Results
  <2> QED
    BY <1>3, <2>1, WrittenTyped, BecomesTyped
<1>5. PassedOver(c)'
  BY <1>1, <1>2, <1>4 DEF Told, PassedOver
<1>6. CASE ~Ends(m.mode, what)
  <2>1. InTurn(c)'
    BY <1>1, <1>2, <1>4, <1>6 DEF Told, InTurn, Decides, Ends
  <2> QED
    BY <1>1, <1>2, <1>4, <1>5, <1>6, <2>1 DEF Told, Concluded
<1>7. CASE Ends(m.mode, what)
  <2>1. m.mode # "parallel"
    BY <1>7 DEF Ends, First
  <2>2. Decides(c, j)'
    BY <1>4, <1>7, <2>1 DEF Decides, Ends
  <2>3. \A k \in DOMAIN m.said :
          k # j => call'[c].said[k] = m.said[k] /\ m.said[k] # "up"
                   /\ (m.said[k] = "todo" => j < k) /\ ~Decides(c, k)
    BY <1>1, <1>4, <2>1 DEF Told, InTurn
  <2>4. Concluded(c)'
    <3>1. call'[c].said[j] = what /\ call'[c].result = what
      BY <1>4, <1>7
    <3>2. ASSUME NEW k \in DOMAIN m.said
          PROVE  /\ call'[c].said[k] # "up"
                 /\ call'[c].said[k] = "todo" => j \in 1..(k - 1)
      BY <1>1, <1>2, <2>3, <3>1
    <3>3. what = "error" <=>
            \E k \in DOMAIN m.said : call'[c].said[k] = "error"
      BY <1>1, <2>1, <2>3, <3>1, <1>7 DEF Decides, Ends
    <3>4. what = "value" <=>
            \E k \in DOMAIN m.said :
              call'[c].said[k] = "value" /\ m.mode \in First
      BY <1>1, <2>1, <2>3, <3>1, <1>7 DEF Decides, Ends
    <3> QED
      BY <1>4, <2>2, <3>1, <3>2, <3>3, <3>4 DEF Concluded
  <2> QED
    BY <1>1, <1>2, <1>4, <1>5, <1>7, <2>4 DEF Told, InTurn
<1> QED
  BY <1>6, <1>7

\* Everybody has been called or passed over.
LEMMA ExhaustedTold ==
  ASSUME Typed, [Next]_vars, NEW c \in Call, Told(c), Exhausted(c)
  PROVE  Told(c)'
<1> DEFINE m == call[c]
<1>1. /\ m.mode \notin Wrap /\ m.result = "none" /\ hook' = hook
      /\ \A j \in DOMAIN m.said : m.said[j] \notin {"todo", "up"}
  BY DEF Exhausted, Turn, Pending, Todo, Up
<1>2. call'[c].mode = m.mode /\ call'[c].snap = m.snap
      /\ call'[c].said = m.said /\ call'[c].result = Outcome(c)
  <2>1. Outcome(c) \in Results /\ m.said \in Seq(Said)
    BY DEF Outcome, Results, Typed, Dispatches
  <2>2. Becomes(c, m.said, Outcome(c))
    BY EndBecomes DEF Exhausted
  <2> QED
    BY <2>1, <2>2, BecomesTyped
<1> QED
  BY <1>1, <1>2 DEF Told, PassedOver, InTurn, Concluded, Decides, Outcome

ToldInv == Typed /\ \A c \in Call : Told(c)

LEMMA ToldNext == ToldInv /\ [Next]_vars => ToldInv'
<1> SUFFICES ASSUME ToldInv, [Next]_vars, NEW c \in Call PROVE Told(c)'
  BY TypedInv DEF ToldInv
<1>1. Typed /\ Told(c)
  BY DEF ToldInv
<1>2. CASE call'[c] = call[c]
  BY <1>1, <1>2, StaysTold
<1>3. CASE \E mode \in Modes : Dispatch(c, mode)
  BY <1>1, <1>3, BeginsTold
<1>4. ASSUME Proceed(c)
      PROVE  Told(c)'
  <2>1. CASE call[c].mode \in Wrap
    BY <1>1, <1>4, <2>1, ProceedBecomes, BecomesTyped DEF Told
  <2>2. CASE call[c].mode \notin Wrap
    BY <1>1, <1>4, <2>2, InvokeTold, AnswerTold, ExhaustedTold
       DEF Proceed, NextStep, ReturnStep, RaiseStep
  <2> QED
    BY <2>1, <2>2
<1>5. ASSUME NEW d \in Call \ {c}, Proceed(d) \/ \E mode \in Modes : Dispatch(d, mode)
      PROVE  call'[c] = call[c]
  BY <1>1, <1>5, BeginsTyped, ProceedBecomes, BecomesTyped
<1>6. CASE \/ \E h \in Hook, prepend \in BOOLEAN : On(h, prepend)
           \/ \E h \in Hook : Dispose(h)
           \/ UNCHANGED vars
  BY <1>2, <1>6 DEF On, Dispose, vars
<1> QED
  BY <1>2, <1>3, <1>4, <1>5, <1>6 DEF Next

\* A dispatch that has ended asked everybody who was there when it began and
\* still is, until an answer or an error ended it, left nobody running, and
\* tells of the errors and answers there were (emit, bail, serial, parallel).
THEOREM DispatchIsCompleteHolds == Spec => []DispatchIsComplete
<1>1. Init => ToldInv
  <2> SUFFICES ASSUME Init PROVE ToldInv
    OBVIOUS
  <2>1. <<>> \in Seq(Registered) /\ <<>> \in Seq(Said)
    OBVIOUS
  <2> QED
    BY <2>1 DEF Init, ToldInv, Typed, Dispatches, Results, Idle, Told,
                PassedOver, InTurn, Concluded
<1>2. ToldInv => DispatchIsComplete
  <2> SUFFICES ASSUME ToldInv, NEW c \in Call,
                      call[c].mode \notin Wrap, call[c].result # "none"
               PROVE  Heeded(c) /\ Concluded(c)
    BY DEF DispatchIsComplete, Concluded
  <2>1. PassedOver(c) /\ Concluded(c) /\ DOMAIN call[c].said = DOMAIN call[c].snap
    BY DEF ToldInv, Told
  <2>2. \A j \in DOMAIN call[c].said : call[c].said[j] \in Said
    BY DEF ToldInv, Typed, Dispatches
  <2> QED
    BY <2>1, <2>2 DEF Heeded, PassedOver, Concluded, Said
<1> QED
  BY <1>1, <1>2, ToldNext, PTL DEF Spec
=============================================================================
