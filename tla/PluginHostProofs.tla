--------------------------- MODULE PluginHostProofs ---------------------------
(***************************************************************************)
(* The static host is used once, releases everything before anybody        *)
(* returns, each plugin once, and keeps what a plugin depends on for as    *)
(* long as the plugin: for every set of declarations and any number of     *)
(* tasks.                                                                  *)
(*                                                                         *)
(* The invariant relates the state of the host, the clean-up task and      *)
(* where the callers are, and says which contexts are still open.  That a  *)
(* plan is an order, and is refused only when there is none, is proved     *)
(* from the rounds of the TopologicalSorter: the least round, or the first *)
(* place of an order, that refuted a claim would not be the least.         *)
(***************************************************************************)
EXTENDS PluginHost, FiniteSetTheorems, WellFoundedInduction, TLAPS

Starting == {t \in Task : pc[t] = "starting"}

\* Callers and the state of the host.
Places ==
  /\ pc \in [Task -> {"out", "starting", "waiting", "returned"}]
  /\ state \in State
  /\ cleanup \in [phase : {"none", "running", "done"},
                  final : {"NEW", "CLOSED", "FAILED"}, left : Nat]
  /\ \A t, u \in Starting : t = u
  /\ Starting # {} => state = "STARTING" /\ cleanup.phase = "none"
  /\ state \in {"NEW", "RUNNING"} => cleanup.phase = "none"
  /\ state \in {"CLOSED", "FAILED"} => cleanup.phase # "running"
  /\ state = "CLOSING" => cleanup.phase = "running"
  /\ cleanup.phase = "done" => state \in {"CLOSED", "FAILED"}
  /\ cleanup.phase = "running" => cleanup.final \in {"CLOSED", "FAILED"}
  /\ \A t \in Task : pc[t] = "waiting" => cleanup.phase # "none"
  /\ \A t \in Task : pc[t] = "returned" => state \in {"CLOSED", "FAILED"}

\* The contexts that are not released are the first of them.
Planned == {Plan(decl)[n] : n \in 1..Len(decl)}
First(n) == {contexts[k] : k \in 1..n}

Contexts ==
  /\ Len(decl) \in Nat
  /\ contexts \in Seq(Planned)
  /\ state = "NEW" => contexts = <<>>
  /\ state \in {"CLOSED", "FAILED"} => open = {} /\ services = {}
  /\ cleanup.phase = "none" => open = First(Len(contexts))
  /\ cleanup.phase = "running" =>
       cleanup.left <= Len(contexts) /\ open \subseteq First(cleanup.left)
  /\ services \subseteq First(Len(contexts))
  /\ current # NoPlugin =>
       /\ state = "STARTING" /\ cleanup.phase = "none"
       /\ current \in First(Len(contexts))

IInv == Places /\ Contexts

\* Contexts follow the plan, and what they depend on is there.
Users ==
  /\ decl \in Declarations
  /\ Starting # {} \/ contexts # <<>> => ~Refused(decl)
  /\ Len(contexts) <= Len(decl)
  /\ \A k \in 1..Len(contexts) : contexts[k] = Plan(decl)[k]
  /\ Starting # {} => First(Len(contexts)) \subseteq services \cup {current}
  /\ ProvidersOutliveUsers

LEMMA InitHolds == Init => IInv
<1> SUFFICES ASSUME Init PROVE IInv
  OBVIOUS
<1>1. Len(decl) \in Nat
  BY DeclarationsAssumption DEF Init
<1>2. Places
  BY DEF Init, Places, State, Starting
<1>3. Contexts
  BY <1>1 DEF Init, Contexts, First
<1> QED
  BY <1>2, <1>3 DEF IInv

LEMMA StartKeeps == ASSUME IInv, NEW t \in Task, Start(t) PROVE IInv'
<1>1. /\ pc[t] = "out" /\ state = "NEW" /\ state' = "STARTING"
      /\ UNCHANGED <<decl, contexts, services, open>>
  BY DEF Start, fixed
<1>2. /\ Starting = {} /\ cleanup.phase = "none"
      /\ contexts = <<>> /\ Len(contexts) = 0
  BY <1>1 DEF IInv, Places, Contexts
<1>3. CASE At(t, "starting") /\ UNCHANGED <<cleanup, current>>
  <2>1. Places'
    BY <1>1, <1>2, <1>3 DEF IInv, Places, At, Starting, State
  <2>2. Contexts'
    BY <1>1, <1>2, <1>3 DEF IInv, Contexts, First, Planned
  <2> QED
    BY <2>1, <2>2 DEF IInv
<1>4. CASE Fail(t)
  <2>1. /\ cleanup' = [phase |-> "running", final |-> "FAILED", left |-> 0]
        /\ pc' = [pc EXCEPT ![t] = "waiting"] /\ current' = NoPlugin
    BY <1>2, <1>4 DEF Fail, BeginCleanup, CleanupTask, At
  <2>2. Places'
    BY <1>1, <1>2, <2>1 DEF IInv, Places, Starting, State
  <2>3. Contexts'
    BY <1>1, <1>2, <2>1 DEF IInv, Contexts, First, Planned
  <2> QED
    BY <2>2, <2>3 DEF IInv
<1> QED
  BY <1>3, <1>4 DEF Start

LEMMA ActivateKeeps == ASSUME IInv, NEW t \in Task, Activate(t) PROVE IInv'
<1> DEFINE i == Plan(decl)[Len(contexts) + 1]
<1>1. /\ pc[t] = "starting" /\ current = NoPlugin /\ Len(contexts) < Len(decl)
      /\ contexts' = Append(contexts, i) /\ current' = i /\ open' = open \cup {i}
      /\ UNCHANGED <<decl, state, services, cleanup, pc>>
  BY DEF Activate, fixed
<1>2. state = "STARTING" /\ cleanup.phase = "none"
  BY <1>1 DEF IInv, Places, Starting
<1>3. Len(contexts) \in Nat /\ Len(decl) \in Nat /\ contexts \in Seq(Planned)
  BY DEF IInv, Contexts
<1>4. i \in Planned
  BY <1>1, <1>3 DEF Planned
<1>5. /\ contexts' \in Seq(Planned) /\ Len(contexts') = Len(contexts) + 1
      /\ contexts'[Len(contexts) + 1] = i
      /\ \A k \in 1..Len(contexts) : contexts'[k] = contexts[k]
  <2> HIDE DEF i
  <2> QED
    BY <1>1, <1>3, <1>4
<1>6. {contexts'[k] : k \in 1..Len(contexts')} = First(Len(contexts)) \cup {i}
  <2> HIDE DEF i
  <2> QED
    BY <1>3, <1>5 DEF First
<1>7. Places'
  BY <1>1 DEF IInv, Places, Starting
<1>8. Contexts'
  <2> HIDE DEF i
  <2> QED
    BY <1>1, <1>2, <1>5, <1>6 DEF IInv, Contexts, First, Planned
<1> QED
  BY <1>7, <1>8 DEF IInv

LEMMA PublishKeeps == ASSUME IInv, NEW t \in Task, Publish(t) PROVE IInv'
<1>1. /\ pc[t] = "starting" /\ current # NoPlugin
      /\ services' = services \cup {current} /\ current' = NoPlugin
      /\ UNCHANGED <<decl, state, contexts, open, cleanup, pc>>
  BY DEF Publish, fixed
<1>2. state = "STARTING" /\ cleanup.phase = "none"
  BY <1>1 DEF IInv, Places, Starting
<1>3. Places'
  BY <1>1 DEF IInv, Places, Starting
<1>4. Contexts'
  BY <1>1, <1>2 DEF IInv, Contexts, First, Planned
<1> QED
  BY <1>3, <1>4 DEF IInv

LEMMA ActivationFailsKeeps ==
  ASSUME IInv, NEW t \in Task, ActivationFails(t) PROVE IInv'
<1>1. /\ pc[t] = "starting" /\ current' = NoPlugin
      /\ pc' = [pc EXCEPT ![t] = "waiting"]
      /\ UNCHANGED <<decl, state, contexts, services, open>>
  BY DEF ActivationFails, Fail, At, fixed
<1>2. state = "STARTING" /\ cleanup.phase = "none"
  BY <1>1 DEF IInv, Places, Starting
<1>3. cleanup' = [phase |-> "running", final |-> "FAILED", left |-> Len(contexts)]
  BY <1>2 DEF ActivationFails, Fail, BeginCleanup, CleanupTask
<1>4. Len(contexts) \in Nat
  BY DEF IInv, Contexts
<1>5. Places'
  BY <1>1, <1>2, <1>3, <1>4 DEF IInv, Places, Starting
<1>6. Contexts'
  BY <1>1, <1>2, <1>3, <1>4 DEF IInv, Contexts, First, Planned
<1> QED
  BY <1>5, <1>6 DEF IInv

LEMMA StartedKeeps == ASSUME IInv, NEW t \in Task, Started(t) PROVE IInv'
<1>1. /\ pc[t] = "starting" /\ state' = "RUNNING" /\ current = NoPlugin
      /\ pc' = [pc EXCEPT ![t] = "out"]
      /\ UNCHANGED <<decl, contexts, current, services, open, cleanup>>
  BY DEF Started, AllUp, At, fixed
<1>2. state = "STARTING" /\ cleanup.phase = "none"
  BY <1>1 DEF IInv, Places, Starting
<1>3. Places'
  BY <1>1, <1>2 DEF IInv, Places, Starting, State
<1>4. Contexts'
  BY <1>1, <1>2 DEF IInv, Contexts, First, Planned
<1> QED
  BY <1>3, <1>4 DEF IInv

LEMMA CloseKeeps ==
  ASSUME IInv, NEW t \in Task, Close(t) \/ CloseNew(t) \/ CloseEnded(t)
  PROVE  IInv'
<1>1. UNCHANGED <<decl, contexts, current, services, open>>
  BY DEF Close, CloseNew, CloseEnded, fixed
<1>2. Len(contexts) \in Nat
  BY DEF IInv, Contexts
<1>3. CASE Close(t)
  <2>1. /\ state \in {"RUNNING", "CLOSING"} /\ state' = "CLOSING" /\ pc[t] = "out"
        /\ pc' = [pc EXCEPT ![t] = "waiting"]
        /\ cleanup' = IF cleanup.phase = "none"
                        THEN [phase |-> "running", final |-> "CLOSED",
                              left |-> Len(contexts)]
                        ELSE cleanup
    BY <1>3 DEF Close, Closable, At, BeginCleanup, CleanupTask
  <2>2. Places'
    BY <1>2, <2>1 DEF IInv, Places, Starting, State
  <2>3. Contexts'
    BY <1>1, <1>2, <2>1 DEF IInv, Places, Contexts, First, Planned
  <2> QED
    BY <2>2, <2>3 DEF IInv
<1>4. CASE CloseNew(t)
  <2>1. /\ state = "NEW" /\ state' = "CLOSED" /\ cleanup' = cleanup
        /\ pc' = [pc EXCEPT ![t] = "returned"] /\ pc[t] = "out"
    BY <1>4 DEF CloseNew, At
  <2>2. contexts = <<>> /\ Len(contexts) = 0 /\ cleanup.phase = "none"
    BY <2>1 DEF IInv, Places, Contexts
  <2>3. Places'
    BY <2>1, <2>2 DEF IInv, Places, Starting, State
  <2>4. Contexts'
    BY <1>1, <2>1, <2>2 DEF IInv, Contexts, First, Planned
  <2> QED
    BY <2>3, <2>4 DEF IInv
<1>5. CASE CloseEnded(t)
  <2>1. /\ state \in {"CLOSED", "FAILED"} /\ state' = state /\ cleanup' = cleanup
        /\ pc' = [pc EXCEPT ![t] = "returned"] /\ pc[t] = "out"
    BY <1>5 DEF CloseEnded, At
  <2>2. Places'
    BY <2>1 DEF IInv, Places, Starting, State
  <2>3. Contexts'
    BY <1>1, <2>1 DEF IInv, Contexts, First, Planned
  <2> QED
    BY <2>2, <2>3 DEF IInv
<1> QED
  BY <1>3, <1>4, <1>5

LEMMA CleanupKeeps == ASSUME IInv, Cleanup PROVE IInv'
<1>1. CASE Release
  <2>1. /\ cleanup.phase = "running" /\ cleanup.left > 0
        /\ open' = open \ {contexts[cleanup.left]}
        /\ services' = services \ {contexts[cleanup.left]}
        /\ cleanup' = [cleanup EXCEPT !.left = @ - 1]
        /\ UNCHANGED <<decl, state, contexts, current, pc>>
    BY <1>1 DEF Release, Youngest, fixed
  <2>2. /\ cleanup.left \in Nat /\ cleanup.left <= Len(contexts)
        /\ open \subseteq First(cleanup.left) /\ Len(contexts) \in Nat
    BY <2>1 DEF IInv, Places, Contexts
  <2>3. /\ cleanup'.phase = cleanup.phase /\ cleanup'.final = cleanup.final
        /\ cleanup'.left = cleanup.left - 1
        /\ cleanup' \in [phase : {"none", "running", "done"},
                         final : {"NEW", "CLOSED", "FAILED"}, left : Nat]
    BY <2>1, <2>2 DEF IInv, Places
  <2>4. open' \subseteq First(cleanup.left - 1)
    BY <2>1, <2>2 DEF First
  <2>5. Places'
    BY <2>1, <2>3 DEF IInv, Places, Starting
  <2>6. Contexts'
    BY <2>1, <2>2, <2>3, <2>4 DEF IInv, Places, Contexts, First, Planned
  <2> QED
    BY <2>5, <2>6 DEF IInv
<1>2. CASE Released
  <2>1. /\ cleanup.phase = "running" /\ cleanup.left = 0
        /\ cleanup' = [cleanup EXCEPT !.phase = "done"]
        /\ contexts' = <<>> /\ services' = {} /\ state' = cleanup.final
        /\ UNCHANGED <<decl, current, open, pc>>
    BY <1>2 DEF Released, fixed
  <2>2. cleanup.final \in {"CLOSED", "FAILED"} /\ open = {}
    BY <2>1 DEF IInv, Places, Contexts, First
  <2>3. Places'
    BY <2>1, <2>2 DEF IInv, Places, Starting, State
  <2>4. Contexts'
    BY <2>1, <2>2 DEF IInv, Places, Contexts, First, Planned
  <2> QED
    BY <2>3, <2>4 DEF IInv
<1> QED
  BY <1>1, <1>2 DEF Cleanup

LEMMA NextKeeps == IInv /\ [Next]_vars => IInv'
<1> SUFFICES ASSUME IInv, [Next]_vars PROVE IInv'
  OBVIOUS
<1>1. CASE UNCHANGED vars
  BY <1>1 DEF vars, IInv, Places, Starting, Contexts, First, Planned
<1>2. ASSUME NEW t \in Task, Cancel(t) \/ Waited(t) PROVE IInv'
  <2>1. UNCHANGED <<decl, state, contexts, current, services, open, cleanup>>
    BY <1>2 DEF Cancel, Waited, fixed
  <2>2. pc' = pc \/ (pc[t] = "waiting" /\ pc' = [pc EXCEPT ![t] = "returned"]
                       /\ cleanup.phase = "done")
    BY <1>2 DEF Cancel, Waited, At, MayLeave
  <2>3. Places'
    BY <2>1, <2>2 DEF IInv, Places, Starting
  <2>4. Contexts'
    BY <2>1 DEF IInv, Contexts, First, Planned
  <2> QED
    BY <2>3, <2>4 DEF IInv
<1>3. ASSUME NEW t \in Task, Call(t) PROVE IInv'
  BY <1>2, <1>3, StartKeeps, ActivateKeeps, PublishKeeps, ActivationFailsKeeps,
     StartedKeeps, CloseKeeps DEF Call
<1> QED
  BY <1>1, <1>2, <1>3, CleanupKeeps DEF Next

(***************************************************************************)
(* Theorems                                                                *)
(***************************************************************************)
\* The inductive invariant of start(), close() and their one clean-up.
THEOREM HostInvariance == Spec => []IInv
<1>1. Init => IInv
  BY InitHolds
<1>2. IInv /\ [Next]_vars => IInv'
  BY NextKeeps
<1> QED
  BY <1>1, <1>2, PTL DEF Spec

\* Nobody comes back from close() or from a failed start() before everything
\* is released, however many tasks wait and are cancelled.
THEOREM ReturnedMeansReleasedHolds == Spec => []ReturnedMeansReleased
<1>1. IInv => ReturnedMeansReleased
  BY DEF IInv, Places, Contexts, ReturnedMeansReleased
<1> QED
  BY <1>1, HostInvariance, PTL

(***************************************************************************)
(* The plan                                                                *)
(***************************************************************************)
\* Every set of numbers has a least one: a claim about every round is proved
\* by looking at the first round that would refute it.
LEMMA LeastNat ==
  ASSUME NEW S, S \subseteq Nat, S # {}
  PROVE  \E n \in S : \A m \in S : n <= m
<1>1. IsWellFoundedOn(OpToRel(<, Nat), Nat)
  BY NatLessThanWellFounded, Zenon
<1>2. PICK n \in S : \A m \in S : <<m, n>> \notin OpToRel(<, Nat)
  BY <1>1, WFMin, Zenon
<1>3. \A m \in S : ~(m < n)
  BY <1>2, Zenon DEF OpToRel
<1> QED
  BY <1>3

\* More may be handed out when more is done.
LEMMA ReadyGrows ==
  ASSUME NEW d, NEW S, NEW T, S \subseteq T
  PROVE  Ready(d, S) \subseteq Ready(d, T)
BY DEF Ready

\* The rounds are what their recursive definition says: there is a function
\* that agrees with it up to any round.
Rounds(d, f, k) ==
  f = [n \in 0..k |-> IF n = 0 THEN {} ELSE Ready(d, f[n - 1])]

LEMMA RoundsExist ==
  ASSUME NEW d, NEW k \in Nat
  PROVE  \E f : Rounds(d, f, k)
<1> DEFINE Bad == {n \in Nat : ~\E f : Rounds(d, f, n)}
<1> SUFFICES ASSUME Bad # {} PROVE FALSE
  OBVIOUS
<1>1. PICK n \in Bad : \A m \in Bad : n <= m
  BY LeastNat
<1>2. n # 0
  <2>1. Rounds(d, [m \in 0..0 |-> {}], 0)
    BY DEF Rounds
  <2> QED
    BY <2>1
<1>3. PICK f : Rounds(d, f, n - 1)
  <2>1. n - 1 \in Nat /\ n - 1 \notin Bad
    BY <1>1, <1>2
  <2> QED
    BY <2>1
<1> DEFINE g == [m \in 0..n |-> IF m = n THEN Ready(d, f[n - 1]) ELSE f[m]]
<1>4. ASSUME NEW m \in 0..n
      PROVE  g[m] = IF m = 0 THEN {} ELSE Ready(d, g[m - 1])
  <2>1. CASE m = n
    BY <1>2, <2>1
  <2>2. CASE m # n
    <3>1. m \in 0..(n - 1)
      BY <2>2
    <3>2. f[m] = IF m = 0 THEN {} ELSE Ready(d, f[m - 1])
      BY <1>3, <3>1 DEF Rounds
    <3>3. g[m] = f[m] /\ (m # 0 => g[m - 1] = f[m - 1])
      BY <2>2, <3>1
    <3> QED
      BY <3>2, <3>3
  <2> QED
    BY <2>1, <2>2
<1>5. Rounds(d, g, n)
  <2> HIDE DEF g
  <2>1. g = [m \in 0..n |-> g[m]]
    BY DEF g
  <2> QED
    BY <1>4, <2>1 DEF Rounds
<1> QED
  BY <1>5

LEMMA HandedIs ==
  ASSUME NEW d, Len(d) \in Nat
  PROVE  /\ Handed(d)[0] = {}
         /\ \A n \in 1..Len(d) : Handed(d)[n] = Ready(d, Handed(d)[n - 1])
<1>1. PICK f : Rounds(d, f, Len(d))
  BY RoundsExist
<1>2. f = [n \in 0..Len(d) |-> IF n = 0 THEN {} ELSE Ready(d, f[n - 1])]
  BY <1>1 DEF Rounds
<1>3. Handed(d) = [n \in 0..Len(d) |->
                    IF n = 0 THEN {} ELSE Ready(d, Handed(d)[n - 1])]
  BY <1>2 DEF Handed
<1>4. ASSUME NEW h, h = [n \in 0..Len(d) |-> IF n = 0 THEN {} ELSE Ready(d, h[n - 1])]
      PROVE  h[0] = {} /\ \A n \in 1..Len(d) : h[n] = Ready(d, h[n - 1])
  <2>1. \A n \in 0..Len(d) : h[n] = IF n = 0 THEN {} ELSE Ready(d, h[n - 1])
    BY <1>4, Zenon
  <2> QED
    BY <2>1
<1> QED
  BY <1>3, <1>4

\* Whatever has been handed out stays so.
LEMMA HandedGrows ==
  ASSUME NEW d, Len(d) \in Nat, NEW n \in 1..Len(d)
  PROVE  Handed(d)[n - 1] \subseteq Handed(d)[n]
<1> DEFINE Bad == {m \in 1..Len(d) : ~(Handed(d)[m - 1] \subseteq Handed(d)[m])}
<1> SUFFICES ASSUME Bad # {} PROVE FALSE
  OBVIOUS
<1>1. PICK m \in Bad : \A k \in Bad : m <= k
  <2>1. Bad \subseteq Nat
    OBVIOUS
  <2> QED
    BY <2>1, LeastNat
<1>2. m # 1
  BY HandedIs
<1>3. m - 1 \in 1..Len(d) /\ m - 1 \notin Bad
  BY <1>1, <1>2
<1>4. Handed(d)[m - 1 - 1] \subseteq Handed(d)[m - 1]
  BY <1>3
<1>5. /\ Handed(d)[m - 1] = Ready(d, Handed(d)[m - 1 - 1])
      /\ Handed(d)[m] = Ready(d, Handed(d)[m - 1])
  BY <1>3, HandedIs
<1>6. Handed(d)[m - 1] \subseteq Handed(d)[m]
  BY <1>4, <1>5, ReadyGrows
<1> QED
  BY <1>6

LEMMA HandedStays ==
  ASSUME NEW d, Len(d) \in Nat, NEW m \in 0..Len(d), NEW n \in m..Len(d)
  PROVE  Handed(d)[m] \subseteq Handed(d)[n]
<1> DEFINE Bad == {k \in m..Len(d) : ~(Handed(d)[m] \subseteq Handed(d)[k])}
<1> SUFFICES ASSUME Bad # {} PROVE FALSE
  OBVIOUS
<1>1. PICK k \in Bad : \A j \in Bad : k <= j
  <2>1. Bad \subseteq Nat
    OBVIOUS
  <2> QED
    BY <2>1, LeastNat
<1>2. k # m /\ k \in 1..Len(d)
  OBVIOUS
<1>3. k - 1 \in m..Len(d) /\ k - 1 \notin Bad
  BY <1>1, <1>2
<1>4. Handed(d)[m] \subseteq Handed(d)[k - 1]
  BY <1>3
<1> QED
  BY <1>2, <1>4, HandedGrows

\* What is not on a cycle is handed out in one round and not before.
LEMMA RoundIs ==
  ASSUME NEW d, Len(d) \in Nat, DOMAIN d = 1..Len(d), ~Cyclic(d),
         NEW i \in DOMAIN d
  PROVE  /\ Round(d, i) \in 1..Len(d)
         /\ i \in Handed(d)[Round(d, i)]
         /\ i \notin Handed(d)[Round(d, i) - 1]
<1> DEFINE S == {n \in 0..Len(d) : i \in Handed(d)[n]}
<1>1. Len(d) \in S
  BY DEF Cyclic
<1>2. PICK n \in S : \A m \in S : n <= m
  <2>1. S \subseteq Nat
    OBVIOUS
  <2> QED
    BY <1>1, <2>1, LeastNat
<1>3. n # 0
  BY HandedIs
<1>4. n \in 1..Len(d) /\ n - 1 \in 0..Len(d) /\ n - 1 \notin S
  BY <1>2, <1>3
<1>5. i \in Handed(d)[n] /\ i \notin Handed(d)[n - 1]
  BY <1>2, <1>4
<1> QED
  BY <1>4, <1>5 DEF Round

\* What a plugin depends on is handed out in an earlier round.
LEMMA DependencyRounds ==
  ASSUME NEW d, Len(d) \in Nat, DOMAIN d = 1..Len(d), ~Cyclic(d),
         NEW i \in DOMAIN d, NEW j \in Dependencies(d, i)
  PROVE  j \in DOMAIN d /\ Round(d, j) < Round(d, i)
<1> DEFINE r == Round(d, i)
           q == Round(d, j)
<1>1. j \in DOMAIN d
  BY DEF Dependencies, Owners
<1>2. /\ r \in 1..Len(d) /\ i \in Handed(d)[r]
      /\ q \in 1..Len(d) /\ j \notin Handed(d)[q - 1]
  BY <1>1, RoundIs
<1> HIDE DEF r, q
<1>3. j \in Handed(d)[r - 1]
  <2>1. i \in Ready(d, Handed(d)[r - 1])
    BY <1>2, HandedIs
  <2> QED
    BY <2>1 DEF Ready
<1>4. ASSUME r <= q PROVE FALSE
  <2>1. Handed(d)[r - 1] \subseteq Handed(d)[q - 1]
    BY <1>2, <1>4, HandedStays
  <2> QED
    BY <1>2, <1>3, <2>1
<1>5. q < r
  BY <1>2, <1>4
<1> QED
  BY <1>1, <1>5 DEF r, q

\* Of two plugins the later has all before it that the earlier has, and the
\* earlier, too.
LEMMA BeforeGrows ==
  ASSUME NEW d, Len(d) \in Nat, DOMAIN d = 1..Len(d), ~Cyclic(d),
         NEW i \in DOMAIN d, NEW j \in DOMAIN d, Earlier(d, i, j)
  PROVE  Cardinality(Before(d, i)) < Cardinality(Before(d, j))
<1>1. \A k \in DOMAIN d : Round(d, k) \in Int /\ k \in Int
  BY RoundIs
<1>2. Before(d, i) \subseteq Before(d, j)
  BY <1>1 DEF Before, Earlier
<1>3. i \in Before(d, j) /\ i \notin Before(d, i)
  BY <1>1 DEF Before, Earlier
<1>4. IsFiniteSet(Before(d, j))
  <2>1. IsFiniteSet(1..Len(d))
    BY FS_Interval
  <2> QED
    BY <2>1, FS_Subset DEF Before
<1>5. /\ Cardinality(Before(d, i)) <= Cardinality(Before(d, j))
      /\ Cardinality(Before(d, i)) # Cardinality(Before(d, j))
  BY <1>2, <1>3, <1>4, FS_Subset
<1>6. Cardinality(Before(d, i)) \in Nat /\ Cardinality(Before(d, j)) \in Nat
  BY <1>2, <1>4, FS_Subset, FS_CardinalityType
<1> QED
  BY <1>5, <1>6

\* Each plugin has a place of its own, and each place a plugin.
LEMMA EachHasItsPlace ==
  ASSUME NEW d, Len(d) \in Nat, DOMAIN d = 1..Len(d), ~Cyclic(d)
  PROVE  /\ \A i \in DOMAIN d : Cardinality(Before(d, i)) \in 0..(Len(d) - 1)
         /\ \A i, j \in DOMAIN d :
              Cardinality(Before(d, i)) = Cardinality(Before(d, j)) => i = j
         /\ \A n \in DOMAIN d :
              \E i \in DOMAIN d : Cardinality(Before(d, i)) = n - 1
<1> DEFINE place == [i \in DOMAIN d |-> Cardinality(Before(d, i)) + 1]
<1>1. IsFiniteSet(DOMAIN d) /\ Cardinality(DOMAIN d) = Len(d)
  <2>1. /\ IsFiniteSet(1..Len(d))
        /\ Cardinality(1..Len(d)) = IF 1 > Len(d) THEN 0 ELSE Len(d) - 1 + 1
    BY FS_Interval
  <2>2. Cardinality(1..Len(d)) = Len(d)
    BY <2>1
  <2> QED
    BY <2>1, <2>2
<1>2. \A i \in DOMAIN d : Round(d, i) \in Int /\ i \in Int
  BY RoundIs
<1>3. ASSUME NEW i \in DOMAIN d
      PROVE  Cardinality(Before(d, i)) \in 0..(Len(d) - 1)
  <2>1. Before(d, i) \subseteq DOMAIN d /\ i \notin Before(d, i)
    BY <1>2 DEF Before, Earlier
  <2>2. IsFiniteSet(Before(d, i)) /\ Cardinality(Before(d, i)) <= Len(d)
        /\ Cardinality(Before(d, i)) # Len(d)
    BY <1>1, <2>1, FS_Subset
  <2>3. Cardinality(Before(d, i)) \in Nat
    BY <2>2, FS_CardinalityType
  <2> QED
    BY <2>2, <2>3
<1>4. ASSUME NEW i \in DOMAIN d, NEW j \in DOMAIN d,
             Cardinality(Before(d, i)) = Cardinality(Before(d, j))
      PROVE  i = j
  <2>1. ~Earlier(d, i, j) /\ ~Earlier(d, j, i)
    BY <1>3, <1>4, BeforeGrows
  <2> QED
    BY <1>2, <2>1 DEF Earlier
<1>5. place \in Injection(DOMAIN d, DOMAIN d)
  <2>1. place \in [DOMAIN d -> DOMAIN d]
    BY <1>3
  <2>2. \A i, j \in DOMAIN d : place[i] = place[j] => i = j
    BY <1>3, <1>4
  <2> HIDE DEF place
  <2>3. DOMAIN place = DOMAIN d
    BY <2>1
  <2> QED
    BY <2>1, <2>2, <2>3, Zenon DEF Injection, IsInjective
<1>6. place \in Surjection(DOMAIN d, DOMAIN d)
  BY <1>1, <1>5, FS_Injection
<1>7. ASSUME NEW n \in DOMAIN d
      PROVE  \E i \in DOMAIN d : Cardinality(Before(d, i)) = n - 1
  <2>1. PICK i \in DOMAIN d : place[i] = n
    BY <1>6 DEF Surjection
  <2>2. Cardinality(Before(d, i)) + 1 = n
    BY <2>1
  <2> QED
    BY <1>3, <2>2
<1> QED
  BY <1>3, <1>4, <1>7

LEMMA PlanIs ==
  ASSUME NEW d, Len(d) \in Nat, DOMAIN d = 1..Len(d), ~Cyclic(d)
  PROVE  /\ DOMAIN Plan(d) = DOMAIN d
         /\ \A n \in DOMAIN d : /\ Plan(d)[n] \in DOMAIN d
                                /\ Cardinality(Before(d, Plan(d)[n])) = n - 1
         /\ \A i \in DOMAIN d : \E n \in DOMAIN d : Plan(d)[n] = i
<1>1. DOMAIN Plan(d) = DOMAIN d
  BY DEF Plan
<1>2. ASSUME NEW n \in DOMAIN d
      PROVE  /\ Plan(d)[n] \in DOMAIN d
             /\ Cardinality(Before(d, Plan(d)[n])) = n - 1
  <2>1. Plan(d)[n] = CHOOSE i \in DOMAIN d : Cardinality(Before(d, i)) = n - 1
    BY DEF Plan
  <2>2. \E i \in DOMAIN d : Cardinality(Before(d, i)) = n - 1
    BY EachHasItsPlace
  <2> QED
    BY <2>1, <2>2, Zenon
<1>3. ASSUME NEW i \in DOMAIN d PROVE \E n \in DOMAIN d : Plan(d)[n] = i
  <2> DEFINE n == Cardinality(Before(d, i)) + 1
  <2>1. Cardinality(Before(d, i)) \in 0..(Len(d) - 1)
    BY EachHasItsPlace
  <2>2. n \in DOMAIN d /\ n - 1 = Cardinality(Before(d, i))
    BY <2>1
  <2>3. Plan(d)[n] \in DOMAIN d
        /\ Cardinality(Before(d, Plan(d)[n])) = Cardinality(Before(d, i))
    BY <1>2, <2>2
  <2>4. Plan(d)[n] = i
    BY <2>3, EachHasItsPlace
  <2> QED
    BY <2>2, <2>4
<1> QED
  BY <1>1, <1>2, <1>3

\* Without a cycle the plan is an order of the plugins.
LEMMA PlanIsOrder ==
  ASSUME NEW d, Len(d) \in Nat, DOMAIN d = 1..Len(d), ~Cyclic(d)
  PROVE  IsOrder(d, Plan(d))
<1> DEFINE s == Plan(d)
<1>1. /\ DOMAIN s = DOMAIN d
      /\ \A n \in DOMAIN d : /\ s[n] \in DOMAIN d
                             /\ Cardinality(Before(d, s[n])) = n - 1
      /\ \A i \in DOMAIN d : \E n \in DOMAIN d : s[n] = i
  BY PlanIs
<1> HIDE DEF s
<1>2. ToSet(s) = DOMAIN d
  BY <1>1 DEF ToSet
<1>3. ASSUME NEW m \in DOMAIN s, NEW n \in DOMAIN s,
             s[m] \in Dependencies(d, s[n])
      PROVE  m < n
  <2>1. s[m] \in DOMAIN d /\ s[n] \in DOMAIN d
    BY <1>1
  <2>2. Earlier(d, s[m], s[n])
    BY <1>3, <2>1, DependencyRounds DEF Earlier
  <2>3. Cardinality(Before(d, s[m])) < Cardinality(Before(d, s[n]))
    BY <2>1, <2>2, BeforeGrows
  <2>4. m - 1 < n - 1 /\ m \in Int /\ n \in Int
    BY <1>1, <2>3
  <2> QED
    BY <2>4
<1> QED
  BY <1>1, <1>2, <1>3 DEF IsOrder, s

\* Any order hands out everything, its nth plugin in round n at the latest.
LEMMA OrdersHandOut ==
  ASSUME NEW d, Len(d) \in Nat, DOMAIN d = 1..Len(d), NEW s, IsOrder(d, s)
  PROVE  ~Cyclic(d) /\ ~Selfish(d)
<1>1. DOMAIN s = 1..Len(d) /\ \A i \in DOMAIN d : \E n \in 1..Len(d) : s[n] = i
  BY DEF IsOrder, ToSet
<1>2. \A m, n \in 1..Len(d) : s[m] \in Dependencies(d, s[n]) => m < n
  BY <1>1 DEF IsOrder
<1>3. \A n \in 1..Len(d) : s[n] \in DOMAIN d
  BY <1>1 DEF IsOrder, ToSet
<1> DEFINE Bad == {n \in 1..Len(d) : s[n] \notin Handed(d)[n]}
<1>4. ASSUME Bad # {} PROVE FALSE
  <2>1. PICK n \in Bad : \A m \in Bad : n <= m
    <3>1. Bad \subseteq Nat
      OBVIOUS
    <3> QED
      BY <1>4, <3>1, LeastNat
  <2>2. n \in 1..Len(d) /\ s[n] \notin Handed(d)[n]
    OBVIOUS
  <2>3. ASSUME NEW j \in Dependencies(d, s[n])
        PROVE  j \in Handed(d)[n - 1]
    <3>1. j \in DOMAIN d
      BY DEF Dependencies, Owners
    <3>2. PICK m \in 1..Len(d) : s[m] = j
      BY <1>1, <3>1
    <3>3. m < n
      BY <1>2, <2>2, <3>2
    <3>4. m \notin Bad
      BY <2>1, <3>3
    <3>5. j \in Handed(d)[m]
      BY <3>2, <3>4
    <3>6. m \in 0..Len(d) /\ n - 1 \in m..Len(d)
      BY <2>2, <3>3
    <3>7. Handed(d)[m] \subseteq Handed(d)[n - 1]
      BY <3>6, HandedStays
    <3> QED
      BY <3>5, <3>7
  <2>4. s[n] \in Ready(d, Handed(d)[n - 1])
    BY <1>3, <2>2, <2>3 DEF Ready
  <2> QED
    BY <2>2, <2>4, HandedIs
<1>5. ASSUME NEW i \in DOMAIN d PROVE i \in Handed(d)[Len(d)]
  <2>1. PICK n \in 1..Len(d) : s[n] = i
    BY <1>1
  <2>2. i \in Handed(d)[n]
    BY <1>4, <2>1
  <2> QED
    BY <2>1, <2>2, HandedStays
<1>6. Handed(d)[Len(d)] \subseteq DOMAIN d
  BY HandedIs DEF Ready
<1>7. ~Cyclic(d)
  BY <1>5, <1>6 DEF Cyclic
<1>8. ~Selfish(d)
  BY <1>1, <1>2 DEF Selfish
<1> QED
  BY <1>7, <1>8

\* activation_plan() is right about any declaration.
LEMMA PlanRightFor ==
  ASSUME NEW d, Len(d) \in Nat, DOMAIN d = 1..Len(d)
  PROVE  /\ RefusedRightly(d)
         /\ ~Refused(d) => IsOrder(d, Plan(d))
<1>1. ~Refused(d) => IsOrder(d, Plan(d))
  BY PlanIsOrder DEF Refused
<1>2. ASSUME ~Refused(d) PROVE Orders(d) # {}
  <2>1. Plan(d) \in [DOMAIN d -> DOMAIN d]
    <3>1. \A n \in DOMAIN d : Plan(d)[n] \in DOMAIN d
      BY <1>2, PlanIs DEF Refused
    <3>2. Plan(d) = [n \in DOMAIN d |-> Plan(d)[n]]
      BY DEF Plan
    <3> QED
      BY <3>1, <3>2
  <2> QED
    BY <1>1, <1>2, <2>1 DEF Orders
<1>3. ASSUME Orders(d) # {} PROVE ~Cyclic(d) /\ ~Selfish(d)
  BY <1>3, OrdersHandOut DEF Orders
<1> QED
  BY <1>1, <1>2, <1>3 DEF RefusedRightly, Refused

\* What PlanIsRight says of the declaration at hand is so of every one.
LEMMA PlansAreRight ==
  ASSUME NEW d \in Declarations
  PROVE  /\ RefusedRightly(d)
         /\ ~Refused(d) => IsOrder(d, Plan(d))
<1>1. Len(d) \in Nat /\ DOMAIN d = 1..Len(d)
  BY DeclarationsAssumption
<1> QED
  BY <1>1, PlanRightFor

(***************************************************************************)
(* Providers and users                                                     *)
(***************************************************************************)
\* What a plugin depends on comes before it in the plan.
LEMMA EarlierInPlan ==
  ASSUME decl \in Declarations, ~Refused(decl),
         NEW n \in 1..Len(decl)
  PROVE  /\ Plan(decl)[n] \in DOMAIN decl
         /\ \A j \in Dependencies(decl, Plan(decl)[n]) :
              \E m \in 1..(n - 1) : j = Plan(decl)[m]
<1>1. IsOrder(decl, Plan(decl))
  BY PlansAreRight
<1>2. DOMAIN decl = 1..Len(decl) /\ Len(decl) \in Nat
  BY DeclarationsAssumption
<1>3. DOMAIN Plan(decl) = 1..Len(decl) /\ ToSet(Plan(decl)) = DOMAIN decl
  BY <1>1, <1>2 DEF IsOrder
<1>4. Plan(decl)[n] \in DOMAIN decl
  BY <1>3 DEF ToSet
<1>5. ASSUME NEW j \in Dependencies(decl, Plan(decl)[n])
      PROVE  \E m \in 1..(n - 1) : j = Plan(decl)[m]
  <2>1. j \in DOMAIN decl
    BY DEF Dependencies, Owners
  <2>2. PICK m \in 1..Len(decl) : j = Plan(decl)[m]
    BY <1>3, <2>1 DEF ToSet
  <2>3. m < n
    BY <1>1, <1>3, <2>2 DEF IsOrder
  <2> QED
    BY <1>2, <2>2, <2>3
<1> QED
  BY <1>4, <1>5

LEMMA UsersInit == Init => Users
<1> SUFFICES ASSUME Init PROVE Users
  OBVIOUS
<1>1. decl \in Declarations /\ Len(decl) \in Nat
  BY DeclarationsAssumption DEF Init
<1> QED
  BY <1>1 DEF Init, Users, Starting, First, ProvidersOutliveUsers

LEMMA UsersActivate ==
  ASSUME IInv, Users, NEW t \in Task, Activate(t)
  PROVE  Users'
<1> DEFINE n == Len(contexts) + 1
           i == Plan(decl)[n]
<1>1. /\ pc[t] = "starting" /\ current = NoPlugin /\ Len(contexts) < Len(decl)
      /\ contexts' = Append(contexts, i) /\ current' = i /\ open' = open \cup {i}
      /\ UNCHANGED <<decl, state, services, cleanup, pc>>
  BY DEF Activate, fixed
<1>2. Starting # {} /\ cleanup.phase = "none" /\ ~Refused(decl)
  BY <1>1 DEF IInv, Places, Starting, Users
<1>3. Len(contexts) \in Nat /\ Len(decl) \in Nat /\ contexts \in Seq(Planned)
  BY DEF IInv, Contexts
<1>4. i \in Planned /\ n \in 1..Len(decl)
  BY <1>1, <1>3 DEF Planned
<1>5. i \in DOMAIN decl /\ \A j \in Dependencies(decl, i) : \E m \in 1..(n - 1) : j = Plan(decl)[m]
  BY <1>2, <1>4, EarlierInPlan DEF Users
<1>6. i # NoPlugin
  BY <1>5, NoPluginAssumption DEF Users
<1>7. Dependencies(decl, i) \subseteq First(Len(contexts))
  BY <1>3, <1>5 DEF First, Users
<1>8. First(Len(contexts)) \subseteq open /\ First(Len(contexts)) \cap {NoPlugin} \subseteq services
  <2>1. First(Len(contexts)) = open
    BY <1>2 DEF IInv, Contexts
  <2>2. NoPlugin \notin First(Len(contexts))
    <3>1. ASSUME NEW k \in 1..Len(contexts) PROVE contexts[k] \in DOMAIN decl
      <4>1. k \in 1..Len(decl) /\ contexts[k] = Plan(decl)[k]
        BY <1>1, <1>3 DEF Users
      <4> QED
        BY <1>2, <4>1, EarlierInPlan DEF Users
    <3> QED
      BY <3>1, NoPluginAssumption DEF First, Users
  <2> QED
    BY <2>1, <2>2
<1>9. First(Len(contexts)) \subseteq services
  BY <1>1, <1>2, <1>8 DEF Users
<1>10. /\ Len(contexts') = n /\ contexts'[n] = i
       /\ \A k \in 1..Len(contexts) : contexts'[k] = contexts[k]
       /\ contexts' # <<>>
  <2> HIDE DEF i
  <2> QED
    BY <1>1, <1>3, <1>4
<1>11. {contexts'[k] : k \in 1..Len(contexts')} = First(Len(contexts)) \cup {i}
  <2> HIDE DEF i
  <2> QED
    BY <1>3, <1>10 DEF First
<1>12. ProvidersOutliveUsers'
  <2>1. \A j \in open : Dependencies(decl, j) \subseteq open
    BY DEF Users, ProvidersOutliveUsers
  <2> HIDE DEF i
  <2> QED
    BY <1>1, <1>7, <1>8, <1>9, <2>1 DEF ProvidersOutliveUsers
<1>13. \A k \in 1..n : contexts'[k] = Plan(decl)[k]
  BY <1>3, <1>10 DEF Users
<1> HIDE DEF i
<1> QED
  BY <1>1, <1>2, <1>3, <1>9, <1>10, <1>11, <1>12, <1>13 DEF Users, First

LEMMA UsersCleanup ==
  ASSUME IInv, Users, Cleanup
  PROVE  Users'
<1>1. CASE Release
  <2> DEFINE y == contexts[cleanup.left]
  <2>1. /\ cleanup.phase = "running" /\ cleanup.left > 0
        /\ open' = open \ {y} /\ services' = services \ {y}
        /\ UNCHANGED <<decl, state, contexts, current, pc>>
    BY <1>1 DEF Release, Youngest, fixed
  <2>2. /\ cleanup.left \in Nat /\ cleanup.left <= Len(contexts)
        /\ open \subseteq First(cleanup.left) /\ Len(contexts) \in Nat
        /\ Starting = {} /\ current = NoPlugin
        /\ contexts \in Seq(Planned)
    BY <2>1 DEF IInv, Places, Contexts
  <2>3. ~Refused(decl)
    BY <2>1, <2>2 DEF Users
  <2>4. ASSUME NEW j \in open, y \in Dependencies(decl, j)
        PROVE  FALSE
    <3>1. PICK k \in 1..cleanup.left : j = contexts[k]
      BY <2>2 DEF First
    <3>2. k \in 1..Len(decl) /\ j = Plan(decl)[k]
      BY <2>2, <3>1 DEF Users, IInv, Contexts
    <3>3. cleanup.left \in 1..Len(decl) /\ y = Plan(decl)[cleanup.left]
      BY <2>1, <2>2 DEF Users, IInv, Contexts
    <3>4. IsOrder(decl, Plan(decl)) /\ DOMAIN decl = 1..Len(decl)
      BY <2>3, DeclarationsAssumption, PlansAreRight DEF Users
    <3>5. cleanup.left < k
      BY <2>4, <3>2, <3>3, <3>4 DEF IsOrder
    <3> QED
      BY <2>2, <3>1, <3>5
  <2>5. ProvidersOutliveUsers'
    BY <2>1, <2>2, <2>4 DEF Users, ProvidersOutliveUsers
  <2>6. Starting' = {}
    BY <2>1, <2>2 DEF Starting
  <2> QED
    BY <2>1, <2>5, <2>6 DEF Users
<1>2. CASE Released
  <2>1. /\ cleanup.phase = "running" /\ cleanup.left = 0
        /\ contexts' = <<>>
        /\ UNCHANGED <<decl, current, open, pc>>
    BY <1>2 DEF Released, fixed
  <2>2. open = {} /\ current = NoPlugin /\ Starting = {} /\ Len(decl) \in Nat
    BY <2>1 DEF IInv, Places, Contexts, First
  <2>3. Starting' = {} /\ ProvidersOutliveUsers'
    BY <2>1, <2>2 DEF Starting, ProvidersOutliveUsers
  <2> QED
    BY <2>1, <2>2, <2>3 DEF Users
<1> QED
  BY <1>1, <1>2 DEF Cleanup

LEMMA UsersNext == IInv /\ Users /\ [Next]_vars => Users'
<1> SUFFICES ASSUME IInv, Users, [Next]_vars PROVE Users'
  OBVIOUS
<1>1. CASE UNCHANGED vars
  BY <1>1 DEF vars, Users, Starting, First, ProvidersOutliveUsers
<1>2. ASSUME NEW t \in Task, Start(t) PROVE Users'
  <2>1. /\ current' \in {current, NoPlugin}
        /\ UNCHANGED <<decl, contexts, services, open>>
        /\ Refused(decl) => Starting' \subseteq Starting
    BY <1>2 DEF Start, Fail, At, fixed, IInv, Places, Starting
  <2>2. /\ contexts = <<>> /\ Len(contexts) = 0 /\ Starting = {}
    BY <1>2 DEF Start, IInv, Places, Starting, Contexts
  <2> QED
    BY <2>1, <2>2 DEF Users, First, ProvidersOutliveUsers
<1>3. ASSUME NEW t \in Task, Publish(t) PROVE Users'
  <2>1. /\ services' = services \cup {current} /\ current' = NoPlugin
        /\ UNCHANGED <<decl, contexts, open, pc>>
    BY <1>3 DEF Publish, fixed
  <2> QED
    BY <2>1 DEF Users, Starting, First, ProvidersOutliveUsers
<1>4. ASSUME NEW t \in Task, ActivationFails(t) PROVE Users'
  <2>1. /\ pc[t] = "starting" /\ pc' = [pc EXCEPT ![t] = "waiting"]
        /\ current' = NoPlugin
        /\ UNCHANGED <<decl, contexts, services, open>>
    BY <1>4 DEF ActivationFails, Fail, At, fixed
  <2>2. Starting' = {}
    BY <2>1 DEF IInv, Places, Starting
  <2> QED
    BY <2>1, <2>2 DEF Users, First, ProvidersOutliveUsers
<1>5. ASSUME NEW t \in Task,
             Started(t) \/ Close(t) \/ CloseNew(t) \/ CloseEnded(t) \/ Cancel(t) \/ Waited(t)
      PROVE  Users'
  <2>1. UNCHANGED <<decl, contexts, current, services, open>>
    BY <1>5 DEF Started, Close, CloseNew, CloseEnded, Cancel, Waited, fixed
  <2>2. Starting' \subseteq Starting
    BY <1>5 DEF Started, Close, CloseNew, CloseEnded, Cancel, Waited, At,
       IInv, Places, Starting
  <2> QED
    BY <2>1, <2>2 DEF Users, First, ProvidersOutliveUsers
<1> QED
  BY <1>1, <1>2, <1>3, <1>4, <1>5, UsersActivate, UsersCleanup DEF Next, Call

\* A declaration is refused only when a key has no provider or two, or when no
\* order of its plugins would do; otherwise its plan is an order
\* (activation_plan()).
THEOREM PlanIsRightHolds == Spec => []PlanIsRight
<1> DEFINE Declared == decl \in Declarations
<1>1. Init => Declared
  BY DEF Init
<1>2. Declared /\ [Next]_vars => Declared'
  BY DEF Next, Call, Cleanup, Start, Activate, Publish, ActivationFails,
         Started, Close, CloseNew, CloseEnded, Cancel, Release, Released,
         Waited, fixed, vars
<1>3. Declared => PlanIsRight
  BY PlansAreRight DEF PlanIsRight
<1> QED
  BY <1>1, <1>2, <1>3, PTL DEF Spec

\* Nothing is released before its users are, and no plugin is activated before
\* what it needs is published (start() and close()).
THEOREM ProvidersOutliveUsersHolds == Spec => []ProvidersOutliveUsers
<1>1. Init => Users
  BY UsersInit
<1>2. IInv /\ Users /\ [Next]_vars => Users'
  BY UsersNext
<1>3. Users => ProvidersOutliveUsers
  BY DEF Users
<1> QED
  BY <1>1, <1>2, <1>3, HostInvariance, PTL DEF Spec

(***************************************************************************)
(* Types, and how often a plugin is released                               *)
(***************************************************************************)
\* The contexts left to release have not been released.
Counted ==
  /\ released \in [Plugin -> 0..1]
  /\ cancelled \subseteq Task
  /\ cleanup.left \in 0..Len(decl)
  /\ cleanup.phase = "none" => \A i \in Plugin : released[i] = 0
  /\ cleanup.phase = "running" =>
       \A k \in 1..cleanup.left : released[contexts[k]] = 0

\* No plugin has two contexts.
LEMMA ContextsDiffer ==
  ASSUME IInv, Users
  PROVE  /\ \A k \in 1..Len(contexts) : contexts[k] \in Plugin
         /\ \A k, m \in 1..Len(contexts) : contexts[k] = contexts[m] => k = m
<1>1. Len(contexts) \in Nat /\ Len(decl) \in Nat /\ Plugin = 1..Len(decl)
  BY DeclarationsAssumption DEF Users, IInv, Contexts, Plugin
<1>2. ASSUME contexts # <<>>
      PROVE  \A n \in Plugin :
               /\ Plan(decl)[n] \in Plugin
               /\ Cardinality(Before(decl, Plan(decl)[n])) = n - 1
  <2>1. ~Cyclic(decl)
    BY <1>2 DEF Users, Refused
  <2> QED
    BY <1>1, <2>1, PlanIs DEF Plugin
<1>3. CASE contexts = <<>>
  BY <1>3
<1>4. CASE contexts # <<>>
  <2>1. \A k \in 1..Len(contexts) : k \in Plugin /\ contexts[k] = Plan(decl)[k]
    BY <1>1 DEF Users
  <2>2. \A k \in 1..Len(contexts) :
          contexts[k] \in Plugin /\ Cardinality(Before(decl, contexts[k])) = k - 1
    BY <1>2, <1>4, <2>1
  <2> QED
    BY <1>1, <2>2
<1> QED
  BY <1>3, <1>4

\* A context is released when it is the last that is left.
LEMMA CountedRelease ==
  ASSUME IInv, Users, Counted, Cleanup
  PROVE  Counted'
<1>1. CASE Release
  <2> DEFINE n == cleanup.left
             y == contexts[n]
  <2>1. /\ cleanup.phase = "running" /\ n > 0
        /\ released' = [released EXCEPT ![y] = @ + 1]
        /\ cleanup' = [cleanup EXCEPT !.left = n - 1]
        /\ UNCHANGED <<decl, cancelled, contexts>>
    BY <1>1 DEF Release, Youngest, fixed
  <2>2. n \in Nat /\ Len(decl) \in Nat /\ n <= Len(decl)
        /\ n <= Len(contexts) /\ Len(contexts) \in Nat
    BY <2>1 DEF IInv, Places, Contexts, Counted
  <2>3. y \in Plugin /\ released[y] = 0
    BY <2>1, <2>2, ContextsDiffer DEF Counted
  <2>4. cleanup'.left = n - 1 /\ cleanup'.phase = "running"
    BY <2>1 DEF IInv, Places
  <2> HIDE DEF n, y
  <2>5. released' \in [Plugin -> 0..1]
    BY <2>1, <2>3 DEF Counted
  <2>6. ASSUME NEW k \in 1..(n - 1) PROVE released'[contexts[k]] = 0
    <3>1. contexts[k] # y /\ contexts[k] \in Plugin
      BY <2>1, <2>2, ContextsDiffer DEF y, n
    <3>2. released[contexts[k]] = 0
      BY <2>1, <2>2 DEF Counted, n
    <3> QED
      BY <2>1, <3>1, <3>2 DEF Counted
  <2>7. Plugin' = Plugin /\ n - 1 \in 0..Len(decl)
    BY <2>1, <2>2 DEF Plugin
  <2> QED
    BY <2>1, <2>4, <2>5, <2>6, <2>7 DEF Counted
<1>2. CASE Released
  <2>1. /\ cleanup.left = 0 /\ cleanup' = [cleanup EXCEPT !.phase = "done"]
        /\ UNCHANGED <<decl, cancelled, released>>
    BY <1>2 DEF Released, fixed
  <2>2. cleanup'.phase = "done" /\ cleanup'.left = cleanup.left
    BY <2>1 DEF IInv, Places
  <2> QED
    BY <2>1, <2>2 DEF Counted, Plugin
<1> QED
  BY <1>1, <1>2 DEF Cleanup

\* The clean-up begins with every context left, and none of them released.
LEMMA CountedCall ==
  ASSUME IInv, Users, Counted, NEW t \in Task, Call(t) \/ Waited(t)
  PROVE  Counted'
<1>1. UNCHANGED <<decl, released>> /\ cancelled' \subseteq Task
  BY DEF Call, Start, Activate, Publish, ActivationFails, Started, Close,
         CloseNew, CloseEnded, Cancel, Waited, fixed, Counted
<1>2. CASE cleanup' = cleanup
  <2>1. cleanup.phase = "running" => UNCHANGED contexts
    BY DEF Call, Start, Activate, Publish, ActivationFails, Started, Close,
           CloseNew, CloseEnded, Cancel, Waited, IInv, Places, Starting
  <2> QED
    BY <1>1, <1>2, <2>1 DEF Counted, Plugin
<1>3. CASE cleanup' # cleanup
  <2>1. /\ cleanup.phase = "none" /\ UNCHANGED contexts
        /\ \E final : cleanup' = CleanupTask(final)
    BY <1>3 DEF Call, Start, Activate, Publish, ActivationFails, Started,
       Close, CloseNew, CloseEnded, Cancel, Waited, Fail, BeginCleanup
  <2>2. cleanup'.phase = "running" /\ cleanup'.left = Len(contexts)
    BY <2>1 DEF CleanupTask
  <2>3. \A k \in 1..Len(contexts) : released[contexts[k]] = 0
    BY <2>1, ContextsDiffer DEF Counted
  <2>4. Len(contexts) \in 0..Len(decl)
    BY DEF Users, IInv, Contexts
  <2> QED
    BY <1>1, <2>1, <2>2, <2>3, <2>4 DEF Counted, Plugin
<1> QED
  BY <1>2, <1>3

LEMMA TypesFollow == ASSUME IInv, Users, Counted PROVE TypeOK
<1>1. Len(contexts) \in Nat /\ contexts = [k \in 1..Len(contexts) |-> contexts[k]]
  BY DEF IInv, Contexts
<1>2. First(Len(contexts)) \subseteq Plugin
  BY ContextsDiffer DEF First
<1>3. contexts \in Seq(Plugin)
  BY <1>1, ContextsDiffer
<1>4. open \subseteq Plugin
  <2>1. CASE cleanup.phase = "none"
    BY <1>2, <2>1 DEF IInv, Contexts
  <2>2. CASE cleanup.phase = "running"
    BY <1>1, <1>2, <2>2 DEF IInv, Contexts, First, Places
  <2>3. CASE cleanup.phase = "done"
    BY <2>3 DEF IInv, Contexts, Places
  <2> QED
    BY <2>1, <2>2, <2>3 DEF IInv, Places
<1>5. services \subseteq Plugin /\ current \in Plugin \cup {NoPlugin}
  BY <1>2 DEF IInv, Contexts
<1>6. cleanup \in [phase : {"none", "running", "done"},
                   final : {"NEW", "CLOSED", "FAILED"}, left : 0..Len(decl)]
  BY DEF IInv, Places, Counted
<1> QED
  BY <1>3, <1>4, <1>5, <1>6 DEF TypeOK, IInv, Places, Counted

\* Every step keeps what is left to release apart from what was released.
LEMMA CountedInvariant == Spec => [](IInv /\ Users /\ Counted)
<1>1. Init => Users /\ Counted
  <2>1. Init => Counted
    BY DeclarationsAssumption DEF Init, Counted, Plugin
  <2> QED
    BY <2>1, UsersInit
<1>2. IInv /\ Users /\ Counted /\ [Next]_vars => Users' /\ Counted'
  <2>1. ASSUME Counted, UNCHANGED vars PROVE Counted'
    BY <2>1 DEF Counted, vars, Plugin
  <2> QED
    BY <2>1, UsersNext, CountedRelease, CountedCall DEF Next
<1> QED
  BY <1>1, <1>2, HostInvariance, PTL DEF Spec

\* The variables keep their types.
THEOREM HostTypes == Spec => []TypeOK
<1>1. IInv /\ Users /\ Counted => TypeOK
  BY TypesFollow
<1> QED
  BY <1>1, CountedInvariant, PTL

\* No plugin's resources are released twice, however many tasks close the
\* host while a failed start cleans up (_begin_cleanup(), _cleanup()).
THEOREM ReleasedOnceHolds == Spec => []ReleasedOnce
<1>1. Counted => ReleasedOnce
  BY DEF Counted, ReleasedOnce
<1> QED
  BY <1>1, CountedInvariant, PTL
=============================================================================
