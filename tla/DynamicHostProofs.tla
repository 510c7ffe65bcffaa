-------------------------- MODULE DynamicHostProofs --------------------------
(***************************************************************************)
(* The plugin instances of the dynamic host, for every set of ids,         *)
(* definitions, keys and scopes, whatever fails and whatever is cancelled. *)
(*                                                                         *)
(* The invariant has four parts: the table agrees with the order of        *)
(* activation and with the contexts that hold resources; what a snapshot   *)
(* says of an instance that has been up since then still holds of it and   *)
(* of its providers; what is being stopped is closed under use; and each   *)
(* operation remembers what its caller was told.                           *)
(***************************************************************************)
EXTENDS DynamicHost, SequenceTheorems, TLAPS

Up == InState({"active", "unloading"})

(***************************************************************************)
(* The table                                                               *)
(***************************************************************************)
\* One instance starts at a time, and one is cleaned up at a time: the last
\* in the order of those that are to be stopped.
OneAtATime ==
  /\ \A i \in Loading : run.mode = "loading"
  /\ \A i, j \in Loading : i = j
  /\ \A i \in Unloading :
       /\ run.mode = "stop"
       /\ \E n \in NextOut : order[n] = i

\* A context belongs to one instance, and what is up has one.
OwnContext ==
  \A i \in Mounted :
    /\ inst[i].owned # None => inst[i].owned[1] = i
    /\ i \in Using => inst[i].owned # None

TableInv ==
  /\ OneAtATime
  /\ OwnContext
  /\ OneProvider
  /\ ServicesOutliveUsers
  /\ OrderIsActivation
  /\ NoOrphans
  /\ ConfigAgrees

(***************************************************************************)
(* The snapshots                                                           *)
(***************************************************************************)
In(tab) == {i \in Id : tab[i] # None}

\* In the table tab, p publishes key k to instance i.
Feeds(tab, p, k, i) ==
  /\ tab[p].state = "active"
  /\ k \in Provides[tab[p].def]
  /\ Same(k, tab[p].scope, tab[i].scope)

\* A table between two operations.
AtRest(tab) ==
  /\ \A i \in In(tab) :
       /\ tab[i].state \in {"pending", "active", "failed", "disposed"}
       /\ tab[i].prepared = <<tab[i].def, tab[i].config>>
       /\ tab[i].state = "active" => tab[i].owned # None
  /\ \A i, j \in In(tab) :
       tab[i].state # "disposed" /\ tab[j].state # "disposed" =>
         \A k \in Provides[tab[i].def] \cap Provides[tab[j].def] :
           Same(k, tab[i].scope, tab[j].scope) => i = j
  /\ \A i \in In(tab) : tab[i].state = "active" =>
       \A k \in Requires[tab[i].def] : \E p \in In(tab) :
         Feeds(tab, p, k, i) /\ tab[i].values[k] = tab[p].values[k]

\* Instance i is up in the context it had when the snapshot was taken.
Survives(old, i) ==
  /\ i \in In(old) \cap Using
  /\ inst[i].owned = old[i].owned

\* Since then it has not been replaced, and neither have its providers.
Lasting(old) ==
  \A i \in Id : Survives(old, i) =>
    /\ i \in Up
    /\ old[i].state = "active"
    /\ old[i].def = inst[i].def
    /\ old[i].scope = inst[i].scope
    /\ \A k \in Requires[old[i].def] : \A p \in In(old) :
         Feeds(old, p, k, i) => p \in Up /\ Survives(old, p)

SavedInv ==
  \A n \in 1..Len(saved) :
    /\ AtRest(saved[n])
    /\ Lasting(saved[n])
    /\ In(saved[n]) \subseteq Mounted
    /\ \A m \in 1..n : In(saved[n]) \subseteq In(saved[m])

(***************************************************************************)
(* The operation                                                           *)
(***************************************************************************)
\* Of what is up, the users of what is stopped are stopped too.
ClosedUnderUse == \A p \in run.todo \cap Up, c \in Up : Needs(c, p) => c \in run.todo

ReplaceInv ==
  /\ run.id \in run.todo
  /\ run.change \in Def \X Config
  /\ ~Rival(run.id, run.change[1], inst[run.id].scope)

ServiceInv ==
  /\ run.id \in InState({"active"}) \ run.todo
  /\ run.change \in Provides[inst[run.id].def]
  /\ \A c \in Up : Needs(c, run.id) => c \in run.todo

RestoreInv == \A i \in Mounted \ run.todo : i \notin Changed(saved[1])

StopInv ==
  run.mode = "stop" =>
    /\ run.kind \in Kind \ {"none", "mount"}
    /\ run.todo \subseteq Mounted
    /\ ClosedUnderUse
    /\ run.kind = "unmount" => run.id \in run.todo
    /\ run.kind = "replace" => ReplaceInv
    /\ run.kind = "service" => ServiceInv
    /\ run.kind = "close" => run.todo = Mounted
    /\ run.kind = "restore" => RestoreInv

\* How far the table is back to what it was.
Regained(old) ==
  \A i \in Id :
    IF old[i] = None THEN inst[i] = None
    ELSE /\ i \in Mounted
         /\ inst[i].def = old[i].def
         /\ inst[i].scope = old[i].scope
         /\ inst[i].config = old[i].config
         /\ old[i].state \in {"disposed", "failed"} =>
              inst[i].state = old[i].state
         /\ old[i].state = "active" =>
              /\ inst[i].state \in {"pending", "loading", "active"}
              /\ inst[i].owned = old[i].owned => inst[i].values = old[i].values

RunInv ==
  /\ run.mode = "free" => run.kind = "none"
  /\ run.kind \in {"replace", "restore"} => saved # <<>>
  /\ StopInv
  /\ run.kind = "restore" /\ run.mode \in {"settle", "loading"} /\ Clean =>
       Regained(saved[1])

IInv == TypeOK /\ TableInv /\ SavedInv /\ RunInv

(***************************************************************************)
(* Sets and sequences                                                      *)
(***************************************************************************)
LEMMA InstanceTypes ==
  ASSUME TypeOK, NEW i \in Mounted
  PROVE  /\ i \in Id
         /\ inst[i] \in Instance
         /\ inst[i].state \in State
         /\ inst[i].def \in Def
         /\ inst[i].scope \in Scope
         /\ inst[i].owned \in Token \cup {None}
BY DEF TypeOK, Mounted, Instance

\* What depends on a set of instances is closed under use.
LEMMA DependentsClosed ==
  ASSUME NEW ids, ids \subseteq Mounted
  PROVE  /\ ids \subseteq Dependents(ids)
         /\ Dependents(ids) \subseteq Mounted
         /\ \A p \in Dependents(ids), c \in Mounted :
              Needs(c, p) => c \in Dependents(ids)
BY DEF Dependents

LEMMA DependentsLeast ==
  ASSUME NEW ids, NEW S \in SUBSET Mounted, ids \subseteq S,
         \A p \in S : \A c \in Mounted : Needs(c, p) => c \in S
  PROVE  Dependents(ids) \subseteq S
BY DEF Dependents

\* list.remove of an element that is there once.
LEMMA RemovedOnce ==
  ASSUME NEW S, NEW s \in Seq(S), NEW n \in 1..Len(s),
         \A m \in 1..Len(s) : s[m] = s[n] => m = n
  PROVE  /\ RemoveFirst(s, s[n]) \in Seq(S)
         /\ Len(RemoveFirst(s, s[n])) = Len(s) - 1
         /\ \A m \in 1..(Len(s) - 1) :
              RemoveFirst(s, s[n])[m] = IF m < n THEN s[m] ELSE s[m + 1]
<1> DEFINE I == {m \in 1..Len(s) : s[m] = s[n]}
<1>1. I = {n}
  OBVIOUS
<1>2. SelectInSeq(s, LAMBDA v : v = s[n]) = n
  BY <1>1 DEF SelectInSeq, Min
<1>3. RemoveFirst(s, s[n]) = RemoveAt(s, n)
  BY <1>2 DEF RemoveFirst
<1>4. RemoveAt(s, n) = SubSeq(s, 1, n - 1) \o SubSeq(s, n + 1, Len(s))
  BY DEF RemoveAt
<1> DEFINE a == SubSeq(s, 1, n - 1)
           b == SubSeq(s, n + 1, Len(s))
<1>5. /\ a \in Seq(S)
      /\ Len(a) = n - 1
      /\ \A m \in 1..(n - 1) : a[m] = s[m]
  <2>1. \A m \in 1..(n - 1) : s[m] \in S
    OBVIOUS
  <2> QED
    BY <2>1, SubSeqProperties, SMT
<1>6. /\ b \in Seq(S)
      /\ Len(b) = Len(s) - n
      /\ \A m \in 1..(Len(s) - n) : b[m] = s[m + n]
  <2>1. \A m \in (n + 1)..Len(s) : s[m] \in S
    OBVIOUS
  <2> QED
    BY <2>1, SubSeqProperties, SMT
<1> HIDE DEF a, b
<1>7. /\ a \o b \in Seq(S)
      /\ Len(a \o b) = Len(s) - 1
      /\ \A m \in 1..(Len(s) - 1) : (a \o b)[m] = IF m < n THEN s[m] ELSE s[m + 1]
  BY <1>5, <1>6, ConcatProperties
<1> QED
  BY <1>3, <1>4, <1>7 DEF a, b

LEMMA Pushed ==
  ASSUME NEW S, NEW s \in Seq(S), NEW x \in S
  PROVE  /\ <<x>> \o s \in Seq(S)
         /\ Len(<<x>> \o s) = Len(s) + 1
         /\ (<<x>> \o s)[1] = x
         /\ \A n \in 1..Len(s) : (<<x>> \o s)[n + 1] = s[n]
         /\ Head(<<x>> \o s) = x
         /\ <<x>> \o s # <<>>
OBVIOUS

LEMMA Popped ==
  ASSUME NEW S, NEW s \in Seq(S), s # <<>>
  PROVE  /\ Tail(s) \in Seq(S)
         /\ Len(Tail(s)) = Len(s) - 1
         /\ \A n \in 1..(Len(s) - 1) : Tail(s)[n] = s[n + 1]
         /\ Head(s) = s[1]
         /\ 1 \in 1..Len(s)
OBVIOUS

(***************************************************************************)
(* What keeps the parts of the invariant                                   *)
(***************************************************************************)
\* Of instances that are up a snapshot stays true if they keep their context,
\* and if what they use stays up with them.
LEMMA SavedKept ==
  ASSUME TypeOK, SavedInv, saved' = saved,
         \A n \in 1..Len(saved) : In(saved[n]) \subseteq Mounted',
         \A i \in Using' :
           \/ \A n \in 1..Len(saved) :
                i \in In(saved[n]) => inst'[i].owned # saved[n][i].owned
           \/ /\ i \in Using
              /\ inst'[i].owned = inst[i].owned
              /\ inst'[i].def = inst[i].def
              /\ inst'[i].scope = inst[i].scope
              /\ i \in Up => i \in Up',
         \A i \in Up \cap Up', p \in Up :
           Needs(i, p) => p \in Up' /\ inst'[p].owned = inst[p].owned
  PROVE  SavedInv'
<1> SUFFICES ASSUME NEW n \in 1..Len(saved)
             PROVE  Lasting(saved[n])'
  BY DEF SavedInv, AtRest, Lasting, In, Feeds, Same
<1> DEFINE old == saved[n]
<1> SUFFICES ASSUME NEW i \in Id, Survives(old, i)'
             PROVE  /\ i \in Up'
                    /\ old[i].state = "active"
                    /\ old[i].def = inst'[i].def
                    /\ old[i].scope = inst'[i].scope
                    /\ \A k \in Requires[old[i].def] : \A p \in In(old) :
                         Feeds(old, p, k, i) => p \in Up' /\ Survives(old, p)'
  BY DEF Lasting, Feeds, Same, In
<1>1. /\ i \in Using
      /\ inst'[i].owned = inst[i].owned
      /\ inst'[i].def = inst[i].def
      /\ inst'[i].scope = inst[i].scope
      /\ i \in Up => i \in Up'
  BY DEF Survives, In
<1>2. Survives(old, i)
  BY <1>1 DEF Survives, In
<1>3. /\ i \in Up
      /\ old[i].state = "active"
      /\ old[i].def = inst[i].def
      /\ old[i].scope = inst[i].scope
      /\ \A k \in Requires[old[i].def] : \A p \in In(old) :
           Feeds(old, p, k, i) => p \in Up /\ Survives(old, p)
  BY <1>2 DEF SavedInv, Lasting
<1>4. ASSUME NEW k \in Requires[old[i].def], NEW p \in In(old), Feeds(old, p, k, i)
      PROVE  p \in Up' /\ Survives(old, p)'
  <2>1. p \in Up /\ Survives(old, p)
    BY <1>3, <1>4
  <2>2. old[p].def = inst[p].def /\ old[p].scope = inst[p].scope
    BY <2>1 DEF SavedInv, Lasting, In
  <2>3. Needs(i, p)
    BY <1>3, <1>4, <2>2 DEF Needs, Feeds, Same, Up, InState
  <2>4. p \in Up' /\ inst'[p].owned = inst[p].owned
    BY <1>1, <1>3, <2>1, <2>3
  <2>5. p \in Using'
    BY <2>4 DEF Up, Using, InState
  <2> QED
    BY <2>1, <2>4, <2>5 DEF Survives, In
<1> QED
  BY <1>1, <1>3, <1>4

\* Nothing starts or is cleaned up: the table is as between two operations.
LEMMA TableAtRest ==
  ASSUME TypeOK, TableInv, Loading = {}, Unloading = {}
  PROVE  AtRest(inst) /\ Up = InState({"active"}) /\ Using = Up
<1>1. Up = InState({"active"}) /\ Using = Up
  BY DEF Up, Using, InState, Loading, Unloading
<1>2. ASSUME NEW i \in In(inst)
      PROVE  /\ inst[i].state \in {"pending", "active", "failed", "disposed"}
             /\ inst[i].prepared = <<inst[i].def, inst[i].config>>
             /\ inst[i].state = "active" => inst[i].owned # None
  <2>1. i \in Mounted
    BY DEF In, Mounted
  <2> QED
    BY <2>1, InstanceTypes DEF Loading, Unloading, InState, State, TableInv,
       ConfigAgrees, OwnContext, Using
<1>3. ASSUME NEW i \in In(inst), NEW j \in In(inst),
             inst[i].state # "disposed", inst[j].state # "disposed",
             NEW k \in Provides[inst[i].def] \cap Provides[inst[j].def],
             Same(k, inst[i].scope, inst[j].scope)
      PROVE  i = j
  <2>1. i \in InState(State \ {"disposed"}) /\ j \in InState(State \ {"disposed"})
    BY <1>3, InstanceTypes DEF In, InState, Mounted
  <2> QED
    BY <1>3, <2>1 DEF TableInv, OneProvider
<1>4. ASSUME NEW i \in In(inst), inst[i].state = "active",
             NEW k \in Requires[inst[i].def]
      PROVE  \E p \in In(inst) :
               Feeds(inst, p, k, i) /\ inst[i].values[k] = inst[p].values[k]
  <2>1. i \in Using
    BY <1>4 DEF In, Using, InState, Mounted
  <2>2. PICK p \in Publishers(k, inst[i].scope) :
          inst[i].values[k] = inst[p].values[k]
    BY <1>4, <2>1 DEF TableInv, ServicesOutliveUsers
  <2>3. p \in In(inst) /\ Feeds(inst, p, k, i)
    BY <2>2 DEF Publishers, InState, Mounted, In, Feeds
  <2> QED
    BY <2>2, <2>3
<1> QED
  BY <1>1, <1>2, <1>3, <1>4 DEF AtRest

\* batch() takes a snapshot of a table at rest.
LEMMA SnapshotTaken ==
  ASSUME TypeOK, TableInv, SavedInv, Loading = {}, Unloading = {},
         inst' = inst, saved' = <<inst>> \o saved
  PROVE  SavedInv' /\ saved' \in Seq([Id -> Instance \cup {None}])
         /\ saved' # <<>> /\ saved'[1] = inst
<1> DEFINE T == [Id -> Instance \cup {None}]
<1>1. inst \in T /\ saved \in Seq(T)
  BY DEF TypeOK
<1>2. /\ saved' \in Seq(T)
      /\ Len(saved') = Len(saved) + 1
      /\ saved'[1] = inst
      /\ \A n \in 1..Len(saved) : saved'[n + 1] = saved[n]
      /\ saved' # <<>>
  <2> HIDE DEF T
  <2> QED
    BY <1>1, Pushed
<1>3. ASSUME NEW i \in Id, Survives(inst, i)
      PROVE  /\ i \in Up
             /\ inst[i].state = "active"
             /\ \A k \in Requires[inst[i].def] : \A p \in In(inst) :
                  Feeds(inst, p, k, i) => p \in Up /\ Survives(inst, p)
  <2>1. i \in Up /\ inst[i].state = "active"
    BY <1>3, TableAtRest DEF Survives, InState
  <2>2. ASSUME NEW p \in In(inst), inst[p].state = "active"
        PROVE  p \in Up /\ Survives(inst, p)
    BY <2>2, TableAtRest DEF In, Mounted, InState, Survives
  <2> QED
    BY <2>1, <2>2 DEF Feeds
<1>4. AtRest(inst) /\ Lasting(inst) /\ In(inst) = Mounted
  BY <1>3, TableAtRest DEF Lasting, In, Mounted
<1>5. ASSUME NEW n \in 1..Len(saved')
      PROVE  /\ AtRest(saved'[n])
             /\ Lasting(saved'[n])
             /\ In(saved'[n]) \subseteq Mounted
             /\ \A m \in 1..n : In(saved'[n]) \subseteq In(saved'[m])
  <2>1. CASE n = 1
    BY <1>2, <1>4, <2>1
  <2>2. CASE n # 1
    <3>1. n - 1 \in 1..Len(saved) /\ saved'[n] = saved[n - 1]
      BY <1>1, <1>2, <2>2
    <3>2. \A m \in 1..n : m = 1 \/ (m - 1 \in 1..(n - 1) /\ saved'[m] = saved[m - 1])
      BY <1>1, <1>2, <2>2
    <3>3. \A m \in 1..(n - 1) : In(saved[n - 1]) \subseteq In(saved[m])
      BY <3>1 DEF SavedInv
    <3> QED
      BY <1>2, <1>4, <3>1, <3>2, <3>3 DEF SavedInv
  <2> QED
    BY <2>1, <2>2
<1>6. ASSUME NEW n \in 1..Len(saved')
      PROVE  /\ AtRest(saved[n])'
             /\ Lasting(saved[n])'
             /\ In(saved'[n]) \subseteq Mounted'
  <2>1. AtRest(saved'[n]) /\ Lasting(saved'[n]) /\ In(saved'[n]) \subseteq Mounted
    BY <1>5
  <2>2. AtRest(saved[n])'
    BY <2>1 DEF AtRest, In, Feeds, Same
  <2>3. Up' = Up /\ Using' = Using
    BY DEF Using, Up, InState, Mounted
  <2>4. \A i \in Id : Survives(saved[n], i)' <=> Survives(saved'[n], i)
    BY <2>3 DEF Survives, In
  <2>5. \A i, p, k : Feeds(saved[n], p, k, i)' <=> Feeds(saved'[n], p, k, i)
    BY DEF Feeds, Same
  <2>6. Lasting(saved[n])'
    BY <2>1, <2>3, <2>4, <2>5 DEF Lasting, In
  <2> QED
    BY <2>1, <2>2, <2>6 DEF Mounted
<1> QED
  BY <1>2, <1>5, <1>6 DEF SavedInv, In

\* A batch that ends drops the innermost snapshot.
LEMMA SnapshotDropped ==
  ASSUME TypeOK, SavedInv, inst' = inst, saved # <<>>, saved' = Tail(saved)
  PROVE  SavedInv' /\ saved' \in Seq([Id -> Instance \cup {None}])
<1> DEFINE T == [Id -> Instance \cup {None}]
<1>1. saved \in Seq(T)
  BY DEF TypeOK
<1>2. /\ saved' \in Seq(T)
      /\ Len(saved') = Len(saved) - 1
      /\ \A n \in 1..(Len(saved) - 1) : saved'[n] = saved[n + 1]
  <2> HIDE DEF T
  <2> QED
    BY <1>1, Popped
<1>3. ASSUME NEW n \in 1..Len(saved')
      PROVE  /\ AtRest(saved[n + 1])
             /\ Lasting(saved[n + 1])
             /\ saved'[n] = saved[n + 1]
             /\ In(saved[n + 1]) \subseteq Mounted
             /\ \A m \in 1..n : In(saved[n + 1]) \subseteq In(saved'[m])
  <2>1. n + 1 \in 1..Len(saved) /\ saved'[n] = saved[n + 1]
    BY <1>1, <1>2
  <2>2. \A m \in 1..n : m + 1 \in 1..(n + 1) /\ saved'[m] = saved[m + 1]
    BY <1>1, <1>2
  <2> QED
    BY <2>1, <2>2 DEF SavedInv
<1> QED
  BY <1>2, <1>3 DEF SavedInv, AtRest, Lasting, Survives, Using, Up, InState,
     Mounted, In, Feeds, Same

\* Where the operation is says what is starting and what is cleaned up.
LEMMA NothingMoves ==
  ASSUME TypeOK, OneAtATime
  PROVE  /\ run.mode \in {"free", "settle"} => Loading = {} /\ Unloading = {}
         /\ run.mode = "stop" => Loading = {}
         /\ run.mode = "loading" => Unloading = {}
BY DEF OneAtATime, Loading, Unloading, InState, Mounted

LEMMA TableUnchanged ==
  ASSUME TypeOK, TableInv, UNCHANGED table,
         \/ Loading = {} /\ Unloading = {}
         \/ run'.mode = run.mode /\ run'.todo = run.todo
  PROVE  TableInv'
<1>1. /\ Mounted' = Mounted /\ Using' = Using /\ Up' = Up
      /\ Loading' = Loading /\ Unloading' = Unloading
      /\ InState({"active", "unloading"})' = InState({"active", "unloading"})
      /\ InState(State \ {"disposed"})' = InState(State \ {"disposed"})
  BY DEF Mounted, Using, Up, InState, Loading, Unloading, table
<1>2. OneAtATime'
  BY <1>1 DEF TableInv, OneAtATime, NextOut, ToStop, table
<1>3. OwnContext' /\ NoOrphans' /\ ConfigAgrees'
  BY <1>1 DEF TableInv, OwnContext, NoOrphans, ConfigAgrees, table
<1>4. OneProvider'
  BY <1>1 DEF TableInv, OneProvider, Same, table
<1>5. ServicesOutliveUsers'
  <2>1. \A k, sc : Publishers(k, sc)' = Publishers(k, sc)
    BY DEF Publishers, InState, Mounted, Same, table
  <2> QED
    BY <1>1, <2>1 DEF TableInv, ServicesOutliveUsers, table
<1>6. OrderIsActivation'
  BY <1>1 DEF TableInv, OrderIsActivation, Needs, Same, table
<1> QED
  BY <1>2, <1>3, <1>4, <1>5, <1>6 DEF TableInv

LEMMA SavedUnchanged ==
  ASSUME TypeOK, SavedInv, inst' = inst, saved' = saved
  PROVE  SavedInv'
<1>1. Using' = Using /\ Up' = Up /\ Mounted' = Mounted
  BY DEF Using, Up, InState, Mounted
<1> SUFFICES ASSUME NEW n \in 1..Len(saved)
             PROVE  /\ AtRest(saved[n])' /\ Lasting(saved[n])'
                    /\ (In(saved[n]) \subseteq Mounted)'
                    /\ (\A m \in 1..n : In(saved[n]) \subseteq In(saved[m]))'
  BY DEF SavedInv
<1>2. /\ AtRest(saved[n]) /\ Lasting(saved[n])
      /\ In(saved[n]) \subseteq Mounted
      /\ \A m \in 1..n : In(saved[n]) \subseteq In(saved[m])
  BY DEF SavedInv
<1>3. AtRest(saved[n])'
  BY <1>2 DEF AtRest, In, Feeds, Same
<1>4. Lasting(saved[n])'
  BY <1>1, <1>2 DEF Lasting, Survives, In, Feeds, Same
<1>5. /\ (In(saved[n]) \subseteq Mounted)'
      /\ (\A m \in 1..n : In(saved[n]) \subseteq In(saved[m]))'
  BY <1>1, <1>2 DEF In
<1> QED
  BY <1>3, <1>4, <1>5

\* Whoever is in use keeps the services it captured.
LEMMA ServicesKept ==
  ASSUME ServicesOutliveUsers,
         \A i \in Using' :
           /\ i \in Using
           /\ inst'[i].def = inst[i].def
           /\ inst'[i].scope = inst[i].scope
           /\ \A k \in Requires[inst[i].def] : \A p \in Publishers(k, inst[i].scope) :
                inst[i].values[k] = inst[p].values[k] =>
                  /\ p \in InState({"active"})'
                  /\ inst'[p].def = inst[p].def
                  /\ inst'[p].scope = inst[p].scope
                  /\ inst'[i].values[k] = inst'[p].values[k]
  PROVE  ServicesOutliveUsers'
<1> SUFFICES ASSUME NEW i \in Using', NEW k \in Requires[inst'[i].def]
             PROVE  \E p \in Publishers(k, inst[i].scope)' :
                      inst'[i].values[k] = inst'[p].values[k]
  BY DEF ServicesOutliveUsers
<1>1. PICK p \in Publishers(k, inst[i].scope) : inst[i].values[k] = inst[p].values[k]
  BY DEF ServicesOutliveUsers
<1>2. p \in Publishers(k, inst[i].scope)'
  BY <1>1 DEF Publishers, Same
<1> QED
  BY <1>1, <1>2

\* Everything that is up has one place in the order.
LEMMA Places ==
  ASSUME TypeOK, OrderIsActivation
  PROVE  /\ \A i \in Up : \E n \in 1..Len(order) : order[n] = i
         /\ \A n \in 1..Len(order) : order[n] \in Up
         /\ \A m, n \in 1..Len(order) : order[m] = order[n] => m = n
         /\ \A m, n \in 1..Len(order) : Needs(order[m], order[n]) => n < m
<1>1. DOMAIN order = 1..Len(order)
  BY DEF TypeOK
<1> QED
  BY <1>1 DEF OrderIsActivation, ToSet, Up

LEMMA ProviderKept ==
  ASSUME OneProvider,
         \A i \in InState(State \ {"disposed"})' :
           /\ i \in InState(State \ {"disposed"})
           /\ inst'[i].def = inst[i].def
           /\ inst'[i].scope = inst[i].scope
  PROVE  OneProvider'
BY DEF OneProvider, Same

LEMMA OrderKept ==
  ASSUME TypeOK, OrderIsActivation, order' = order, Up' = Up,
         \A i \in Up : /\ inst'[i].state # "disposed"
                      /\ inst'[i].def = inst[i].def
                      /\ inst'[i].scope = inst[i].scope
  PROVE  OrderIsActivation'
<1>1. \A m, n \in 1..Len(order) : Needs(order[m], order[n])' => Needs(order[m], order[n])
  BY Places DEF Needs, Same, Up, InState
<1> QED
  BY <1>1, Places DEF OrderIsActivation, Up

(***************************************************************************)
(* How operations begin and end                                            *)
(***************************************************************************)
LEMMA BeginFields ==
  ASSUME NEW kind \in Kind, NEW i \in Id \cup {None},
         NEW change \in Key \cup (Def \X Config) \cup {None},
         NEW todo \in SUBSET Id, Begin(kind, i, change, todo)
  PROVE  /\ run' \in Run
         /\ run'.mode = "stop" /\ run'.kind = kind /\ run'.id = i
         /\ run'.change = change /\ run'.todo = todo
BY DEF Begin, Idle, Run, Mode, Kind

LEMMA StartRestoreFields ==
  ASSUME NEW old, Dependents(Changed(old)) \subseteq Id, StartRestore(old)
  PROVE  /\ run' \in Run
         /\ run'.mode = "stop" /\ run'.kind = "restore"
         /\ run'.todo = Dependents(Changed(old))
<1> DEFINE todo == Dependents(Changed(old))
<1>1. run' = [Idle EXCEPT !.mode = "stop", !.kind = "restore", !.todo = todo]
  BY DEF StartRestore
<1> HIDE DEF todo
<1> QED
  BY <1>1 DEF Idle, Run, Mode, Kind, todo

LEMMA IdleFields ==
  /\ Idle \in Run
  /\ Idle.mode = "free" /\ Idle.kind = "none"
  /\ \A kind \in Kind : Settle(kind) =>
       /\ run' \in Run
       /\ run'.mode = "settle" /\ run'.kind = kind
BY DEF Settle, Idle, Run, Mode, Kind

\* Of what is up, what an instance needs is up, and was activated before.
LEMMA NeededIsActive ==
  ASSUME TypeOK, TableInv, NEW c \in Using, NEW p \in Mounted,
         inst[p].state # "disposed", Needs(c, p)
  PROVE  inst[p].state = "active"
<1>1. PICK k \in Requires[inst[c].def] \cap Provides[inst[p].def] :
        Same(k, inst[c].scope, inst[p].scope)
  BY DEF Needs
<1>2. PICK q \in Publishers(k, inst[c].scope) : TRUE
  BY <1>1 DEF TableInv, ServicesOutliveUsers
<1>3. /\ q \in Mounted /\ inst[q].state = "active"
      /\ k \in Provides[inst[q].def]
      /\ Same(k, inst[q].scope, inst[p].scope)
  BY <1>1, <1>2 DEF Publishers, InState, Same
<1>4. /\ p \in InState(State \ {"disposed"})
      /\ q \in InState(State \ {"disposed"})
  BY <1>3, InstanceTypes DEF InState, State
<1>5. p = q
  BY <1>1, <1>3, <1>4 DEF TableInv, OneProvider
<1> QED
  BY <1>3, <1>5

\* The users of an active instance, itself left out.
LEMMA UsersClosed ==
  ASSUME TypeOK, TableInv, NEW i \in InState({"active"}), Loading = {}
  PROVE  /\ UsersOf(i) \subseteq Mounted \ {i}
         /\ \A p \in UsersOf(i) \cap Up, c \in Up : Needs(c, p) => c \in UsersOf(i)
         /\ \A c \in Up : Needs(c, i) => c \in UsersOf(i)
<1> DEFINE After(x) == \A m, n \in 1..Len(order) :
                         order[m] = x /\ order[n] = i => n < m
           S == {x \in Mounted :
                   x = i \/ (inst[x].state # "disposed" /\ (x \in Up => After(x)))}
<1>1. i \in Mounted /\ i \in Up /\ i \in Using /\ inst[i].state = "active"
  BY DEF InState, Up, Using
<1>2. ASSUME NEW p \in S, NEW c \in Mounted, Needs(c, p)
      PROVE  c \in S
  <2>1. inst[c].state # "disposed" /\ inst[p].state # "disposed"
    BY <1>1, <1>2 DEF Needs
  <2>2. ASSUME c \in Up
        PROVE  After(c)
    <3>1. p \in Up
      BY <1>2, <2>1, <2>2, NeededIsActive DEF Up, Using, InState
    <3>2. PICK n \in 1..Len(order) : order[n] = p
      BY <3>1, Places DEF TableInv
    <3>3. \A m \in 1..Len(order) : order[m] = c => n < m
      BY <1>2, <3>2, Places DEF TableInv
    <3>4. \A m \in 1..Len(order) : order[m] = i => m <= n
      <4>1. CASE p = i
        BY <3>2, <4>1, Places DEF TableInv
      <4>2. CASE p # i
        BY <3>1, <3>2, <4>2
      <4> QED
        BY <4>1, <4>2
    <3> QED
      BY <3>3, <3>4
  <2> QED
    BY <2>1, <2>2
<1>3. Dependents({i}) \subseteq S
  BY <1>1, <1>2, DependentsLeast
<1>4. /\ {i} \subseteq Dependents({i}) /\ Dependents({i}) \subseteq Mounted
      /\ \A p \in Dependents({i}), c \in Mounted : Needs(c, p) => c \in Dependents({i})
  BY <1>1, DependentsClosed
<1>5. \A x \in Up : ~Needs(x, x)
  BY Places DEF TableInv
<1>6. ASSUME NEW p \in UsersOf(i) \cap Up
      PROVE  ~Needs(i, p)
  <2>1. After(p)
    BY <1>3 DEF UsersOf
  <2> QED
    BY <1>1, <2>1, Places DEF TableInv
<1> QED
  BY <1>4, <1>5, <1>6 DEF UsersOf, Up, InState

\* Of an operation that begins, or ends, only what it notes is to be shown.
LEMMA TableKept ==
  ASSUME IInv, UNCHANGED table, Loading = {}, Unloading = {},
         SavedInv', saved' \in Seq([Id -> Instance \cup {None}]),
         down' \subseteq Checked, closed' \in BOOLEAN, run' \in Run, RunInv'
  PROVE  IInv'
<1>1. TypeOK'
  BY DEF IInv, TypeOK, table
<1>2. TableInv'
  BY TableUnchanged DEF IInv
<1> QED
  BY <1>1, <1>2 DEF IInv

\* What StopInv says of the state after a step that leaves the table alone.
LEMMA StopBegins ==
  ASSUME IInv, UNCHANGED table, Loading = {}, Unloading = {},
         run' \in Run, run'.mode = "stop", run'.kind \in Kind \ {"none", "mount"},
         run'.todo \subseteq Mounted,
         \A p \in run'.todo \cap Up, c \in Up : Needs(c, p) => c \in run'.todo,
         run'.kind = "unmount" => run'.id \in run'.todo,
         run'.kind = "replace" =>
           /\ run'.id \in run'.todo
           /\ run'.change \in Def \X Config
           /\ ~Rival(run'.id, run'.change[1], inst[run'.id].scope),
         run'.kind = "service" =>
           /\ run'.id \in InState({"active"}) \ run'.todo
           /\ run'.change \in Provides[inst[run'.id].def]
           /\ \A c \in Up : Needs(c, run'.id) => c \in run'.todo,
         run'.kind = "close" => run'.todo = Mounted,
         run'.kind \in {"replace", "restore"} => saved' # <<>>,
         run'.kind = "restore" =>
           \A i \in Mounted \ run'.todo : i \notin Changed(saved'[1]),
         SavedInv', saved' \in Seq([Id -> Instance \cup {None}]),
         down' \subseteq Checked, closed' \in BOOLEAN
  PROVE  IInv'
<1>1. /\ Mounted' = Mounted /\ Up' = Up
      /\ InState({"active"})' = InState({"active"})
  BY DEF Mounted, Up, InState, table
<1>2. \A c, p : Needs(c, p)' <=> Needs(c, p)
  BY DEF Needs, Same, table
<1>3. ClosedUnderUse'
  BY <1>1, <1>2 DEF ClosedUnderUse
<1>4. run'.kind = "replace" => ReplaceInv'
  BY <1>1 DEF ReplaceInv, Rival, Same, table
<1>5. run'.kind = "service" => ServiceInv'
  BY <1>1, <1>2 DEF ServiceInv, table
<1>6. run'.kind = "restore" => RestoreInv'
  BY <1>1 DEF RestoreInv, Changed, table
<1>7. StopInv'
  BY <1>1, <1>3, <1>4, <1>5, <1>6 DEF StopInv
<1>8. RunInv'
  BY <1>7 DEF RunInv
<1> QED
  BY <1>8, TableKept

\* An operation that stops instances and all that depends on them.
LEMMA DependentsStop ==
  ASSUME TypeOK, NEW ids \in SUBSET Mounted
  PROVE  /\ Dependents(ids) \in SUBSET Id /\ Dependents(ids) \subseteq Mounted
         /\ ids \subseteq Dependents(ids)
         /\ \A p \in Dependents(ids) \cap Up, c \in Up :
              Needs(c, p) => c \in Dependents(ids)
BY DependentsClosed DEF Up, InState, Mounted

LEMMA RestoreBegins ==
  ASSUME IInv, UNCHANGED <<table, down, closed>>, Loading = {}, Unloading = {},
         SavedInv', saved' \in Seq([Id -> Instance \cup {None}]), saved' # <<>>,
         StartRestore(saved'[1])
  PROVE  IInv'
<1> DEFINE ids == Changed(saved'[1])
<1>1. ids \subseteq Mounted
  BY DEF Changed
<1>2. /\ Dependents(ids) \in SUBSET Id /\ Dependents(ids) \subseteq Mounted
      /\ ids \subseteq Dependents(ids)
      /\ \A p \in Dependents(ids) \cap Up, c \in Up :
           Needs(c, p) => c \in Dependents(ids)
  BY <1>1, DependentsStop DEF IInv
<1>3. /\ run' \in Run
      /\ run'.mode = "stop" /\ run'.kind = "restore"
      /\ run'.todo = Dependents(ids)
  BY <1>2, StartRestoreFields
<1>4. down' \subseteq Checked /\ closed' \in BOOLEAN
  BY DEF IInv, TypeOK
<1>5. \A i \in Mounted \ run'.todo : i \notin ids
  BY <1>2, <1>3
<1> HIDE DEF ids
<1>6. run'.kind \in Kind \ {"none", "mount"}
  BY <1>3 DEF Kind
<1> QED
  BY <1>2, <1>3, <1>4, <1>5, <1>6, StopBegins DEF ids

(***************************************************************************)
(* Operations                                                              *)
(***************************************************************************)
LEMMA FreeFacts ==
  ASSUME IInv, run.mode \in {"free", "settle"}
  PROVE  /\ Loading = {} /\ Unloading = {}
         /\ down \subseteq Checked /\ closed \in BOOLEAN
         /\ saved \in Seq([Id -> Instance \cup {None}])
BY NothingMoves DEF IInv, TableInv, TypeOK

LEMMA UnmountKeeps ==
  ASSUME IInv, NEW i \in Id, Unmount(i)
  PROVE  IInv'
<1>1. i \in Mounted /\ run.mode = "free"
  BY DEF Unmount, Accepts
<1>2. /\ Dependents({i}) \in SUBSET Id /\ Dependents({i}) \subseteq Mounted
      /\ {i} \subseteq Dependents({i})
      /\ \A p \in Dependents({i}) \cap Up, c \in Up :
           Needs(c, p) => c \in Dependents({i})
  BY <1>1, DependentsStop DEF IInv
<1>3. /\ run' \in Run
      /\ run'.mode = "stop" /\ run'.kind = "unmount" /\ run'.id = i
      /\ run'.todo = Dependents({i})
  BY <1>2, BeginFields DEF Unmount, Kind
<1>4. SavedInv'
  BY SavedUnchanged DEF Unmount, IInv, table
<1> QED
  BY <1>1, <1>2, <1>3, <1>4, FreeFacts, StopBegins DEF Unmount, Kind

LEMMA SetServiceKeeps ==
  ASSUME IInv, NEW i \in Id, NEW k \in Settable, SetService(i, k)
  PROVE  IInv'
<1>1. /\ i \in InState({"active"}) /\ k \in Provides[inst[i].def]
      /\ run.mode = "free"
  BY DEF SetService, Accepts
<1>2. /\ UsersOf(i) \subseteq Mounted \ {i}
      /\ \A p \in UsersOf(i) \cap Up, c \in Up : Needs(c, p) => c \in UsersOf(i)
      /\ \A c \in Up : Needs(c, i) => c \in UsersOf(i)
  BY <1>1, UsersClosed, FreeFacts DEF IInv
<1>3. /\ run' \in Run
      /\ run'.mode = "stop" /\ run'.kind = "service" /\ run'.id = i
      /\ run'.change = k /\ run'.todo = UsersOf(i)
  BY <1>2, SettableAssumption, BeginFields DEF SetService, Kind, Mounted
<1>4. SavedInv'
  BY SavedUnchanged DEF SetService, IInv, table
<1> QED
  BY <1>1, <1>2, <1>3, <1>4, FreeFacts, StopBegins DEF SetService, Kind

LEMMA RefreshKeeps ==
  ASSUME IInv, Refresh
  PROVE  IInv'
<1> DEFINE ids == {i \in InState({"active"}) : Missing(i) # {}}
<1>1. ids \subseteq Mounted /\ run.mode = "free"
  BY DEF Refresh, Accepts, InState
<1>2. /\ Dependents(ids) \in SUBSET Id /\ Dependents(ids) \subseteq Mounted
      /\ \A p \in Dependents(ids) \cap Up, c \in Up :
           Needs(c, p) => c \in Dependents(ids)
  BY <1>1, DependentsStop DEF IInv
<1>3. /\ run' \in Run
      /\ run'.mode = "stop" /\ run'.kind = "refresh"
      /\ run'.todo = Dependents(ids)
  BY <1>2, BeginFields DEF Refresh, Kind
<1>4. SavedInv'
  BY SavedUnchanged DEF Refresh, IInv, table
<1> HIDE DEF ids
<1> QED
  BY <1>1, <1>2, <1>3, <1>4, FreeFacts, StopBegins DEF Refresh, Kind

LEMMA CloseKeeps ==
  ASSUME IInv, Close
  PROVE  IInv'
<1>1. run.mode = "free" /\ closed' = TRUE
  BY DEF Close, Accepts
<1>2. /\ run' \in Run
      /\ run'.mode = "stop" /\ run'.kind = "close"
      /\ run'.todo = Mounted
  BY BeginFields DEF Close, Kind, Mounted
<1>3. SavedInv'
  BY SavedUnchanged DEF Close, IInv, table
<1> QED
  BY <1>1, <1>2, <1>3, FreeFacts, StopBegins DEF Close, Kind, Up, InState

LEMMA BatchKeeps ==
  ASSUME IInv, BatchBegin \/ BatchCommit \/ BatchFail
  PROVE  IInv'
<1>1. run.mode = "free"
  BY DEF BatchBegin, BatchCommit, BatchFail, Accepts
<1>2. CASE BatchBegin
  <2>1. SavedInv' /\ saved' \in Seq([Id -> Instance \cup {None}])
    BY <1>1, <1>2, FreeFacts, SnapshotTaken DEF BatchBegin, IInv, table
  <2>2. RunInv' /\ run' \in Run
    BY <1>1, <1>2 DEF IInv, TypeOK, RunInv, StopInv, BatchBegin
  <2> QED
    BY <1>1, <1>2, <2>1, <2>2, FreeFacts, TableKept DEF BatchBegin
<1>3. CASE BatchCommit
  <2>1. SavedInv' /\ saved' \in Seq([Id -> Instance \cup {None}])
    BY <1>3, SnapshotDropped DEF BatchCommit, IInv, table
  <2>2. RunInv' /\ run' \in Run
    BY <1>1, <1>3 DEF IInv, TypeOK, RunInv, StopInv, BatchCommit
  <2> QED
    BY <1>1, <1>3, <2>1, <2>2, FreeFacts, TableKept DEF BatchCommit
<1>4. CASE BatchFail
  <2>1. SavedInv' /\ saved' \in Seq([Id -> Instance \cup {None}]) /\ saved' # <<>>
    BY <1>1, <1>4, FreeFacts, SavedUnchanged DEF BatchFail, IInv, table
  <2>2. StartRestore(saved'[1])
    BY <1>4 DEF BatchFail
  <2> QED
    BY <1>1, <1>4, <2>1, <2>2, FreeFacts, RestoreBegins DEF BatchFail
<1> QED
  BY <1>2, <1>3, <1>4

LEMMA ReplaceRefusedKeeps ==
  ASSUME IInv, NEW i \in Id, ReplaceRefused(i)
  PROVE  IInv'
<1>1. run.mode = "free"
  BY DEF ReplaceRefused, Accepts
<1>2. /\ SavedInv' /\ saved' \in Seq([Id -> Instance \cup {None}])
      /\ saved' # <<>> /\ saved'[1] = inst
  BY <1>1, FreeFacts, SnapshotTaken DEF ReplaceRefused, IInv, table
<1>3. StartRestore(saved'[1])
  BY <1>2 DEF ReplaceRefused
<1> QED
  BY <1>1, <1>2, <1>3, FreeFacts, RestoreBegins DEF ReplaceRefused

\* reconfigure() in place: the table and the view say the same as before, but
\* for the configuration.
LEMMA UpdateKeeps ==
  ASSUME IInv, run.mode = "free", NEW i \in Mounted, inst[i].state = "active",
         NEW c \in Config, Update(i, inst[i].def, c),
         UNCHANGED <<order, down, open, closed>>
  PROVE  IInv'
<1>1. /\ i \in Id /\ inst[i] \in Instance /\ inst \in [Id -> Instance \cup {None}]
      /\ inst[i].def \in Def
  BY InstanceTypes DEF IInv, TypeOK
<1>2. /\ inst' \in [Id -> Instance \cup {None}]
      /\ \A j \in Id \ {i} : inst'[j] = inst[j]
      /\ inst'[i] \in Instance
      /\ inst'[i].def = inst[i].def /\ inst'[i].scope = inst[i].scope
      /\ inst'[i].state = inst[i].state /\ inst'[i].owned = inst[i].owned
      /\ inst'[i].values = inst[i].values
      /\ inst'[i].config = c /\ inst'[i].view = c
      /\ inst'[i].prepared = <<inst[i].def, c>>
  BY <1>1 DEF Update, Instance
<1>3. /\ Mounted' = Mounted
      /\ \A S : InState(S)' = InState(S)
      /\ \A j \in Id : j \in Mounted =>
           /\ inst'[j].def = inst[j].def /\ inst'[j].scope = inst[j].scope
           /\ inst'[j].state = inst[j].state /\ inst'[j].owned = inst[j].owned
           /\ inst'[j].values = inst[j].values
  BY <1>1, <1>2, NoneAssumption DEF Mounted, InState
<1>4. TypeOK'
  BY <1>2 DEF IInv, TypeOK, Update
<1>5. /\ Using' = Using /\ Up' = Up /\ Loading' = Loading /\ Unloading' = Unloading
      /\ Using \subseteq Mounted /\ Up \subseteq Mounted /\ Mounted \subseteq Id
  BY <1>3 DEF Using, Up, Loading, Unloading, InState, Mounted
<1>7. TableInv'
  <2>1. OneAtATime' /\ OwnContext' /\ NoOrphans' /\ ConfigAgrees'
    BY <1>2, <1>3, <1>5 DEF IInv, TableInv, OneAtATime, OwnContext, NoOrphans,
       ConfigAgrees, NextOut, ToStop, Update
  <2>2. OneProvider'
    BY <1>3, <1>5, ProviderKept DEF IInv, TableInv, InState
  <2>3. ServicesOutliveUsers'
    BY <1>3, <1>5, ServicesKept DEF IInv, TableInv, Publishers, InState
  <2>4. OrderIsActivation'
    BY <1>3, <1>5, OrderKept DEF IInv, TableInv, Up, InState
  <2> QED
    BY <2>1, <2>2, <2>3, <2>4 DEF TableInv
<1>8. SavedInv'
  BY <1>3, <1>5, SavedKept DEF IInv, Update, SavedInv
<1>9. RunInv'
  BY DEF IInv, RunInv, StopInv, Update
<1> QED
  BY <1>4, <1>7, <1>8, <1>9 DEF IInv

LEMMA ReplaceKeeps ==
  ASSUME IInv, NEW m \in Mountable, NEW force \in BOOLEAN,
         m[1] \in Mounted, Replace(m[1], m[2], m[4], force)
  PROVE  IInv'
<1> DEFINE i == m[1]
           d == m[2]
           c == m[4]
<1>1. /\ i \in Mounted /\ i \in Id /\ d \in Def /\ c \in Config
      /\ <<d, c>> \in Def \X Config
  BY MountableAssumption DEF Mounted
<1>2. /\ run.mode = "free" /\ ~Rival(i, d, inst[i].scope)
      /\ UNCHANGED <<order, down, open, closed>>
  BY DEF Replace, Accepts
<1>3. CASE InPlace(i, d, c, force)
  <2>1. d = inst[i].def /\ inst[i].state = "active" /\ Update(i, d, c)
    BY <1>3 DEF Replace, InPlace
  <2> HIDE DEF i, d, c
  <2> QED
    BY <1>1, <1>2, <2>1, UpdateKeeps
<1>4. CASE ~InPlace(i, d, c, force)
  <2>1. /\ Begin("replace", i, <<d, c>>, Dependents({i}))
        /\ saved' = <<inst>> \o saved /\ inst' = inst
    BY <1>4 DEF Replace
  <2> HIDE DEF i, d, c
  <2>2. /\ Dependents({i}) \in SUBSET Id /\ Dependents({i}) \subseteq Mounted
        /\ {i} \subseteq Dependents({i})
        /\ \A p \in Dependents({i}) \cap Up, x \in Up :
             Needs(x, p) => x \in Dependents({i})
    BY <1>1, DependentsStop DEF IInv
  <2>3. /\ run' \in Run
        /\ run'.mode = "stop" /\ run'.kind = "replace" /\ run'.id = i
        /\ run'.change = <<d, c>> /\ run'.todo = Dependents({i})
    BY <1>1, <2>1, <2>2, BeginFields DEF Kind
  <2>4. SavedInv' /\ saved' \in Seq([Id -> Instance \cup {None}]) /\ saved' # <<>>
    BY <1>2, <2>1, FreeFacts, SnapshotTaken DEF IInv
  <2>5. ~Rival(run'.id, run'.change[1], inst[run'.id].scope)
    BY <1>2, <2>3
  <2>6. UNCHANGED table /\ run'.kind \in Kind \ {"none", "mount"}
    BY <1>2, <2>1, <2>3 DEF table, Kind
  <2> QED
    BY <1>1, <1>2, <2>2, <2>3, <2>4, <2>5, <2>6, FreeFacts, StopBegins
<1> QED
  BY <1>3, <1>4

LEMMA MountKeeps ==
  ASSUME IInv, NEW m \in Mountable, Mount(m[1], m[2], m[3], m[4])
  PROVE  IInv'
<1> DEFINE i == m[1]
           d == m[2]
           s == m[3]
           c == m[4]
<1>1. i \in Id /\ d \in Def /\ s \in Scope /\ c \in Config
  BY MountableAssumption
<1>2. /\ run.mode = "free" /\ ~Rival(i, d, s)
      /\ i \notin InState(State \ {"disposed"})
      /\ inst' = [inst EXCEPT ![i] = NewInst(d, s, c)]
      /\ Settle("mount")
      /\ UNCHANGED <<order, down, open, closed, saved>>
  BY DEF Mount, Accepts
<1> HIDE DEF i, d, s, c
<1>3. /\ inst \in [Id -> Instance \cup {None}]
      /\ NewInst(d, s, c) \in Instance
  BY <1>1 DEF IInv, TypeOK, NewInst, Instance, State, NoValues
<1>4. /\ inst' \in [Id -> Instance \cup {None}]
      /\ \A j \in Id \ {i} : inst'[j] = inst[j]
      /\ inst'[i] \in Instance
      /\ inst'[i].def = d /\ inst'[i].scope = s
      /\ inst'[i].state = "pending" /\ inst'[i].owned = None
      /\ inst'[i].prepared = <<d, c>> /\ inst'[i].config = c
  BY <1>1, <1>2, <1>3 DEF NewInst
<1>5. /\ run' \in Run /\ run'.mode = "settle" /\ run'.kind = "mount"
  BY <1>2, IdleFields DEF Kind
<1>6. TypeOK'
  BY <1>2, <1>4, <1>5 DEF IInv, TypeOK
<1>7. /\ Mounted' = Mounted \cup {i}
      /\ Loading = {} /\ Unloading = {} /\ Loading' = {} /\ Unloading' = {}
      /\ Using' = Using /\ Up' = Up
      /\ i \notin Using /\ i \notin Up
      /\ InState({"active"})' = InState({"active"})
      /\ i \notin InState({"active"})
      /\ Using \subseteq Id /\ Up \subseteq Using
      /\ InState(State \ {"disposed"})' \subseteq InState(State \ {"disposed"}) \cup {i}
  <2>1. i \in Mounted => inst[i].state = "disposed"
    BY <1>1, <1>2, InstanceTypes DEF IInv, InState
  <2>2. Mounted' = Mounted \cup {i}
    BY <1>1, <1>4, NoneAssumption DEF Mounted
  <2>3. Loading = {} /\ Unloading = {}
    BY <1>2, FreeFacts
  <2> QED
    BY <1>1, <1>4, <2>1, <2>2, <2>3 DEF InState, Using, Up, Loading, Unloading, Mounted
<1>8. TableInv'
  <2>1. OneAtATime' /\ OwnContext' /\ NoOrphans'
    BY <1>1, <1>2, <1>4, <1>7 DEF IInv, TableInv, OneAtATime, OwnContext, NoOrphans, Mounted
  <2>2. ConfigAgrees'
    BY <1>1, <1>4, <1>7 DEF IInv, TableInv, ConfigAgrees, Mounted
  <2>3. OneProvider'
    BY <1>1, <1>2, <1>4, <1>7 DEF IInv, TableInv, OneProvider, Same, InState, Rival,
       Mounted, State
  <2>4. ServicesOutliveUsers'
    BY <1>1, <1>4, <1>7, ServicesKept DEF IInv, TableInv, Publishers, InState, Mounted
  <2>5. OrderIsActivation'
    BY <1>1, <1>2, <1>4, <1>7, OrderKept DEF IInv, TableInv, Up, InState
  <2> QED
    BY <2>1, <2>2, <2>3, <2>4, <2>5 DEF TableInv
<1>9. SavedInv'
  BY <1>1, <1>2, <1>4, <1>7, SavedKept DEF IInv, SavedInv
<1>10. RunInv'
  BY <1>5 DEF RunInv, StopInv
<1> QED
  BY <1>6, <1>8, <1>9, <1>10 DEF IInv

(***************************************************************************)
(* Clean-up                                                                *)
(***************************************************************************)
\* What is cleaned up is to be stopped, and nothing that is up uses it.
LEMMA LastHasNoUsers ==
  ASSUME TypeOK, TableInv, run.mode = "stop", ClosedUnderUse,
         NEW n \in NextOut
  PROVE  /\ order[n] \in run.todo /\ order[n] \in Up
         /\ \A c \in Up : ~Needs(c, order[n])
<1>1. n \in 1..Len(order) /\ order[n] \in run.todo
  BY DEF NextOut, ToStop
<1>2. order[n] \in Up
  BY <1>1, Places DEF TableInv
<1>3. ASSUME NEW c \in Up, Needs(c, order[n])
      PROVE  FALSE
  <2>1. c \in run.todo
    BY <1>1, <1>2, <1>3 DEF ClosedUnderUse
  <2>2. PICK m \in 1..Len(order) : order[m] = c
    BY Places DEF TableInv
  <2>3. n < m
    BY <1>1, <1>3, <2>2, Places DEF TableInv
  <2>4. m <= n
    BY <2>1, <2>2 DEF NextOut, ToStop
  <2> QED
    BY <1>1, <2>2, <2>3, <2>4
<1> QED
  BY <1>1, <1>2, <1>3

LEMMA UnloadKeeps ==
  ASSUME IInv, Unload
  PROVE  IInv'
<1>1. /\ run.mode = "stop" /\ Unloading = {} /\ Loading = {}
      /\ UNCHANGED <<order, down, open, closed, saved, run>>
      /\ TypeOK /\ TableInv /\ SavedInv /\ StopInv /\ ClosedUnderUse
  BY NothingMoves DEF Unload, Stopping, IInv, TableInv, RunInv, StopInv
<1>2. PICK n \in NextOut : inst' = [inst EXCEPT ![order[n]].state = "unloading"]
  BY DEF Unload, SetState
<1> DEFINE i == order[n]
<1>3. i \in run.todo /\ i \in Up /\ \A c \in Up : ~Needs(c, i)
  BY <1>1, LastHasNoUsers
<1>4. i \in Id /\ i \in Mounted /\ inst[i].state = "active" /\ inst[i] \in Instance
  BY <1>1, <1>3, InstanceTypes DEF Up, InState, Unloading
<1>5. inst' = [inst EXCEPT ![i].state = "unloading"] /\ order[n] = i /\ n \in NextOut
  BY <1>2
<1> HIDE DEF i
<1>6. /\ inst' \in [Id -> Instance \cup {None}]
      /\ \A j \in Id \ {i} : inst'[j] = inst[j]
      /\ inst'[i] \in Instance
      /\ inst'[i].state = "unloading"
      /\ inst'[i].def = inst[i].def /\ inst'[i].scope = inst[i].scope
      /\ inst'[i].owned = inst[i].owned /\ inst'[i].values = inst[i].values
      /\ inst'[i].config = inst[i].config /\ inst'[i].view = inst[i].view
      /\ inst'[i].prepared = inst[i].prepared
  BY <1>1, <1>4, <1>5 DEF Instance, State, TypeOK
<1>7. /\ Mounted' = Mounted /\ Mounted \subseteq Id
      /\ Using' = Using /\ Up' = Up /\ Loading' = {} /\ Unloading' = {i}
      /\ InState({"active"})' = InState({"active"}) \ {i}
      /\ InState(State \ {"disposed"})' = InState(State \ {"disposed"})
      /\ Using = Up /\ Up \subseteq Mounted
  BY <1>1, <1>4, <1>6, NoneAssumption
     DEF Mounted, Using, Up, InState, Loading, Unloading, State
<1>8. \A j \in Mounted :
        /\ inst'[j].def = inst[j].def /\ inst'[j].scope = inst[j].scope
        /\ inst'[j].owned = inst[j].owned /\ inst'[j].values = inst[j].values
        /\ inst'[j].state = "disposed" <=> inst[j].state = "disposed"
  BY <1>4, <1>6, <1>7
<1>9. TypeOK'
  BY <1>1, <1>6 DEF TypeOK
<1>10. TableInv'
  <2>1. OneAtATime' /\ OwnContext' /\ NoOrphans' /\ ConfigAgrees'
    BY <1>1, <1>4, <1>5, <1>6, <1>7 DEF TableInv, OneAtATime, OwnContext, NoOrphans,
       ConfigAgrees, NextOut, ToStop
  <2>2. OneProvider'
    BY <1>1, <1>7, <1>8, ProviderKept DEF TableInv, InState
  <2>3. ASSUME NEW c \in Using, NEW k \in Requires[inst[c].def],
               NEW p \in Publishers(k, inst[c].scope)
        PROVE  p \in InState({"active"})'
    <3>1. p \in InState({"active"}) /\ Needs(c, p)
      BY <1>7, <2>3 DEF Publishers, Needs, Same, Up, InState
    <3> QED
      BY <1>3, <1>7, <3>1
  <2>4. ServicesOutliveUsers'
    BY <1>1, <1>7, <1>8, <2>3, ServicesKept DEF TableInv, Publishers, InState
  <2>5. OrderIsActivation'
    BY <1>1, <1>7, <1>8, OrderKept DEF TableInv, Up, InState
  <2> QED
    BY <2>1, <2>2, <2>4, <2>5 DEF TableInv
<1>11. SavedInv'
  BY <1>1, <1>7, <1>8, SavedKept DEF SavedInv
<1>12. StopInv'
  <2>1. \A c, p \in Mounted : Needs(c, p)' <=> Needs(c, p)
    BY <1>8 DEF Needs, Same
  <2>2. ClosedUnderUse'
    BY <1>1, <1>7, <2>1 DEF ClosedUnderUse
  <2>3. run.kind = "replace" => ReplaceInv'
    BY <1>1, <1>7, <1>8 DEF StopInv, ReplaceInv, Rival, Same
  <2>4. run.kind = "service" => ServiceInv'
    BY <1>1, <1>3, <1>7, <1>8, <2>1 DEF StopInv, ServiceInv, InState
  <2>5. run.kind = "restore" => RestoreInv'
    BY <1>1, <1>3, <1>6, <1>7 DEF StopInv, RestoreInv, Changed
  <2> QED
    BY <1>1, <1>7, <2>2, <2>3, <2>4, <2>5 DEF StopInv
<1>13. RunInv'
  BY <1>1, <1>12 DEF IInv, RunInv
<1> QED
  BY <1>9, <1>10, <1>11, <1>13 DEF IInv

LEMMA UnloadedKeeps ==
  ASSUME IInv, NEW i \in Id, NEW fails \in BOOLEAN, Unloaded(i, fails)
  PROVE  IInv'
<1>1. /\ run.mode = "stop" /\ i \in Unloading /\ Loading = {}
      /\ UNCHANGED <<down, closed, saved>>
      /\ TypeOK /\ TableInv /\ SavedInv /\ StopInv /\ ClosedUnderUse
      /\ order' = RemoveFirst(order, i)
      /\ open' = open \ {inst[i].owned}
      /\ run' = [run EXCEPT !.failed = @ \/ fails]
  BY NothingMoves DEF Unloaded, Stopping, Release, IInv, TableInv, RunInv, StopInv
<1>2. PICK n \in NextOut : order[n] = i
  BY <1>1 DEF TableInv, OneAtATime
<1>3. /\ i \in run.todo /\ i \in Up /\ \A c \in Up : ~Needs(c, i)
      /\ n \in 1..Len(order)
  BY <1>1, <1>2, LastHasNoUsers DEF NextOut, ToStop
<1>4. /\ i \in Mounted /\ inst[i].state = "unloading" /\ inst[i] \in Instance
      /\ i \in Using /\ Unloading = {i}
  <2>1. i \in Mounted /\ inst[i].state = "unloading" /\ inst[i] \in Instance /\ i \in Using
    BY <1>1, InstanceTypes DEF Unloading, InState, Using
  <2>2. ASSUME NEW j \in Unloading
        PROVE  j = i
    <3>1. PICK m \in NextOut : order[m] = j
      BY <1>1 DEF TableInv, OneAtATime
    <3>2. m = n
      BY <1>2, <3>1 DEF NextOut, ToStop
    <3> QED
      BY <1>2, <3>1, <3>2
  <2> QED
    BY <1>1, <2>1, <2>2
<1>5. /\ inst' \in [Id -> Instance \cup {None}]
      /\ \A j \in Id \ {i} : inst'[j] = inst[j]
      /\ inst'[i] \in Instance
      /\ inst'[i].state = "pending"
      /\ inst'[i].def = inst[i].def /\ inst'[i].scope = inst[i].scope
      /\ inst'[i].owned = None
      /\ inst'[i].config = inst[i].config
      /\ inst'[i].prepared = inst[i].prepared
  BY <1>1, <1>4 DEF Unloaded, Instance, State, TypeOK, NoValues
<1>6. /\ run' \in Run
      /\ run'.mode = "stop" /\ run'.kind = run.kind /\ run'.id = run.id
      /\ run'.change = run.change /\ run'.todo = run.todo
  BY <1>1 DEF TypeOK, Run
<1>7. /\ Mounted' = Mounted /\ Mounted \subseteq Id
      /\ Using = Up /\ Up \subseteq Mounted
      /\ Using' = Using \ {i} /\ Up' = Up \ {i} /\ Loading' = {} /\ Unloading' = {}
      /\ InState({"active"})' = InState({"active"})
      /\ i \notin InState({"active"})
      /\ InState(State \ {"disposed"})' = InState(State \ {"disposed"})
  BY <1>1, <1>4, <1>5, NoneAssumption
     DEF Mounted, Using, Up, InState, Loading, Unloading, State
<1>8. /\ order' \in Seq(Id)
      /\ Len(order') = Len(order) - 1
      /\ \A m \in 1..Len(order') : order'[m] = IF m < n THEN order[m] ELSE order[m + 1]
  <2>1. order \in Seq(Id) /\ \A m \in 1..Len(order) : order[m] = order[n] => m = n
    BY <1>1, <1>3, Places DEF TypeOK, TableInv
  <2> QED
    BY <1>1, <1>2, <1>3, <2>1, RemovedOnce
<1>9. TypeOK'
  BY <1>1, <1>5, <1>6, <1>8 DEF TypeOK
<1>10. \A j \in Mounted : inst'[j].def = inst[j].def /\ inst'[j].scope = inst[j].scope
  BY <1>4, <1>5, <1>7
<1>11. TableInv'
  <2>1. OneAtATime' /\ OwnContext'
    BY <1>1, <1>5, <1>7 DEF TableInv, OneAtATime, OwnContext
  <2>2. NoOrphans'
    <3>1. \A j \in Using \ {i} : inst[j].owned # inst[i].owned
      BY <1>1, <1>4, <1>7 DEF TableInv, OwnContext
    <3> QED
      BY <1>1, <1>5, <1>7, <3>1 DEF TableInv, NoOrphans
  <2>3. ConfigAgrees'
    BY <1>1, <1>5, <1>7 DEF TableInv, ConfigAgrees
  <2>4. OneProvider'
    BY <1>1, <1>7, <1>10, ProviderKept DEF TableInv, InState
  <2>5. ServicesOutliveUsers'
    BY <1>1, <1>5, <1>7, <1>10, ServicesKept DEF TableInv, Publishers, InState
  <2>6. OrderIsActivation'
    <3>1. /\ DOMAIN order' = 1..Len(order')
          /\ DOMAIN order = 1..Len(order)
          /\ Len(order) \in Nat
      BY <1>1, <1>8 DEF TypeOK
    <3>2. \A m \in 1..Len(order') :
            \E x \in 1..Len(order) : /\ x # n
                                    /\ order'[m] = order[x]
                                    /\ x = IF m < n THEN m ELSE m + 1
      BY <1>3, <1>8, <3>1
    <3>3. \A x \in 1..Len(order) : x # n =>
            \E m \in 1..Len(order') : order'[m] = order[x]
      <4>1. ASSUME NEW x \in 1..Len(order), x < n
            PROVE  x \in 1..Len(order') /\ order'[x] = order[x]
        BY <1>3, <1>8, <3>1, <4>1
      <4>2. ASSUME NEW x \in 1..Len(order), x > n
            PROVE  x - 1 \in 1..Len(order') /\ order'[x - 1] = order[x]
        BY <1>3, <1>8, <3>1, <4>2
      <4> QED
        BY <1>3, <4>1, <4>2, <3>1
    <3>4. ToSet(order') = Up \ {i}
      <4>1. \A j \in Up \ {i} : \E m \in 1..Len(order') : order'[m] = j
        BY <1>1, <1>2, <3>3, Places DEF TableInv
      <4>2. \A m \in 1..Len(order') : order'[m] \in Up \ {i}
        BY <1>1, <1>2, <1>3, <3>2, Places DEF TableInv
      <4> QED
        BY <3>1, <4>1, <4>2 DEF ToSet
    <3>5. ASSUME NEW m1 \in 1..Len(order'), NEW m2 \in 1..Len(order')
          PROVE  /\ order'[m1] = order'[m2] => m1 = m2
                 /\ Needs(order[m1], order[m2])' => m2 < m1
      <4>1. PICK x1 \in 1..Len(order) : /\ order'[m1] = order[x1]
                                        /\ x1 = IF m1 < n THEN m1 ELSE m1 + 1
        BY <3>2
      <4>2. PICK x2 \in 1..Len(order) : /\ order'[m2] = order[x2]
                                        /\ x2 = IF m2 < n THEN m2 ELSE m2 + 1
        BY <3>2
      <4>3. order[x1] = order[x2] => x1 = x2
        BY <1>1, Places DEF TableInv
      <4>4. Needs(order[x1], order[x2]) => x2 < x1
        BY <1>1, Places DEF TableInv
      <4>5. order[x1] \in Mounted \ {i} /\ order[x2] \in Mounted \ {i}
        BY <1>7, <3>1, <3>4, <4>1, <4>2 DEF ToSet
      <4>6. inst'[order[x1]] = inst[order[x1]] /\ inst'[order[x2]] = inst[order[x2]]
        BY <1>5, <1>7, <4>5
      <4>7. Needs(order[m1], order[m2])' => Needs(order[x1], order[x2])
        BY <4>1, <4>2, <4>6 DEF Needs, Same
      <4> QED
        BY <1>3, <4>1, <4>2, <4>3, <4>4, <4>7
    <3> QED
      BY <1>7, <3>4, <3>5 DEF OrderIsActivation, Up
  <2> QED
    BY <2>1, <2>2, <2>3, <2>4, <2>5, <2>6 DEF TableInv
<1>12. SavedInv'
  <2>1. \A j \in Using' :
          \/ \A m \in 1..Len(saved) :
               j \in In(saved[m]) => inst'[j].owned # saved[m][j].owned
          \/ /\ j \in Using
             /\ inst'[j].owned = inst[j].owned
             /\ inst'[j].def = inst[j].def
             /\ inst'[j].scope = inst[j].scope
             /\ j \in Up => j \in Up'
    BY <1>5, <1>7
  <2>2. \A c \in Up \cap Up', p \in Up :
          Needs(c, p) => p \in Up' /\ inst'[p].owned = inst[p].owned
    BY <1>3, <1>5, <1>7
  <2>3. \A m \in 1..Len(saved) : In(saved[m]) \subseteq Mounted'
    BY <1>1, <1>7 DEF SavedInv
  <2>4. TypeOK /\ SavedInv /\ saved' = saved
    BY <1>1
  <2> QED
    BY <2>1, <2>2, <2>3, <2>4, SavedKept
<1>13. StopInv'
  <2>1. \A c, p \in Mounted : Needs(c, p)' <=> Needs(c, p)
    BY <1>1, <1>4, <1>5, <1>7, <1>10 DEF Needs, Same
  <2>2. ClosedUnderUse'
    BY <1>1, <1>6, <1>7, <2>1 DEF ClosedUnderUse
  <2>3. run.kind = "replace" => ReplaceInv'
    <3>1. \A j \in Mounted : inst'[j].state # "disposed" => inst[j].state # "disposed"
      BY <1>4, <1>5, <1>7
    <3>2. \A d, sc : Rival(run.id, d, sc)' => Rival(run.id, d, sc)
      BY <1>6, <1>7, <1>10, <3>1 DEF Rival, Same
    <3> QED
      BY <1>1, <1>6, <1>7, <1>10, <3>2 DEF StopInv, ReplaceInv
  <2>4. run.kind = "service" => ServiceInv'
    BY <1>1, <1>3, <1>6, <1>7, <1>10, <2>1 DEF StopInv, ServiceInv, InState
  <2>5. run.kind = "restore" => RestoreInv'
    BY <1>1, <1>3, <1>5, <1>6, <1>7 DEF StopInv, RestoreInv, Changed
  <2> QED
    BY <1>1, <1>6, <1>7, <2>2, <2>3, <2>4, <2>5 DEF StopInv
<1>14. RunInv'
  BY <1>1, <1>6, <1>13 DEF IInv, RunInv
<1> QED
  BY <1>9, <1>11, <1>12, <1>14 DEF IInv

LEMMA CancelKeeps ==
  ASSUME IInv, Cancel
  PROVE  IInv'
<1>1. /\ UNCHANGED <<inst, order, open, down, closed, saved>>
      /\ run.mode = "stop" /\ run.kind # "restore"
      /\ TypeOK /\ TableInv /\ SavedInv /\ RunInv
  BY DEF Cancel, Stopping, table, IInv
<1>2. /\ run' \in Run
      /\ run'.mode = run.mode /\ run'.kind = run.kind /\ run'.id = run.id
      /\ run'.change = run.change /\ run'.todo = run.todo
  BY <1>1 DEF Cancel, TypeOK, Run
<1>3. TypeOK'
  BY <1>1, <1>2 DEF TypeOK
<1>4. TableInv' /\ SavedInv'
  BY <1>1, <1>2, TableUnchanged, SavedUnchanged DEF table
<1>5. StopInv'
  <2>1. /\ Mounted' = Mounted /\ Up' = Up
        /\ InState({"active"})' = InState({"active"})
    BY <1>1 DEF Mounted, Up, InState
  <2>2. \A x, p : Needs(x, p)' <=> Needs(x, p)
    BY <1>1 DEF Needs, Same
  <2>3. ClosedUnderUse => ClosedUnderUse'
    BY <1>2, <2>1, <2>2 DEF ClosedUnderUse
  <2>4. ReplaceInv => ReplaceInv'
    BY <1>1, <1>2, <2>1 DEF ReplaceInv, Rival, Same
  <2>5. ServiceInv => ServiceInv'
    BY <1>1, <1>2, <2>1, <2>2 DEF ServiceInv
  <2>6. RestoreInv => RestoreInv'
    BY <1>1, <1>2, <2>1 DEF RestoreInv, Changed
  <2> QED
    BY <1>1, <1>2, <2>1, <2>3, <2>4, <2>5, <2>6 DEF RunInv, StopInv
<1>6. RunInv'
  BY <1>1, <1>2, <1>5 DEF RunInv
<1> QED
  BY <1>3, <1>4, <1>6 DEF IInv

\* When everything is stopped, nothing that was to be stopped is up.
LEMMA AllStopped ==
  ASSUME IInv, Stopped
  PROVE  /\ run.mode = "stop" /\ Loading = {} /\ Unloading = {}
         /\ TypeOK /\ TableInv /\ SavedInv /\ StopInv
         /\ run.kind \in Kind \ {"none", "mount"}
         /\ run.todo \subseteq Mounted
         /\ run.todo \cap Up = {}
         /\ Using = Up /\ Up = InState({"active"})
         /\ run.kind \in {"replace", "restore"} => saved # <<>>
<1>1. /\ run.mode = "stop" /\ Loading = {} /\ Unloading = {} /\ ToStop = {}
      /\ TypeOK /\ TableInv /\ SavedInv /\ StopInv /\ RunInv
  BY NothingMoves DEF Stopped, Stopping, IInv, TableInv, RunInv
<1>2. run.todo \cap Up = {}
  BY <1>1, Places DEF ToStop, TableInv
<1> QED
  BY <1>1, <1>2, TableAtRest DEF StopInv, RunInv

\* The operation ends, or goes on, with the instances as they are.
LEMMA StoppedBadlyKeeps ==
  ASSUME IInv, StoppedBadly
  PROVE  IInv'
<1>1. /\ Stopped /\ run.kind \notin {"unmount", "close", "restore"}
      /\ Raise /\ UNCHANGED <<table, down, closed>>
  BY DEF StoppedBadly
<1>2. /\ Loading = {} /\ Unloading = {} /\ TypeOK /\ SavedInv
      /\ down' \subseteq Checked /\ closed' \in BOOLEAN
      /\ saved \in Seq([Id -> Instance \cup {None}])
  BY <1>1, AllStopped DEF TypeOK
<1>3. saved' = saved
  BY <1>1 DEF Raise, Return
<1>4. SavedInv'
  BY <1>1, <1>2, <1>3, SavedUnchanged DEF table
<1>5. CASE run.kind = "replace"
  <2>1. saved # <<>> /\ StartRestore(saved'[1])
    BY <1>1, <1>3, <1>5, AllStopped DEF Raise
  <2> QED
    BY <1>1, <1>2, <1>3, <1>4, <2>1, RestoreBegins
<1>6. CASE run.kind # "replace"
  <2>1. run' = Idle
    BY <1>1, <1>6 DEF Raise, Return
  <2>2. RunInv' /\ run' \in Run
    BY <2>1, IdleFields DEF RunInv, StopInv
  <2> QED
    BY <1>1, <1>2, <1>3, <1>4, <2>2, TableKept
<1> QED
  BY <1>5, <1>6

\* An instance that is not up is marked, or is given another definition.
LEMMA AsideKeeps ==
  ASSUME TypeOK, TableInv, SavedInv, Loading = {}, Unloading = {},
         UNCHANGED <<order, open, saved>>,
         inst' \in [Id -> Instance \cup {None}],
         NEW i \in Mounted, i \notin Up,
         \A j \in Id \ {i} : inst'[j] = inst[j],
         inst'[i] \in Instance, inst'[i].state \in {"pending", "disposed"},
         inst'[i].owned = inst[i].owned,
         inst'[i].prepared = <<inst'[i].def, inst'[i].config>>,
         inst'[i].state = "disposed" \/ ~Rival(i, inst'[i].def, inst'[i].scope)
  PROVE  TableInv' /\ SavedInv' /\ Mounted' = Mounted
<1>1. /\ Mounted' = Mounted /\ Mounted \subseteq Id
      /\ Using = Up /\ Up \subseteq Mounted \ {i}
      /\ Using' = Using /\ Up' = Up /\ Loading' = {} /\ Unloading' = {}
      /\ InState({"active"})' = InState({"active"})
      /\ i \notin InState({"active"})
      /\ InState(State \ {"disposed"})' \subseteq InState(State \ {"disposed"}) \cup {i}
  BY NoneAssumption DEF Mounted, Using, Up, InState, Loading, Unloading
<1>2. OneAtATime' /\ OwnContext' /\ NoOrphans' /\ ConfigAgrees'
  BY <1>1 DEF TableInv, OneAtATime, OwnContext, NoOrphans, ConfigAgrees
<1>3. OneProvider'
  <2> SUFFICES ASSUME NEW a \in InState(State \ {"disposed"})',
                      NEW b \in InState(State \ {"disposed"})',
                      NEW k \in Provides[inst'[a].def] \cap Provides[inst'[b].def],
                      Same(k, inst'[a].scope, inst'[b].scope), a # b
               PROVE  FALSE
    BY DEF OneProvider, Same
  <2>1. CASE a # i /\ b # i
    BY <1>1, <2>1 DEF TableInv, OneProvider, InState
  <2>2. CASE a = i
    <3>1. Rival(i, inst'[i].def, inst'[i].scope)
      BY <1>1, <2>2 DEF Rival, Same, InState
    <3> QED
      BY <2>2, <3>1 DEF InState
  <2>3. CASE b = i
    <3>1. Rival(i, inst'[i].def, inst'[i].scope)
      BY <1>1, <2>3 DEF Rival, Same, InState
    <3> QED
      BY <2>3, <3>1 DEF InState
  <2> QED
    BY <2>1, <2>2, <2>3
<1>4. ServicesOutliveUsers'
  <2>1. \A j \in Using' : j \in Using /\ inst'[j] = inst[j]
    BY <1>1
  <2>2. \A k, sc : \A p \in Publishers(k, sc) :
          p \in InState({"active"})' /\ inst'[p] = inst[p]
    BY <1>1 DEF Publishers, InState
  <2> QED
    BY <2>1, <2>2, ServicesKept DEF TableInv
<1>5. OrderIsActivation'
  BY <1>1, OrderKept DEF TableInv, Up, InState
<1>6. SavedInv'
  <2>1. \A j \in Using' :
          \/ \A m \in 1..Len(saved) :
               j \in In(saved[m]) => inst'[j].owned # saved[m][j].owned
          \/ /\ j \in Using
             /\ inst'[j].owned = inst[j].owned
             /\ inst'[j].def = inst[j].def
             /\ inst'[j].scope = inst[j].scope
             /\ j \in Up => j \in Up'
    BY <1>1
  <2>2. \A c \in Up \cap Up', p \in Up :
          Needs(c, p) => p \in Up' /\ inst'[p].owned = inst[p].owned
    BY <1>1
  <2>3. \A m \in 1..Len(saved) : In(saved[m]) \subseteq Mounted'
    BY <1>1 DEF SavedInv
  <2> QED
    BY <2>1, <2>2, <2>3, SavedKept
<1> QED
  BY <1>1, <1>2, <1>3, <1>4, <1>5, <1>6 DEF TableInv

LEMMA StoppedUnmountKeeps ==
  ASSUME IInv, StoppedUnmount
  PROVE  IInv'
<1>1. /\ Stopped /\ run.kind = "unmount"
      /\ UNCHANGED <<order, down, open, closed, saved>> /\ run' = Idle
  BY DEF StoppedUnmount, Return
<1>2. /\ Loading = {} /\ Unloading = {} /\ TypeOK /\ TableInv /\ SavedInv
      /\ run.id \in Mounted /\ run.id \notin Up
  BY <1>1, AllStopped DEF StopInv
<1>3. RunInv' /\ run' \in Run
  BY <1>1, IdleFields DEF RunInv, StopInv
<1>4. CASE run.cancelled
  <2>1. UNCHANGED table
    BY <1>1, <1>4 DEF StoppedUnmount, table
  <2>2. SavedInv'
    BY <1>1, <1>2, <2>1, SavedUnchanged DEF table
  <2> QED
    BY <1>1, <1>2, <1>3, <2>1, <2>2, TableKept DEF TypeOK
<1>5. CASE ~run.cancelled
  <2> DEFINE i == run.id
  <2>1. inst' = [inst EXCEPT ![i].state = "disposed"]
    BY <1>1, <1>5 DEF StoppedUnmount, SetState
  <2>2. i \in Id /\ inst[i] \in Instance /\ inst \in [Id -> Instance \cup {None}]
    BY <1>2, InstanceTypes DEF TypeOK
  <2> HIDE DEF i
  <2>3. /\ inst' \in [Id -> Instance \cup {None}]
        /\ \A j \in Id \ {i} : inst'[j] = inst[j]
        /\ inst'[i] \in Instance /\ inst'[i].state = "disposed"
        /\ inst'[i].owned = inst[i].owned
        /\ inst'[i].prepared = inst[i].prepared
        /\ inst'[i].def = inst[i].def /\ inst'[i].config = inst[i].config
    BY <2>1, <2>2 DEF Instance, State
  <2>4. inst[i].prepared = <<inst[i].def, inst[i].config>>
    BY <1>2 DEF TableInv, ConfigAgrees, i
  <2>5. i \in Mounted /\ i \notin Up
    BY <1>2 DEF i
  <2>6. TableInv' /\ SavedInv'
    BY <1>1, <1>2, <2>3, <2>4, <2>5, AsideKeeps
  <2>7. TypeOK'
    BY <1>1, <1>2, <1>3, <2>3 DEF TypeOK
  <2> QED
    BY <1>3, <2>6, <2>7 DEF IInv
<1> QED
  BY <1>4, <1>5

LEMMA StoppedReplaceKeeps ==
  ASSUME IInv, StoppedReplace
  PROVE  IInv'
<1> DEFINE i == run.id
           d == run.change[1]
           c == run.change[2]
<1>1. /\ Stopped /\ run.kind = "replace" /\ Settle("replace")
      /\ UNCHANGED <<order, down, open, closed, saved>>
      /\ inst' = [inst EXCEPT ![i].def = d, ![i].config = c,
                              ![i].prepared = run.change, ![i].state = "pending"]
  BY DEF StoppedReplace
<1>2. /\ Loading = {} /\ Unloading = {} /\ TypeOK /\ TableInv /\ SavedInv
      /\ i \in Mounted /\ i \notin Up /\ saved # <<>>
      /\ run.change \in Def \X Config /\ ~Rival(i, d, inst[i].scope)
  BY <1>1, AllStopped DEF StopInv, ReplaceInv
<1>3. /\ i \in Id /\ inst[i] \in Instance /\ inst \in [Id -> Instance \cup {None}]
      /\ d \in Def /\ c \in Config /\ run.change = <<d, c>>
  BY <1>2, InstanceTypes DEF TypeOK
<1>4. run' \in Run /\ run'.mode = "settle" /\ run'.kind = "replace"
  BY <1>1, IdleFields DEF Kind
<1>5. /\ inst' = [inst EXCEPT ![i].def = d, ![i].config = c,
                              ![i].prepared = <<d, c>>, ![i].state = "pending"]
  BY <1>1, <1>3
<1> HIDE DEF i, d, c
<1>6. /\ inst' \in [Id -> Instance \cup {None}]
      /\ \A j \in Id \ {i} : inst'[j] = inst[j]
      /\ inst'[i] \in Instance /\ inst'[i].state = "pending"
      /\ inst'[i].owned = inst[i].owned
      /\ inst'[i].prepared = <<d, c>> /\ inst'[i].scope = inst[i].scope
      /\ inst'[i].def = d /\ inst'[i].config = c
  BY <1>3, <1>5 DEF Instance, State
<1>7. TableInv' /\ SavedInv'
  BY <1>1, <1>2, <1>6, AsideKeeps
<1>8. TypeOK'
  BY <1>1, <1>2, <1>4, <1>6 DEF TypeOK
<1>9. RunInv'
  BY <1>1, <1>2, <1>4 DEF RunInv, StopInv
<1> QED
  BY <1>7, <1>8, <1>9 DEF IInv

LEMMA StoppedCloseKeeps ==
  ASSUME IInv, StoppedClose
  PROVE  IInv'
<1>1. /\ Stopped /\ run.kind = "close" /\ run' = Idle
      /\ UNCHANGED <<order, down, open, closed, saved>>
      /\ inst' = [i \in Id |-> IF inst[i] = None THEN None
                              ELSE [inst[i] EXCEPT !.state = "disposed"]]
  BY DEF StoppedClose, Return
<1>2. /\ TypeOK /\ TableInv /\ SavedInv /\ Up = {} /\ Using = {}
  BY <1>1, AllStopped DEF StopInv, Up, InState
<1>3. /\ inst' \in [Id -> Instance \cup {None}]
      /\ \A i \in Id : inst[i] = None => inst'[i] = None
      /\ \A i \in Mounted :
           /\ inst'[i] \in Instance /\ inst'[i].state = "disposed"
           /\ inst'[i].owned = inst[i].owned
           /\ inst'[i].prepared = inst[i].prepared
           /\ inst'[i].def = inst[i].def /\ inst'[i].config = inst[i].config
  <2>1. ASSUME NEW i \in Mounted
        PROVE  /\ inst'[i] = [inst[i] EXCEPT !.state = "disposed"]
               /\ inst'[i] \in Instance
    BY <1>1, <1>2, InstanceTypes DEF Mounted, Instance, State
  <2>2. \A i \in Id : inst[i] = None => inst'[i] = None
    BY <1>1
  <2>3. inst' \in [Id -> Instance \cup {None}]
    BY <1>1, <2>1, <2>2 DEF Mounted
  <2> QED
    BY <1>2, <2>1, <2>2, <2>3, InstanceTypes DEF Instance
<1>4. /\ Mounted' = Mounted /\ Using' = {} /\ Up' = {} /\ Loading' = {}
      /\ Unloading' = {} /\ InState(State \ {"disposed"})' = {}
  BY <1>3, NoneAssumption DEF Mounted, Using, Up, InState, Loading, Unloading
<1>5. TypeOK' /\ RunInv'
  BY <1>1, <1>2, <1>3, IdleFields DEF TypeOK, RunInv, StopInv
<1>6. TableInv'
  <2>1. OneAtATime' /\ OwnContext' /\ ConfigAgrees'
    BY <1>2, <1>3, <1>4 DEF TableInv, OneAtATime, OwnContext, ConfigAgrees
  <2>4. NoOrphans'
    BY <1>1, <1>2, <1>4 DEF TableInv, NoOrphans
  <2>2. OneProvider' /\ ServicesOutliveUsers'
    BY <1>4 DEF OneProvider, ServicesOutliveUsers
  <2>3. OrderIsActivation'
    BY <1>1, <1>2, <1>4, OrderKept DEF TableInv
  <2> QED
    BY <2>1, <2>2, <2>3, <2>4 DEF TableInv
<1>7. SavedInv'
  <2>1. \A m \in 1..Len(saved) : In(saved[m]) \subseteq Mounted'
    BY <1>2, <1>4 DEF SavedInv
  <2> QED
    BY <1>1, <1>2, <1>4, <2>1, SavedKept
<1> QED
  BY <1>5, <1>6, <1>7 DEF IInv

\* Whoever used the service has been stopped; its provider has a new value.
LEMMA StoppedServiceKeeps ==
  ASSUME IInv, StoppedService
  PROVE  IInv'
<1> DEFINE i == run.id
           k == run.change
<1>1. /\ Stopped /\ run.kind = "service" /\ Settle("service")
      /\ UNCHANGED <<order, down, open, closed, saved>>
  BY DEF StoppedService
<1>2. PICK o \in Fresh(i) : inst' = [inst EXCEPT ![i].values[k] = o]
  BY DEF StoppedService
<1>3. /\ Loading = {} /\ Unloading = {} /\ TypeOK /\ TableInv /\ SavedInv
      /\ Using = Up /\ i \in InState({"active"}) /\ k \in Provides[inst[i].def]
      /\ \A c \in Up : ~Needs(c, i)
  BY <1>1, AllStopped DEF StopInv, ServiceInv
<1>4. /\ i \in Id /\ i \in Mounted /\ inst[i] \in Instance
      /\ inst \in [Id -> Instance \cup {None}]
      /\ k \in Key /\ o \in Token /\ k \notin Requires[inst[i].def]
  BY <1>3, InstanceTypes, KeysAssumption DEF TypeOK, InState, Fresh
<1>5. run' \in Run /\ run'.mode = "settle" /\ run'.kind = "service"
  BY <1>1, IdleFields DEF Kind
<1> HIDE DEF i, k
<1>6. /\ inst' \in [Id -> Instance \cup {None}]
      /\ \A j \in Id \ {i} : inst'[j] = inst[j]
      /\ inst'[i] \in Instance
      /\ inst'[i].state = inst[i].state
      /\ inst'[i].def = inst[i].def /\ inst'[i].scope = inst[i].scope
      /\ inst'[i].owned = inst[i].owned
      /\ inst'[i].config = inst[i].config /\ inst'[i].view = inst[i].view
      /\ inst'[i].prepared = inst[i].prepared
      /\ inst'[i].values = [inst[i].values EXCEPT ![k] = o]
  BY <1>2, <1>4 DEF Instance
<1>7. \A q \in Key \ {k} : inst'[i].values[q] = inst[i].values[q]
  BY <1>4, <1>6 DEF Instance
<1>8. /\ Mounted' = Mounted /\ Mounted \subseteq Id
      /\ \A S : InState(S)' = InState(S)
      /\ \A j \in Mounted :
           /\ inst'[j].state = inst[j].state
           /\ inst'[j].def = inst[j].def /\ inst'[j].scope = inst[j].scope
           /\ inst'[j].owned = inst[j].owned
           /\ inst'[j].config = inst[j].config /\ inst'[j].view = inst[j].view
           /\ inst'[j].prepared = inst[j].prepared
  BY <1>4, <1>6, NoneAssumption DEF Mounted, InState
<1>9. /\ Using' = Using /\ Up' = Up /\ Loading' = {} /\ Unloading' = {}
      /\ Up \subseteq Mounted
  BY <1>3, <1>8 DEF Using, Up, Loading, Unloading, InState
<1>10. TypeOK' /\ RunInv'
  BY <1>1, <1>3, <1>5, <1>6 DEF TypeOK, RunInv, StopInv
<1>11. TableInv'
  <2>1. OneAtATime' /\ OwnContext' /\ NoOrphans' /\ ConfigAgrees'
    BY <1>1, <1>3, <1>8, <1>9 DEF TableInv, OneAtATime, OwnContext, NoOrphans, ConfigAgrees
  <2>2. OneProvider'
    BY <1>3, <1>8, ProviderKept DEF TableInv, InState
  <2>3. ASSUME NEW j \in Using, NEW q \in Requires[inst[j].def],
               NEW p \in Publishers(q, inst[j].scope),
               inst[j].values[q] = inst[p].values[q]
        PROVE  /\ p \in InState({"active"})' /\ p \in Mounted
               /\ inst'[j].values[q] = inst'[p].values[q]
    <3>1. p \in InState({"active"}) /\ p \in Mounted /\ Needs(j, p)
      BY <1>3, <2>3 DEF Publishers, Needs, Same, Up, InState
    <3>2. p # i /\ inst'[p] = inst[p]
      BY <1>3, <1>6, <1>8, <3>1
    <3>3. inst'[j].values[q] = inst[j].values[q]
      <4>1. CASE j = i
        <5>1. inst[i].def \in Def /\ q \in Key
          BY <1>4, <2>3, <4>1, KeysAssumption DEF Instance
        <5> QED
          BY <1>4, <1>7, <2>3, <4>1, <5>1
      <4>2. CASE j # i
        BY <1>3, <1>6, <1>8, <1>9, <4>2
      <4> QED
        BY <4>1, <4>2
    <3> QED
      BY <1>8, <2>3, <3>1, <3>2, <3>3
  <2>4. ServicesOutliveUsers'
    BY <1>3, <1>8, <1>9, <2>3, ServicesKept DEF TableInv
  <2>5. OrderIsActivation'
    BY <1>1, <1>3, <1>8, <1>9, OrderKept DEF TableInv, Up, InState
  <2> QED
    BY <2>1, <2>2, <2>4, <2>5 DEF TableInv
<1>12. SavedInv'
  BY <1>1, <1>3, <1>8, <1>9, SavedKept DEF SavedInv
<1> QED
  BY <1>10, <1>11, <1>12 DEF IInv

LEMMA StoppedRefreshKeeps ==
  ASSUME IInv, StoppedRefresh
  PROVE  IInv'
<1>1. /\ Stopped /\ UNCHANGED <<table, down, closed, saved>>
      /\ run' \in Run /\ run'.mode = "settle" /\ run'.kind = "refresh"
  BY IdleFields DEF StoppedRefresh, Kind
<1>2. Loading = {} /\ Unloading = {} /\ TypeOK /\ SavedInv
  BY <1>1, AllStopped
<1>3. SavedInv'
  BY <1>1, <1>2, SavedUnchanged DEF table
<1>4. RunInv'
  BY <1>1 DEF RunInv, StopInv
<1> QED
  BY <1>1, <1>2, <1>3, <1>4, TableKept DEF TypeOK

(***************************************************************************)
(* Rollback                                                                *)
(***************************************************************************)
\* What is up and not to be stopped was up when the snapshot was taken, and
\* so were its providers, which are not to be stopped either.
LEMMA KeptIsServed ==
  ASSUME IInv, Stopped, run.kind = "restore",
         NEW i \in Up
  PROVE  /\ i \notin run.todo
         /\ i \in In(saved[1]) /\ saved[1][i].state = "active"
         /\ inst[i].state = "active"
         /\ saved[1][i].def = inst[i].def /\ saved[1][i].scope = inst[i].scope
         /\ saved[1][i].owned = inst[i].owned
         /\ \A k \in Requires[inst[i].def] : \E p \in Up :
              /\ p \in In(saved[1])
              /\ p \in Publishers(k, inst[i].scope)
              /\ saved[1][i].values[k] = saved[1][p].values[k]
<1> DEFINE old == saved[1]
<1>1. /\ TypeOK /\ TableInv /\ SavedInv /\ Up = InState({"active"}) /\ Using = Up
      /\ run.todo \cap Up = {} /\ RestoreInv /\ saved # <<>>
  BY AllStopped DEF StopInv
<1>2. 1 \in 1..Len(saved)
  BY <1>1 DEF TypeOK
<1>3. AtRest(old) /\ Lasting(old)
  BY <1>1, <1>2 DEF SavedInv
<1>4. ASSUME NEW j \in Up
      PROVE  /\ j \notin run.todo /\ j \in Mounted /\ inst[j].state = "active"
             /\ j \in In(old) /\ old[j].state = "active"
             /\ old[j].def = inst[j].def /\ old[j].scope = inst[j].scope
             /\ old[j].owned = inst[j].owned
  <2>1. j \notin run.todo /\ j \in Mounted /\ inst[j].state = "active"
    BY <1>1 DEF InState
  <2>2. j \notin Changed(old)
    BY <1>1, <2>1 DEF RestoreInv
  <2> QED
    BY <2>1, <2>2 DEF Changed, In, Mounted
<1>5. Survives(old, i)
  BY <1>1, <1>4 DEF Survives
<1>6. ASSUME NEW k \in Requires[inst[i].def]
      PROVE  \E p \in Up : /\ p \in In(old)
                          /\ p \in Publishers(k, inst[i].scope)
                          /\ old[i].values[k] = old[p].values[k]
  <2>1. PICK p \in In(old) : Feeds(old, p, k, i) /\ old[i].values[k] = old[p].values[k]
    BY <1>3, <1>4, <1>6 DEF AtRest
  <2>2. p \in Up
    BY <1>3, <1>4, <1>5, <1>6, <2>1 DEF Lasting, In
  <2>3. p \in Publishers(k, inst[i].scope)
    BY <1>1, <1>4, <2>1, <2>2 DEF Publishers, Feeds, Same
  <2> QED
    BY <2>1, <2>2, <2>3
<1> QED
  BY <1>4, <1>6

LEMMA StoppedRestoreKeeps ==
  ASSUME IInv, StoppedRestore
  PROVE  IInv'
<1> DEFINE old == saved[1]
<1>1. /\ Stopped /\ run.kind = "restore"
      /\ UNCHANGED <<order, down, open, closed, saved>>
      /\ run' = [run EXCEPT !.mode = "settle", !.todo = {}]
  BY DEF StoppedRestore
<1>2. /\ TypeOK /\ TableInv /\ SavedInv /\ RestoreInv
      /\ run.todo \subseteq Mounted /\ run.todo \cap Up = {}
      /\ Using = Up /\ Up = InState({"active"}) /\ saved # <<>>
  BY <1>1, AllStopped DEF StopInv
<1>3. /\ 1 \in 1..Len(saved) /\ old \in [Id -> Instance \cup {None}]
      /\ Head(saved) = old
      /\ AtRest(old) /\ In(old) \subseteq Mounted
  BY <1>2 DEF TypeOK, SavedInv
<1>4. inst' = [i \in Id |-> IF old[i] = None THEN None
                           ELSE IF i \in run.todo THEN Rebuilt(old[i])
                           ELSE Kept(i, old[i])]
  BY <1>3 DEF StoppedRestore
<1> HIDE DEF old
\* The instances that are rebuilt, and those that stay.
<1>5. ASSUME NEW i \in In(old), i \in run.todo
      PROVE  /\ inst'[i] \in Instance
             /\ inst'[i].def = old[i].def /\ inst'[i].scope = old[i].scope
             /\ inst'[i].config = old[i].config
             /\ inst'[i].prepared = old[i].prepared
             /\ inst'[i].owned = None
             /\ inst'[i].state = IF old[i].state = "active" THEN "pending"
                                 ELSE old[i].state
  <2>1. inst'[i] = Rebuilt(old[i]) /\ old[i] \in Instance
    BY <1>3, <1>4, <1>5 DEF In
  <2>2. NoValues \in [Key -> Token \cup {None}]
    BY DEF NoValues
  <2>3. CASE old[i].state = "active"
    <3>1. inst'[i] = [old[i] EXCEPT !.state = "pending", !.owned = None,
                                    !.values = NoValues]
      BY <2>1, <2>3 DEF Rebuilt
    <3> QED
      BY <2>1, <2>2, <2>3, <3>1 DEF Instance, State
  <2>4. CASE old[i].state # "active"
    <3>1. inst'[i] = [old[i] EXCEPT !.state = old[i].state, !.owned = None,
                                    !.values = NoValues]
      BY <2>1, <2>4 DEF Rebuilt
    <3> QED
      BY <2>1, <2>2, <2>4, <3>1 DEF Instance, State
  <2> QED
    BY <2>3, <2>4
<1>6. ASSUME NEW i \in In(old), i \notin run.todo
      PROVE  /\ inst'[i] \in Instance
             /\ inst'[i].def = old[i].def /\ inst'[i].scope = old[i].scope
             /\ inst'[i].config = old[i].config
             /\ inst'[i].prepared = old[i].prepared
             /\ inst'[i].values = old[i].values
             /\ inst'[i].owned = inst[i].owned
             /\ inst'[i].owned # None => inst'[i].view = old[i].config
             /\ inst'[i].state = old[i].state
             /\ inst'[i].def = inst[i].def /\ inst'[i].scope = inst[i].scope
             /\ inst'[i].state = inst[i].state
  <2>1. inst'[i] = Kept(i, old[i]) /\ old[i] \in Instance /\ i \in Mounted
    BY <1>3, <1>4, <1>6 DEF In
  <2>2. inst[i] \in Instance
    BY <1>2, <2>1, InstanceTypes
  <2>3. i \notin Changed(old)
    BY <1>2, <1>6, <2>1 DEF RestoreInv, old
  <2>4. /\ inst[i].def = old[i].def /\ inst[i].scope = old[i].scope
        /\ inst[i].state = old[i].state
    BY <2>1, <2>3 DEF Changed
  <2> QED
    BY <2>1, <2>2, <2>4 DEF Kept, Instance
<1>7. /\ inst' \in [Id -> Instance \cup {None}]
      /\ \A i \in Id : old[i] = None => inst'[i] = None
      /\ Mounted' = In(old)
  <2>1. \A i \in Id : i \in In(old) => inst'[i] \in Instance
    BY <1>5, <1>6
  <2>2. \A i \in Id : old[i] = None => inst'[i] = None
    BY <1>4
  <2> QED
    BY <1>4, <2>1, <2>2, NoneAssumption DEF In, Mounted
<1>8. \A i \in Up : /\ i \notin run.todo /\ i \in In(old) /\ old[i].state = "active"
                    /\ inst[i].state = "active"
  BY <1>1, KeptIsServed DEF old
<1>9. /\ Using' = Using /\ Up' = Up /\ Up' = InState({"active"})'
      /\ Loading' = {} /\ Unloading' = {}
  <2>1. ASSUME NEW i \in In(old)
        PROVE  /\ inst'[i].state \in {"pending", "active", "failed", "disposed"}
               /\ inst'[i].state = "active" => i \in Up
    <3>1. old[i].state \in {"pending", "active", "failed", "disposed"}
      BY <1>3 DEF AtRest
    <3>2. CASE i \in run.todo
      BY <1>5, <3>1, <3>2
    <3>3. CASE i \notin run.todo
      BY <1>2, <1>3, <1>6, <3>1, <3>3 DEF InState
    <3> QED
      BY <3>2, <3>3
  <2>2. \A i \in Up : i \in In(old) /\ inst'[i].state = "active"
    BY <1>6, <1>8
  <2> QED
    BY <1>2, <1>7, <2>1, <2>2 DEF InState, Using, Up, Loading, Unloading
<1>10. \A i \in Up : /\ inst'[i].owned = inst[i].owned
                     /\ inst'[i].def = inst[i].def /\ inst'[i].scope = inst[i].scope
                     /\ inst'[i].values = old[i].values /\ inst'[i].state = "active"
  BY <1>6, <1>8
<1>11. /\ run' \in Run
       /\ run'.mode = "settle" /\ run'.kind = "restore"
  BY <1>1, <1>2 DEF TypeOK, Run, Mode
<1>12. TypeOK'
  BY <1>1, <1>2, <1>7, <1>11 DEF TypeOK
<1>13. TableInv'
  <2>1. OneAtATime'
    BY <1>9 DEF OneAtATime
  <2>2. OwnContext'
    BY <1>2, <1>3, <1>5, <1>6, <1>7, <1>9, <1>10 DEF TableInv, OwnContext
  <2>3. NoOrphans'
    BY <1>1, <1>2, <1>9, <1>10 DEF TableInv, NoOrphans
  <2>4. ConfigAgrees'
    <3>1. ASSUME NEW i \in In(old)
          PROVE  inst'[i].prepared = <<inst'[i].def, inst'[i].config>>
      BY <1>3, <1>5, <1>6 DEF AtRest
    <3>2. ASSUME NEW i \in Up
          PROVE  inst'[i].view = inst'[i].config
      <4>1. i \in In(old) /\ i \notin run.todo /\ inst[i].owned # None
        BY <1>2, <1>3, <1>8 DEF TableInv, OwnContext
      <4> QED
        BY <1>6, <4>1
    <3> QED
      BY <1>2, <1>7, <1>9, <3>1, <3>2 DEF ConfigAgrees
  <2>5. OneProvider'
    <3>1. ASSUME NEW i \in InState(State \ {"disposed"})'
          PROVE  /\ i \in In(old) /\ old[i].state # "disposed"
                 /\ inst'[i].def = old[i].def /\ inst'[i].scope = old[i].scope
      BY <1>5, <1>6, <1>7 DEF InState
    <3> QED
      BY <1>3, <3>1 DEF OneProvider, AtRest, Same
  <2>6. ServicesOutliveUsers'
    <3> SUFFICES ASSUME NEW i \in Up, NEW k \in Requires[inst[i].def]
                 PROVE  \E p \in Publishers(k, inst[i].scope)' :
                          inst'[i].values[k] = inst'[p].values[k]
      BY <1>2, <1>9, <1>10 DEF ServicesOutliveUsers
    <3>1. PICK p \in Up : /\ p \in In(old)
                          /\ p \in Publishers(k, inst[i].scope)
                          /\ old[i].values[k] = old[p].values[k]
      BY <1>1, KeptIsServed DEF old
    <3>2. p \in Publishers(k, inst[i].scope)'
      BY <1>9, <1>10, <3>1 DEF Publishers, Same
    <3> QED
      BY <1>10, <3>1, <3>2
  <2>7. OrderIsActivation'
    BY <1>1, <1>2, <1>9, <1>10, OrderKept DEF TableInv
  <2> QED
    BY <2>1, <2>2, <2>3, <2>4, <2>5, <2>6, <2>7 DEF TableInv
<1>14. SavedInv'
  <2>1. \A j \in Using' :
          \/ \A m \in 1..Len(saved) :
               j \in In(saved[m]) => inst'[j].owned # saved[m][j].owned
          \/ /\ j \in Using
             /\ inst'[j].owned = inst[j].owned
             /\ inst'[j].def = inst[j].def
             /\ inst'[j].scope = inst[j].scope
             /\ j \in Up => j \in Up'
    BY <1>2, <1>9, <1>10
  <2>2. \A c \in Up \cap Up', p \in Up :
          Needs(c, p) => p \in Up' /\ inst'[p].owned = inst[p].owned
    BY <1>9, <1>10
  <2>3. \A m \in 1..Len(saved) : In(saved[m]) \subseteq Mounted'
    <3>1. \A m \in 1..Len(saved) : 1 \in 1..m
      BY <1>2 DEF TypeOK
    <3> QED
      BY <1>2, <1>7, <3>1 DEF SavedInv, old
  <2>4. TypeOK /\ SavedInv /\ saved' = saved
    BY <1>1, <1>2
  <2> QED
    BY <2>1, <2>2, <2>3, <2>4, SavedKept
<1>15. RunInv'
  <2>1. Regained(old)'
    <3> SUFFICES ASSUME NEW i \in Id
                 PROVE  IF old[i] = None THEN inst'[i] = None
                        ELSE /\ i \in Mounted'
                             /\ inst'[i].def = old[i].def
                             /\ inst'[i].scope = old[i].scope
                             /\ inst'[i].config = old[i].config
                             /\ old[i].state \in {"disposed", "failed"} =>
                                  inst'[i].state = old[i].state
                             /\ old[i].state = "active" =>
                                  /\ inst'[i].state \in {"pending", "loading", "active"}
                                  /\ inst'[i].owned = old[i].owned =>
                                       inst'[i].values = old[i].values
      BY <1>1 DEF Regained, old
    <3>1. i \in In(old) /\ old[i].state = "active" => old[i].owned # None
      BY <1>3 DEF AtRest
    <3> QED
      BY <1>5, <1>6, <1>7, <3>1 DEF In
  <2> QED
    BY <1>1, <1>2, <1>11, <2>1 DEF RunInv, StopInv, old
<1> QED
  BY <1>12, <1>13, <1>14, <1>15 DEF IInv

(***************************************************************************)
(* Activation                                                              *)
(***************************************************************************)
LEMMA ProviderIsRight ==
  ASSUME NEW i \in Ready, NEW k \in Requires[inst[i].def]
  PROVE  Provider(k, inst[i].scope) \in Publishers(k, inst[i].scope)
<1>1. Available(k, inst[i].scope) # {}
  BY DEF Ready, Missing
<1>2. Provider(k, inst[i].scope) \in Available(k, inst[i].scope)
  BY <1>1 DEF Provider
<1> QED
  BY <1>2 DEF Available

\* A new context is none of those a snapshot refers to.
LEMMA FreshIsNew ==
  ASSUME TypeOK, NEW i \in Id, NEW o \in Fresh(i)
  PROVE  /\ o \in Token /\ o[1] = i /\ o # None
         /\ \A n \in 1..Len(saved) : i \in In(saved[n]) => o # saved[n][i].owned
<1>1. o \in Token /\ o[1] = i /\ o \notin Used
  BY DEF Fresh
<1>2. ASSUME NEW n \in 1..Len(saved), i \in In(saved[n])
      PROVE  saved[n][i].owned \in Used
  <2> DEFINE Refs(tab) == UNION {{tab[j].owned} \cup {tab[j].values[k] : k \in Key} :
                                  j \in {x \in Id : tab[x] # None}}
  <2>1. saved[n][i].owned \in Refs(saved[n])
    BY <1>2 DEF In
  <2>2. Refs(saved[n]) \subseteq UNION {Refs(saved[m]) : m \in 1..Len(saved)}
    OBVIOUS
  <2> QED
    BY <2>1, <2>2 DEF Used
<1> QED
  BY <1>1, <1>2, NoneAssumption

LEMMA ActivateKeeps ==
  ASSUME IInv, NEW i \in Id, Activate(i)
  PROVE  IInv'
<1>1. /\ run.mode = "settle" /\ i \in Ready
      /\ run' = [run EXCEPT !.mode = "loading"]
      /\ UNCHANGED <<order, down, closed, saved>>
      /\ TypeOK /\ TableInv /\ SavedInv /\ RunInv /\ Loading = {} /\ Unloading = {}
  BY FreeFacts DEF Activate, IInv
<1>2. PICK o \in Fresh(i) :
        /\ inst' = [inst EXCEPT ![i].state = "loading", ![i].owned = o,
                                ![i].values = Captured(i), ![i].view = inst[i].config]
        /\ open' = open \cup {o}
  BY DEF Activate
<1>3. /\ o \in Token /\ o[1] = i /\ o # None
      /\ \A n \in 1..Len(saved) : i \in In(saved[n]) => o # saved[n][i].owned
  BY <1>1, FreshIsNew
<1>4. /\ i \in Mounted /\ inst[i] \in Instance /\ inst[i].state = "pending"
      /\ inst \in [Id -> Instance \cup {None}]
      /\ inst[i].def \in Def /\ Requires[inst[i].def] \subseteq Key
  BY <1>1, InstanceTypes, KeysAssumption DEF Ready, InState, TypeOK
<1>5. ASSUME NEW k \in Requires[inst[i].def]
      PROVE  \E p \in Publishers(k, inst[i].scope) :
               /\ p \in Mounted /\ p # i /\ inst[p].state = "active"
               /\ Captured(i)[k] = inst[p].values[k]
  <2>1. Provider(k, inst[i].scope) \in Publishers(k, inst[i].scope)
    BY <1>1, ProviderIsRight
  <2>2. Captured(i)[k] = inst[Provider(k, inst[i].scope)].values[k]
    BY <1>4 DEF Captured
  <2> QED
    BY <1>4, <2>1, <2>2 DEF Publishers, InState
<1>6. Captured(i) \in [Key -> Token \cup {None}]
  <2>1. ASSUME NEW k \in Key
        PROVE  Captured(i)[k] \in Token \cup {None}
    <3>1. CASE k \in Requires[inst[i].def]
      <4>1. PICK p \in Mounted : Captured(i)[k] = inst[p].values[k]
        BY <1>5, <3>1
      <4>2. inst[p].values \in [Key -> Token \cup {None}]
        BY <1>1, InstanceTypes DEF Instance
      <4> QED
        BY <4>1, <4>2
    <3>2. CASE k \notin Requires[inst[i].def]
      BY <3>2 DEF Captured
    <3> QED
      BY <3>1, <3>2
  <2> QED
    BY <2>1 DEF Captured
<1>7. /\ inst' \in [Id -> Instance \cup {None}]
      /\ \A j \in Id \ {i} : inst'[j] = inst[j]
      /\ inst'[i] \in Instance
      /\ inst'[i].state = "loading" /\ inst'[i].owned = o
      /\ inst'[i].values = Captured(i) /\ inst'[i].view = inst[i].config
      /\ inst'[i].def = inst[i].def /\ inst'[i].scope = inst[i].scope
      /\ inst'[i].config = inst[i].config /\ inst'[i].prepared = inst[i].prepared
  <2> DEFINE cap == Captured(i)
  <2>1. cap \in [Key -> Token \cup {None}]
    BY <1>6
  <2>2. inst' = [inst EXCEPT ![i].state = "loading", ![i].owned = o,
                             ![i].values = cap, ![i].view = inst[i].config]
    BY <1>2
  <2> HIDE DEF cap
  <2>3. /\ inst' \in [Id -> Instance \cup {None}]
        /\ \A j \in Id \ {i} : inst'[j] = inst[j]
        /\ inst'[i] \in Instance
        /\ inst'[i].state = "loading" /\ inst'[i].owned = o
        /\ inst'[i].values = cap /\ inst'[i].view = inst[i].config
        /\ inst'[i].def = inst[i].def /\ inst'[i].scope = inst[i].scope
        /\ inst'[i].config = inst[i].config /\ inst'[i].prepared = inst[i].prepared
    BY <1>3, <1>4, <2>1, <2>2 DEF Instance, State
  <2> QED
    BY <2>3 DEF cap
<1>8. /\ Mounted' = Mounted /\ Mounted \subseteq Id
      /\ Using = Up /\ Up \subseteq Mounted \ {i}
      /\ Using' = Using \cup {i} /\ Up' = Up /\ Loading' = {i} /\ Unloading' = {}
      /\ InState({"active"})' = InState({"active"})
      /\ i \notin InState({"active"})
      /\ InState(State \ {"disposed"})' = InState(State \ {"disposed"})
  BY <1>1, <1>4, <1>7, NoneAssumption
     DEF Mounted, Using, Up, InState, Loading, Unloading, State
<1>9. run' \in Run /\ run'.mode = "loading" /\ run'.kind = run.kind
      /\ run'.failed = run.failed /\ run'.cancelled = run.cancelled
  BY <1>1 DEF TypeOK, Run, Mode
<1>10. TypeOK'
  BY <1>1, <1>2, <1>3, <1>7, <1>9 DEF TypeOK
<1>11. TableInv'
  <2>1. OneAtATime'
    BY <1>8, <1>9 DEF OneAtATime
  <2>2. OwnContext' /\ ConfigAgrees'
    BY <1>1, <1>3, <1>4, <1>7, <1>8 DEF TableInv, OwnContext, ConfigAgrees
  <2>3. NoOrphans'
    <3>1. \A j \in Using : inst'[j].owned = inst[j].owned
      BY <1>7, <1>8
    <3> QED
      BY <1>1, <1>2, <1>7, <1>8, <3>1 DEF TableInv, NoOrphans
  <2>4. OneProvider'
    BY <1>1, <1>7, <1>8, ProviderKept DEF TableInv, InState
  <2>5. ServicesOutliveUsers'
    <3>1. \A k, sc : \A p \in Publishers(k, sc) :
            p \in Publishers(k, sc)' /\ inst'[p] = inst[p]
      BY <1>7, <1>8 DEF Publishers, Same, InState
    <3>2. ASSUME NEW j \in Using, NEW k \in Requires[inst[j].def]
          PROVE  \E p \in Publishers(k, inst[j].scope)' :
                   inst'[j].values[k] = inst'[p].values[k]
      <4>1. PICK p \in Publishers(k, inst[j].scope) : inst[j].values[k] = inst[p].values[k]
        BY <1>1, <3>2 DEF TableInv, ServicesOutliveUsers
      <4>2. inst'[j] = inst[j]
        BY <1>7, <1>8
      <4>3. p \in Publishers(k, inst[j].scope)' /\ inst'[p] = inst[p]
        BY <1>7, <1>8, <4>1, <4>2 DEF Publishers, Same, InState
      <4> QED
        BY <4>1, <4>2, <4>3
    <3>3. ASSUME NEW k \in Requires[inst[i].def]
          PROVE  \E p \in Publishers(k, inst[i].scope)' :
                   inst'[i].values[k] = inst'[p].values[k]
      <4>1. PICK p \in Publishers(k, inst[i].scope) :
              p \in Mounted /\ p # i /\ Captured(i)[k] = inst[p].values[k]
        BY <1>5
      <4>2. p \in Publishers(k, inst[i].scope)' /\ inst'[p] = inst[p]
        BY <1>7, <1>8, <4>1 DEF Publishers, Same, InState
      <4> QED
        BY <1>7, <4>1, <4>2
    <3> QED
      BY <1>7, <1>8, <3>2, <3>3 DEF ServicesOutliveUsers
  <2>6. OrderIsActivation'
    BY <1>1, <1>7, <1>8, OrderKept DEF TableInv, Up, InState
  <2> QED
    BY <2>1, <2>2, <2>3, <2>4, <2>5, <2>6 DEF TableInv
<1>12. SavedInv'
  <2>1. \A j \in Using' :
          \/ \A m \in 1..Len(saved) :
               j \in In(saved[m]) => inst'[j].owned # saved[m][j].owned
          \/ /\ j \in Using
             /\ inst'[j].owned = inst[j].owned
             /\ inst'[j].def = inst[j].def
             /\ inst'[j].scope = inst[j].scope
             /\ j \in Up => j \in Up'
    BY <1>3, <1>7, <1>8
  <2>2. \A c \in Up \cap Up', p \in Up :
          Needs(c, p) => p \in Up' /\ inst'[p].owned = inst[p].owned
    BY <1>7, <1>8
  <2>3. \A m \in 1..Len(saved) : In(saved[m]) \subseteq Mounted'
    BY <1>1, <1>8 DEF SavedInv
  <2>4. TypeOK /\ SavedInv /\ saved' = saved
    BY <1>1
  <2> QED
    BY <2>1, <2>2, <2>3, <2>4, SavedKept
<1>13. RunInv'
  <2>1. ASSUME run.kind = "restore", Clean
        PROVE  Regained(saved[1])'
    <3>1. Regained(saved[1]) /\ 1 \in 1..Len(saved)
      BY <1>1, <2>1 DEF RunInv, TypeOK
    <3>2. ASSUME NEW j \in Id \ {i}
          PROVE  inst'[j] = inst[j] /\ (j \in Mounted' <=> j \in Mounted)
      BY <1>7, <1>8
    <3>3. saved[1][i] # None /\ saved[1][i].state \notin {"disposed", "failed"}
          /\ inst'[i].owned # saved[1][i].owned
      BY <1>3, <1>4, <1>7, <3>1 DEF Regained, Mounted, In
    <3> QED
      BY <1>1, <1>4, <1>7, <1>8, <3>1, <3>2, <3>3 DEF Regained
  <2> QED
    BY <1>1, <1>9, <2>1 DEF RunInv, StopInv, Clean
<1> QED
  BY <1>10, <1>11, <1>12, <1>13 DEF IInv

\* What is loading is not yet up, so no snapshot took its context.
LEMMA LoadingIsNew ==
  ASSUME TypeOK, TableInv, SavedInv, NEW i \in Loading
  PROVE  \A n \in 1..Len(saved) :
           i \in In(saved[n]) => inst[i].owned # saved[n][i].owned
<1>1. i \in Using /\ i \in Id /\ i \notin Up
  BY DEF Loading, Using, Up, InState, Mounted
<1> QED
  BY <1>1 DEF SavedInv, Lasting, Survives

LEMMA ActivatedKeeps ==
  ASSUME IInv, NEW i \in Id, Activated(i)
  PROVE  IInv'
<1>1. /\ run.mode = "loading" /\ i \in Loading /\ Unloading = {}
      /\ order' = Append(order, i)
      /\ run' = [run EXCEPT !.mode = "settle"]
      /\ UNCHANGED <<down, open, closed, saved>>
      /\ TypeOK /\ TableInv /\ SavedInv /\ RunInv
  BY NothingMoves DEF Activated, IInv, TableInv
<1>2. /\ i \in Mounted /\ inst[i] \in Instance /\ inst[i].state = "loading"
      /\ inst \in [Id -> Instance \cup {None}]
      /\ inst[i].def \in Def /\ i \in Using
      /\ Requires[inst[i].def] \subseteq Key
      /\ Requires[inst[i].def] \cap Provides[inst[i].def] = {}
      /\ inst[i].owned \in Token
      /\ Loading = {i}
  <2>1. /\ i \in Mounted /\ inst[i] \in Instance /\ inst[i].state = "loading"
        /\ inst[i].def \in Def /\ i \in Using
    BY <1>1, InstanceTypes DEF Loading, InState, Using
  <2>2. Loading = {i}
    BY <1>1 DEF TableInv, OneAtATime
  <2>3. inst[i].owned \in Token
    BY <1>1, <2>1, InstanceTypes DEF TableInv, OwnContext
  <2> QED
    BY <1>1, <2>1, <2>2, <2>3, KeysAssumption DEF TypeOK
<1> DEFINE vals == Publish(inst[i].def, inst[i].values, inst[i].owned)
<1>3. /\ vals \in [Key -> Token \cup {None}]
      /\ \A k \in Requires[inst[i].def] : vals[k] = inst[i].values[k]
  BY <1>2 DEF Publish, Instance
<1>4. inst' = [inst EXCEPT ![i].state = "active", ![i].values = vals]
  BY <1>1, <1>2 DEF Activated
<1> HIDE DEF vals
<1>5. /\ inst' \in [Id -> Instance \cup {None}]
      /\ \A j \in Id \ {i} : inst'[j] = inst[j]
      /\ inst'[i] \in Instance
      /\ inst'[i].state = "active" /\ inst'[i].owned = inst[i].owned
      /\ inst'[i].values = vals /\ inst'[i].view = inst[i].view
      /\ inst'[i].def = inst[i].def /\ inst'[i].scope = inst[i].scope
      /\ inst'[i].config = inst[i].config /\ inst'[i].prepared = inst[i].prepared
  BY <1>2, <1>3, <1>4 DEF Instance, State
<1>6. /\ Mounted' = Mounted /\ Mounted \subseteq Id
      /\ Using' = Using /\ Up \subseteq Mounted \ {i} /\ Up' = Up \cup {i}
      /\ Using = Up \cup {i} /\ Loading' = {} /\ Unloading' = {}
      /\ InState({"active"})' = InState({"active"}) \cup {i}
      /\ i \notin InState({"active"}) /\ Up = InState({"active"})
      /\ InState(State \ {"disposed"})' = InState(State \ {"disposed"})
  BY <1>1, <1>2, <1>5, NoneAssumption
     DEF Mounted, Using, Up, InState, Loading, Unloading, State
<1>7. \A j \in Mounted :
        /\ inst'[j].def = inst[j].def /\ inst'[j].scope = inst[j].scope
        /\ inst'[j].owned = inst[j].owned /\ inst'[j].config = inst[j].config
        /\ inst'[j].view = inst[j].view /\ inst'[j].prepared = inst[j].prepared
        /\ inst'[j].state = "disposed" <=> inst[j].state = "disposed"
        /\ \A k \in Requires[inst[j].def] : inst'[j].values[k] = inst[j].values[k]
  BY <1>2, <1>3, <1>5, <1>6
<1>8. /\ run' \in Run /\ run'.mode = "settle" /\ run'.kind = run.kind
      /\ run'.failed = run.failed /\ run'.cancelled = run.cancelled
  BY <1>1 DEF TypeOK, Run, Mode
<1>9. /\ order \in Seq(Id) /\ order' \in Seq(Id) /\ Len(order) \in Nat
      /\ Len(order') = Len(order) + 1
      /\ \A n \in 1..Len(order) : order'[n] = order[n]
      /\ order'[Len(order) + 1] = i
  BY <1>1 DEF TypeOK
<1>10. TypeOK'
  BY <1>1, <1>5, <1>8, <1>9 DEF TypeOK
<1>11. TableInv'
  <2>1. OneAtATime' /\ OwnContext' /\ NoOrphans' /\ ConfigAgrees'
    BY <1>1, <1>2, <1>6, <1>7 DEF TableInv, OneAtATime, OwnContext, NoOrphans, ConfigAgrees
  <2>2. OneProvider'
    BY <1>1, <1>6, <1>7, ProviderKept DEF TableInv, InState
  <2>3. ASSUME NEW c \in Using, NEW k \in Requires[inst[c].def],
               NEW p \in Publishers(k, inst[c].scope),
               inst[c].values[k] = inst[p].values[k]
        PROVE  /\ p \in InState({"active"})' /\ p \in Mounted
               /\ inst'[c].values[k] = inst'[p].values[k]
    <3>1. p \in InState({"active"}) /\ p \in Mounted /\ p # i
      BY <1>6, <2>3 DEF Publishers, InState
    <3>2. inst'[p] = inst[p]
      BY <1>5, <1>6, <3>1
    <3> QED
      BY <1>2, <1>6, <1>7, <2>3, <3>1, <3>2
  <2>4. ServicesOutliveUsers'
    BY <1>1, <1>2, <1>6, <1>7, <2>3, ServicesKept DEF TableInv
  <2>5. ASSUME NEW c \in Mounted, NEW p \in Mounted
        PROVE  Needs(c, p)' => Needs(c, p)
    BY <1>7 DEF Needs, Same
  <2>6. \A c \in Using : ~Needs(c, i)
    <3>1. i \in Mounted /\ inst[i].state = "loading"
      BY <1>2
    <3> QED
      BY <1>1, <3>1, NeededIsActive
  <2>7. ToSet(order') = Up \cup {i}
    <3>1. DOMAIN order' = 1..(Len(order) + 1)
      BY <1>9
    <3>2. \A j \in Up : \E n \in 1..(Len(order) + 1) : order'[n] = j
      BY <1>1, <1>9, Places DEF TableInv
    <3>3. \A n \in 1..(Len(order) + 1) : order'[n] \in Up \cup {i}
      <4>1. \A n \in 1..Len(order) : order'[n] \in Up
        BY <1>1, <1>9, Places DEF TableInv
      <4> QED
        BY <1>9, <4>1
    <3>4. Len(order) + 1 \in 1..(Len(order) + 1)
      BY <1>9
    <3> QED
      BY <1>9, <3>1, <3>2, <3>3, <3>4 DEF ToSet
  <2>8. ASSUME NEW m \in 1..Len(order'), NEW n \in 1..Len(order')
        PROVE  /\ order'[m] = order'[n] => m = n
               /\ Needs(order[m], order[n])' => n < m
    <3>1. /\ \A x \in 1..Len(order) : order[x] \in Up /\ order'[x] = order[x]
          /\ \A x, y \in 1..Len(order) : order[x] = order[y] => x = y
          /\ \A x, y \in 1..Len(order) : Needs(order[x], order[y]) => y < x
      BY <1>1, <1>9, Places DEF TableInv
    <3>2. CASE m \in 1..Len(order) /\ n \in 1..Len(order)
      <4>1. order[m] \in Mounted /\ order[n] \in Mounted
        BY <1>6, <3>1, <3>2
      <4>2. order'[m] = order[m] /\ order'[n] = order[n]
        BY <3>1, <3>2
      <4>3. Needs(order[m], order[n])' => Needs(order[m], order[n])
        BY <2>5, <4>1, <4>2
      <4> QED
        BY <3>1, <3>2, <4>2, <4>3
    <3>3. CASE n = Len(order) + 1
      <4>1. order'[n] = i
        BY <1>9, <3>3
      <4>2. order'[m] \in Using /\ order'[m] \in Mounted
        BY <1>2, <1>6, <1>9, <3>1
      <4>3. ~Needs(order[m], order[n])'
        BY <1>2, <2>5, <2>6, <4>1, <4>2
      <4>4. order'[m] = i => m = n
        BY <1>6, <1>9, <3>1, <3>3
      <4> QED
        BY <4>1, <4>3, <4>4
    <3>4. CASE m = Len(order) + 1 /\ n \in 1..Len(order)
      BY <1>6, <1>9, <3>1, <3>4
    <3> QED
      BY <1>9, <3>2, <3>3, <3>4
  <2>9. OrderIsActivation'
    BY <1>6, <2>7, <2>8 DEF OrderIsActivation, Up
  <2> QED
    BY <2>1, <2>2, <2>4, <2>9 DEF TableInv
<1>12. SavedInv'
  <2>1. \A j \in Using' :
          \/ \A m \in 1..Len(saved) :
               j \in In(saved[m]) => inst'[j].owned # saved[m][j].owned
          \/ /\ j \in Using
             /\ inst'[j].owned = inst[j].owned
             /\ inst'[j].def = inst[j].def
             /\ inst'[j].scope = inst[j].scope
             /\ j \in Up => j \in Up'
    BY <1>2, <1>6, <1>7
  <2>2. \A c \in Up \cap Up', p \in Up :
          Needs(c, p) => p \in Up' /\ inst'[p].owned = inst[p].owned
    BY <1>6, <1>7
  <2>3. \A m \in 1..Len(saved) : In(saved[m]) \subseteq Mounted'
    BY <1>1, <1>6 DEF SavedInv
  <2>4. TypeOK /\ SavedInv /\ saved' = saved
    BY <1>1
  <2> QED
    BY <2>1, <2>2, <2>3, <2>4, SavedKept
<1>13. RunInv'
  <2>1. ASSUME run.kind = "restore", Clean
        PROVE  Regained(saved[1])'
    <3>1. Regained(saved[1]) /\ 1 \in 1..Len(saved)
      BY <1>1, <2>1 DEF RunInv, TypeOK
    <3>2. ASSUME NEW j \in Id \ {i}
          PROVE  inst'[j] = inst[j] /\ (j \in Mounted' <=> j \in Mounted)
      BY <1>5, <1>6
    <3>3. saved[1][i] # None /\ saved[1][i].state \notin {"disposed", "failed"}
          /\ inst[i].owned # saved[1][i].owned
      BY <1>1, <1>2, <3>1, LoadingIsNew DEF Regained, Mounted, In
    <3> QED
      BY <1>1, <1>2, <1>5, <1>6, <3>1, <3>2, <3>3 DEF Regained
  <2> QED
    BY <1>1, <1>8, <2>1 DEF RunInv, StopInv, Clean
<1> QED
  BY <1>10, <1>11, <1>12, <1>13 DEF IInv

\* What failed to start is neither up nor used by anything, and its context
\* is closed.
LEMMA ActivationFailedKeeps ==
  ASSUME IInv, NEW i \in Id, ActivationFailed(i)
  PROVE  IInv'
<1>1. /\ run.mode = "loading" /\ i \in Loading /\ Unloading = {}
      /\ open' = open \ {inst[i].owned}
      /\ UNCHANGED <<order, down, closed>>
      /\ TypeOK /\ TableInv /\ SavedInv /\ RunInv
  BY NothingMoves DEF ActivationFailed, Release, IInv, TableInv
<1>2. /\ i \in Mounted /\ inst[i] \in Instance /\ inst[i].state = "loading"
      /\ inst \in [Id -> Instance \cup {None}]
      /\ i \in Using /\ Loading = {i}
  BY <1>1, InstanceTypes DEF Loading, InState, Using, TableInv, OneAtATime, TypeOK
<1>3. /\ inst' \in [Id -> Instance \cup {None}]
      /\ \A j \in Id \ {i} : inst'[j] = inst[j]
      /\ inst'[i] \in Instance
      /\ inst'[i].state = "failed" /\ inst'[i].owned = inst[i].owned
      /\ inst'[i].view = inst[i].view
      /\ inst'[i].def = inst[i].def /\ inst'[i].scope = inst[i].scope
      /\ inst'[i].config = inst[i].config /\ inst'[i].prepared = inst[i].prepared
  <2> DEFINE none == NoValues
  <2>1. none \in [Key -> Token \cup {None}]
    BY DEF NoValues
  <2>2. inst' = [inst EXCEPT ![i].state = "failed", ![i].values = none]
    BY DEF ActivationFailed
  <2> HIDE DEF none
  <2> QED
    BY <1>2, <2>1, <2>2 DEF Instance, State
<1>4. /\ Mounted' = Mounted /\ Mounted \subseteq Id
      /\ Using = Up \cup {i} /\ Using' = Up /\ Up' = Up /\ Up \subseteq Mounted \ {i}
      /\ Loading' = {} /\ Unloading' = {}
      /\ InState({"active"})' = InState({"active"})
      /\ InState(State \ {"disposed"})' = InState(State \ {"disposed"})
  BY <1>1, <1>2, <1>3, NoneAssumption
     DEF Mounted, Using, Up, InState, Loading, Unloading, State
<1>5. \A j \in Mounted :
        /\ inst'[j].def = inst[j].def /\ inst'[j].scope = inst[j].scope
        /\ inst'[j].owned = inst[j].owned /\ inst'[j].config = inst[j].config
        /\ inst'[j].prepared = inst[j].prepared /\ inst'[j].view = inst[j].view
        /\ inst'[j].state = "disposed" <=> inst[j].state = "disposed"
  BY <1>2, <1>3, <1>4
<1>6. TableInv'
  <2>1. OneAtATime' /\ OwnContext' /\ ConfigAgrees'
    BY <1>1, <1>4, <1>5 DEF TableInv, OneAtATime, OwnContext, ConfigAgrees
  <2>2. NoOrphans'
    <3>1. \A j \in Up : inst[j].owned # inst[i].owned
      BY <1>1, <1>2, <1>4 DEF TableInv, OwnContext
    <3> QED
      BY <1>1, <1>4, <1>5, <3>1 DEF TableInv, NoOrphans
  <2>3. OneProvider'
    BY <1>1, <1>4, <1>5, ProviderKept DEF TableInv, InState
  <2>4. ASSUME NEW c \in Up, NEW k \in Requires[inst[c].def],
               NEW p \in Publishers(k, inst[c].scope)
        PROVE  p \in InState({"active"})' /\ inst'[p] = inst[p] /\ inst'[c] = inst[c]
    BY <1>2, <1>3, <1>4, <2>4 DEF Publishers, InState
  <2>5. ServicesOutliveUsers'
    BY <1>1, <1>4, <1>5, <2>4, ServicesKept DEF TableInv
  <2>6. OrderIsActivation'
    BY <1>1, <1>3, <1>4, OrderKept DEF TableInv, Up, InState
  <2> QED
    BY <2>1, <2>2, <2>3, <2>5, <2>6 DEF TableInv
<1>7. saved' = saved
      => SavedInv'
  <2>1. \A m \in 1..Len(saved) : In(saved[m]) \subseteq Mounted'
    BY <1>1, <1>4 DEF SavedInv
  <2> QED
    BY <1>1, <1>4, <1>5, <2>1, SavedKept
<1>8. CASE run.kind = "restore"
  <2>1. run' = [run EXCEPT !.mode = "settle", !.failed = TRUE] /\ saved' = saved
    BY <1>8 DEF ActivationFailed
  <2>2. /\ run' \in Run /\ run'.mode = "settle" /\ run'.kind = "restore"
        /\ run'.failed = TRUE
    BY <1>1, <1>8, <2>1 DEF TypeOK, Run, Mode
  <2>3. TypeOK' /\ RunInv'
    BY <1>1, <1>3, <1>8, <2>1, <2>2 DEF TypeOK, RunInv, StopInv, Clean
  <2> QED
    BY <1>6, <1>7, <2>1, <2>3 DEF IInv
<1>9. CASE run.kind = "replace"
  <2>1. /\ saved' = saved /\ saved # <<>> /\ Head(saved) = saved[1]
        /\ 1 \in 1..Len(saved) /\ StartRestore(saved[1])
    BY <1>1, <1>9 DEF ActivationFailed, Raise, RunInv, TypeOK
  <2> DEFINE ids == Changed(saved[1])
  <2>2. ids \subseteq Mounted
    BY DEF Changed
  <2>3. /\ Dependents(ids) \in SUBSET Id /\ Dependents(ids) \subseteq Mounted
        /\ ids \subseteq Dependents(ids)
        /\ \A p \in Dependents(ids) \cap Up, c \in Up :
             Needs(c, p) => c \in Dependents(ids)
    BY <1>1, <2>2, DependentsStop
  <2>4. /\ run' \in Run
        /\ run'.mode = "stop" /\ run'.kind = "restore"
        /\ run'.todo = Dependents(ids)
    BY <2>1, <2>3, StartRestoreFields
  <2>5. i \in ids
    BY <1>1, <1>2, <2>1 DEF SavedInv, AtRest, Changed, In, Mounted
  <2>6. \A j \in Mounted \ {i} : j \in Changed(saved[1])' => j \in ids
    BY <1>3, <1>4, <2>1 DEF Changed
  <2> HIDE DEF ids
  <2>7. RestoreInv'
    BY <1>4, <2>1, <2>3, <2>4, <2>5, <2>6 DEF RestoreInv
  <2>8. ClosedUnderUse'
    <3>1. \A c, p \in Up : Needs(c, p)' <=> Needs(c, p)
      BY <1>3, <1>4 DEF Needs, Same
    <3> QED
      BY <1>4, <2>3, <2>4, <3>1 DEF ClosedUnderUse
  <2>9. TypeOK' /\ RunInv'
    BY <1>1, <1>3, <1>4, <2>1, <2>3, <2>4, <2>7, <2>8
       DEF TypeOK, RunInv, StopInv, Kind
  <2> QED
    BY <1>6, <1>7, <2>1, <2>9 DEF IInv
<1>10. CASE run.kind \notin {"replace", "restore"}
  <2>1. run' = Idle /\ saved' = saved
    BY <1>10 DEF ActivationFailed, Raise, Return
  <2>2. TypeOK' /\ RunInv'
    BY <1>1, <1>3, <2>1, IdleFields DEF TypeOK, RunInv, StopInv
  <2> QED
    BY <1>6, <1>7, <2>1, <2>2 DEF IInv
<1> QED
  BY <1>8, <1>9, <1>10

(***************************************************************************)
(* The end of an operation, and the environment                            *)
(***************************************************************************)
LEMMA SettledKeeps ==
  ASSUME IInv, Settled
  PROVE  IInv'
<1>1. /\ run.mode = "settle" /\ run' = Idle
      /\ saved' = IF run.kind \in {"replace", "restore"} THEN Tail(saved) ELSE saved
      /\ UNCHANGED <<table, down, closed>> /\ inst' = inst
  BY DEF Settled, Return, table
<1>2. TypeOK /\ SavedInv /\ RunInv
  BY DEF IInv
<1>3. SavedInv' /\ saved' \in Seq([Id -> Instance \cup {None}])
  <2>1. CASE run.kind \in {"replace", "restore"}
    BY <1>1, <1>2, <2>1, SnapshotDropped DEF RunInv
  <2>2. CASE run.kind \notin {"replace", "restore"}
    BY <1>1, <1>2, <2>2, SavedUnchanged DEF TypeOK
  <2> QED
    BY <2>1, <2>2
<1>4. run' \in Run /\ RunInv'
  BY <1>1, IdleFields DEF RunInv, StopInv
<1> QED
  BY <1>1, <1>3, <1>4, FreeFacts, TableKept

\* Whether a service is available is not part of what is to be kept.
LEMMA OutsideKeeps ==
  ASSUME IInv, UNCHANGED <<table, closed, saved, run>>, down' \subseteq Checked
  PROVE  IInv'
<1>1. /\ UNCHANGED table /\ inst' = inst /\ order' = order /\ open' = open
      /\ UNCHANGED <<closed, saved, run>>
      /\ down' \subseteq Checked
      /\ TypeOK /\ TableInv /\ SavedInv /\ RunInv
  BY DEF IInv, table
<1>2. TypeOK'
  BY <1>1 DEF TypeOK
<1>3. TableInv' /\ SavedInv'
  BY <1>1, TableUnchanged, SavedUnchanged
<1>4. /\ Mounted' = Mounted /\ Up' = Up
      /\ InState({"active"})' = InState({"active"})
      /\ \A c, p : Needs(c, p)' <=> Needs(c, p)
  BY <1>1 DEF Mounted, Up, InState, Needs, Same
<1>5. StopInv'
  <2>1. ClosedUnderUse => ClosedUnderUse'
    BY <1>1, <1>4 DEF ClosedUnderUse
  <2>2. ReplaceInv => ReplaceInv'
    BY <1>1, <1>4 DEF ReplaceInv, Rival, Same
  <2>3. ServiceInv => ServiceInv'
    BY <1>1, <1>4 DEF ServiceInv
  <2>4. RestoreInv => RestoreInv'
    BY <1>1, <1>4 DEF RestoreInv, Changed
  <2> QED
    BY <1>1, <1>4, <2>1, <2>2, <2>3, <2>4 DEF RunInv, StopInv
<1>6. RunInv'
  BY <1>1, <1>4, <1>5 DEF RunInv, Regained, Clean
<1> QED
  BY <1>2, <1>3, <1>6 DEF IInv

(***************************************************************************)
(* The invariant                                                           *)
(***************************************************************************)
LEMMA InitHolds == Init => IInv
<1> SUFFICES ASSUME Init PROVE IInv
  OBVIOUS
<1>1. /\ inst = [i \in Id |-> None] /\ order = <<>> /\ down = {} /\ open = {}
      /\ closed = FALSE /\ saved = <<>> /\ run = Idle
  BY DEF Init
<1>2. Mounted = {} /\ Using = {} /\ Up = {} /\ Loading = {} /\ Unloading = {}
      /\ InState({"active", "unloading"}) = {}
      /\ InState(State \ {"disposed"}) = {}
  BY <1>1 DEF Mounted, Using, Up, Loading, Unloading, InState
<1>3. Len(order) = 0 /\ Len(saved) = 0
  BY <1>1
<1>4. TypeOK
  <2> DEFINE T == [Id -> Instance \cup {None}]
  <2>1. inst \in T
    BY <1>1
  <2> HIDE DEF T
  <2>2. saved \in Seq(T)
    BY <1>1
  <2>3. order \in Seq(Id)
    BY <1>1
  <2>4. down \subseteq Checked /\ open \subseteq Token /\ closed \in BOOLEAN
    BY <1>1
  <2>5. run \in Run
    BY <1>1, IdleFields
  <2> QED
    BY <2>1, <2>2, <2>3, <2>4, <2>5 DEF TypeOK, T
<1>5. TableInv
  <2>1. OneAtATime /\ OwnContext /\ OneProvider /\ ServicesOutliveUsers
        /\ NoOrphans /\ ConfigAgrees
    BY <1>1, <1>2 DEF OneAtATime, OwnContext, OneProvider, ServicesOutliveUsers,
       NoOrphans, ConfigAgrees
  <2>2. OrderIsActivation
    BY <1>1, <1>2, <1>3 DEF OrderIsActivation, ToSet
  <2> QED
    BY <2>1, <2>2 DEF TableInv
<1>6. SavedInv
  BY <1>3 DEF SavedInv
<1>7. RunInv
  BY <1>1, IdleFields DEF RunInv, StopInv
<1> QED
  BY <1>4, <1>5, <1>6, <1>7 DEF IInv

LEMMA AskKeeps ==
  ASSUME IInv, Ask
  PROVE  IInv'
<1>1. ASSUME NEW m \in Mountable, Mount(m[1], m[2], m[3], m[4])
      PROVE  IInv'
  BY <1>1, MountKeeps
<1>2. ASSUME NEW i \in Id, Unmount(i)
      PROVE  IInv'
  BY <1>2, UnmountKeeps
<1>3. ASSUME NEW m \in Mountable, NEW force \in BOOLEAN,
             m[1] \in Mounted, Replace(m[1], m[2], m[4], force)
      PROVE  IInv'
  BY <1>3, ReplaceKeeps
<1>4. ASSUME NEW i \in Id, ReplaceRefused(i)
      PROVE  IInv'
  BY <1>4, ReplaceRefusedKeeps
<1>5. ASSUME NEW i \in Id, NEW k \in Settable, SetService(i, k)
      PROVE  IInv'
  BY <1>5, SetServiceKeeps
<1>6. CASE Refresh
  BY <1>6, RefreshKeeps
<1>7. CASE Close
  BY <1>7, CloseKeeps
<1>8. CASE CloseAgain
  BY <1>8, OutsideKeeps DEF CloseAgain, vars, table, IInv, TypeOK
<1>9. CASE BatchBegin \/ BatchCommit \/ BatchFail
  BY <1>9, BatchKeeps
<1> QED
  BY <1>1, <1>2, <1>3, <1>4, <1>5, <1>6, <1>7, <1>8, <1>9 DEF Ask

LEMMA ProceedKeeps ==
  ASSUME IInv, Proceed
  PROVE  IInv'
<1>1. CASE Unload
  BY <1>1, UnloadKeeps
<1>2. ASSUME NEW i \in Id, NEW fails \in BOOLEAN, Unloaded(i, fails)
      PROVE  IInv'
  BY <1>2, UnloadedKeeps
<1>3. CASE StoppedBadly
  BY <1>3, StoppedBadlyKeeps
<1>4. CASE StoppedUnmount
  BY <1>4, StoppedUnmountKeeps
<1>5. CASE StoppedClose
  BY <1>5, StoppedCloseKeeps
<1>6. CASE StoppedReplace
  BY <1>6, StoppedReplaceKeeps
<1>7. CASE StoppedService
  BY <1>7, StoppedServiceKeeps
<1>8. CASE StoppedRefresh
  BY <1>8, StoppedRefreshKeeps
<1>9. CASE StoppedRestore
  BY <1>9, StoppedRestoreKeeps
<1>10. ASSUME NEW i \in Id, Activate(i)
       PROVE  IInv'
  BY <1>10, ActivateKeeps
<1>11. ASSUME NEW i \in Id, Activated(i)
       PROVE  IInv'
  BY <1>11, ActivatedKeeps
<1>12. ASSUME NEW i \in Id, ActivationFailed(i)
       PROVE  IInv'
  BY <1>12, ActivationFailedKeeps
<1>13. CASE Settled
  BY <1>13, SettledKeeps
<1> QED
  BY <1>1, <1>2, <1>3, <1>4, <1>5, <1>6, <1>7, <1>8, <1>9, <1>10, <1>11, <1>12,
     <1>13 DEF Proceed

LEMMA StepKeeps ==
  ASSUME IInv, [Next]_vars
  PROVE  IInv'
<1>1. CASE Ask
  BY <1>1, AskKeeps
<1>2. CASE Proceed
  BY <1>2, ProceedKeeps
<1>3. CASE Cancel
  BY <1>3, CancelKeeps
<1>4. ASSUME NEW k \in Checked, ServiceFlips(k)
      PROVE  IInv'
  <2>1. down \subseteq Checked
    BY DEF IInv, TypeOK
  <2>2. down' \subseteq Checked /\ UNCHANGED <<table, closed, saved, run>>
    BY <1>4, <2>1 DEF ServiceFlips
  <2> QED
    BY <2>2, OutsideKeeps
<1>5. CASE UNCHANGED vars
  BY <1>5, OutsideKeeps DEF vars, table, IInv, TypeOK
<1> QED
  BY <1>1, <1>2, <1>3, <1>4, <1>5 DEF Next

\* The invariant of the dynamic host, inductive as it stands: neither what the
\* table says nor what a snapshot says could be kept without the other, since
\* a rollback turns the one into the other.
THEOREM HostInvariance == Spec => []IInv
<1>1. Init => IInv
  BY InitHolds
<1>2. IInv /\ [Next]_vars => IInv'
  BY StepKeeps
<1> QED
  BY <1>1, <1>2, PTL DEF Spec

\* _instances, _order and the operation in progress have the types the code
\* gives them.
THEOREM TypesHold == Spec => []TypeOK
<1>1. IInv => TypeOK
  BY DEF IInv
<1> QED
  BY <1>1, HostInvariance, PTL

\* _check_providers() asks once, when an instance is mounted or its definition
\* is replaced; at most one instance offers a key to a scope ever after, also
\* when a rollback brings back instances that had gone.
THEOREM OneProviderHolds == Spec => []OneProvider
<1>1. IInv => OneProvider
  BY DEF IInv, TableInv
<1> QED
  BY <1>1, HostInvariance, PTL

\* _stop_impl and _reconcile: whoever starts, works or cleans up has each
\* service it requires, with the value its provider publishes now.
THEOREM ServicesHold == Spec => []ServicesOutliveUsers
<1>1. IInv => ServicesOutliveUsers
  BY DEF IInv, TableInv
<1> QED
  BY <1>1, HostInvariance, PTL

\* _order lists what is up, a provider before its users, so that its reverse
\* is an order in which to clean up.
THEOREM OrderHolds == Spec => []OrderIsActivation
<1>1. IInv => OrderIsActivation
  BY DEF IInv, TableInv
<1> QED
  BY <1>1, HostInvariance, PTL

\* OwnedContext: whatever fails, and whatever a rollback drops from the table,
\* the contexts that hold resources are those of the instances that are up.
THEOREM NoOrphansHolds == Spec => []NoOrphans
<1>1. IInv => NoOrphans
  BY DEF IInv, TableInv
<1> QED
  BY <1>1, HostInvariance, PTL

\* The three places that hold an instance's configuration agree.
THEOREM ConfigHolds == Spec => []ConfigAgrees
<1>1. IInv => ConfigAgrees
  BY DEF IInv, TableInv
<1> QED
  BY <1>1, HostInvariance, PTL

\* _restore(): a rollback in which no callback fails gives the caller of the
\* batch its instances back, active again unless they miss a service.
THEOREM RollbackHolds == Spec => RollbackRestores
<1> DEFINE Back ==
      run.kind = "restore" /\ run'.mode = "free" /\ Clean =>
        LET old == Head(saved)
        IN  \A i \in Id :
              IF old[i] = None THEN inst'[i] = None
              ELSE /\ i \in Mounted'
                   /\ inst'[i].def = old[i].def
                   /\ inst'[i].scope = old[i].scope
                   /\ inst'[i].config = old[i].config
                   /\ old[i].state \in {"disposed", "failed"} =>
                        inst'[i].state = old[i].state
                   /\ old[i].state = "active" =>
                        /\ inst'[i].state = "active" \/ Missing(i) # {}
                        /\ inst'[i].owned = old[i].owned =>
                             inst'[i].values = old[i].values
<1>1. IInv /\ [Next]_vars => [Back]_vars
  <2> SUFFICES ASSUME IInv, Next, run.kind = "restore", run'.mode = "free", Clean
               PROVE  Back
    BY DEF Back
  <2>1. run.mode # "free"
    BY DEF IInv, RunInv
  <2>2. ~Ask
    BY <2>1 DEF Ask, Mount, Unmount, Replace, ReplaceRefused, SetService, Refresh,
       Close, CloseAgain, BatchBegin, BatchCommit, BatchFail, Accepts
  <2>3. /\ ~Unload /\ ~Cancel /\ \A k \in Checked : ~ServiceFlips(k)
    BY <2>1 DEF Unload, Cancel, ServiceFlips
  <2>4. \A i \in Id, fails \in BOOLEAN : ~Unloaded(i, fails)
    BY <2>1 DEF Unloaded, Stopping, IInv, TypeOK, Run
  <2>5. /\ ~StoppedBadly /\ ~StoppedUnmount /\ ~StoppedClose /\ ~StoppedReplace
        /\ ~StoppedService /\ ~StoppedRefresh
    BY DEF StoppedBadly, StoppedUnmount, StoppedClose, StoppedReplace,
       StoppedService, StoppedRefresh
  <2>6. ~StoppedRestore
    BY DEF StoppedRestore, IInv, TypeOK, Run, Mode
  <2>7. \A i \in Id : ~Activate(i) /\ ~Activated(i) /\ ~ActivationFailed(i)
    BY DEF Activate, Activated, ActivationFailed, IInv, TypeOK, Run, Mode
  <2>8. Settled
    BY <2>2, <2>3, <2>4, <2>5, <2>6, <2>7 DEF Next, Proceed
  <2>9. /\ run.mode = "settle" /\ Ready = {} /\ inst' = inst /\ Mounted' = Mounted
        /\ Loading = {}
    BY <2>8, FreeFacts DEF Settled, table, Mounted
  <2>10. /\ Regained(saved[1]) /\ Head(saved) = saved[1]
    BY <2>9 DEF IInv, RunInv, TypeOK
  <2>11. ASSUME NEW i \in Mounted, inst[i].state \in {"pending", "loading", "active"}
         PROVE  inst[i].state = "active" \/ Missing(i) # {}
    BY <2>9, <2>11 DEF Ready, Loading, InState
  <2> QED
    BY <2>9, <2>10, <2>11 DEF Regained, Back
<1>2. Spec => [][Back]_vars
  BY <1>1, HostInvariance, PTL DEF Spec
<1> QED
  BY <1>2 DEF RollbackRestores
=============================================================================
