----------------------------- MODULE LoaderProofs -----------------------------
(***************************************************************************)
(* What the loader says and what the host has agree, and a change leaves   *)
(* alone what it does not touch, for every set of tasks, ids and entries.  *)
(*                                                                         *)
(* The invariant says how far the holder of the gate is: which of the      *)
(* instances are still those of the tree of before, which are already      *)
(* those of the candidate, and what the way back restores.                 *)
(***************************************************************************)
EXTENDS Loader, TLAPS

\* The three fields of the loader and the instances of the host agree.
Agrees(tree, ctxs, ids, instances) ==
  /\ ctxs = ContextsOf(tree)
  /\ ids = Enabled(tree)
  /\ instances = [i \in Id |-> IF i \in ids THEN Instance(tree, i) ELSE None]

\* What _apply and the batch would restore, and the tree before the change.
Before ==
  /\ saved.entries \in Tree
  /\ Valid(saved.entries)
  /\ Agrees(saved.entries, saved.contexts, saved.mounted, saved.inst)

\* The work that is left: what is mounted and not to be dropped is right up
\* to its configuration, and the rest of the candidate is to be added.
Halfway(t) ==
  /\ entries = want[t]
  /\ Valid(entries)
  /\ contexts = ContextsOf(entries)
  /\ todo.drop \subseteq mounted
  /\ todo.add \cap (mounted \ todo.drop) = {}
  /\ (mounted \ todo.drop) \cup todo.add = Enabled(entries)
  /\ todo.tune \subseteq mounted \ todo.drop
  /\ inst = [j \in Id |-> inst[j]]
  /\ \A i \in Id :
       /\ i \notin mounted => inst[i] = None
       /\ i \in mounted \ todo.drop =>
            /\ inst[i] = [context |-> Context(entries, i), config |-> inst[i].config]
            /\ i \notin todo.tune => inst[i].config = entries[i].config

\* What is left to do is nothing that both trees want alike.
Spared ==
  \A i \in Enabled(saved.entries) \cap Enabled(entries) :
    /\ i \notin Remount(saved.entries, entries) => i \notin todo.drop \cup todo.add
    /\ saved.entries[i].config = entries[i].config => i \notin todo.tune

\* The loader's own fields are back, the instances are not.
Restoring ==
  /\ entries = saved.entries
  /\ contexts = saved.contexts
  /\ mounted = saved.mounted
  /\ todo = Nothing

Progress(t) ==
  /\ gate = t <=> phase[t] \in {"applying", "restoring"}
  /\ gate = t => Before
  /\ gate = t /\ phase[t] = "applying" => Halfway(t) /\ Spared
  /\ gate = t /\ phase[t] = "restoring" => Restoring

GateHeld == \A t \in Task : Progress(t)

AtRest ==
  gate = Nobody =>
    /\ Valid(entries)
    /\ Agrees(entries, contexts, mounted, inst)
    /\ todo = Nothing

IInv == TypeOK /\ GateHeld /\ AtRest

(***************************************************************************)
(* Trees                                                                   *)
(***************************************************************************)
LEMMA TreeTypes ==
  ASSUME NEW tree \in Tree, NEW i \in In(tree)
  PROVE  /\ i \in Id
         /\ tree[i] \in Entry
         /\ tree[i].parent \in Id \cup {None}
BY DEF Tree, In, Entry

LEMMA UpIsClosed ==
  ASSUME NEW tree \in Tree, NEW i \in Id
  PROVE  /\ Up(tree, i) \subseteq Id
         /\ i \in Up(tree, i)
         /\ ClosedUp(tree, Up(tree, i))
<1>1. Up(tree, i) \subseteq Id /\ i \in Up(tree, i)
  BY DEF Up
<1>2. ASSUME NEW j \in Up(tree, i) \cap In(tree), tree[j].parent # None,
             NEW S \in SUBSET Id, i \in S, ClosedUp(tree, S)
      PROVE  tree[j].parent \in S
  BY <1>2 DEF Up, ClosedUp
<1>3. \A j \in Up(tree, i) \cap In(tree) :
        tree[j].parent # None => tree[j].parent \in Up(tree, i)
  BY <1>2, TreeTypes DEF Up
<1> QED
  BY <1>1, <1>3 DEF ClosedUp

LEMMA UpIsLeast ==
  ASSUME NEW tree \in Tree, NEW i \in Id, NEW S \in SUBSET Id,
         i \in S, ClosedUp(tree, S)
  PROVE  Up(tree, i) \subseteq S
BY DEF Up

LEMMA UpIsThere ==
  ASSUME NEW tree \in Tree, Valid(tree), NEW i \in In(tree)
  PROVE  Up(tree, i) \subseteq In(tree)
<1>1. In(tree) \subseteq Id /\ ClosedUp(tree, In(tree))
  BY DEF In, ClosedUp, Valid
<1> QED
  BY <1>1, UpIsLeast

\* Two entries that are alike but for their configurations.
LEMMA AlikeFields ==
  ASSUME NEW e \in Entry, NEW f \in Entry
  PROVE  Alike(e, f) <=> /\ e.parent = f.parent
                         /\ e.shape = f.shape
                         /\ e.disabled = f.disabled
BY DEF Alike, Entry

\* What has not changed at or above an entry leaves its context as it was.
LEMMA KeptContext ==
  ASSUME NEW old \in Tree, NEW new \in Tree, Valid(old), Valid(new),
         NEW i \in In(old) \cap In(new), i \notin Remount(old, new)
  PROVE  Context(old, i) = Context(new, i)
<1>1. Up(new, i) \subseteq In(new) /\ Up(old, i) \subseteq In(old)
  BY UpIsThere
<1>2. i \in Id
  BY DEF In
<1>3. ASSUME NEW j \in Up(new, i) \cap In(old)
      PROVE  old[j].parent = new[j].parent /\ old[j].shape = new[j].shape
  <2>1. Alike(old[j], new[j])
    BY DEF Remount, In
  <2> QED
    BY <1>1, <2>1, AlikeFields, TreeTypes
<1>4. Up(old, i) \subseteq Up(new, i)
  <2>1. ClosedUp(old, Up(new, i))
    BY <1>2, <1>3, <1>1, UpIsClosed DEF ClosedUp
  <2> QED
    BY <1>2, <2>1, UpIsClosed, UpIsLeast
<1>5. Up(new, i) \subseteq Up(old, i)
  <2>1. ClosedUp(new, Up(old, i))
    BY <1>1, <1>2, <1>3, <1>4, UpIsClosed DEF ClosedUp
  <2> QED
    BY <1>2, <2>1, UpIsClosed, UpIsLeast
<1> QED
  BY <1>1, <1>3, <1>4, <1>5 DEF Context

\* An entry that is enabled in the same context before and after is kept.
LEMMA SameIsKept ==
  ASSUME NEW old \in Tree, NEW new \in Tree, Valid(old), Valid(new),
         NEW i \in Enabled(old) \cap Enabled(new),
         Context(old, i) = Context(new, i)
  PROVE  i \notin Remount(old, new)
<1>1. i \in In(old) /\ i \in In(new)
  BY DEF Enabled
<1>2. Up(new, i) \subseteq In(new) /\ Up(old, i) \subseteq In(old)
  BY <1>1, UpIsThere
<1>3. Up(old, i) = Up(new, i)
  <2>1. DOMAIN Context(old, i) = Up(old, i) /\ DOMAIN Context(new, i) = Up(new, i)
    BY DEF Context
  <2> QED
    BY <2>1
<1>4. ASSUME NEW j \in Up(new, i)
      PROVE  Alike(old[j], new[j])
  <2>1. Context(old, i)[j] = <<old[j].parent, old[j].shape>>
    BY <1>3 DEF Context
  <2>2. Context(new, i)[j] = <<new[j].parent, new[j].shape>>
    BY DEF Context
  <2>3. old[j].parent = new[j].parent /\ old[j].shape = new[j].shape
    BY <2>1, <2>2
  <2>4. old[j].disabled = new[j].disabled
    BY <1>2, <1>3, TreeTypes DEF Enabled, Entry
  <2> QED
    BY <1>2, <1>3, <2>3, <2>4, AlikeFields, TreeTypes
<1> QED
  BY <1>4 DEF Remount

(***************************************************************************)
(* The steps                                                               *)
(***************************************************************************)
LEMMA InitHolds == Init => IInv
<1> SUFFICES ASSUME Init PROVE IInv
  OBVIOUS
<1>1. In(Empty) = {} /\ Enabled(Empty) = {} /\ Valid(Empty) /\ Empty \in Tree
  BY DEF In, Enabled, Empty, Valid, Tree
<1>2. TypeOK
  BY <1>1, EntriesAssumption DEF Init, TypeOK, Nothing
<1>3. AtRest
  BY <1>1 DEF Init, AtRest, Agrees, Nothing, Empty
<1>4. GateHeld
  BY NobodyAssumption DEF Init, GateHeld, Progress
<1> QED
  BY <1>2, <1>3, <1>4 DEF IInv

\* A task that asks, or is refused, and whoever writes the file.
LEMMA OutsideKeeps ==
  ASSUME IInv, TypeOK',
         UNCHANGED <<index, inst, gate, todo, saved>>,
         NEW t \in Task, phase[t] \in {"idle", "asking"},
         phase'[t] \in {"idle", "asking"},
         \A u \in Task \ {t} : phase'[u] = phase[u] /\ want'[u] = want[u]
  PROVE  IInv'
<1>1. AtRest'
  BY DEF IInv, AtRest, index, Agrees
<1>2. Progress(t)'
  BY DEF IInv, GateHeld, Progress
<1>3. ASSUME NEW u \in Task \ {t} PROVE Progress(u)'
  <2>1. Progress(u) /\ phase'[u] = phase[u] /\ want'[u] = want[u]
    BY DEF IInv, GateHeld
  <2> QED
    BY <2>1 DEF Progress, Before, Agrees, Halfway, Spared, Restoring, index
<1> QED
  BY <1>1, <1>2, <1>3 DEF IInv, GateHeld

LEMMA AskKeeps ==
  ASSUME IInv, NEW t \in Task, NEW tree \in Tree, Ask(t, tree)
  PROVE  IInv'
<1>1. TypeOK'
  BY DEF IInv, TypeOK, Ask, index
<1> QED
  BY <1>1, OutsideKeeps DEF IInv, TypeOK, Ask

LEMMA RefusedKeeps ==
  ASSUME IInv, NEW t \in Task, Refused(t)
  PROVE  IInv'
<1>1. TypeOK'
  BY DEF IInv, TypeOK, Refused, index, Empty, Tree
<1> QED
  BY <1>1, OutsideKeeps DEF IInv, TypeOK, Refused

LEMMA FileKeeps ==
  ASSUME IInv, file' \in Tree,
         UNCHANGED <<index, inst, gate, phase, want, todo, saved>>
  PROVE  IInv'
<1>1. TypeOK' /\ AtRest'
  BY DEF IInv, TypeOK, AtRest, Agrees, index
<1>2. ASSUME NEW u \in Task PROVE Progress(u)'
  <2>1. Progress(u)
    BY DEF IInv, GateHeld
  <2> QED
    BY <2>1 DEF Progress, Before, Agrees, Halfway, Spared, Restoring, index
<1> QED
  BY <1>1, <1>2 DEF IInv, GateHeld

LEMMA ChangeKeeps ==
  ASSUME IInv, NEW t \in Task, Load(t) \/ Change(t)
  PROVE  IInv'
<1>1. CASE Load(t)
  BY <1>1, AskKeeps DEF Load, IInv, TypeOK
<1>2. ASSUME NEW i \in Id, NEW e \in Entry, Create(t, i, e) \/ Update(t, i, e)
      PROVE  IInv'
  <2>1. [entries EXCEPT ![i] = e] \in Tree
    BY DEF IInv, TypeOK, Tree
  <2> QED
    BY <1>2, <2>1, AskKeeps DEF Create, Update
<1>3. ASSUME NEW i \in Id, RemoveEntry(t, i)
      PROVE  IInv'
  <2> DEFINE tree == [j \in Id |-> IF entries[j] # None /\ i \in Up(entries, j)
                                     THEN None ELSE entries[j]]
  <2>1. tree \in Tree
    BY DEF IInv, TypeOK, Tree
  <2>2. Ask(t, tree)
    BY <1>3 DEF RemoveEntry
  <2> HIDE DEF tree
  <2> QED
    BY <2>1, <2>2, AskKeeps
<1>4. ASSUME NEW x \in Entries, Create(t, x[1], x[2]) \/ Update(t, x[1], x[2])
      PROVE  IInv'
  BY <1>2, <1>4, EntriesAssumption
<1> QED
  BY <1>1, <1>3, <1>4 DEF Change

\* Whoever is not at the gate is not affected by what its holder does.
LEMMA OthersKeep ==
  ASSUME IInv, NEW t \in Task, gate = t \/ gate = Nobody,
         gate' \in {t, Nobody},
         NEW u \in Task \ {t}, phase'[u] = phase[u]
  PROVE  Progress(u)'
<1>1. Progress(u) /\ gate # u /\ gate' # u
  BY NobodyAssumption DEF IInv, GateHeld
<1> QED
  BY <1>1 DEF Progress

LEMMA BeginKeeps ==
  ASSUME IInv, NEW t \in Task, Begin(t)
  PROVE  IInv'
<1> DEFINE new == want[t]
<1>1. /\ entries \in Tree /\ new \in Tree
      /\ Valid(entries) /\ Valid(new)
      /\ Agrees(entries, contexts, mounted, inst)
  BY DEF IInv, TypeOK, AtRest, Begin
<1>2. /\ entries' = new
      /\ contexts' = ContextsOf(new)
      /\ mounted' = mounted /\ inst' = inst
      /\ want' = want
      /\ gate' = t
      /\ phase' = [phase EXCEPT ![t] = "applying"]
  BY DEF Begin
<1>3. saved' = [entries |-> entries, contexts |-> contexts,
                mounted |-> mounted, inst |-> inst]
  BY DEF Begin
<1>4. todo' = [drop |-> mounted \ Kept(new),
               add  |-> Enabled(new) \ Kept(new),
               tune |-> {i \in Kept(new) : entries[i].config # new[i].config}]
  BY DEF Begin
<1>5. /\ Kept(new) \subseteq mounted /\ Kept(new) \subseteq Enabled(new)
      /\ Kept(new) \cap Remount(entries, new) = {}
      /\ \A i \in mounted \cap Enabled(new) :
           i \notin Remount(entries, new) => i \in Kept(new)
  BY DEF Kept
<1>6. /\ Enabled(new) \subseteq In(new) /\ Enabled(entries) \subseteq In(entries)
      /\ In(new) \subseteq Id /\ In(entries) \subseteq Id
  BY DEF Enabled, In
<1>7. mounted = Enabled(entries)
  BY <1>1 DEF Agrees
<1>8. \A i \in Kept(new) :
        inst[i] = [context |-> Context(new, i), config |-> entries[i].config]
  <2> SUFFICES ASSUME NEW i \in Kept(new)
               PROVE  inst[i] = [context |-> Context(new, i),
                                 config |-> entries[i].config]
    OBVIOUS
  <2>1. i \in In(entries) \cap In(new) /\ i \notin Remount(entries, new)
    BY <1>5, <1>6, <1>7
  <2>2. Context(entries, i) = Context(new, i)
    BY <1>1, <2>1, KeptContext
  <2>3. inst[i] = Instance(entries, i)
    BY <1>1, <1>5, <1>6, <1>7, <2>1 DEF Agrees
  <2> QED
    BY <2>2, <2>3 DEF Instance
<1>9. TypeOK'
  <2>1. todo' \in [drop : SUBSET Id, add : SUBSET Id, tune : SUBSET Id]
    BY <1>4, <1>5, <1>6, <1>7
  <2>2. file' = file
    BY DEF Begin
  <2> HIDE DEF new
  <2> QED
    BY <1>1, <1>2, <2>1, <2>2 DEF IInv, TypeOK
<1>10. Before'
  BY <1>1, <1>3 DEF Before
<1>11. Halfway(t)'
  <2>1. /\ (todo.drop)' = mounted \ Kept(new)
        /\ (todo.add)' = Enabled(new) \ Kept(new)
        /\ (todo.tune)' = {i \in Kept(new) : entries[i].config # new[i].config}
    BY <1>4
  <2>2. /\ Valid(entries') /\ Valid(entries)'
        /\ mounted' \ (todo.drop)' = Kept(new)
    BY <1>1, <1>2, <1>5, <2>1 DEF Valid, In, Up, ClosedUp
  <2>3. \A i \in Id : i \notin mounted => inst[i] = None
    BY <1>1 DEF Agrees
  <2>4. inst = [j \in Id |-> inst[j]]
    BY <1>1 DEF Agrees
  <2>5. want'[t] = new
    BY <1>2
  <2>6. \A i \in Kept(new) :
          /\ inst[i] = [context |-> Context(new, i), config |-> inst[i].config]
          /\ entries[i].config = new[i].config => inst[i].config = new[i].config
    <3> SUFFICES ASSUME NEW i \in Kept(new)
                 PROVE  /\ inst[i] = [context |-> Context(new, i), config |-> inst[i].config]
                        /\ inst[i].config = entries[i].config
      OBVIOUS
    <3>1. inst[i] = [context |-> Context(new, i), config |-> entries[i].config]
      BY <1>8
    <3> QED
      BY <3>1
  <2> HIDE DEF new
  <2>7. entries' = want'[t] /\ contexts' = ContextsOf(entries')
    BY <1>2, <2>5
  <2>8. (mounted \ todo.drop)' = Kept(new)
    BY <2>1, <2>2
  <2>9. \A i \in Id :
         /\ i \notin mounted' => inst'[i] = None
         /\ i \in (mounted \ todo.drop)' =>
              /\ inst'[i] = [context |-> Context(entries', i), config |-> inst'[i].config]
              /\ i \notin (todo.tune)' => inst'[i].config = entries'[i].config
    BY <1>2, <2>1, <2>3, <2>6, <2>8
  <2> QED
    BY <1>2, <1>5, <2>1, <2>2, <2>4, <2>7, <2>8, <2>9 DEF Halfway
<1>12. Spared'
  BY <1>2, <1>3, <1>4, <1>5, <1>7 DEF Spared
<1>13. Progress(t)'
  BY <1>2, <1>10, <1>11, <1>12 DEF Progress, IInv, TypeOK
<1>14. \A u \in Task \ {t} : Progress(u)'
  BY <1>2, OthersKeep DEF Begin, IInv, TypeOK
<1>15. AtRest'
  BY <1>2, NobodyAssumption DEF AtRest
<1> QED
  BY <1>9, <1>13, <1>14, <1>15 DEF IInv, GateHeld

\* The fields that an operation of the host leaves to the others.
LEMMA HolderFacts ==
  ASSUME IInv, NEW t \in Task, Applying(t)
  PROVE  Before /\ Halfway(t) /\ Spared
BY DEF IInv, GateHeld, Progress, Applying

\* A step of the holder that is not its last needs to show what is changed.
LEMMA HolderKeeps ==
  ASSUME IInv, NEW t \in Task, Applying(t), TypeOK',
         UNCHANGED <<entries, contexts, file, gate, phase, want, saved>>,
         Halfway(t)', Spared'
  PROVE  IInv'
<1>1. Before'
  BY HolderFacts DEF Before, Agrees
<1>2. Progress(t)'
  BY <1>1 DEF IInv, GateHeld, Progress, Applying
<1>3. \A u \in Task \ {t} : Progress(u)'
  BY OthersKeep DEF Applying
<1>4. AtRest'
  BY NobodyAssumption DEF AtRest, Applying
<1> QED
  BY <1>2, <1>3, <1>4 DEF IInv, GateHeld

\* Whatever has been done is forgotten; the instances are put back later.
LEMMA FailsKeeps ==
  ASSUME IInv, NEW t \in Task, Applying(t), Fails(t)
  PROVE  IInv'
<1>1. Before
  BY HolderFacts
<1>2. /\ gate = t /\ gate' = t /\ saved' = saved /\ want' = want
      /\ phase' = [phase EXCEPT ![t] = "restoring"]
      /\ entries' = saved.entries /\ contexts' = saved.contexts
      /\ mounted' = saved.mounted /\ todo' = Nothing /\ file' = file
  BY DEF Fails, Applying
<1>3. TypeOK'
  BY <1>1, <1>2 DEF IInv, TypeOK, Before, Agrees, Nothing, Enabled, In
<1>4. Before' /\ Restoring'
  BY <1>1, <1>2 DEF Before, Agrees, Restoring
<1>5. Progress(t)'
  BY <1>2, <1>4 DEF Progress, IInv, TypeOK
<1>6. \A u \in Task \ {t} : Progress(u)'
  BY <1>2, OthersKeep DEF IInv, TypeOK
<1>7. AtRest'
  BY <1>2, NobodyAssumption DEF AtRest
<1> QED
  BY <1>3, <1>5, <1>6, <1>7 DEF IInv, GateHeld

LEMMA UnmountKeeps ==
  ASSUME IInv, NEW t \in Task, NEW i \in Id, Unmount(t, i)
  PROVE  IInv'
<1>1. Applying(t) /\ i \in todo.drop
  BY DEF Unmount
<1>2. CASE Fails(t)
  BY <1>1, <1>2, FailsKeeps
<1>3. CASE ~Fails(t)
  <2>1. /\ mounted' = mounted \ {i}
        /\ inst' = [inst EXCEPT ![i] = None]
        /\ todo' = [todo EXCEPT !.drop = @ \ {i}]
        /\ UNCHANGED <<entries, contexts, file, gate, phase, want, saved>>
    BY <1>3 DEF Unmount
  <2>2. Halfway(t) /\ Spared
    BY <1>1, HolderFacts
  <2>3. TypeOK'
    BY <2>1 DEF IInv, TypeOK
  <2>4. /\ (todo.drop)' = todo.drop \ {i}
        /\ (todo.add)' = todo.add /\ (todo.tune)' = todo.tune
    BY <2>1 DEF IInv, TypeOK
  <2>5. (mounted \ todo.drop)' = mounted \ todo.drop
    BY <1>1, <2>1, <2>4
  <2>6. \A j \in Id : j # i => inst'[j] = inst[j]
    BY <2>1, <2>2 DEF Halfway
  <2>7. inst'[i] = None /\ inst' = [j \in Id |-> inst'[j]]
    BY <2>1, <2>2 DEF Halfway
  <2>8. Halfway(t)'
    BY <1>1, <2>1, <2>2, <2>4, <2>5, <2>6, <2>7 DEF Halfway, Valid, In, Up, ClosedUp
  <2>9. Spared'
    BY <2>1, <2>2, <2>4 DEF Spared
  <2> QED
    BY <1>1, <2>1, <2>3, <2>8, <2>9, HolderKeeps
<1> QED
  BY <1>2, <1>3

LEMMA MountKeeps ==
  ASSUME IInv, NEW t \in Task, NEW i \in Id, Mount(t, i)
  PROVE  IInv'
<1>1. Applying(t) /\ i \in todo.add /\ todo.drop = {}
  BY DEF Mount
<1>2. CASE Fails(t)
  BY <1>1, <1>2, FailsKeeps
<1>3. CASE ~Fails(t)
  <2>1. /\ mounted' = mounted \cup {i}
        /\ inst' = [inst EXCEPT ![i] = Instance(entries, i)]
        /\ todo' = [todo EXCEPT !.add = @ \ {i}]
        /\ UNCHANGED <<entries, contexts, file, gate, phase, want, saved>>
    BY <1>3 DEF Mount
  <2>2. Halfway(t) /\ Spared
    BY <1>1, HolderFacts
  <2>3. TypeOK'
    BY <2>1 DEF IInv, TypeOK
  <2>4. /\ (todo.add)' = todo.add \ {i}
        /\ (todo.drop)' = {} /\ (todo.tune)' = todo.tune
    BY <1>1, <2>1 DEF IInv, TypeOK
  <2>5. (mounted \ todo.drop)' = (mounted \ todo.drop) \cup {i}
    BY <1>1, <2>1, <2>4
  <2>6. \A j \in Id : j # i => inst'[j] = inst[j]
    BY <2>1, <2>2 DEF Halfway
  <2>7. /\ inst'[i] = [context |-> Context(entries, i), config |-> inst'[i].config]
        /\ inst'[i].config = entries[i].config
        /\ inst' = [j \in Id |-> inst'[j]]
    BY <2>1, <2>2 DEF Halfway, Instance
  <2>8. Halfway(t)'
    BY <1>1, <2>1, <2>2, <2>4, <2>5, <2>6, <2>7 DEF Halfway, Valid, In, Up, ClosedUp
  <2>9. Spared'
    BY <1>1, <2>1, <2>2, <2>4 DEF Spared
  <2> QED
    BY <1>1, <2>1, <2>3, <2>8, <2>9, HolderKeeps
<1> QED
  BY <1>2, <1>3

LEMMA ReconfigureKeeps ==
  ASSUME IInv, NEW t \in Task, NEW i \in Id, Reconfigure(t, i)
  PROVE  IInv'
<1>1. Applying(t) /\ i \in todo.tune /\ todo.drop = {}
  BY DEF Reconfigure
<1>2. CASE Fails(t)
  BY <1>1, <1>2, FailsKeeps
<1>3. CASE ~Fails(t)
  <2>1. /\ mounted' = mounted
        /\ inst' = [inst EXCEPT ![i].config = entries[i].config]
        /\ todo' = [todo EXCEPT !.tune = @ \ {i}]
        /\ UNCHANGED <<entries, contexts, file, gate, phase, want, saved>>
    BY <1>3 DEF Reconfigure, index
  <2>2. Halfway(t) /\ Spared
    BY <1>1, HolderFacts
  <2>3. TypeOK'
    BY <2>1 DEF IInv, TypeOK
  <2>4. /\ (todo.tune)' = todo.tune \ {i}
        /\ (todo.drop)' = {} /\ (todo.add)' = todo.add
    BY <1>1, <2>1 DEF IInv, TypeOK
  <2>5. (mounted \ todo.drop)' = mounted \ todo.drop /\ i \in mounted
    BY <1>1, <2>1, <2>2, <2>4 DEF Halfway
  <2>6. \A j \in Id : j # i => inst'[j] = inst[j]
    BY <2>1, <2>2 DEF Halfway
  <2>7. inst[i] = [context |-> Context(entries, i), config |-> inst[i].config]
    BY <1>1, <2>2 DEF Halfway
  <2>8. /\ inst'[i] = [inst[i] EXCEPT !.config = entries[i].config]
        /\ inst' = [j \in Id |-> inst'[j]]
    BY <2>1, <2>2 DEF Halfway
  <2>9. inst'[i] = [context |-> Context(entries, i), config |-> entries[i].config]
    BY <2>7, <2>8
  <2>10. /\ inst'[i] = [context |-> Context(entries, i), config |-> inst'[i].config]
         /\ inst'[i].config = entries[i].config
    BY <2>9
  <2>11. Halfway(t)'
    BY <1>1, <2>1, <2>2, <2>4, <2>5, <2>6, <2>8, <2>10 DEF Halfway, Valid, In, Up, ClosedUp
  <2>12. Spared'
    BY <1>1, <2>1, <2>2, <2>4 DEF Spared
  <2> QED
    BY <1>1, <2>1, <2>3, <2>11, <2>12, HolderKeeps
<1> QED
  BY <1>2, <1>3

LEMMA NothingSaved ==
  Empty \in Tree /\ Enabled(Empty) = {}
BY DEF Empty, Tree, Enabled, In

\* The holder lets go of the gate, and everything agrees.
LEMMA ReleaseKeeps ==
  ASSUME IInv, NEW t \in Task, gate = t, Release(t), todo = Nothing,
         Valid(entries), Agrees(entries, contexts, mounted, inst')
  PROVE  IInv'
<1>1. /\ gate' = Nobody /\ phase' = [phase EXCEPT ![t] = "idle"]
      /\ want' = [want EXCEPT ![t] = Empty]
      /\ UNCHANGED <<entries, contexts, mounted, file, todo>>
  BY DEF Release, index
<1>2. TypeOK'
  BY <1>1, NothingSaved DEF IInv, TypeOK
<1>3. Progress(t)'
  BY <1>1, NobodyAssumption DEF Progress, IInv, TypeOK
<1>4. \A u \in Task \ {t} : Progress(u)'
  BY <1>1, OthersKeep DEF IInv, TypeOK
<1>5. AtRest'
  BY <1>1 DEF AtRest, Valid, In, Up, ClosedUp, Agrees
<1> QED
  BY <1>2, <1>3, <1>4, <1>5 DEF IInv, GateHeld

LEMMA AppliedKeeps ==
  ASSUME IInv, NEW t \in Task, Applied(t)
  PROVE  IInv'
<1>1. Applying(t) /\ todo = Nothing /\ inst' = inst /\ Release(t)
  BY DEF Applied
<1>2. Halfway(t)
  BY <1>1, HolderFacts
<1>3. todo.drop = {} /\ todo.add = {} /\ todo.tune = {}
  BY <1>1 DEF Nothing
<1>4. mounted = Enabled(entries)
  BY <1>2, <1>3 DEF Halfway
<1>5. ASSUME NEW i \in mounted PROVE inst[i] = Instance(entries, i)
  <2>1. i \in Id
    BY DEF IInv, TypeOK
  <2>2. /\ inst[i] = [context |-> Context(entries, i), config |-> inst[i].config]
        /\ inst[i].config = entries[i].config
    BY <1>2, <1>3, <2>1 DEF Halfway
  <2> QED
    BY <2>2 DEF Instance
<1>6. inst = [j \in Id |-> inst[j]]
  BY <1>2 DEF Halfway
<1>8. Agrees(entries, contexts, mounted, inst)
  BY <1>2, <1>4, <1>5, <1>6 DEF Halfway, Agrees
<1> QED
  BY <1>1, <1>2, <1>8, ReleaseKeeps DEF Halfway, Applying

LEMMA RestoredKeeps ==
  ASSUME IInv, NEW t \in Task, Restored(t)
  PROVE  IInv'
<1>1. Before /\ Restoring /\ gate = t
  BY DEF Restored, IInv, GateHeld, Progress
<1>2. Release(t) /\ inst' = saved.inst
  BY DEF Restored
<1> QED
  BY <1>1, <1>2, ReleaseKeeps DEF Before, Restoring

LEMMA NextKeeps == IInv /\ [Next]_vars => IInv'
<1> SUFFICES ASSUME IInv, [Next]_vars PROVE IInv'
  OBVIOUS
<1>1. CASE UNCHANGED vars
  BY <1>1, FileKeeps DEF vars, index, IInv, TypeOK
<1>2. ASSUME NEW t \in Task, Work(t) PROVE IInv'
  BY <1>2, RefusedKeeps, BeginKeeps, UnmountKeeps, MountKeeps,
     ReconfigureKeeps, AppliedKeeps, RestoredKeeps DEF Work
<1>3. CASE Save
  BY <1>3, FileKeeps DEF Save, IInv, TypeOK
<1>4. ASSUME NEW tree \in Files, EditFile(tree) PROVE IInv'
  BY <1>4, FileKeeps, EntriesAssumption DEF EditFile
<1> QED
  BY <1>1, <1>2, <1>3, <1>4, ChangeKeeps DEF Next

(***************************************************************************)
(* Theorems                                                                *)
(***************************************************************************)
\* The inductive invariant of _apply, of the callers that make candidates
\* before they wait for the gate, and of the host that fails.
THEOREM LoaderInvariance == Spec => []IInv
<1>1. Init => IInv
  BY InitHolds
<1>2. IInv /\ [Next]_vars => IInv'
  BY NextKeeps
<1> QED
  BY <1>1, <1>2, PTL DEF Spec

\* The variables of the loader have their types.
THEOREM LoaderTypes == Spec => []TypeOK
<1>1. IInv => TypeOK
  BY DEF IInv
<1> QED
  BY <1>1, LoaderInvariance, PTL

\* When nobody is in _apply, tree, contexts, list of what is mounted and
\* instances agree, whatever has failed before.
THEOREM TreeMatchesHostHolds == Spec => []TreeMatchesHost
<1>1. IInv => TreeMatchesHost
  <2> SUFFICES ASSUME IInv, gate = Nobody PROVE TreeMatchesHost
    BY DEF TreeMatchesHost
  <2>1. Agrees(entries, contexts, mounted, inst)
    BY DEF IInv, AtRest
  <2>2. \A i \in mounted :
          Instance(entries, i) = [context |-> contexts[i], config |-> entries[i].config]
    BY <2>1 DEF Agrees, Instance, ContextsOf, Enabled
  <2> QED
    BY <2>1, <2>2 DEF TreeMatchesHost, Agrees
<1> QED
  BY <1>1, LoaderInvariance, PTL

\* A change leaves alone the instances of entries that are enabled in both
\* trees with the same context and the same configuration.
THEOREM UntouchedStayHolds == Spec => UntouchedStay
<1> DEFINE Untouched == \A t \in Task, i \in Id :
       /\ Applying(t)
       /\ i \in Enabled(saved.entries) \cap Enabled(want[t])
       /\ Context(saved.entries, i) = Context(want[t], i)
       /\ saved.entries[i].config = want[t][i].config
       => inst'[i] = inst[i]
<1>1. IInv /\ [Next]_vars => [Untouched]_vars
  <2> SUFFICES ASSUME IInv, Next,
                      NEW t \in Task, NEW i \in Id, Applying(t),
                      i \in Enabled(saved.entries) \cap Enabled(want[t]),
                      Context(saved.entries, i) = Context(want[t], i),
                      saved.entries[i].config = want[t][i].config
               PROVE  inst'[i] = inst[i]
    OBVIOUS
  <2>1. Before /\ Halfway(t) /\ Spared
    BY HolderFacts
  <2>2. entries = want[t] /\ entries \in Tree
    BY <2>1 DEF Halfway, IInv, TypeOK
  <2>3. i \notin Remount(saved.entries, entries)
    BY <2>1, <2>2, SameIsKept DEF Before, Halfway
  <2>4. i \notin todo.drop \cup todo.add /\ i \notin todo.tune
    BY <2>1, <2>2, <2>3 DEF Spared
  <2>5. inst = [j \in Id |-> inst[j]]
    BY <2>1 DEF Halfway
  <2>6. gate = t /\ gate # Nobody /\ phase[t] = "applying"
    BY NobodyAssumption DEF Applying
  <2>7. ASSUME NEW u \in Task, Work(u) PROVE inst'[i] = inst[i]
    <3>1. ASSUME NEW j \in Id, Unmount(u, j) \/ Mount(u, j) \/ Reconfigure(u, j)
          PROVE  inst'[i] = inst[i]
      <4>1. i # j
        BY <2>4, <3>1 DEF Unmount, Mount, Reconfigure
      <4> QED
        BY <2>5, <3>1, <4>1 DEF Unmount, Mount, Reconfigure
    <3>2. ~Begin(u) /\ ~Restored(u)
      BY <2>6 DEF Begin, Restored
    <3>3. CASE Refused(u) \/ Applied(u)
      BY <3>3 DEF Refused, Applied
    <3> QED
      BY <2>7, <3>1, <3>2, <3>3 DEF Work
  <2>8. ASSUME NEW u \in Task, Load(u) \/ Change(u) PROVE inst'[i] = inst[i]
    BY <2>8 DEF Load, Change, Create, Update, RemoveEntry, Ask
  <2> QED
    BY <2>7, <2>8 DEF Next, Save, EditFile
<1>2. []IInv /\ [][Next]_vars => [][Untouched]_vars
  BY <1>1, PTL
<1> QED
  BY <1>2, LoaderInvariance DEF Spec, UntouchedStay
=============================================================================
