------------------------------- MODULE Loader -------------------------------
(***************************************************************************)
(* DynamicLoader (bootstrap/dynamic.py): a tree of entries, of which those *)
(* that are enabled are mounted in a dynamic host.                         *)
(*                                                                         *)
(* load, create, update and remove make a candidate tree and then wait for *)
(* the host's gate; whoever holds it turns the old tree into the candidate *)
(* with one host operation per instance, each of which may fail.  The host *)
(* is the one DynamicHost describes: it lets one task at a time change it, *)
(* and a batch that fails gives the instances back.                        *)
(***************************************************************************)
CONSTANTS
  Task,     \* tasks that use the loader
  Id,       \* entry ids
  Shape,    \* what else an entry says: name, scope, inject and intercept
  Config,   \* configurations
  Entries,  \* the <<id, entry>> callers and files use
  Files,    \* the trees somebody writes to the file
  None,     \* no entry, no parent, no instance
  Nobody    \* nobody holds the gate

ASSUME NobodyAssumption == Nobody \notin Task
ASSUME NoneAssumption == None \notin Id

Entry == [parent : Id \cup {None}, shape : Shape, config : Config,
          disabled : BOOLEAN]
Tree == [Id -> Entry \cup {None}]

ASSUME EntriesAssumption ==
  /\ Entries \subseteq Id \X Entry
  /\ None \notin Entry
  /\ Files \subseteq Tree

VARIABLES
  entries,   \* _entries
  contexts,  \* _contexts
  mounted,   \* _mounted
  inst,      \* the instances of the host that are not disposed
  file,      \* the tree in the configuration file
  gate,      \* the task inside host.batch()
  phase,     \* what each task is doing
  want,      \* the candidate of each task
  todo,      \* what is left to do: the ids to unmount, mount, reconfigure
  saved      \* what _apply and the batch restore

vars == <<entries, contexts, mounted, inst, file, gate, phase, want, todo, saved>>
index == <<entries, contexts, mounted>>

(***************************************************************************)
(* Trees                                                                   *)
(***************************************************************************)
Empty == [i \in Id |-> None]
In(tree) == {i \in Id : tree[i] # None}

ClosedUp(tree, S) ==
  \A j \in S \cap In(tree) : tree[j].parent # None => tree[j].parent \in S

\* The entry and its ancestors.
Up(tree, i) ==
  {j \in Id : \A S \in SUBSET Id :
                i \in S /\ ClosedUp(tree, S) => j \in S}

\* Every parent is there and nothing is its own ancestor.
Valid(tree) ==
  \A i \in In(tree) :
    LET above == tree[i].parent
    IN  above # None => above \in In(tree) /\ i \notin Up(tree, above)

\* The context of an entry isolates and intercepts what its ancestors and the
\* entry itself say, in this order.
Context(tree, i) == [j \in Up(tree, i) |-> <<tree[j].parent, tree[j].shape>>]
ContextsOf(tree) == [i \in In(tree) |-> Context(tree, i)]

Enabled(tree) == {i \in In(tree) : \A j \in Up(tree, i) : ~tree[j].disabled}

\* All of an entry but its config.
Alike(e, f) == [e EXCEPT !.config = None] = [f EXCEPT !.config = None]

\* (mutant) a changed configuration counts as well.
RemountOnConfig(old, new) ==
  {i \in In(new) : \E j \in Up(new, i) : old[j] # None /\ old[j] # new[j]}

\* Entries that have changed, and those below them.
Remount(old, new) ==
  {i \in In(new) : \E j \in Up(new, i) : old[j] # None /\ ~Alike(old[j], new[j])}

(***************************************************************************)
(* State                                                                   *)
(***************************************************************************)
Nothing == [drop |-> {}, add |-> {}, tune |-> {}]
Instance(tree, i) == [context |-> Context(tree, i), config |-> tree[i].config]

TypeOK ==
  /\ entries \in Tree
  /\ mounted \subseteq Id
  /\ file \in Tree
  /\ gate \in Task \cup {Nobody}
  /\ phase \in [Task -> {"idle", "asking", "applying", "restoring"}]
  /\ want \in [Task -> Tree]
  /\ todo \in [drop : SUBSET Id, add : SUBSET Id, tune : SUBSET Id]

Init ==
  /\ entries = Empty
  /\ contexts = ContextsOf(Empty)
  /\ mounted = {}
  /\ inst = Empty
  /\ file \in Files
  /\ gate = Nobody
  /\ phase = [t \in Task |-> "idle"]
  /\ want = [t \in Task |-> Empty]
  /\ todo = Nothing
  /\ saved = [entries |-> Empty, contexts |-> ContextsOf(Empty),
              mounted |-> {}, inst |-> Empty]

(***************************************************************************)
(* Callers.  The candidate is made from the file or from the tree there is *)
(* at the moment, before the gate is waited for.                           *)
(***************************************************************************)
Ask(t, tree) ==
  /\ phase[t] = "idle"
  /\ want' = [want EXCEPT ![t] = tree]
  /\ phase' = [phase EXCEPT ![t] = "asking"]
  /\ UNCHANGED <<index, inst, file, gate, todo, saved>>

Load(t) == Ask(t, file)

\* create() of an id that exists is refused.
Create(t, i, e) ==
  /\ entries[i] = None
  /\ Ask(t, [entries EXCEPT ![i] = e])

Update(t, i, e) ==
  /\ entries[i] # None
  /\ Ask(t, [entries EXCEPT ![i] = e])

\* remove() takes the entries below with it.
RemoveEntry(t, i) ==
  /\ entries[i] # None
  /\ Ask(t, [j \in Id |-> IF entries[j] # None /\ i \in Up(entries, j)
                            THEN None ELSE entries[j]])

\* save() writes a new file and puts it in the place of the old one.
Save ==
  /\ file' = entries
  /\ UNCHANGED <<index, inst, gate, phase, want, todo, saved>>

\* Somebody edits the file.
EditFile(tree) ==
  /\ file' = tree
  /\ UNCHANGED <<index, inst, gate, phase, want, todo, saved>>

(***************************************************************************)
(* _apply: one task at a time                                              *)
(***************************************************************************)
\* The gate is not had in time, the caller is cancelled, or the candidate is
\* refused before anything has changed: a parent is missing, a configuration
\* is not valid.
Refused(t) ==
  /\ phase[t] = "asking"
  /\ phase' = [phase EXCEPT ![t] = "idle"]
  /\ want' = [want EXCEPT ![t] = Empty]
  /\ UNCHANGED <<index, inst, file, gate, todo, saved>>

\* The host has these instances already.
Kept(new) == (mounted \cap Enabled(new)) \ Remount(entries, new)

Begin(t) ==
  /\ phase[t] = "asking"
  /\ gate = Nobody
  /\ Valid(want[t])
  /\ gate' = t
  /\ phase' = [phase EXCEPT ![t] = "applying"]
  /\ saved' = [entries |-> entries, contexts |-> contexts, mounted |-> mounted,
               inst |-> inst]
  /\ entries' = want[t]
  /\ contexts' = ContextsOf(want[t])
  /\ todo' = [drop |-> mounted \ Kept(want[t]),
              add  |-> Enabled(want[t]) \ Kept(want[t]),
              tune |-> {i \in Kept(want[t]) :
                           entries[i].config # want[t][i].config}]
  /\ UNCHANGED <<mounted, inst, file, want>>

Applying(t) == gate = t /\ phase[t] = "applying"

\* (mutant) the list of what is mounted is not put back.
FailsKeepingMounted(t) ==
  /\ entries' = saved.entries
  /\ contexts' = saved.contexts
  /\ phase' = [phase EXCEPT ![t] = "restoring"]
  /\ todo' = Nothing
  /\ UNCHANGED <<mounted, file, gate, want, saved>>

\* Whatever raises ends the operation: the loader's own fields are put back,
\* then the host rolls the batch back.  An unmount whose clean-up fails has
\* disposed of the instance, one that is cancelled has not; a mount may leave
\* an instance that failed; a reconfigure that fails or is vetoed restores
\* the instance itself.
Fails(t) ==
  /\ entries' = saved.entries
  /\ contexts' = saved.contexts
  /\ mounted' = saved.mounted
  /\ phase' = [phase EXCEPT ![t] = "restoring"]
  /\ todo' = Nothing
  /\ UNCHANGED <<file, gate, want, saved>>

Unmount(t, i) ==
  /\ Applying(t)
  /\ i \in todo.drop
  /\ \/ /\ mounted' = mounted \ {i}
        /\ inst' = [inst EXCEPT ![i] = None]
        /\ todo' = [todo EXCEPT !.drop = @ \ {i}]
        /\ UNCHANGED <<entries, contexts, file, gate, phase, want, saved>>
     \/ /\ Fails(t)
        /\ inst' \in {inst, [inst EXCEPT ![i] = None]}

Mount(t, i) ==
  /\ Applying(t)
  /\ todo.drop = {}
  /\ i \in todo.add
  /\ entries[i].parent \notin todo.add
  /\ \/ /\ mounted' = mounted \cup {i}
        /\ inst' = [inst EXCEPT ![i] = Instance(entries, i)]
        /\ todo' = [todo EXCEPT !.add = @ \ {i}]
        /\ UNCHANGED <<entries, contexts, file, gate, phase, want, saved>>
     \/ /\ Fails(t)
        /\ inst' \in {inst, [inst EXCEPT ![i] = Instance(entries, i)]}

Reconfigure(t, i) ==
  /\ Applying(t)
  /\ todo.drop = {}
  /\ i \in todo.tune
  /\ \/ /\ inst' = [inst EXCEPT ![i].config = entries[i].config]
        /\ todo' = [todo EXCEPT !.tune = @ \ {i}]
        /\ UNCHANGED <<index, file, gate, phase, want, saved>>
     \/ /\ Fails(t)
        /\ UNCHANGED inst

Release(t) ==
  /\ gate' = Nobody
  /\ phase' = [phase EXCEPT ![t] = "idle"]
  /\ want' = [want EXCEPT ![t] = Empty]
  /\ saved' = [entries |-> Empty, contexts |-> ContextsOf(Empty),
               mounted |-> {}, inst |-> Empty]
  /\ UNCHANGED <<index, file, todo>>

Applied(t) ==
  /\ Applying(t)
  /\ todo = Nothing
  /\ Release(t)
  /\ UNCHANGED inst

\* The batch has given the instances back.
Restored(t) ==
  /\ gate = t
  /\ phase[t] = "restoring"
  /\ inst' = saved.inst
  /\ Release(t)

(***************************************************************************)
(* Specification                                                           *)
(***************************************************************************)
Work(t) ==
  \/ Refused(t)
  \/ Begin(t)
  \/ \E i \in Id : Unmount(t, i) \/ Mount(t, i) \/ Reconfigure(t, i)
  \/ Applied(t)
  \/ Restored(t)

Change(t) ==
  \/ \E x \in Entries : Create(t, x[1], x[2]) \/ Update(t, x[1], x[2])
  \/ \E i \in Id : RemoveEntry(t, i)

Next ==
  \/ \E t \in Task : Load(t) \/ Change(t) \/ Work(t)
  \/ Save
  \/ \E tree \in Files : EditFile(tree)

Spec == Init /\ [][Next]_vars

\* Callers that change entries one by one and never load a file.
ChangesSpec == Init /\ [][\E t \in Task : Change(t) \/ Work(t)]_vars

(***************************************************************************)
(* Properties                                                              *)
(***************************************************************************)
\* Whenever nobody changes the tree, the host has an instance for each entry
\* that is enabled with all its ancestors, in the context that the tree says
\* and the loader hands to callers, with the configuration of the entry:
\* however many operations succeeded, failed half way and were rolled back,
\* moved an entry, or changed what is above it.
TreeMatchesHost ==
  gate = Nobody =>
    /\ contexts = ContextsOf(entries)
    /\ mounted = Enabled(entries)
    /\ inst = [i \in Id |-> IF i \in mounted
                              THEN [context |-> contexts[i],
                                    config |-> entries[i].config]
                              ELSE None]

\* An instance which both trees want alike is left alone, whatever changes
\* beside it: only entries that have changed, or are below one that has, are
\* taken down, and only a changed configuration of its own is applied.
UntouchedStay ==
  [][\A t \in Task, i \in Id :
       /\ Applying(t)
       /\ i \in Enabled(saved.entries) \cap Enabled(want[t])
       /\ Context(saved.entries, i) = Context(want[t], i)
       /\ saved.entries[i].config = want[t][i].config
       => inst'[i] = inst[i]]_vars

\* The docs: all lifecycle changes are executed one after another.  So what
\* an operation leaves is what it found, except for one entry and what is
\* below it (of ChangesSpec, whose operations are each about one entry).
OneEntryAtATime ==
  [][\A t \in Task :
       Applied(t) =>
         \E i \in Id : \A j \in Id :
           entries[j] = saved.entries[j] \/ i = j \/ i \in Up(saved.entries, j)]_vars
=============================================================================
