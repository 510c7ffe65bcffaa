---------------------------- MODULE DynamicHost ----------------------------
(***************************************************************************)
(* The plugin instances of DynamicHost (kernel/dynamic.py): mount,         *)
(* unmount, reconfigure, reload, set_service, refresh, batch and close,    *)
(* and the two loops they share, _stop_impl and _reconcile.                *)
(*                                                                         *)
(* LeaseGate shows that one task at a time changes the host.  This module  *)
(* is that task: an operation runs from await to await (the clean-up of    *)
(* one instance, the activation of another), each of which may fail, while *)
(* the availability of services changes and the caller is cancelled.       *)
(***************************************************************************)
EXTENDS Integers, Sequences, SequencesExt

CONSTANTS
  Id,        \* instance ids
  Def,       \* plugin definitions
  Key,       \* service keys
  Scope,     \* contexts instances are mounted in
  Config,    \* configurations: [ordinary, volatile] records
  Requires,  \* Requires[d]: the keys definition d needs
  Provides,  \* Provides[d]: the keys it publishes
  Volatile,  \* the definitions that declare volatile fields
  Label,     \* Label[<<k, s>>]: how scope s isolates key k
  Mountable, \* the <<id, definition, scope, config>> callers use
  Settable,  \* the keys whose value callers replace with set_service
  Checked,   \* the keys whose provider publishes a check
  Fragile,   \* the definitions whose activation may fail
  Faults,    \* what else goes wrong: "prepare", "cleanup", "cancel"
  MaxLive,   \* bound: contexts and values of one instance referred to at once
  None,    \* the id is not in the table
  MaxBatch   \* bound: batches a caller nests, plus the one of reconfigure

ASSUME KeysAssumption ==
  \A d \in Def : /\ Requires[d] \subseteq Key /\ Provides[d] \subseteq Key
                 /\ Requires[d] \cap Provides[d] = {}
ASSUME MountableAssumption == Mountable \subseteq Id \X Def \X Scope \X Config
ASSUME SettableAssumption == Settable \subseteq Key

VARIABLES
  inst,      \* _instances
  order,     \* _order: ids in the order they were activated
  down,      \* the checked keys whose check() returns false
  open,      \* contexts whose resources are not released
  closed,    \* _closed
  saved,     \* the snapshots of the batches in progress, innermost first
  run        \* the operation in progress

vars == <<inst, order, down, open, closed, saved, run>>
table == <<inst, order, open>>

\* The identity of a context or a service value: whose it is, and a number.
Token == Id \X (1..MaxLive)

State == {"pending", "loading", "active", "failed", "unloading", "disposed"}

Instance ==
  [def : Def, scope : Scope, state : State,
   config : Config,                       \* Instance.config
   prepared : Def \X Config,              \* what prepare() was called with
   view : Config,                         \* owned.config, as the plugin sees it
   owned : Token \cup {None},
   values : [Key -> Token \cup {None}]]

\* None is nothing else.
ASSUME NoneAssumption == None \notin Id \cup Token \cup Instance

Mode == {"free", "stop", "settle", "loading"}
Kind == {"none", "mount", "unmount", "replace", "service", "refresh", "close",
         "restore"}

\* The operation in progress: what it does now and for whom, what it stops,
\* and whether a clean-up has failed or its caller was cancelled.
Run ==
  [mode : Mode, kind : Kind, id : Id \cup {None},
   change : Key \cup (Def \X Config) \cup {None},
   todo : SUBSET Id, failed : BOOLEAN, cancelled : BOOLEAN]

TypeOK ==
  /\ inst \in [Id -> Instance \cup {None}]
  /\ order \in Seq(Id)
  /\ down \subseteq Checked
  /\ open \subseteq Token
  /\ closed \in BOOLEAN
  /\ saved \in Seq([Id -> Instance \cup {None}])
  /\ run \in Run

Idle == [mode |-> "free", kind |-> "none", id |-> None, change |-> None,
         todo |-> {}, failed |-> FALSE, cancelled |-> FALSE]

Init ==
  /\ inst = [i \in Id |-> None]
  /\ order = <<>>
  /\ down = {}
  /\ open = {}
  /\ closed = FALSE
  /\ saved = <<>>
  /\ run = Idle

(***************************************************************************)
(* The table                                                               *)
(***************************************************************************)
Mounted == {i \in Id : inst[i] # None}
InState(S) == {i \in Mounted : inst[i].state \in S}
Same(k, s1, s2) == Label[<<k, s1>>] = Label[<<k, s2>>]

\* _provider(): the active instance that publishes key k to scope s, and
\* whose check, if it published one, holds.
Publishers(k, s) ==
  {p \in InState({"active"}) :
     k \in Provides[inst[p].def] /\ Same(k, inst[p].scope, s)}

\* (mutant) whatever publishes the key, in whatever state.
AvailableAnyState(k, s) ==
  {p \in InState(State \ {"disposed"}) :
     k \in Provides[inst[p].def] /\ Same(k, inst[p].scope, s)}

Available(k, s) == IF k \in down THEN {} ELSE Publishers(k, s)

\* status().missing
Missing(i) ==
  {k \in Requires[inst[i].def] : Available(k, inst[i].scope) = {}}

Ready == {i \in InState({"pending"}) : Missing(i) = {}}

\* (mutant) only what is active counts as a provider.
RivalActive(i, d, s) ==
  \E j \in InState({"active"}) \ {i} :
    \E k \in Provides[inst[j].def] \cap Provides[d] : Same(k, inst[j].scope, s)

\* _check_providers(): some other instance offers a key of d to scope s.
Rival(i, d, s) ==
  \E j \in Mounted \ {i} :
    /\ inst[j].state # "disposed"
    /\ \E k \in Provides[inst[j].def] \cap Provides[d] :
         Same(k, inst[j].scope, s)

\* _dependents(): c requires what p is defined to provide.
\* (mutant) users in another scope with the same label are overlooked.
NeedsHere(c, p) ==
  /\ inst[c].state # "disposed" /\ inst[c].scope = inst[p].scope
  /\ Requires[inst[c].def] \cap Provides[inst[p].def] # {}

Needs(c, p) ==
  /\ inst[c].state # "disposed"
  /\ \E k \in Requires[inst[c].def] \cap Provides[inst[p].def] :
       Same(k, inst[c].scope, inst[p].scope)

\* The ids and everything that, through any number of slots, needs them.
Dependents(ids) ==
  {i \in Mounted :
     \A S \in SUBSET Mounted :
       /\ ids \subseteq S
       /\ \A p \in S : \A c \in Mounted : Needs(c, p) => c \in S
       => i \in S}

\* A new object: an identity nobody refers to any more, the least of them.
Used ==
  LET Refs(tab) == UNION {{tab[i].owned} \cup {tab[i].values[k] : k \in Key} :
                            i \in {j \in Id : tab[j] # None}}
  IN  Refs(inst) \cup open \cup UNION {Refs(saved[n]) : n \in 1..Len(saved)}
Fresh(i) ==
  {o \in Token : /\ o[1] = i
                 /\ o \notin Used
                 /\ \A m \in 1..(o[2] - 1) : <<i, m>> \in Used}

NoValues == [k \in Key |-> None]

\* OwnedContext.publish()
Publish(d, vals, n) == [k \in Key |-> IF k \in Provides[d] THEN n ELSE vals[k]]

SetState(i, s) == inst' = [inst EXCEPT ![i].state = s]

\* OwnedContext.close(): every resource of the instance is released.
Release(i) == open' = open \ {inst[i].owned}

(***************************************************************************)
(* How an operation ends.  reconfigure() runs in a batch of its own, which *)
(* it leaves or, if something was raised, rolls back; what another         *)
(* operation raises its caller handles (see BatchFail).                    *)
(***************************************************************************)
\* (mutant) instances the batch added are forgotten, not stopped.
ChangedKnown(old) ==
  {i \in Mounted :
     old[i] # None /\ (inst[i].owned # old[i].owned \/ inst[i].def # old[i].def
                      \/ inst[i].state # old[i].state)}

\* _restore(): everything that differs from the snapshot, and what depends
\* on it, is stopped first.
Changed(old) ==
  {i \in Mounted :
     \/ old[i] = None
     \/ inst[i].owned # old[i].owned
     \/ inst[i].def # old[i].def
     \/ inst[i].scope # old[i].scope
     \/ inst[i].state # old[i].state}

StartRestore(old) ==
  run' = [Idle EXCEPT !.mode = "stop", !.kind = "restore",
                      !.todo = Dependents(Changed(old))]

Return ==
  /\ run' = Idle
  /\ saved' = IF run.kind \in {"replace", "restore"} THEN Tail(saved) ELSE saved

Raise ==
  IF run.kind = "replace"
    THEN StartRestore(Head(saved)) /\ UNCHANGED saved
    ELSE Return

Begin(kind, i, change, todo) ==
  run' = [Idle EXCEPT !.mode = "stop", !.kind = kind, !.id = i,
                      !.change = change, !.todo = todo]

Settle(kind) == run' = [Idle EXCEPT !.mode = "settle", !.kind = kind]

(***************************************************************************)
(* Operations                                                              *)
(***************************************************************************)
Accepts == run.mode = "free" /\ ~closed

NewInst(d, s, c) ==
  [def |-> d, scope |-> s, state |-> "pending", config |-> c,
   prepared |-> <<d, c>>, view |-> c, owned |-> None, values |-> NoValues]

\* A mount that is refused, or whose config is, changes nothing.
Mount(i, d, s, c) ==
  /\ Accepts
  /\ i \notin InState(State \ {"disposed"})
  /\ ~Rival(i, d, s)
  /\ inst' = [inst EXCEPT ![i] = NewInst(d, s, c)]
  /\ Settle("mount")
  /\ UNCHANGED <<order, down, open, closed, saved>>

Unmount(i) ==
  /\ Accepts
  /\ i \in Mounted
  /\ Begin("unmount", i, None, Dependents({i}))
  /\ UNCHANGED <<table, down, closed, saved>>

\* reconfigure() without force: the same definition, nothing but volatile
\* fields changed and the instance active, so its view is updated in place.
InPlace(i, d, c, force) ==
  /\ ~force
  /\ d = inst[i].def
  /\ d \in Volatile
  /\ inst[i].state = "active"
  /\ c.ordinary = inst[i].config.ordinary

Update(i, d, c) ==
  /\ inst' = [inst EXCEPT ![i].config = c, ![i].prepared = <<d, c>>,
                          ![i].view = c]
  /\ UNCHANGED <<saved, run>>

Replace(i, d, c, force) ==
  /\ Accepts
  /\ i \in Mounted
  /\ Len(saved) < MaxBatch
  /\ ~Rival(i, d, inst[i].scope)
  /\ IF InPlace(i, d, c, force)
       THEN Update(i, d, c)
       ELSE /\ Begin("replace", i, <<d, c>>, Dependents({i}))
            /\ saved' = <<inst>> \o saved
            /\ UNCHANGED inst
  /\ UNCHANGED <<order, down, open, closed>>

\* prepare() or a config hook raises inside the batch of reconfigure().
ReplaceRefused(i) ==
  /\ "prepare" \in Faults
  /\ Accepts
  /\ i \in Mounted
  /\ Len(saved) < MaxBatch
  /\ saved' = <<inst>> \o saved
  /\ StartRestore(inst)
  /\ UNCHANGED <<table, down, closed>>

UsersOf(i) == Dependents({i}) \ {i}

SetService(i, k) ==
  /\ Accepts
  /\ i \in InState({"active"})
  /\ k \in Provides[inst[i].def]
  /\ Begin("service", i, k, UsersOf(i))
  /\ UNCHANGED <<table, down, closed, saved>>

Refresh ==
  /\ Accepts
  /\ Begin("refresh", None, None,
           Dependents({i \in InState({"active"}) : Missing(i) # {}}))
  /\ UNCHANGED <<table, down, closed, saved>>

Close ==
  /\ Accepts
  /\ saved = <<>>
  /\ closed' = TRUE
  /\ Begin("close", None, None, Mounted)
  /\ UNCHANGED <<table, down, saved>>

\* A second close() finds the host closed and returns.
CloseAgain ==
  /\ run.mode = "free"
  /\ closed
  /\ UNCHANGED vars

\* batch(): a caller groups operations.  It may let what one of them raised
\* pass, raise an error of its own, or handle the error and go on.
BatchBegin ==
  /\ Accepts
  /\ Len(saved) < MaxBatch - 1
  /\ saved' = <<inst>> \o saved
  /\ UNCHANGED <<table, down, closed, run>>

BatchCommit ==
  /\ Accepts
  /\ saved # <<>>
  /\ saved' = Tail(saved)
  /\ UNCHANGED <<table, down, closed, run>>

BatchFail ==
  /\ Accepts
  /\ saved # <<>>
  /\ StartRestore(Head(saved))
  /\ UNCHANGED <<table, down, closed, saved>>

(***************************************************************************)
(* _stop_impl: clean-up in the reverse of the order of activation          *)
(***************************************************************************)
Stopping == run.mode = "stop"
ToStop == {n \in 1..Len(order) : order[n] \in run.todo}
NextOut == {n \in ToStop : \A m \in ToStop : m <= n}
Unloading == InState({"unloading"})

Unload ==
  /\ Stopping
  /\ Unloading = {}
  /\ \E n \in NextOut : SetState(order[n], "unloading")
  /\ UNCHANGED <<order, down, open, closed, saved, run>>

\* The clean-up callbacks of the instance have run.  All of them do; their
\* errors are collected.
Unloaded(i, fails) ==
  /\ Stopping
  /\ i \in Unloading
  /\ fails => "cleanup" \in Faults
  /\ inst' = [inst EXCEPT ![i].state = "pending", ![i].owned = None,
                          ![i].values = NoValues]
  /\ Release(i)
  /\ order' = RemoveFirst(order, i)
  /\ run' = [run EXCEPT !.failed = @ \/ fails]
  /\ UNCHANGED <<down, closed, saved>>

\* _stop() goes on when its caller is cancelled and raises afterwards; the
\* task that restores a batch is not the caller's and is not cancelled.
Cancel ==
  /\ "cancel" \in Faults
  /\ Stopping
  /\ run.kind # "restore"
  /\ Unloading # {}
  /\ ~run.cancelled
  /\ run' = [run EXCEPT !.cancelled = TRUE]
  /\ UNCHANGED <<table, down, closed, saved>>

Stopped == Stopping /\ Unloading = {} /\ ToStop = {}
Clean == ~run.failed /\ ~run.cancelled

\* An error of a clean-up ends every operation but these three here.
StoppedBadly ==
  /\ Stopped
  /\ ~Clean
  /\ run.kind \notin {"unmount", "close", "restore"}
  /\ Raise
  /\ UNCHANGED <<table, down, closed>>

\* A cancelled unmount raises before it marks the instance.
StoppedUnmount ==
  /\ Stopped
  /\ run.kind = "unmount"
  /\ IF run.cancelled THEN UNCHANGED inst ELSE SetState(run.id, "disposed")
  /\ Return
  /\ UNCHANGED <<order, down, open, closed>>

StoppedClose ==
  /\ Stopped
  /\ run.kind = "close"
  /\ inst' = [i \in Id |-> IF inst[i] = None THEN None
                           ELSE [inst[i] EXCEPT !.state = "disposed"]]
  /\ Return
  /\ UNCHANGED <<order, down, open, closed>>

StoppedReplace ==
  /\ Stopped
  /\ Clean
  /\ run.kind = "replace"
  /\ inst' = [inst EXCEPT ![run.id].def = run.change[1],
                          ![run.id].config = run.change[2],
                          ![run.id].prepared = run.change,
                          ![run.id].state = "pending"]
  /\ Settle("replace")
  /\ UNCHANGED <<order, down, open, closed, saved>>

StoppedService ==
  /\ Stopped
  /\ Clean
  /\ run.kind = "service"
  /\ \E o \in Fresh(run.id) :
       inst' = [inst EXCEPT ![run.id].values[run.change] = o]
  /\ Settle("service")
  /\ UNCHANGED <<order, down, open, closed, saved>>

StoppedRefresh ==
  /\ Stopped
  /\ Clean
  /\ run.kind = "refresh"
  /\ Settle("refresh")
  /\ UNCHANGED <<table, down, closed, saved>>

\* The table as it was: what was stopped is rebuilt from the snapshot, to be
\* activated again; the rest keeps its context and gets its old values back.
Rebuilt(r) ==
  [r EXCEPT !.state = IF @ = "active" THEN "pending" ELSE @,
            !.owned = None, !.values = NoValues]

\* (mutant) the plugin keeps seeing the configuration that was rolled back.
KeptView(i, r) ==
  [inst[i] EXCEPT !.config = r.config, !.prepared = r.prepared,
                  !.values = r.values]

\* (mutant) a replaced service stays replaced.
KeptValues(i, r) ==
  [inst[i] EXCEPT !.config = r.config, !.prepared = r.prepared,
                  !.view = IF inst[i].owned = None THEN @ ELSE r.config]

Kept(i, r) ==
  [inst[i] EXCEPT !.config = r.config, !.prepared = r.prepared,
                  !.values = r.values,
                  !.view = IF inst[i].owned = None THEN @ ELSE r.config]

StoppedRestore ==
  /\ Stopped
  /\ run.kind = "restore"
  /\ LET old == Head(saved)
     IN  inst' = [i \in Id |-> IF old[i] = None THEN None
                               ELSE IF i \in run.todo THEN Rebuilt(old[i])
                               ELSE Kept(i, old[i])]
  /\ run' = [run EXCEPT !.mode = "settle", !.todo = {}]
  /\ UNCHANGED <<order, down, open, closed, saved>>

(***************************************************************************)
(* _reconcile: activate what is pending and misses nothing                 *)
(***************************************************************************)
Provider(k, s) == CHOOSE p \in Available(k, s) : TRUE
Captured(i) ==
  [k \in Key |-> IF k \in Requires[inst[i].def]
                   THEN inst[Provider(k, inst[i].scope)].values[k]
                   ELSE None]

Activate(i) ==
  /\ run.mode = "settle"
  /\ i \in Ready
  /\ \E o \in Fresh(i) :
       /\ inst' = [inst EXCEPT ![i].state = "loading", ![i].owned = o,
                               ![i].values = Captured(i),
                               ![i].view = inst[i].config]
       /\ open' = open \cup {o}
  /\ run' = [run EXCEPT !.mode = "loading"]
  /\ UNCHANGED <<order, down, closed, saved>>

Loading == InState({"loading"})

Activated(i) ==
  /\ run.mode = "loading"
  /\ i \in Loading
  /\ inst' = [inst EXCEPT ![i].state = "active",
                          ![i].values = Publish(inst[i].def, @, inst[i].owned)]
  /\ order' = Append(order, i)
  /\ run' = [run EXCEPT !.mode = "settle"]
  /\ UNCHANGED <<down, open, closed, saved>>

\* (mutant) an instance that failed is tried again.
ActivationRetried(i) ==
  /\ run.mode = "loading"
  /\ i \in Loading
  /\ inst[i].def \in Fragile
  /\ SetState(i, "pending")
  /\ Release(i)
  /\ run' = [run EXCEPT !.mode = "settle"]
  /\ UNCHANGED <<order, down, closed, saved>>

Spoilt(i) ==
  \/ inst[i].def \in Fragile
  \/ "cancel" \in Faults /\ run.kind # "restore"

\* activate() or publish() raises, or the caller is cancelled: the resources
\* of the instance are released and the operation raises.  A restore notes
\* the error and goes on with the others.  What the instance captured nobody
\* reads again.
ActivationFailed(i) ==
  /\ run.mode = "loading"
  /\ i \in Loading
  /\ Spoilt(i)
  /\ inst' = [inst EXCEPT ![i].state = "failed", ![i].values = NoValues]
  /\ Release(i)
  /\ IF run.kind = "restore"
       THEN /\ run' = [run EXCEPT !.mode = "settle", !.failed = TRUE]
            /\ UNCHANGED saved
       ELSE Raise
  /\ UNCHANGED <<order, down, closed>>

Settled ==
  /\ run.mode = "settle"
  /\ Ready = {}
  /\ Return
  /\ UNCHANGED <<table, down, closed>>

\* A service becomes unavailable, or available again, outside the host.
ServiceFlips(k) ==
  /\ down' = IF k \in down THEN down \ {k} ELSE down \cup {k}
  /\ UNCHANGED <<table, closed, saved, run>>

(***************************************************************************)
(* Specification                                                           *)
(***************************************************************************)
Ask ==
  \/ \E m \in Mountable : Mount(m[1], m[2], m[3], m[4])
  \/ \E i \in Id : Unmount(i)
  \/ \E m \in Mountable, force \in BOOLEAN :
       m[1] \in Mounted /\ Replace(m[1], m[2], m[4], force)
  \/ \E i \in Id : ReplaceRefused(i)
  \/ \E i \in Id, k \in Settable : SetService(i, k)
  \/ Refresh
  \/ Close
  \/ CloseAgain
  \/ BatchBegin
  \/ BatchCommit
  \/ BatchFail

Proceed ==
  \/ Unload
  \/ \E i \in Id, fails \in BOOLEAN : Unloaded(i, fails)
  \/ StoppedBadly
  \/ StoppedUnmount
  \/ StoppedClose
  \/ StoppedReplace
  \/ StoppedService
  \/ StoppedRefresh
  \/ StoppedRestore
  \/ \E i \in Id : Activate(i)
  \/ \E i \in Id : Activated(i)
  \/ \E i \in Id : ActivationFailed(i)
  \/ Settled

Next ==
  \/ Ask
  \/ Proceed
  \/ Cancel
  \/ \E k \in Checked : ServiceFlips(k)

Spec == Init /\ [][Next]_vars

\* Plugin callbacks end, so an operation that has begun goes on.
FairSpec == Spec /\ WF_vars(Proceed)

(***************************************************************************)
(* Properties                                                              *)
(***************************************************************************)
Using == InState({"loading", "active", "unloading"})

\* At most one instance that is not disposed offers a key to a scope.
OneProvider ==
  \A i, j \in InState(State \ {"disposed"}) :
    \A k \in Provides[inst[i].def] \cap Provides[inst[j].def] :
      Same(k, inst[i].scope, inst[j].scope) => i = j

\* An instance that starts, works or cleans up has each service it requires:
\* its provider is active, and the value it captured is the provider's value
\* of now, whatever was reloaded, replaced or rolled back since.
ServicesOutliveUsers ==
  \A i \in Using : \A k \in Requires[inst[i].def] :
    \E p \in Publishers(k, inst[i].scope) :
      inst[i].values[k] = inst[p].values[k]

\* _order lists what is up, once each, and a provider before its users, so
\* that its reverse is an order of clean-up.
OrderIsActivation ==
  /\ ToSet(order) = InState({"active", "unloading"})
  /\ \A m, n \in 1..Len(order) :
       /\ order[m] = order[n] => m = n
       /\ Needs(order[m], order[n]) => n < m

\* Nothing is left behind: the contexts with resources are those of the
\* instances that are up.  A rollback drops instances from the table.
NoOrphans == open = {inst[i].owned : i \in Using}

\* What an instance runs with is what the table says of it, in each of the
\* three places the host keeps the configuration.
ConfigAgrees ==
  \A i \in Mounted :
    /\ inst[i].prepared = <<inst[i].def, inst[i].config>>
    /\ i \in Using => inst[i].view = inst[i].config

\* A rollback in which no callback fails gives the caller back its instances:
\* the same definitions, scopes and configurations, and active what was
\* active unless a service it needs has gone; whoever was not stopped
\* meanwhile has its old services, replaced since or not.
RollbackRestores ==
  [][run.kind = "restore" /\ run'.mode = "free" /\ Clean =>
       LET old == Head(saved)
       IN  \A i \in Id :
             IF old[i] = None THEN inst'[i] = None
             ELSE /\ i \in Mounted'
                  /\ inst'[i].def = old[i].def
                  /\ inst'[i].scope = old[i].scope
                  /\ inst'[i].config = old[i].config
                  /\ old[i].state \in {"disposed", "failed"} =>
                       inst'[i].state = old[i].state
                  /\ old[i].state = "active" =>
                       /\ inst'[i].state = "active" \/ Missing(i) # {}
                       /\ inst'[i].owned = old[i].owned =>
                            inst'[i].values = old[i].values]_vars

\* The docs: an instance is pending while it misses a service, and is
\* activated when the service appears.
PendingMeansMissing ==
  run.mode = "free" => Ready = {}

\* Every operation ends, even if callbacks fail while it is rolled back.
OperationsEnd == run.mode # "free" ~> run.mode = "free"
=============================================================================
