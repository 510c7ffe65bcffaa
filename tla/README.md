# Verification of BridgeAgent

TLA+ models of BridgeAgent (`src/src/bridge_agent`): its plugin kernel, the loader
and the source reloader that drive it, the coding tools and the saved sessions, checked
with TLC on small instances and, where it says so, proved with TLAPS for every
instance. Line numbers below are lines of the files under
`src/src/bridge_agent/`.

## The system

BridgeAgent is an asyncio program made of plugins. A *kernel* owns the plugins,
the services they publish to one another and the events they send; *bootstrap*
code decides which plugins run; the plugins do the work (an agent runtime, files,
commands, skills); a command line drives one application run.

| Part | State | Operations | What is hard | What makes it correct |
| --- | --- | --- | --- | --- |
| Call and change gate (`kernel/dynamic.py` 388-452) | `_gate`, `_leases`, `_idle`, lease groups, mutation windows, `_closed` | `lease`, `_mutation`, `transaction`, `close` | any number of tasks; calls inside calls; a drain that times out or is cancelled; child tasks that inherit context variables | calls and lifecycle changes exclude each other; the counters match the calls; nobody waits behind itself; closed stays closed |
| Plugin instances (`kernel/dynamic.py` 454-891) | `_instances`, `_order`, one context and one table of values per instance, snapshots of batches | `mount`, `unmount`, `reconfigure`, `reload`, `set_service`, `refresh`, `batch`, `close` | activation, clean-up and preparation may each fail; the caller is cancelled; batches nest; services come and go | services outlive their users; nothing is left behind; a failed group of changes is undone |
| Contexts and effects (`kernel/context.py`, `kernel/dynamic.py` 93-365) | pending and published services, exit stack, effects | `provide`, `require`, `publish`, `close`, `effect` | disposal that races clean-up | released once, in reverse order, errors kept |
| Events (`kernel/events.py`) | listener lists, active flags | `on`, `once`, dispose, `emit`, `bail`, `serial`, `parallel`, `waterfall` | snapshots that go stale; dispatches inside and beside dispatches | once is once; a dispatch asks everybody who was there all the time; answers and errors are not lost |
| Static host and plan (`kernel/host.py`, `kernel/plan.py`) | `HostState`, contexts, services, one clean-up task | `start`, `close`, `resolve`, `activation_plan` | failed and cancelled starts, concurrent closes | one clean-up, in reverse order, before anybody returns; the plan is an order |
| Loader (`bootstrap/dynamic.py`) | `_entries`, `_contexts`, `_mounted`, the file | `load`, `create`, `update`, `remove`, `save`, `_apply` | trees of entries that move; host operations that fail half way; candidates made before the gate is had | tree, contexts and instances agree; what a change does not touch stays up |
| Source reloader (`bootstrap/reload.py`) | digests, `_sources`, `sys.modules` | `watch`, `check`, `/reload` | edits at any moment; one file of several is bad | a failed reload leaves no trace; every edit is tried, and tried once |
| Console (`interfaces/approval.py`) | one lock, one reader | `confirm` | prompts in line, cancelled prompts, lines typed ahead | one prompt at a time; a yes for what was shown |
| Command runner (`plugins/commands.py`) | requests, running processes | `run`, `cancel`, `close` | timeout, cancellation, also while a process starts, close, approval | at most one run per request, no process left, no result of what was cancelled |
| Workspace changes (`plugins/changes.py`) | previews, applied requests | `preview`, `apply` | a file that changes while approval is awaited | nothing stale is written, nothing twice |
| Agent runtime and sessions (`plugins/langchain/runtime.py`, `sqlite_checkpoint.py`) | checkpoints, file lock, `_busy`, `_failed_sessions`, `_workspace`, `_version` | `get_session`, `run`, opening and closing the database | a turn is three writes; timeouts, cancellations and crashes between them; runtimes that are replaced | one writer; a broken history is never continued; what a caller was told is kept |
| Configuration, skills, files, tools, command line | none that changes, or text | | | |

The parts meet as follows. Every event dispatch that awaits and every call of a
dynamic runtime takes a *lease* of the gate; every lifecycle operation opens a
*mutation window* in it; so whatever an operation does to the instances happens
while no call is in flight. An operation calls plugin code (`prepare`,
`activate`, clean-up callbacks) and waits for it. Plugins see services through
contexts, and a context's registrations (listeners, effects, resources) end with
it. The loader and the reloader are callers of the dynamic host: the loader turns
a tree of entries into mounts, the reloader holds a `transaction()` while it calls
`loader.load` and `host.reload`. The static host runs the same contexts without the
gate. The runtime is one of the plugins; every call of it takes a lease, so it is
replaced only when no turn is under way.

## The modules

| Module | Models | Proofs |
| --- | --- | --- |
| `CallGuard` | abstract: calls run beside each other, changes alone, nothing after shutting | |
| `LeaseGate` | the gate: `lease`, `_mutation`, `close` over `asyncio.Lock` and context variables | `LeaseGateProofs` |
| `DynamicHost` | the instances, one operation at a time, from await to await | `DynamicHostProofs` |
| `Events` | the listeners of one event and its dispatches | `EventsProofs` |
| `ActivationPlan` | `activation_plan()` as operators | in `PluginHostProofs` |
| `PluginHost` | the static host over `ActivationPlan` | `PluginHostProofs` |
| `Loader` | `DynamicLoader`, its callers and its file, over a host that may fail | `LoaderProofs` |
| `Reloader` | `SourceReloader`, editors and `/reload` | `ReloaderProofs` |
| `Conversation` | abstract: turns that are answered, except for the last one | |
| `Sessions` | `LangChainRuntime.run` over the SQLite checkpoints, in several processes | `SessionsProofs` |
| `CommandRunner` | `LocalCommandRunner`, its tasks and their processes | in `CodingActionsProofs` |
| `WorkspaceChanges` | `LocalWorkspaceChanges` and one file | in `CodingActionsProofs` |
| `ConsoleApproval` | the prompts of `ConsoleApproval` and the reader they share with the chat | in `CodingActionsProofs` |
| `CodingActions` | the three of them composed, as tools of one agent | `CodingActionsProofs` |
| `MC...` | values for the constants, for TLC | |

An operator marked *(mutant)* is a plausible bug: the definition after it, broken.
Nothing refers to it; putting it in the place of that definition must make the
property it is meant for fail.

### LeaseGate and CallGuard

`LeaseGate` has one action per way a task meets the gate: a lease outside any
other (`LeaseAsk`, `LeaseGranted`), inside another (`LeaseNested`), inside a window
(`LeaseFree`), their ends, a change that is refused, waits in line, drains, times
out or is cancelled, and `close()`. `frames[t]` is the stack of `async with` blocks
the task is inside; `group` and `windowed` are the two context variables, which a
child task inherits (`Spawn`); groups are the `LeaseGroup` objects, which a dead
child may still refer to. `asyncio.Lock` is a line of waiters served first come
first served.

`CallGuard` says what this is for in a page: `begin` and `end` of calls, `enter`
and `leave` of a change, which needs that no call is in flight, and `shut`.
`LeaseGate` implements it (`Refines`).

### DynamicHost

The gate lets one task at a time change the host, so here there is one operation at a
time, `run`, and everything else is the plugins' doing. An operation starts (`Mount`,
`Unmount`, `Replace`, `SetService`, `Refresh`, `Close`, `BatchFail`), stops a set of
instances (`Unload`, `Unloaded`: `_stop_impl`), does what is its own (`Stopped...`),
and activates what is ready (`Activate`, `Activated`, `ActivationFailed`:
`_reconcile`). `reconfigure` and `reload` are `Replace`, in a batch of their own; a
batch that fails is an operation too (`_restore`), with a snapshot on `saved`.
`Faults` says which plugin callbacks may fail and whether the caller may be cancelled;
`Fragile` names the definitions whose activation may fail, `Settable` the keys that
callers replace. Contexts and service values are identities: `<<instance, number>>`, a
number being used again when nobody refers to it. Scopes are constant and isolate keys
by label; a configuration is a pair of its ordinary and its volatile part.

`inst[i]` has the fields of `Instance`; `view` is what `Context.config` shows the
plugin and `prepared` what the factory was built with, since the code stores the
configuration in these three places. The values of a failed instance are
forgotten: nobody reads them.

### Events

One event name. A dispatch is a snapshot of hooks and what each has done (`said`); the
hooks its filter leaves out are in it too, as `"unheard"`. Dispatches other than
`parallel` go from one listener to the next without an await, so nothing runs
`Between`; the synchronous ones form a stack, and only the listener called last runs.
`waterfall` is a descent: the innermost listener may call `next`, return or raise.

### ActivationPlan and PluginHost

The plan follows `TopologicalSorter`, round by round, as a recursive function
(`Handed`); a plugin's place is the number of those handed out before it (`Before`:
in an earlier round, or declared earlier in the same one). `Refused` gathers the
errors. `PluginHost` starts with any declaration, activates
along the plan and cleans up in one task that every `close()` and a failed
`start()` wait for.

### CodingActions

`CommandRunner`, `WorkspaceChanges` and `ConsoleApproval` share no variable.
`CodingActions` instantiates them and conjoins their actions as the code calls one
from the other: a command or a change asks the console for approval, and the answer
is what starts the process or writes the file. An action is what a task does between
two awaits. A cancelled task is in `hit` until it raises the `CancelledError` at the
await it is in; `waits` says which tasks `cancel()` and `close()` gather. `alive`
and `launched` are the processes, which end by themselves (`ProcessExits`) or
because they are killed (`ProcessKilled`). `_stop()`, which waits for the process
however often it is cancelled, is reached from the output on: a cancellation while the
process is *starting* is asyncio's affair (`AbortStart`), which kills the process
(`aborted`) and awaits it without a shield, so a second cancellation leaves `run()` at
once (`LeaveStart`). `launched` and `cancelled` are history: how often the process of a
request was started, and which requests were cancelled when they had been attempted.
`TurnInterrupted` is the timeout of a turn, or its caller's cancellation, which hits
every tool under way. `line` and `queue` are the two `asyncio.Lock`s; `typed` holds the
lines nobody has read.

### Loader

A tree gives each id an entry or nothing; an entry has a parent, a configuration, a
flag and a `shape`, which stands for all else that it says (name, scope, inject,
intercept). `load`, `create`, `update` and `remove` are `Ask`: the candidate is made
there, from `file` or from `entries`, and the gate is waited for afterwards. `Begin`
is the part of `_apply` before its first await, which works out what to unmount,
mount and reconfigure; each of these is a step, and each may fail (`Fails`) with what
the host then has: an unmount whose clean-up failed has disposed of the instance, a
cancelled one has not, a mount may leave a failed instance. The loader puts its
fields back first and the host's batch its instances afterwards (`Restored`), as
`DynamicHost` describes it. The context of an entry is the row of what its ancestors
say, here the function from the ancestors to what they say.

### Reloader

A file's contents are numbers that grow: an editor never goes back to an earlier
text. `Check` opens a transaction (while `phase` is not `"idle"` nobody else has the
gate), compares the configuration with its digest, loads it, reads the sources one by
one, executes the modules of affected plugins and reloads their instances; `Fail` is
the way back, in two halves as in the code, `built` for `sys.modules` and `runs` for
the host's batch; `Record` is the `finally` that notes the digests. Editors write
between any two of these steps. `/reload` reads the file (`AskReload`) and applies
what it read when it gets the gate (`ReloadByHand`). A change of the framework ends
the watcher.

### Sessions and Conversation

A session's checkpoint has its questions, which of them are answered, its workspace
and version, and the mark `incomplete` or `succeeded`. A turn loads it, saves the
question with the mark (`Mark`), the answer (`Work`) and the second mark (`Finish`),
and returns; `Fail` is a limit, the timeout, a cancellation or an error at any of its
awaits. What lies between the first write and the final answer, the checkpoints of
tool calls, is one step: none of them is looked at again. `Start`, `Close`, `Crash`
and `Rebuild` are processes that come and go and runtimes that are replaced, which
forget `_failed_sessions`, `_workspace` and `_busy`. `told` and `old` are history
variables: what callers got, and which turns are older than the runtime.

`Conversation` says what a user is promised: a conversation is a row of answered
turns, and one that is under way; a turn that is never answered closes it. Its
state is read from the checkpoints (`Answers`, `Open`).

## What the runs show

| Run | Question | Instance |
| --- | --- | --- |
| `lease_gate` | do calls and changes exclude each other, is the accounting right, does the gate keep `CallGuard`'s promise, does everybody in line leave it? | 3 tasks, 3 groups, 2 nested blocks |
| `host` | do services outlive their users, are users of users stopped first and started last, does a slot have one provider, and does every operation end, with every fault? | 3 instances in 2 scopes: a chain of 3 whose last may be a rival of its first, and a service that flips |
| `host_batch` | is a failed batch undone, with what it added, updated in place and replaced, when a provider fails again meanwhile? | 2 instances, of which one may be where the other cannot see it, a caller's batch around the operations' own |
| `events` | is once once, and does a dispatch ask everybody it should and tell of what they said, from a stale snapshot? | 2 listeners, 2 dispatches, all six kinds |
| `plugin_host` | is the plan right, and is there one clean-up that everybody waits for? | 2 tasks, every declaration of 3 plugins over 2 keys |
| `actions` | once per id, no process left, no result of what was cancelled, an answer for the prompt on the screen, and does everybody who waits stop waiting? | 3 tasks, 1 request, 1 change of a file that is edited and deleted |
| `loader` | do tree and host agree after anything fails, and does a change leave the rest alone? | 2 tasks, 3 entries one below the other, of which one changes its scope, one its configuration and its flag |
| `reloader` | does a failed check leave no trace, is every edit tried, and does the watcher come to rest? | 2 plugins that share a module, 4 files of which 3 become bad and good again, 3 configurations |
| `sessions` | one writer, coherent histories, kept answers, across crashes, and the refinement | 2 processes, 3 tasks, 4 questions, 2 sessions, workspaces and versions |

Three runs end in a violation; each is a sentence of the documentation or of a test
that the code does not keep (`findings` in `PROJECT.json`):

- `host_twins`: unmounting an instance that is already disposed stops the users of
  the slot's next provider and leaves them pending.
- `reloader_fixed`: a good edit that is seen together with a bad one is rolled back
  with it, and is not tried again when the bad one is repaired.
- `actions_start`: a start that is cancelled twice, say by `cancel()` and then
  `close()`, leaves `run()` before the process is reaped, which the guide rules out. So
  `NoProcessLeft` and `CloseIsQuiet` speak of the processes that asyncio has not killed
  while they started (`alive \ aborted`), and `KilledIsAwaited` of all.

Five more configurations are kept for a sentence that TLC refutes, too. They are not
among the runs because they repeat a kind of disagreement, or ask for more than the
sentence strictly says:

- `MCLeaseGateDrain.cfg`: a call made by a child task of a lifecycle callback is not
  counted, outlives the window, and a later change does not wait for it.
- `MCDynamicHostPeers.cfg`: one user that fails to activate leaves others pending
  whose service is there.
- `MCEventsBase.cfg`: a listener disposed while a waterfall is under way answers
  `None` for its callback, and the wrapped function never runs.
- `MCCodingActionsYes.cfg`: a line typed before a prompt is printed is still in the
  reader when it is printed, and answers it (`YesIsForThePrompt`).
- `MCLoaderSerial.cfg`: two changes of single entries, one after the other at the
  gate, may undo one another, because each candidate was made before the wait
  (`OneEntryAtATime`).

Three things to know of what these runs do not show. `host_batch` cancels nobody: that
no resources are left behind when a caller is cancelled (`NoOrphans`) is shown by the
theorem alone. `host_twins` lets nothing fail: that failures leave users pending is
what `MCDynamicHostPeers.cfg` is for. And `NoUntoldTurn` exempts turns that are older
than the runtime: `docs/guides/sessions.md` 44 says without exception that a cancelled
turn stays incomplete, but one that is cancelled after its last write is saved as
succeeded, and after a restart, when nobody knows of the cancellation any more, the
session is continued past an answer that nobody got.

`TypeOK` of `DynamicHost`, `Events`, `PluginHost` and `CodingActions` is not among the
properties of the runs; it holds when it is added to a configuration. That of
`DynamicHost` and that of `PluginHost` are theorems.

**Bounds.** Three tasks are a caller, a changer and one that waits in line behind
either; two nested blocks are a call inside a call and a call inside a change. A
rollback needs an instance to keep, one to stop and one that depends on it, hence
three instances at most; a second level of batches is the first where a rollback
happens inside a group that goes on. `MaxLive` only bounds the numbers of identities
and is never reached. Two listeners show the order of any pair, and two dispatches
what one does to the other. Three tasks at the tools are one that runs a command, one
that applies a change or waits for the console, and one that cancels or closes; one
request id and one change are what two tasks contend for. `MaxTyped` bounds lines
typed ahead: one is enough to answer a prompt early. Every graph of three plugins has
every shape a missing key, a conflict, a self-loop and a cycle of two or three can
take. Three entries are a group, an entry in it and one below that, the least in which
a change reaches a grandchild; two tasks are one that applies and one whose candidate
ages meanwhile. `Versions` is how often a file is written: a good text, a bad one and
its repair; two plugins with a module in common are the least of which one fails after
the other was reloaded. Four questions fill two sessions, with a turn that fails and
one after it in each. The theorems about these three modules have no bounds.

**Fairness.** `lease_gate` assumes that the event loop runs whoever is woken, that the
drain timeout fires, and that the body of a change ends; calls are not assumed to
return. `host` assumes that plugin callbacks end (`WF_vars(Proceed)`), since the code
awaits them without a timeout. `plugin_host` assumes that clean-up callbacks end and
that a waiter whose task is done runs; activations need not end. `actions` assumes
that the event loop runs whoever can go on and that SIGKILL ends a process. `reloader`
assumes `WF_vars(Watcher)`: the watcher polls until it is stopped, and its steps are
reads, imports and host operations that end. A transaction that is refused because of
a long turn is tried again at the next poll, which is why its wait is not modelled.
Nothing is assumed of editors and users. `loader` and `sessions` need no fairness.
That somebody answers the prompts and that the timeout of a command fires is no part
of the specification but the hypothesis of `CallsEnd` (`Answered`); `WaitsEnd` does
without.

**Deadlock** is checked except where callers may simply stop calling: `Events`
(dispatches are used up), `PluginHost` (used once) and `Reloader` (a change of the
framework ends the program).

## What is proved

`LeaseGateProofs`, for any set of tasks and groups and any depth of nesting:

| Theorem | Statement |
| --- | --- |
| `Invariance` | `Spec => []IInv` |
| `TypeCorrect` | `Spec => []TypeOK` |
| `Exclusion` | `Spec => []WindowExcludesCalls` |
| `Accounting` | `Spec => []CountsAgree` |
| `ClosedStaysClosed` | `Spec => ClosedIsFinal` |
| `Implementation` | `Spec => Refines`: the gate implements `CallGuard` |
| `NoSelfWait` | `Spec => []NoCallBehindItself` |

Exclusion is not inductive: that no call is in flight while a window is open
depends on who may pass the gate without waiting, which is a matter of groups. The
invariant `IInv` adds that the lease counter is the number of counted blocks, that
a group's counter is the number of the blocks that carry it, that whoever is
inside a window holds the gate, and that the holder of the gate is the only one
who may be between draining and the window. The proof has one lemma per action and
cites facts on finite sets for the counters. `NoSelfWait` has an invariant of its own
on top of `IInv`: a task that is inside a call carries the group of that call (`OwnGroup`),
so whatever it asks for next goes past the gate, and nobody in the line is inside a
call. The assumptions are those of the
constants in `LeaseGate`: finite sets of tasks and groups, and a natural bound of
nesting.

`CodingActionsProofs`, for any set of tasks, requests, changes and contents:

| Theorem | Statement |
| --- | --- |
| `RunnerInvariance` | `Runner!Spec => []Runner!IInv` |
| `RunnerInvariant` | `Spec => []Runner!IInv` |
| `RefinesRunner` | `Spec => Runner!Spec`: `CodingActions` implements `CommandRunner` |
| `RunsOnceHolds` | `Spec => []RunsOnce` |
| `NoProcessLeftHolds` | `Spec => []NoProcessLeft` |
| `CloseIsQuietHolds` | `Spec => []CloseIsQuiet` |
| `CancelledHasNoResultHolds` | `Spec => []CancelledHasNoResult` |
| `AppliedOnceHolds` | `Spec => []AppliedOnce` |
| `PromptInvariance` | `Spec => []PromptInv` |
| `AnswerIsForThePromptHolds` | `Spec => []AnswerIsForThePrompt` |

The runner is proved once, among callers that do anything its interface allows, and
carried over: each step of the tools is a step of the runner or none (a step that
cancels a turn needs the invariant, because it may cancel only tasks). The runner's
invariant says that a request is registered exactly while its task is inside `run()`;
that what was attempted and is under way is past the approval; that a process was
started once for what was attempted and, unless asyncio has killed it, is alive only
while its task is past the approval and not in an aborted start; that after `close()`
whatever still runs is waited for by somebody who closes; and that the task of a
request which was cancelled is in `hit`, or has been and does not keep its result
(`Spoilt`). The part about `close()` is what makes `CloseIsQuiet` inductive: tasks
leave `waits` only when they have left `run()`. `Spoilt` is what carries a
cancellation from `cancel()`, past the await that raises it and clears `hit`, to the
end of `run()`. The invariant of the changes is that whoever holds the lock has a
change that is not applied and whose preview is there; only the holder applies, so
nothing between its look and its write can apply the same change. The invariant of the
prompts, `PromptInv`, has two halves: of the console, that nobody is in its line twice
and that the screen shows what its holder asks (`InLine`); and of the two kinds of
callers, that a task asks about the request whose approval it awaits or the change it
has the lock for, and is never in both (`AsksForIts`). It needs the other two
invariants: the chat prints its own prompt only when no request is registered and no
change is under way, so nobody holds the console then. What a line was meant for when
it was typed is another matter (`MCCodingActionsYes.cfg`). The only assumption is that
`Nobody` is no task, request or change.

`DynamicHostProofs`, for any set of ids, definitions, keys, scopes, configurations and
mounts, any faults, and any depth of batches:

| Theorem | Statement |
| --- | --- |
| `HostInvariance` | `Spec => []IInv` |
| `TypesHold` | `Spec => []TypeOK` |
| `OneProviderHolds` | `Spec => []OneProvider` |
| `ServicesHold` | `Spec => []ServicesOutliveUsers` |
| `OrderHolds` | `Spec => []OrderIsActivation` |
| `NoOrphansHolds` | `Spec => []NoOrphans` |
| `ConfigHolds` | `Spec => []ConfigAgrees` |
| `RollbackHolds` | `Spec => RollbackRestores` |

The invariants that the runs check are the first part of `IInv` (`TableInv`), and none
of them can be proved by itself. A rollback makes the snapshot the table, so the
snapshot must have been sound when it was taken (`AtRest`) and what is kept of the
present must still fit it: an instance that is up in the context it had then has not
been replaced since, and neither has any of its providers (`Lasting`). That in turn holds
because whatever stops an instance stops its users first: `run.todo` is closed
under use (`ClosedUnderUse`), with the provider whose service is set left out, whose
users are all in it. The last part is what an operation notes for its end: a `replace`
that its new definition has no rival, a `restore` that what it leaves alone is as in the
snapshot, and after that, while nothing has failed, how far the table is back to it
(`Regained`), from which `RollbackRestores` follows. `Dependents` is a least
set, and the proof uses no more than that: it contains what is asked for, is closed, and
is contained in every closed set that contains it. Assumed: no definition requires what
it provides (`KeysAssumption`), mounts are of the right type, and `None` is nothing else.

`EventsProofs`, for any hooks, dispatches, filters and modes:

| Theorem | Statement |
| --- | --- |
| `EventsInvariance` | `Spec => []IInv` |
| `OnceRunsOnceHolds` | `Spec => []OnceRunsOnce` |
| `DispatchIsCompleteHolds` | `Spec => []DispatchIsComplete` |

Listeners are called by two actions only, both through `Enter`, which looks at the hook
and disposes one registered with `once` before its callback runs; for `OnceRunsOnce`
that is all, whatever is in the snapshots. `DispatchIsComplete` needs to know of each
dispatch how far it is (`Told`): who was passed over is not selected or is disposed
(`PassedOver`), which stays so because a hook is registered once and disposed once
(`HooksAge`); while it goes on nothing has decided it, and whoever runs comes before
those that are still to be called (`InTurn`), so when an answer or an error ends it
they come after it (`Concluded`). A snapshot holds hooks that have been registered, and
no more is assumed of it.

`SessionsProofs`, for any set of processes, tasks, sessions and questions:

| Theorem | Statement |
| --- | --- |
| `SessionInvariance` | `Spec => []IInv` |
| `SessionTypes` | `Spec => []TypeOK` |
| `OneWriterHolds` | `Spec => []OneWriter` |
| `HistoryHolds` | `Spec => []HistoryIsCoherent` |
| `ToldIsKeptHolds` | `Spec => []ToldIsKept` |
| `StaysAtHomeHolds` | `Spec => StaysAtHome` |
| `NoUntoldTurnHolds` | `Spec => NoUntoldTurn` |
| `SessionsImplementConversations` | `Spec => KeepsPromise` |

Whoever has a turn under way is in the process that has the lock and has its `_busy`,
so there is one (`Held`). Therefore what `Load` found is still there when `Mark`
writes: `Progress` says for each place of the turn what its session must look like.
`Fresh` says that a question which is under way is not in any other session, and
`Answerable` that what a runtime may continue was told by it or is older. Assumed: a
task has one process, and `None` and `Nobody` are different from everything else.

`LoaderProofs`, for any set of tasks, ids and entries:

| Theorem | Statement |
| --- | --- |
| `LoaderInvariance` | `Spec => []IInv` |
| `LoaderTypes` | `Spec => []TypeOK` |
| `TreeMatchesHostHolds` | `Spec => []TreeMatchesHost` |
| `UntouchedStayHolds` | `Spec => UntouchedStay` |

`Halfway` is the invariant of `_apply`: of what is mounted, all that need not be
dropped is in the context of the new tree, and what is not to be reconfigured has its
configuration. That it holds at the start rests on two lemmas about trees:
`KeptContext`, an entry that is not in `Remount` has the same ancestors, and so the
same context, in both trees; and `SameIsKept`, the converse, from which nothing that
both want alike is touched. Both need that trees have no missing parents (`Valid`).

`ReloaderProofs`, for any set of plugins, modules, versions and configurations:

| Theorem | Statement |
| --- | --- |
| `ReloaderInvariance` | `Spec => []IInv` |
| `ReloaderTypes` | `Spec => []TypeOK` |
| `LastGoodRunsHolds` | `Spec => []LastGoodRuns` |

Outside the reload the plugins are sound; inside, `before` is, and only affected
plugins differ from it (`HalfReloaded`). A plugin that is not left to do was activated
without an error, so its versions are good when the check ends.

`PluginHostProofs`, for any set of tasks and declarations of finitely many plugins:

| Theorem | Statement |
| --- | --- |
| `HostInvariance` | `Spec => []IInv` |
| `HostTypes` | `Spec => []TypeOK` |
| `ReturnedMeansReleasedHolds` | `Spec => []ReturnedMeansReleased` |
| `ReleasedOnceHolds` | `Spec => []ReleasedOnce` |
| `PlanIsRightHolds` | `Spec => []PlanIsRight` |
| `ProvidersOutliveUsersHolds` | `Spec => []ProvidersOutliveUsers` |

The invariant ties the state of the host to the phase of the clean-up task and to
where the callers are, and says that what is open is among the first contexts, as many
as are left. `ReleasedOnce` counts: nothing is released before the clean-up begins,
and what it has left to release has not been released (`Counted`). That the plan is
right is a matter of induction over rounds and places, which the prover cannot be
given as such: the library's induction theorems take an operator. Each such step is a
*least counterexample* instead (`LeastNat`: a nonempty set of naturals has a least
element, because `<` is well-founded): the rounds exist and only grow (`RoundsExist`,
`HandedGrows`), everything handed out has a round (`RoundIs`), and a plugin has all
its dependencies in earlier rounds (`DependencyRounds`). The plugins before one are
fewer than those before a later one (`BeforeGrows`), which makes the places an
injection and, since the plugins are finitely many, a bijection (`EachHasItsPlace`).
`OrdersHandOut` is the converse, that a declaration with an order at all is handed out
in full: the first plugin of the order that is not has all its dependencies before it.
Hence `PlanIsRight` in both directions, and `ProvidersOutliveUsers` without a
hypothesis about plans.

Only model-checked: liveness (`Served`, `OperationsEnd`, `WaitersReturn`, `WaitsEnd`,
`CallsEnd`, `EditsAreTried`, `ComesToRest`), because the prover does not handle
fairness. Not proved either are `TypeOK` of `Events` and that of `CodingActions`, of
which the invariants above contain all but the stack of dispatches, the lines that are
typed and the contents of previews.

## What is left out

In `DynamicHost`: event hooks around configuration and updates (a hook may refuse
them, which is `ReplaceRefused` or no step at all), accessors and checks that raise
(one that raises while a user is about to be activated ends the rollback loop early,
`kernel/dynamic.py` 605), operations a plugin starts from its own activation (a mount
from there changes the dictionary that `_reconcile` iterates over, 686), mounts that
are refused (no change), the text of errors. In `Events`: names other than one, and
the `internal.dispatch` notice. In `PluginHost`: repeated plugin names and conflicting
key objects, which are refused first. In `CodingActions`: `ConfiguredApproval`, which
answers some requests without a prompt; other members of a command's process group, of
which `_stop()` kills all and asyncio only the first; and other programs that write
between the last read of a file and its replacement, which are one step here. In
`Loader`: the order of siblings, which decides only the order of the host's
operations. In `Reloader`: plugins imported for the first time while the watcher runs
(whose digest is that of the file as it is then, `bootstrap/reload.py` 106), extra
files (`watch_file`), files that disappear, and a `save()` during a check. In
`Sessions`: `get_session`, which only reads; the checkpoints of tool calls; and two
runtimes over one checkpoint service in one process, which nothing but the interfaces
prevents (`plugins/langchain/runtime.py` 80). Not modelled: `Context.effect` and the
exit stack callback by callback (`DynamicHost` releases a context as a whole), and
configuration files, discovery of packages, skills, file reading, tool and model
adapters, the command line and the contracts, which keep no state that interleaves.

## Plan

1. Kernel (done): the gate, the instances, events, the static host.
2. `CommandRunner`, `WorkspaceChanges`, `ConsoleApproval`, `CodingActions` (done).
3. `Sessions` over `Conversation` (done), `Loader` and `Reloader` (done).
4. Proofs (done): every safety property that a run checks, and every action property.
5. Proofs (left): waterfalls in `Events`, which `DispatchIsComplete` leaves out; the
   types of `Events` and `CodingActions`.
6. Left to model: `Effects`, the exit stack of a context against a disposal that races
   it; an abstract `ServiceGraph` (instances with live services, changed atomically)
   that `DynamicHost` implements when no callback fails, and the composition of `Loader`
   with it in place of the batch it assumes.
