# TLA+ verification of Apoch-AI

Apoch-AI is a local MCP server for coding agents: a module engine (Chronicle,
Vision, Guardian, Pulse, Optimizer, Oracle), a gateway that exposes their tools,
and a manager that installs third-party tools. The modules in this directory are
translated from the Python source under `src/src/apoch`; paths below are relative
to that directory.

    tlc -config Engine_pass.cfg MCEngine       # model checking
    tlapm EngineProofs.tla                     # proofs

## 1. The system

| Component | State it keeps | Operations | Talks to |
|---|---|---|---|
| Engine (`core/engine.py`) | registry, bus, the Context of the current start | `start`, `stop` | registry (calls), bus (emits `module.*`, `engine.*`) |
| ModuleRegistry (`core/registry.py`) | `_loaded`, `_init_order`, `_guardian` | `discover`, `load`, `start_all`, `stop_all` | modules, Guardian (`protect`), Context (services) |
| Module (`core/module.py`) | `_state` | `start`, `stop`, `shutdown`, each behind a `_pre_*` hook | services of earlier modules, the bus |
| Guardian (`modules/guardian`) | `_diagnostics` | `protect`, `stop`, `clear_diagnostics` | writes `_state` of other modules |
| EventBus (`core/events.py`) | a list of handlers for each topic | `subscribe`, `unsubscribe`, `clear`, `emit` | handlers (awaited callbacks) |
| Gateway (`adapters/manager.py`, `adapters/opencode/server.py`) | engine, coordinator, tool slots, registered names | `start`, `stop`, `serve`, `register_module_tools`, dispatch | engine, coordinator, FastMCP |
| OpenCode configuration (`adapters/opencode/config.py`) | `opencode.json`, timestamped backups | prepare, apply, discard, uninstall | the file system, the user's editor |
| Coordinator (`public_api/coordinator.py`) | service registry, bus | one method per public tool | modules (parallel queries with timeouts), bus |
| PulseEventSubscriber (`modules/pulse/events.py`) | handlers by topic | three handlers | bus, `pulse.record` |
| Chronicle, Vision, Pulse | SQLite connections, a rotating log, measurements | record, query, list | each other through services |
| Optimizer, Oracle | none that persists | detect, recommend | Pulse, Chronicle |
| StackManager (`stack/manager.py`) | a status for every component | `detect`, `refresh`, `install`, `uninstall`, `verify`, `*_all` | components, runner, events |
| FileLock (`stack/lock.py`) | a lock file, `_fd` | `acquire`, `release` | other processes through the file system |
| Manifest, runner, downloader, paths (`stack/`) | a YAML file | load, save, run, download | the machine |
| Configuration loader, command line, `_compat` | none | | |

What is hard in it, and what has to hold:

* **Engine.** Modules are foreign code that may raise, or be cancelled, at every
  await; two parties write `_state`; `stop` may be cut short and repeated.
  Correct means: each module lives one life, predecessors outlive their users, a
  completed stop is complete and leaks nothing, failures and diagnostics agree, a
  failed start starts nothing.
* **FileLock.** Processes interleave at every system call, die holding the lock
  and break each other's files by age. Correct means: mutual exclusion, release
  of one's own file only, no orphan that locks everybody out, deadlines kept.
* **EventBus.** The loop of `emit` awaits each handler while the list it iterates
  over is changed by handlers and other tasks. Correct means: nobody is called
  twice or out of order, whoever stays registered is called, the emission ends.
* **Gateway.** A start that fails half-way, a stop followed by a start, tools whose
  names collide. Correct means: after a start that returned, exactly the tools of
  the loaded modules are callable, each through its own handler.
* **OpenCode configuration.** A plan is prepared, the user is asked, the file may
  change, backups share names within a second. Correct means: uninstall gives the
  user's file back, and no text of his is lost. The code keeps only part of this: an edit
  between two steps of a command or before an uninstall is overwritten, and a backup may be
  overwritten or cut short (sections 3 and 6).
* **Coordinator.** Invocation and completion events must pair; a slow or failing
  module must not spoil the answer of the others.
* **StackManager.** Installation spans processes and subprocesses that fail, time
  out or leave half of their work. Correct means: the state shown is the state of
  the machine, nothing a component depends on disappears, a failed
  `install_all` undoes what it did and no more. The code keeps only part of this: it asks
  for every removal it should and in the right order, but it believes in their success and
  also removes what the call had skipped (sections 3 and 6).
* **Vision, Chronicle, Pulse.** Archival tasks outlive `stop`, and records are
  told apart by ids that can collide, and several processes share one database. Correct
  means: what was recorded can be found, and what could not be recorded is told.

`PROJECT.json` lists every hazard at its line, with the properties aimed at it.

## 2. What is modelled

### Engine: `ModuleStates`, `ModuleLifecycle`, `EngineLifecycle`

`ModuleStates` holds the transition table of `_StateMachine` and the three hooks
as predicates: a hook accepts a call, and the module is in the next state before
the body of the method runs, or raises and changes nothing. Four modules
override `_pre_stop` so that a second `stop` is accepted (`Idempotent`).

`ModuleLifecycle` is the abstract specification: each module is loaded once, runs
at most once, is stopped before it is shut down, and stays failed once it fails.

`EngineLifecycle` is the code. `loaded` is `_init_order` (always a prefix, since
`Engine.start` is the only caller of `load`), `state` is `_state`, `open` the
modules holding what `start()` opened, `diag` Guardian's `fail_count` entries,
`context` the service keys in the Context, `preStop` the local of `Engine.stop`,
`event` the last `module.*` event of each module; `pc` and `at` are the loop the
call in progress is in, and its position.

| Actions | Code |
|---|---|
| `CallStart`, `LoadCached`, `LoadFresh`, `LoadFails` | `Engine.start`, `ModuleRegistry.load` |
| `GatherServices`, `RejectServices` | the service loop of `start_all` and its collision |
| `StartModule`, `RejectStart` | `_pre_start` accepts or raises |
| `StartReturns`, `StartRaises`, `StartCancelled` | the three ends of a body under `protect` or the raw handler |
| `AllStarted`, `Announce`, `StartDone` | the events after `start_all` |
| `CallStop`, `StopModule` ... `ShutdownCancelled`, `StopDone` | `Engine.stop`, `stop_all` in reverse order, the events after it |

A method is two actions, hook and body, because the state moves before the body
and the body may raise, suspend and be cancelled. Bodies of built-in modules do not
suspend, so only `Plugins` can be cancelled. `protect` and the raw handler differ in
`stop`: without a guardian an exception is only logged. Emitting is one step:
inside the repository the only subscriber does not suspend. One call of the engine
runs at a time, as its callers await it.
The code keys Guardian's records by the name of the class (`guardian/module.py:95`), the
model by the module: no two modules of the repository share a class.

### FileLock: `Mutex`, `FileLock`

Each system call of `acquire` and `release` is an action (`StatFile`, `Break`, `Create`,
`WritePid`, `ReleaseClose`, `ReleaseUnlink`, ...), so that several processes interleave between them. `owner` is the
process that created the file now at the path, which the code never asks for;
`fd` is `_fd`, `held` the processes whose `acquire` returned. Time is kept as ages
(of the file, of the mtime a process has read) and as the time left to a
deadline, advanced by `Tick`; ages stop at the threshold, where the code sees no
further difference. A negative timeout is a deadline that has passed, a zero one
none. Crashes and failed writes are bounded by `MaxFaults`. Unlinked files that
are still open are of no consequence to anyone and are not kept.

The lock is not a mutex without assumptions (section 3), so the specification is
stated four times over the same actions:

* `Spec`: no assumption.
* `PromptSpec`: no holder keeps the lock as long as the threshold, and no process
  is suspended between two system calls. The assumption one would make in practice.
* `FreshSpec`: nothing has reached the threshold yet.
* `CleanSpec`: files are broken, but never that of a process that still has it open or
  stands between the close and the unlink of `release`. Without the second half even
  a break that spares every open file lets `release` unlink somebody else's.

### EventBus: `EventBus`

One topic; topics share only `clear()`. The loop is Python's list iterator: `cursor`
is compared with the length of the live list whenever a handler ends (`Deliver`,
`Return`). `Subscribe`, `Unsubscribe` and `Clear` may happen at every await, from the
running handler or another task: `Context.event_bus` hands the bus to every
module. `clear()` drops the dictionary, while an emission in flight keeps the list
it took (`detached`, `orphan`). Entries carry the number of their registration, and
`called`, `since` and `behind` are history variables of an emission, reset when it
ends. Handlers that raise are logged and the loop goes on, so raising and
returning are the same step; cancellation ends the emission.

### Stack: `StackComponents`, `StackManager`

`StackComponents` is what an adapter knows of its component: no binary, one without a
version, or one below, within or above the versions of its descriptor; `Derived` is
`derive_state`, and the four `Adapter` records hold where the adapters differ.
`StackManager` has `disk`, what is on the machine, `status`, what the manager
says, and `instances`, what `_get_component` has loaded and keeps: a component whose entry
point does not import fails before it is installed or not at all, and the rollback relies
on that. A call handles the components in `todo` one after the other; `pc` is where it is
with the first. A subprocess leaves anything behind that `AfterInstall` and
`AfterRemoval` allow, whether it fails or not. Three variables remember: `before`, what was
shown as usable when the call began and is skipped by `install_all`; `stuck`, the removals of
the rollback that left the component in place, however they ended (`EndRemoval`); and
`disturbed`, what others have changed since the manager looked.

| Actions | Code |
|---|---|
| `CallOne`, `CallRefreshAll`, `CallInstallAll`, `CallUninstallAll` | a caller that keeps its manager |
| `StatusCommand`, `Command` | `cli/stack.py`: a fresh manager for every command |
| `SkipInstall`, `BlockInstall`, `BeginInstall`, `InstallFails`, `InstallRuns`, `ConfirmInstall`, `DenyInstall` | `install`; `BeginInstall` may abort, since `_get_component` is outside the `try` |
| `SkipUninstall` ... `UninstallFails` | `uninstall`, which takes any answer of the adapter for a removal |
| `VerifyRaises` ... `VerifyFails`, `RefreshRaises`, `RefreshDetects` | `verify`, `refresh` |
| `RollBack`, `Fail`, `Advance`, `EndRemoval` | `install_all` and its rollback, which asks for each removal once and ignores the answer |
| `World` | another process or the user changes the machine (`disturbed`) |

The manager takes no lock: `FileLock` is exported and not used by it, so another
`apoch stack` process is part of `World`. `_TRANSITIONS` of `stack/state.py` is never
consulted and is not in the model. `uninstall` asks only usable components whether they need
the one it removes (`RequiredBy`): a dependent that is OUTDATED or BROKEN is not asked, and
`OnlyObservationBreaksDependencies` says nothing of it.

### Gateway: `Gateway`

`AgentAdapterManager` over `OpenCodeAdapter`: `server`, `engine`, `slots` (the handler
behind each name) and the subscriber (`listening`, `measured`). The engine appears
as its effect on the modules, `EngineStarts`, `EngineRaises`, `EngineStops` and
`EngineStopCancelled`, which allow what `EngineLifecycle` does. `RegisterTool` is one
turn of the loop with the renaming of `FinalName`; a plug-in whose handler is
refused ends the start (`RegisterRaises`) and leaves what is registered. `Emitted` is what the
bus makes of a `SystemEvent` and of a plain topic: the subscriber's handlers require the
keyword `event`, so the plain `engine.stopping` of `Engine.stop` (`EngineStopping`) ends in a
logged `TypeError`, while the `tool.completed` of a coordinator's tool (`CallTool`) is
measured. `completed` is a history variable.
`PrefixesAreFresh` is an assumption the code makes silently: a prefixed name is nobody
else's.

### OpenCode configuration: `OpenCodeConfig`

A text is its keys, its apoch entry and its form; "tangled" is JSON from which
`_strip_jsonc_comments` and `_strip_trailing_commas` take more than comments and commas.
`install` is `PrepareRead`, the two halves of `shutil.copy2` (`BackupCreate`,
`BackupFill`), `Consent`, `ApplyInstall` or `DiscardInstall`; `uninstall` is
`SelectBackup`, the two halves of another `shutil.copy2` (`RollbackTruncate`,
`RollbackFill`) and `UnlinkBackup`. Half of a copy is an empty file; one that is cut later
is as unusable. The write of an install is a rename and so one step. `Edit`, `Tick` and
`Kill` come in between anywhere. `before`, `quiet`, `edited`, `own` and `perils` are history
variables; `perils` holds what may have cost the user his text: he edited a file that had a
backup, the only backup was overwritten within its second, or it was cut short. The
clock of the model never goes back. The code names backups in local time, so that at the
end of summer time, or after a correction, the newest name may be that of an older backup;
nothing is claimed of that.

### Vision and Chronicle: `Archive`

Composes the two modules: `Log` writes to the ring buffer and the rotating file and
schedules a task; `Deliver` runs the oldest task, which stores the row or, when there is no
store or the `INSERT` fails, which it may at any time, logs a warning (`warned`). A row's
identifier is the instant and the process, so that two entries of one instant share it
(`Insert` is `INSERT OR IGNORE`). The table survives `Exit` and `Restart`; the tasks,
the buffer and the connection do not. The module follows one process at a time. Others have
the same `chronicle.db` open meanwhile (their process is part of a row's identifier, and
nothing locks them out): `OtherDelivers` inserts a row of theirs, dated now or
earlier, `PruneBefore` is also theirs, and rows of their tools are like those of `RecordTool`.
Their lines in the shared log file, which nothing reads back, are left out. Timestamps are
compared as instants, which is what the text comparison of the code amounts to as long as all are
in UTC; a `before` in another zone is not covered.

### Pulse, Optimizer, Oracle: `Ledger`, `Builtins`, `PulseStore`, `PulseAnalysis`, `Detectors`, `Insight`

`PulseStore` is `record`, `save`, `list` and the subscriber's handler over two backends
(`units` in the store, `pulseStore` its connection, `hour` the clock), and implements the
abstract `Ledger` (`AppendOnly`): entries are only ever added, under identifiers of their
own. `StoreAssumption` takes figures and prices to be natural numbers or None; the code checks no sign. `Builtins` is what the code
takes from Python: in `Ordered`, which is `sorted()`, the place of an element is the number
of those before it, and `Total`, which is `sum()`, is the fold of the community modules, so
that both can be reasoned about. `PulseAnalysis` is `trend` and `summary`; `Detectors` the
six detectors; `Insight` the Optimizer's cycle and the Oracle's rules over what
`PulseStore` lists. Numbers are integers: confidences count thousandths, rounded down; means
are compared as sums; a z-score is compared by its square; the sigmoid is replaced by
the lower end of its class (no bonus depends on more than the class). Nothing of this keeps
state: the properties of `Insight` are about what is computed from each reachable store.

### Coordinator: `Coordinator`

Calls run concurrently. A call announces itself (`Invoke`), examines its arguments and
begins its queries (`Ask`, or `AskRaises` for arguments whose examination raises),
collects answers and failures (`AnswerComes`, `QueryFails`: an exception or the
query's own timeout), concludes (`Conclude`) and tells the bus (`Tell`; `TellInner` is
the error event that `health` emits itself). `AnswerTo` is what each tool makes of the
answers: code, verdict, confidence and what it cites. `Refuse` and `EnvelopeOk` are
`_dispatch`. A client may give up wherever the call awaits (`Cancel`), and the engine may stop
underneath (`EngineStops`, `GuardianStops`). `since` records what was known when a call began.

## 3. What is checked

| Run | Specification, instance | Shows |
|---|---|---|
| `engine` | `FairSpec`, 3 modules: a resource-holding idempotent one, the guardian, a resource-holding plug-in; one service key; 4 calls | all safety properties of the engine, the refinement of `ModuleLifecycle`, and that every call ends |
| `lock` | `CleanSpec`, 3 processes, 1 fault | mutual exclusion, `Ownership`, release of one's own file, refinement of `Mutex` |
| `lock_progress` | `FairSpec`, 2 processes, 2 faults | deadlines are kept, an orphaned file does not lock everybody out |
| `lock_two_breakers` | `PromptSpec`, 2 processes, 2 faults | **violated**: two processes that break the same dead file both get the lock |
| `bus` | `FairSpec`, 2 emitters, 2 handlers, 3 registrations | each registration is called at most once and in order, only removals make an emission miss a handler, emissions end |
| `stack` | `FairSpec`, 3 components in a chain, 3 adapters, 2 calls, 1 change by others | what is shown as INSTALLED is there; what a rollback leaves on the machine was removed in vain or is needed; no operation takes away what a usable component needs; calls end |
| `stack_uninstall` | `Spec`, same | **violated**: the uninstall command reports a removal and removes nothing |
| `gateway` | `Spec`, 4 owners of tools with colliding names, 8 calls | a start that ran to its end leaves every tool callable; the manager forgets an engine only when nothing is left of it; the calls completed under each engine are measured while Pulse runs |
| `config` | `Spec`, 2 sets of keys, 2 launchers, 4 commands, 1 edit, 2 seconds | uninstall undoes install; the user's text is lost in no other way than three; install keeps his keys; the file stays readable |
| `archive` | `Spec`, window of 2 entries, 3 entries, 2 processes and another beside them, 3 instants | what is not archived is told, but for entries of one instant; the live window agrees with the archive; rows go only by a prune |
| `insight` | `PulseSpec`, 4 kinds of measurement, 4 records, 0 or 9 earlier ones, 3 days | the trend adds up; findings do not depend on the order of ties; few measurements are never critical; refinement of `Ledger` |
| `coordinator` | `FairSpec`, 2 concurrent calls, 7 tools (two by an alias), 2 loadouts | answers are as fresh as their call; bus and client are told the same; calls end |

The two violated properties state what the repository says of itself; the findings in
`PROJECT.json` quote it. Eight more statements of documents and docstrings that the code does not keep
are written down at the end of the modules they are about and listed in section 6. None of
them is part of a run: put in the place of the properties of the component's configuration, under
`Spec` and without `SYMMETRY`, each is violated within seconds, with a trace that shows how.

From EventBus to Coordinator the configurations leave the type invariant out, so that each
run is about the properties of its component; every module states it (`TypeOK`) and
`INVARIANT TypeOK` (`PulseTypeOK` for `Insight`) may be added to its configuration, where it
holds. All of them are proved.

**Bounds.** *Engine*: three modules give the loops a first, a middle and a last position, with
the guardian in the middle so that there are modules loaded before and after it;
four calls allow start, cancelled stop, stop, start. One key suffices for two publishers
to collide, and every assignment of it is an initial state. *Lock*: two
ticks separate fresh, ageing and stale, and one fault is enough to orphan a file
(two let a crash follow a failed write); `CleanSpec` is checked with three
processes so that one may break while two contend. *Bus*: three registrations
of two handlers include a double registration, a removal in front of the
cursor and one behind it. *Stack*: a chain of three has a component that is both
needed and needing; `install_all` with its rollback is one call, and a second comes
before or after it; "new" is left out of `Found` because nothing but `Derived` tells it
from "old". *Gateway*: eight calls hold a failed start, its skipped retry, a cancelled
stop, a stop and a start on modules that are down. *Config*: four commands hold an
install, a refused or killed one, an uninstall and one more; two seconds allow
backups in the same second and in different ones. *Archive*: three entries overflow a
window of two, three instants a retention of one. *Insight*: leave-one-out baselines
need four measurements, quartiles three, and thirteen exceed the limit of ten; the clock moves by
22 hours so that it crosses days and the four-hour window wraps. *Coordinator*: two
calls are enough for one to change what the other reads (a completed call is measured by
Pulse). Since the bounds on calls end the behaviours, deadlock is checked only where
nothing ends by itself. The two bounds that matter most for safety, the number of modules
and of processes, are absent from the theorems.

**Fairness.** Engine: weak fairness of the steps of a call in progress, that is,
the event loop keeps running and module bodies end (a body that hangs does hang
the engine: the code has no timeout there). Nothing obliges the environment to
call. Lock: processes that are inside `acquire` keep running, time passes, a holder
that is not acquiring again releases; nothing obliges a process to acquire, to crash or
to fail, and the failing steps have no fairness. Bus: a handler ends and the
event loop resumes its emission; cancellation has none. That emissions end rests on
registrations ceasing (`MaxRegistrations`): a handler that subscribes anew at every
delivery would keep its emission alive. Stack: the subprocess of the component in turn
ends, and the loop goes on; no caller of `RealRunner.run` passes a timeout, so a
subprocess that hangs hangs the manager. Coordinator: the event loop runs each call,
and `asyncio.wait_for` ends each query that has not been answered (`QueryFails` is part of the
fair step, `AnswerComes` is not). This holds for services that await; a service
that blocks the loop, as Pulse's synchronous SQLite calls do, cannot be timed out.

## 4. What is proved

All theorems hold for every value of the constants that satisfies the `ASSUME` of the
module; TLC evaluates these assumptions on the instances above.

* **`EngineProofs`** (`EngineInvariant`). The safety properties are not inductive: a
  completed stop is complete only because of what its loop did at every
  position, and a resource can be closed only in some states. `IInv` adds to
  `TypeOK` and the properties: `LoopInv`, what the loop in progress has done with the
  modules it has passed (behind the start loop they are RUNNING or FAILED, behind
  the stop loop neither RUNNING nor STOPPED); `UnguardedInv`, that nothing can have
  failed or been opened before the guardian is loaded; `ResourceInv`, that with a
  guardian a module that holds a resource is RUNNING, STOPPED or FAILED, and does not
  hold it when its shutdown begins from STOPPED; `ClashInv`, that a collision, which
  `services` alone decides, keeps the start loop from being entered.
  `PredecessorsOutlive`, `FailuresAreDiagnosed`, `LeaksAreFailures`, `StopIsComplete`
  and `CollisionStartsNothing` follow. `EngineImplementsLifecycle` maps each action
  to a step of `ModuleLifecycle` or a stutter; it needs the invariant for the
  state in which a hook, a body or `protect` finds the module.
* **`FileLockProofs`** (`CleanInvariant`). Mutual exclusion alone is not
  inductive: what preserves it is `Ownership`, that whoever has a descriptor or is
  about to unlink the path created the file there (`LockOwnership`). From it follow
  `LockMutualExclusion`, `LockReleaseOwnFile` and the refinement `LockIsMutex`. `FreshIsClean` shows that as
  long as nothing has reached the threshold every behaviour is clean, so that
  `FreshMutualExclusion` and `FreshReleaseOwnFile` need no assumption about who is dead.
  Neither extends
  to `PromptSpec`, as `lock_two_breakers` shows.
* **`EventBusProofs`** (`BusInvariant`). Order of delivery needs more than the
  order of the list: every entry at or after the cursor of an emission is younger than
  all it has delivered to, for the live list and for a list that `clear()`
  orphaned. Each removal shifts positions, and the invariant is stated so
  that the shift keeps it. For `BusMissesAreRemovals`, `SkippedInv` counts the entries behind the
  cursor that were not delivered to: an entry gets there only by a removal in front of it, and each
  removal moves just one across the cursor.
* **`GatewayProofs`** (`GatewayInvariant`). `EveryToolCallable` speaks of the end of a start;
  what carries it there is `RegisterInv`: a start finds no name taken, every name that is held belongs
  to a tool the loop has passed, and every tool passed is callable. A turn preserves
  it because the name it takes is free (`FinalNameIsFree`): a name held is its holder's own or
  prefixed one (`NamesInv`), and a prefixed name is nobody's own and nobody else's, the assumption
  `PrefixesAreFresh`, which is all the code relies on for the second lookup it does not make.
  `StopLeavesNothing` is itself inductive with `EngineInv`, which says where a call that holds the engine
  can be; `CompletionsAreMeasured` needs `ListenInv`, that whoever registered a tool, also a start that
  raised afterwards, left the subscriber on the bus of the current engine.

* **`OpenCodeConfigProofs`** (`ConfigInvariant`). Backups are named by the clock, so that the
  newest has the greatest name (`ClockInv`). `PlanInv` is what a plan holds between reading and
  writing: unless the user has edited the file, the document of the plan is still what reading it gives, and
  the backup of the plan is the newest and a copy of the file. Hence what `uninstall` takes
  for the last backup is the one of the last install (`QuietInv`), which gives
  `UninstallUndoesInstall`; and because only the newest backup is ever removed, the oldest one
  that is not being copied (`Complete`) stays the user's own text (`OwnInv`) until one of the
  three perils befalls it, which gives `OwnTextSurvives`. `InstallKeepsKeys` and
  `StaysReadable` are read off the steps under that invariant. That `Max` of a finite set
  of instants exists is itself proved, by well-founded induction.
* **`StackManagerProofs`** (`StackInvariant`). `TurnInv` keeps what the manager found at the beginning
  of a turn (dependencies met, nobody needing the component) true until its end, which gives
  `OnlyObservationBreaksDependencies`. `RollbackIsComplete` speaks of the machine, not of what the manager shows, and
  is the end of a loop: `RollbackInv` says that the rollback walks down, that what it has passed is
  settled, and that it lies above all that is still to come. Nothing is assumed of the dependencies:
  where a component needs one registered after it, which nothing in the code forbids, the
  rollback passes the latter over and then removes the former (`PassedOver`), so that later turns
  unsettle nothing (`SettledIsStable`). The list it walks is proved to exist for any set
  (`DownwardExists`). The proof found a gap in an earlier model, which let a loaded component fail to
  load again: then the rollback is cut short and the property is false. The code keeps its
  instances, and `LoadInv` says so, with what the rollback also rests on: what the call has
  reported is usable until the rollback comes to it.
* **`CoordinatorProofs`** (`CoordinatorInvariant`). `EventInv` ties the events of a call to its
  position or its end, which gives `EventsTellTheAnswer`; `SinceInv` and `HeardInv` say that what was
  known at the beginning of a call is still known to the services and in all it has heard, and
  the lemma `AnswerIsFromTheHeard` carries that through `AnswerTo` for each of the seven tools (`FreshInv`).
  `CountInv`, that what Pulse has counted and the calls in progress are together no more than
  the calls begun, is what type correctness needs: `health` tells of its error twice.
* **`RecordsProofs`** (`ArchiveInvariant`, `UnitsInvariance`) holds what is kept and what is
  made of it, with the lemmas about order and sums that both need.

  *Vision and Chronicle.* `WaitingInv` generalises `LossesAreTold` from the moment
  when the loop has run dry to every moment: what was handed over is archived, has its warning or
  still waits. `RowInv`, that a row which has the identifier of an entry is of its instant, is
  why a prune cannot take the row an entry relies on without reaching the entry's instant; `OriginInv`
  is why the row that takes an entry's place is that of another entry of this process. `RowsAreKept`
  needs only the types. `WindowIsTheArchive` needs three more: the entries of a process come in the
  order of the clock and of their numbers (`ClockInv`, `NumberInv`), the window is the end of what was
  logged (`WindowInv`), and a row of the log is that of a process beside this one, of an entry of this
  one, or of one that ended before anything this one has logged (`OriginInv`). The newest first of
  the window is then one of the answers the table may give to the same query, once the rows of
  the processes beside are set aside.

  *Pulse.* `UnitsInv` adds to `PulseTypeOK` that the units are measurements and that calls
  are counted. It gives `MeasurementsAreKept` (identifiers are unique whatever is
  retried) and `PulseImplementsLedger`: a refused identifier leaves the units alone, and a
  fresh one adds one.

  *Sorting and summing.* The place of an element is the number of those ahead of it, and
  `PlacesAreTaken` shows by the pigeonhole principle that in a strict order every place is taken by one
  element; hence a sorted list is a permutation in order (`OrderedIsSorted`). The fold that
  sums is a recursive function over the subsets of its domain, proved to exist (`SumsExist`)
  and not to depend on what it takes first (`PartWithout`); a sum may be taken group by group
  (`GroupByGroup`). The induction these need is over the members of a set of natural numbers
  (`SetOfNaturals`, from well-foundedness).

  *What is made of the measurements.* `TrendIsTheSummary`: each unit is owned by one period, and sums over
  owners are sums over units. `NothingIsCriticalYet`: what the detectors make of at most three
  units lies in `Mild` (no unit has three others to be compared with, three values have no outlier, and
  little confidence is left), the rules give nothing in it the highest priority, and sorting adds
  nothing. `OrderIsNothingToTheDetectors` is shown for any rearrangement, not only that of ties. All detectors
  but one give the very same list: counts and sums over places that are paired off are equal
  (`MatchedSize`, `MatchedSum`), and the sorted values are equal because equally many lie below
  each number (`SameKeys`). `Degradation` gives its findings in another order, and everything equally
  often (`Alike`), which sorting by confidence and concatenation keep.

Only model-checked:

* the liveness properties (`CallsReturn` of the engine, the stack and the coordinator,
  `AcquireReturns`, `SomebodyGetsIn`, `EmissionReturns`), since the prover has no rules for fairness
  and ENABLED.

Every other property of a passing run is stated by a theorem. The theorems of `RecordsProofs` about
`Insight` rest on `StoreAssumption`: with a negative cost
the spread of two averages would be divided by a negative number, and nothing is claimed of that.

## 5. What is not modelled

Configuration and entry-point discovery (reading only), the text of answers and log
lines, the conversion of schemas for FastMCP, command lines and downloads of the stack
components, the compatibility layer, `Guardian.clear_diagnostics`, and `cli/eil.py`, which
drives the registry for one command and skips what it cannot load. `stack/manifest.py` is
used by nothing. Of Pulse, the filters of `list()` and `rework_rate` are left out; of the
detectors, `_detectors.py:552-641` cannot be reached, because a `WorkUnit` has neither
`rework_cycles` nor `rework_tokens`; of the Oracle, degradation by health and `expired`
cannot be reached either. Two calls of `Engine.start` or `stop`, of the manager or of the
gateway in parallel are not modelled because no caller makes them. The filter by module of
the `logs` tool is below the abstraction of `Coordinator`, where an answer is one value.

## 6. Where code and documents disagree

Shown by a run:

* `_try_break_stale` unlinks a file somebody has just created (`lock_two_breakers`).
* The uninstall command of the stack removes nothing (`stack_uninstall`).

Shown by TLC when the property named is checked (section 3):

* The end of an engine is never measured: `Engine.stop` emits a plain topic
  (`core/engine.py:128`), and Pulse's handler requires an event, against
  `modules/pulse/events.py:3` (`StoppingIsMeasured` of `Gateway`).
* `StackManager.uninstall` shows NOT_INSTALLED whether or not the adapter removed anything
  (`stack/manager.py:289`; `docs/core-stack.md:60`: "Not found on the system";
  `NotInstalledIsNotFound`). A rollback ignores removals that fail, which leaves a partial success
  (`stack/manager.py:384`; `openspec/specs/core-stack/spec.md:83`: "no partial success remains";
  the design note at `tests/stack/test_errors.py:393` grants this for removals that raise;
  `NoPartialSuccess`), and it removes what the call had skipped as already installed
  (`stack/manager.py:379`; the docstring of `install_all` and `docs/cli.md:49`, "previously
  installed components are rolled back", can be read either way, the proposal of the
  stack cannot; `RollbackUndoesItsInstalls`).
* A kill inside the copy of a backup leaves an empty file under the newest name
  (`adapters/opencode/config.py:231`), which the next uninstall restores over the user's text and
  deletes (`openspec/specs/cli-interface/spec.md:81`: "Restore `opencode.json` to pre-install
  state"; `UninstallReverts` of `OpenCodeConfig`).
* Uninstall reverts what the user has written since the install, without a look
  (`adapters/opencode/server.py:503`; line 197 of the same specification: "Validate backup matches
  current state before revert"; `UninstallRefusesOverwritten`).
* The second of two log entries of one microsecond is not archived, and nothing says so
  (`modules/vision/module.py:205`, against 155 and 162; `EntriesAreForwarded` of `Archive`).
* A log entry whose context json cannot write in full is missing in the log file and in the
  archive (`modules/vision/module.py:122`, against 159: "key skipped, warning logged, other
  keys preserved"; `BadKeysAreSkipped`).

Seen while modelling; the models follow the code:

* *Engine.* A module that cannot be loaded ends `Engine.start` and leaves the loaded ones
  unstarted (`core/engine.py:85`; the module-system specification, line 170, has it
  skipped). A `start` that the state machine rejects turns a RUNNING module into a FAILED
  one (`guardian/module.py:106`; module-guardian specification, line 163: "state
  unchanged"). `module.stopped` is emitted for a module whose `stop` failed
  (`core/engine.py:143`).
* *FileLock.* An `acquire` that raises because it cannot write its PID leaves file and
  descriptor behind (`stack/lock.py:65`).
* *EventBus.* A handler that stays registered is skipped when one at or before the
  cursor unsubscribes (`core/events.py:117`; line 108: "calling all registered handlers").
* *Gateway.* After a start that raised, the next one is "skipped" and serves without
  tools (`adapters/manager.py:81`). `engine.started` is not measured either: it is a plain
  topic like `engine.stopping`, and nobody is subscribed yet when it is emitted
  (`core/engine.py:123`).
* *Configuration.* An edit between the reading and the writing of an install is overwritten
  (`adapters/opencode/server.py:465`). A second backup within a second overwrites the first,
  which may be the only copy of the user's text, and backups are named in local time
  (`adapters/opencode/config.py:226`). After two installs, uninstall restores the file the first one wrote, and
  apoch stays configured. `read()` loses what follows a block comment that ends on
  the line it began, and commas before brackets within strings
  (`adapters/opencode/config.py:276`).
* *Vision, Chronicle.* Entries whose archival the loop has not run when the process ends are
  lost without a warning (`modules/vision/module.py:217`). A write that fails is not
  retried (`modules/chronicle/storage.py:73`; the Chronicle specification, line 150: "retry up to 3
  times with backoff"). With several gateways on one database the newest rows of the
  archive are those of all of them, and the window shows only its own.
* *Coordinator.* `recommend` answers "normal" when Guardian was silent and Vision was
  not, and cites Oracle although it was silent; `health` emits its error event twice; an
  exception or a cancellation leaves an invocation without an end; `logs` applies the
  limit before the module filter (line 1762 against the docstring at 1713); `status` asks for
  `oracle.status`, which no module offers; Guardian's records are gone once it has stopped, so
  that a call still under way may find the system sound.
* *Pulse, Oracle.* As soon as one work unit has lines, `rework_rate` answers 0: it counts units by
  `completed_at`, which nothing sets. `_try_record` calls the asynchronous
  `chronicle.record` without awaiting it (and with a dictionary), so no recommendation
  reaches Chronicle.

## 7. Plan

Done: every module of the plan, with its run; the safety properties and refinements of every
module, proved.

What could be added: `cli/eil.py`, which drives the registry for one command; the filters of
Pulse's `list()`; the order in which Vision limits and filters (`public_api/coordinator.py:1762`),
for which `Coordinator` would have to tell entries apart. The liveness properties stay with TLC.
