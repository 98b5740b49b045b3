-------------------------- MODULE EngineLifecycle --------------------------
(***************************************************************************)
(* The core that starts and stops modules: Engine (core/engine.py) driving *)
(* ModuleRegistry (core/registry.py), with GuardianModule.protect          *)
(* (modules/guardian/module.py) as the exception boundary when a guardian  *)
(* module is loaded and a plain try/except when it is not.                 *)
(*                                                                         *)
(* Modules are numbered in the order in which discover() returns the       *)
(* enabled ones.  Engine.start is the only caller of load() here, so the   *)
(* registry's _init_order is always 1..loaded.  One call of the engine is  *)
(* in progress at a time; pc names the loop it is in and at its position.  *)
(* The body of a module's method is separate from the _pre_* hook that     *)
(* moves the state, because the body may raise or be cancelled after it.   *)
(***************************************************************************)
EXTENDS ModuleStates, Naturals, FiniteSets

CONSTANTS
  N,            \* how many enabled modules discover() returns
  Guardian,     \* position of the guardian module, 0 when it is disabled
  Idempotent,   \* modules whose _pre_stop accepts a STOPPED module
  Resourceful,  \* modules whose start() opens a connection or a file
  Plugins,      \* modules whose bodies may suspend, hence be cancelled
  Keys,         \* service keys a module can publish
  MaxCalls      \* bound: how many start/stop calls the environment makes

Modules == 1..N

ASSUME ConstantsAssumption ==
  /\ N \in Nat
  /\ Guardian \in 0..N
  /\ Idempotent \subseteq Modules
  /\ Resourceful \subseteq Modules
  /\ Plugins \subseteq Modules
  /\ Guardian \notin Resourceful \cup Plugins
  /\ MaxCalls \in Nat

VARIABLES
  loaded,     \* registry: modules 1..loaded are in _loaded and _init_order
  state,      \* Module._state
  open,       \* modules that hold the resource their start() opened
  diag,       \* guardian: fail_count of every module, 0 when it has no entry
  services,   \* the keys each module publishes (fixed for a behaviour)
  context,    \* keys in the Context of the current engine start
  preStop,    \* Engine.stop: the modules that were RUNNING when it began
  event,      \* the last module.* event the engine emitted for each module
  pc,         \* where the call in progress is
  at,         \* the module the loop is at
  outcome,    \* how the last call ended
  calls       \* start/stop calls made so far

vars == <<loaded, state, open, diag, services, context, preStop, event,
          pc, at, outcome, calls>>

Loops == {"load", "start", "announce", "stop", "shutdown"}
Bodies == {"start_body", "stop_body", "shutdown_body"}
Outcomes == {"none", "started", "load_error", "collision", "cancelled", "stopped"}
Topics == {"module.started", "module.failed", "module.stopped"}

Init ==
  /\ loaded = 0
  /\ state = [m \in Modules |-> "UNLOADED"]
  /\ open = {}
  /\ diag = [m \in Modules |-> 0]
  /\ services \in [Modules -> SUBSET Keys]
  /\ context = {}
  /\ preStop = {}
  /\ event = [m \in Modules |-> "none"]
  /\ pc = "idle"
  /\ at = 0
  /\ outcome = "none"
  /\ calls = 0

-----------------------------------------------------------------------------
(* The exception boundary.                                                 *)

\* registry._guardian is set, and m is another module.
Protected(m) == Guardian \in 1..loaded /\ m # Guardian

\* Mutation of Diagnose: the entry is not written.
DiagnoseNothing(m) == UNCHANGED diag

\* GuardianModule.protect, the except branch: the diagnostics it records.
Diagnose(m) == diag' = [diag EXCEPT ![m] = @ + 1]

\* An exception in start(): protect() or the raw handler marks the module.
FailStart(m) ==
  /\ state' = [state EXCEPT ![m] = "FAILED"]
  /\ IF Protected(m) THEN Diagnose(m) ELSE UNCHANGED diag

\* An exception in stop() or shutdown(): the raw handler only logs it.
FailStop(m) ==
  IF Protected(m)
    THEN state' = [state EXCEPT ![m] = "FAILED"] /\ Diagnose(m)
    ELSE UNCHANGED <<state, diag>>

\* A call that ends: the coroutine returns or propagates an exception.
Finish(how) == pc' = "idle" /\ outcome' = how /\ UNCHANGED at

-----------------------------------------------------------------------------
(* Engine.start: load, gather services, start, announce.                   *)

CallStart ==
  /\ pc = "idle" /\ calls < MaxCalls
  /\ calls' = calls + 1
  /\ pc' = "load" /\ at' = 1 /\ outcome' = "none"
  /\ UNCHANGED <<loaded, state, open, diag, services, context, preStop, event>>

\* ModuleRegistry.load returns the cached instance.
LoadCached ==
  /\ pc = "load" /\ at <= loaded
  /\ at' = at + 1
  /\ UNCHANGED <<loaded, state, open, diag, services, context, preStop, event,
                 pc, outcome, calls>>

\* ModuleRegistry.load instantiates the module.
LoadFresh ==
  /\ pc = "load" /\ loaded < at /\ at <= N
  /\ loaded' = at
  /\ state' = [state EXCEPT ![at] = "LOADED"]
  /\ at' = at + 1
  /\ UNCHANGED <<open, diag, services, context, preStop, event, pc, outcome, calls>>

\* ModuleLoadError leaves Engine.start: the modules after this one are not
\* loaded and nothing is started.
LoadFails ==
  /\ pc = "load" /\ loaded < at /\ at <= N
  /\ Finish("load_error")
  /\ UNCHANGED <<loaded, state, open, diag, services, context, preStop, event, calls>>

\* Keys published by the first n loaded modules.
Published(n) == UNION {services[m] : m \in 1..n}

Collides(m) == services[m] \cap Published(m - 1) # {}

\* Mutation of Collision: the keys of the context are not consulted.
NoCollision == FALSE

\* start_all finds a key that an earlier module has put in the context.
Collision == \E m \in 1..loaded : Collides(m)

\* start_all gathers every service into a fresh Context before any start().
GatherServices ==
  /\ pc = "load" /\ at = N + 1
  /\ ~Collision
  /\ context' = Published(loaded)
  /\ pc' = "start" /\ at' = 1
  /\ UNCHANGED <<loaded, state, open, diag, services, preStop, event, outcome, calls>>

\* The first colliding key raises ModuleLoadError out of Engine.start; the
\* Context keeps the services gathered before it.
RejectServices ==
  /\ pc = "load" /\ at = N + 1
  /\ \E m \in 1..loaded :
       /\ Collides(m)
       /\ \A k \in 1..m - 1 : ~Collides(k)
       /\ context' = Published(m - 1)
  /\ Finish("collision")
  /\ UNCHANGED <<loaded, state, open, diag, services, preStop, event, calls>>

StartModule ==
  /\ pc = "start" /\ at <= loaded
  /\ StartAccepted(state[at])
  /\ state' = [state EXCEPT ![at] = "RUNNING"]
  /\ pc' = "start_body"
  /\ UNCHANGED <<loaded, open, diag, services, context, preStop, event, at,
                 outcome, calls>>

RejectStart ==
  /\ pc = "start" /\ at <= loaded
  /\ ~StartAccepted(state[at])
  /\ FailStart(at)
  /\ at' = at + 1
  /\ UNCHANGED <<loaded, open, services, context, preStop, event, pc, outcome, calls>>

\* A body may have opened its resource however it ends (Vision's degraded
\* mode returns without opening; Chronicle opens, then init_schema may raise).
MayOpen(m) == open' \in {open, open \cup ({m} \cap Resourceful)}

StartReturns ==
  /\ pc = "start_body"
  /\ MayOpen(at)
  /\ pc' = "start" /\ at' = at + 1
  /\ UNCHANGED <<loaded, state, diag, services, context, preStop, event, outcome, calls>>

\* Guardian's own start() and stop() cannot raise.
StartRaises ==
  /\ pc = "start_body" /\ at # Guardian
  /\ MayOpen(at)
  /\ FailStart(at)
  /\ pc' = "start" /\ at' = at + 1
  /\ UNCHANGED <<loaded, services, context, preStop, event, outcome, calls>>

\* CancelledError passes through protect() and the raw handler alike.
StartCancelled ==
  /\ pc = "start_body" /\ at \in Plugins
  /\ MayOpen(at)
  /\ Finish("cancelled")
  /\ UNCHANGED <<loaded, state, diag, services, context, preStop, event, calls>>

\* Mutation of AllStarted: the loop waits for a module that was never loaded.
AllStartedLate ==
  /\ pc = "start" /\ at > loaded + 1
  /\ pc' = "announce" /\ at' = 1
  /\ UNCHANGED <<loaded, state, open, diag, services, context, preStop, event,
                 outcome, calls>>

AllStarted ==
  /\ pc = "start" /\ at = loaded + 1
  /\ pc' = "announce" /\ at' = 1
  /\ UNCHANGED <<loaded, state, open, diag, services, context, preStop, event,
                 outcome, calls>>

AnnouncedTopic(s, old) ==
  CASE s = "RUNNING" -> "module.started"
    [] s = "FAILED"  -> "module.failed"
    [] OTHER         -> old

\* The loop after start_all emits one event for each loaded module.
Announce ==
  /\ pc = "announce" /\ at <= loaded
  /\ event' = [event EXCEPT ![at] = AnnouncedTopic(state[at], @)]
  /\ at' = at + 1
  /\ UNCHANGED <<loaded, state, open, diag, services, context, preStop, pc, outcome, calls>>

StartDone ==
  /\ pc = "announce" /\ at = loaded + 1
  /\ Finish("started")
  /\ UNCHANGED <<loaded, state, open, diag, services, context, preStop, event, calls>>

-----------------------------------------------------------------------------
(* Engine.stop: stop and shut down every loaded module, last one first.    *)

\* Mutation of CallStop: the loop begins one short of the end.
CallStopOffByOne ==
  /\ pc = "idle" /\ calls < MaxCalls
  /\ calls' = calls + 1
  /\ preStop' = {m \in 1..loaded : state[m] = "RUNNING"}
  /\ pc' = "stop" /\ outcome' = "none"
  /\ at' = IF loaded > 1 THEN loaded - 1 ELSE loaded
  /\ UNCHANGED <<loaded, state, open, diag, services, context, event>>

CallStop ==
  /\ pc = "idle" /\ calls < MaxCalls
  /\ calls' = calls + 1
  /\ preStop' = {m \in 1..loaded : state[m] = "RUNNING"}
  /\ pc' = "stop" /\ at' = loaded /\ outcome' = "none"
  /\ UNCHANGED <<loaded, state, open, diag, services, context, event>>

StopModule ==
  /\ pc = "stop" /\ at >= 1
  /\ StopAccepted(state[at], at \in Idempotent)
  /\ state' = [state EXCEPT ![at] = "STOPPED"]
  /\ pc' = "stop_body"
  /\ UNCHANGED <<loaded, open, diag, services, context, preStop, event, at,
                 outcome, calls>>

RejectStop ==
  /\ pc = "stop" /\ at >= 1
  /\ ~StopAccepted(state[at], at \in Idempotent)
  /\ FailStop(at)
  /\ pc' = "shutdown"
  /\ UNCHANGED <<loaded, open, services, context, preStop, event, at, outcome, calls>>

\* Mutation of StopReturns: the body returns early and closes nothing.
StopReturnsOpen ==
  /\ pc = "stop_body"
  /\ diag' = IF at = Guardian THEN [m \in Modules |-> 0] ELSE diag
  /\ pc' = "shutdown"
  /\ UNCHANGED <<loaded, state, open, services, context, preStop, event, at,
                 outcome, calls>>

\* Mutation of StopReturns: shutdown() goes to the module before this one.
StopReturnsMovesOn ==
  /\ pc = "stop_body"
  /\ open' = open \ {at}
  /\ diag' = IF at = Guardian THEN [m \in Modules |-> 0] ELSE diag
  /\ pc' = "shutdown" /\ at' = at - 1
  /\ UNCHANGED <<loaded, state, services, context, preStop, event, outcome, calls>>

\* The body closes what start() opened; Guardian's clears its diagnostics.
StopReturns ==
  /\ pc = "stop_body"
  /\ open' = open \ {at}
  /\ diag' = IF at = Guardian THEN [m \in Modules |-> 0] ELSE diag
  /\ pc' = "shutdown"
  /\ UNCHANGED <<loaded, state, services, context, preStop, event, at, outcome, calls>>

StopRaises ==
  /\ pc = "stop_body" /\ at # Guardian
  /\ open' \in {open, open \ {at}}
  /\ FailStop(at)
  /\ pc' = "shutdown"
  /\ UNCHANGED <<loaded, services, context, preStop, event, at, outcome, calls>>

StopCancelled ==
  /\ pc = "stop_body" /\ at \in Plugins
  /\ open' \in {open, open \ {at}}
  /\ Finish("cancelled")
  /\ UNCHANGED <<loaded, state, diag, services, context, preStop, event, calls>>

ShutdownModule ==
  /\ pc = "shutdown"
  /\ ShutdownAccepted(state[at])
  /\ state' = [state EXCEPT ![at] = "SHUTDOWN"]
  /\ pc' = "shutdown_body"
  /\ UNCHANGED <<loaded, open, diag, services, context, preStop, event, at,
                 outcome, calls>>

RejectShutdown ==
  /\ pc = "shutdown"
  /\ ~ShutdownAccepted(state[at])
  /\ FailStop(at)
  /\ pc' = "stop" /\ at' = at - 1
  /\ UNCHANGED <<loaded, open, services, context, preStop, event, outcome, calls>>

\* Every built-in shutdown() is empty; a plug-in's may raise or be cancelled.
ShutdownReturns ==
  /\ pc = "shutdown_body"
  /\ pc' = "stop" /\ at' = at - 1
  /\ UNCHANGED <<loaded, state, open, diag, services, context, preStop, event,
                 outcome, calls>>

ShutdownRaises ==
  /\ pc = "shutdown_body" /\ at \in Plugins
  /\ FailStop(at)
  /\ pc' = "stop" /\ at' = at - 1
  /\ UNCHANGED <<loaded, open, services, context, preStop, event, outcome, calls>>

ShutdownCancelled ==
  /\ pc = "shutdown_body" /\ at \in Plugins
  /\ Finish("cancelled")
  /\ UNCHANGED <<loaded, state, open, diag, services, context, preStop, event, calls>>

\* stop_all has returned: drop the context, then report every module that was
\* RUNNING before it, whatever became of it.
StopDone ==
  /\ pc = "stop" /\ at = 0
  /\ context' = {}
  /\ event' = [m \in Modules |-> IF m \in preStop THEN "module.stopped" ELSE event[m]]
  /\ Finish("stopped")
  /\ UNCHANGED <<loaded, state, open, diag, services, preStop, calls>>

-----------------------------------------------------------------------------

StartSteps ==
  \/ LoadCached \/ LoadFresh \/ LoadFails
  \/ GatherServices \/ RejectServices
  \/ StartModule \/ RejectStart \/ StartReturns \/ StartRaises \/ StartCancelled
  \/ AllStarted \/ Announce \/ StartDone

StopSteps ==
  \/ StopModule \/ RejectStop \/ StopReturns \/ StopRaises \/ StopCancelled
  \/ ShutdownModule \/ RejectShutdown
  \/ ShutdownReturns \/ ShutdownRaises \/ ShutdownCancelled
  \/ StopDone

Next == CallStart \/ CallStop \/ StartSteps \/ StopSteps

Spec == Init /\ [][Next]_vars

\* The event loop keeps running a call that has begun, and every body ends.
FairSpec == Spec /\ WF_vars(StartSteps) /\ WF_vars(StopSteps)

-----------------------------------------------------------------------------
(* Properties.                                                             *)

\* Every variable has the shape the code gives it, and the loop position stays
\* inside the loop it is in.
TypeOK ==
  /\ loaded \in 0..N
  /\ state \in [Modules -> AllStates]
  /\ open \subseteq Modules
  /\ diag \in [Modules -> Nat]
  /\ services \in [Modules -> SUBSET Keys]
  /\ context \subseteq Keys
  /\ preStop \subseteq Modules
  /\ event \in [Modules -> Topics \cup {"none"}]
  /\ pc \in Loops \cup Bodies \cup {"idle"}
  /\ at \in 0..N + 1
  /\ outcome \in Outcomes
  /\ calls \in Nat
  /\ \A m \in Modules : state[m] = "UNLOADED" <=> m > loaded
  /\ pc \in Bodies \cup {"shutdown"} => at \in 1..loaded
  /\ pc \in {"load", "start", "announce"} => at \in 1..loaded + 1
  /\ pc = "stop" => at \in 0..loaded

\* Whatever sequence of starts, failures, cancellations and stops the engine
\* goes through, each module lives the life ModuleLifecycle describes: it runs
\* at most once, never skips a state, and once failed stays failed, although
\* protect() and the raw handlers write _state behind the transition table.
LifecycleOf == INSTANCE ModuleLifecycle
Lifecycle == LifecycleOf!Spec

\* stop_all works backwards through the init order, so a RUNNING module never
\* has a predecessor (whose services it captured) that has been stopped or
\* shut down, even after cancelled and repeated calls.
PredecessorsOutlive ==
  \A m \in 1..loaded : \A k \in 1..m - 1 :
    state[m] = "RUNNING" => state[k] \notin {"STOPPED", "SHUTDOWN"}

\* While Guardian has not been stopped, its diagnostics name exactly the failed
\* modules: no failure goes unrecorded, and nothing is recorded against a
\* module that is still healthy.
FailuresAreDiagnosed ==
  Guardian \in 1..loaded /\ state[Guardian] \in {"LOADED", "RUNNING"} =>
    \A m \in 1..loaded \ {Guardian} : state[m] = "FAILED" <=> diag[m] > 0

\* When Engine.stop has returned and a guardian protected the calls, the only
\* resources still open belong to FAILED modules: no path through a cancelled
\* or repeated stop leaves a connection open in a module that looks clean.
LeaksAreFailures ==
  pc = "idle" /\ outcome = "stopped" /\ Guardian \in 1..loaded =>
    \A m \in open : state[m] = "FAILED"

\* Engine.stop that returns leaves no module RUNNING or half stopped, also
\* when an earlier stop was cancelled between stop() and shutdown().
StopIsComplete ==
  pc = "idle" /\ outcome = "stopped" =>
    \A m \in 1..loaded : state[m] \notin {"RUNNING", "STOPPED"}

\* A service key published twice keeps every module from starting, on the
\* first start and on every retry of it.
CollisionStartsNothing ==
  (\E m \in 1..N : Collides(m)) =>
    \A m \in Modules : state[m] \in {"UNLOADED", "LOADED", "FAILED"}

\* Every call of the engine ends, whatever its modules do.
CallsReturn == pc # "idle" ~> pc = "idle"
=============================================================================
