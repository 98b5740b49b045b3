---- MODULE Gateway ----
(***************************************************************************)
(* AgentAdapterManager (apoch/adapters/manager.py) over OpenCodeAdapter    *)
(* (apoch/adapters/opencode/server.py): starting the gateway and the       *)
(* engine, registering tools under names that may collide, wiring Pulse to *)
(* the bus, stopping, and starting again on the same module registry.      *)
(***************************************************************************)
EXTENDS Naturals, Sequences, FiniteSets, SequencesExt

CONSTANTS
    Modules,     \* the modules the registry loads
    Pulse,       \* the one whose record() the subscriber calls
    Owners,      \* who registers tools, in order: coordinator, legacy, sorted modules
    Names,       \* tool names, plain and prefixed
    ToolsOf,     \* the names of the tools each owner defines, in order
    Prefixed,    \* f"{module_name}_{tool.name}"
    Plugins,     \* owners whose handlers may turn out to be missing or private
    Tellers,     \* owners whose handlers emit tool.completed: coordinator, legacy
    MaxCalls     \* bound: calls of start, stop and serve

Handlers == UNION {{o} \X (1..Len(ToolsOf[o])) : o \in Range(Owners)}
None == <<>>
Topics == {"completed", "stopping"}

Plain == UNION {Range(ToolsOf[o]) : o \in Range(Owners)}

ASSUME GatewayAssumption ==
    /\ Pulse \in Modules /\ Owners \in Seq(Range(Owners)) /\ IsInjective(Owners)
    /\ \A o \in Range(Owners) : ToolsOf[o] \in Seq(Names)
    /\ Prefixed \in [Range(Owners) \X Names -> Names] /\ MaxCalls \in Nat
    /\ Plugins \subseteq Range(Owners) /\ Tellers \subseteq Range(Owners)
\* The adapter checks a name once: a prefixed name must be nobody else's.
ASSUME PrefixesAreFresh ==
    /\ \A o \in Range(Owners) : IsInjective(ToolsOf[o])
    /\ \A o, p \in Range(Owners) : \A n \in Range(ToolsOf[o]), m \in Range(ToolsOf[p]) :
          /\ Prefixed[<<o, n>>] \notin Plain
          /\ Prefixed[<<o, n>>] = Prefixed[<<p, m>>] => <<o, n>> = <<p, m>>

VARIABLES
    server,      \* _server is not None
    slots,       \* _tool_registry: the handler behind each name, None where there is none
    engine,      \* _engine is not None
    module,      \* the state of each module
    listening,   \* the subscriber is on the bus of the current engine
    measured,    \* Pulse's measurements of bus events, as <<engine, topic>>
    completed,   \* history: engines under which a call was completed while Pulse ran
    engines,     \* the number of engines created
    pc, at, next,\* where the call is, the owner and the tool it registers
    serving,     \* the call in progress is serve()
    outcome,     \* how the last call ended
    calls

wiring == <<listening, measured, completed>>
vars == <<server, slots, engine, module, wiring, engines, pc, at, next, serving, outcome, calls>>

Registered == {n \in Names : slots[n] # None}
NoSlots == [n \in Names |-> None]

TypeOK ==
    /\ server \in BOOLEAN /\ engine \in BOOLEAN /\ listening \in BOOLEAN /\ serving \in BOOLEAN
    /\ slots \in [Names -> Handlers \cup {None}]
    /\ ~server => Registered = {}
    /\ module \in [Modules -> {"fresh", "running", "failed", "down"}]
    /\ measured \subseteq (1..engines) \X Topics /\ completed \subseteq 1..engines
    /\ engines \in 0..MaxCalls /\ calls \in 0..MaxCalls
    /\ pc \in {"idle", "engine", "wire", "register", "stop_engine", "stop_modules", "serve"}
    /\ at \in 1..(Len(Owners) + 1) /\ next \in Nat \ {0}
    /\ outcome \in {"none", "started", "skipped", "raised", "stopped", "served"}

Init ==
    /\ server = FALSE /\ slots = NoSlots /\ engine = FALSE
    /\ module = [m \in Modules |-> "fresh"]
    /\ listening = FALSE /\ measured = {} /\ completed = {} /\ engines = 0
    /\ pc = "idle" /\ at = 1 /\ next = 1 /\ serving = FALSE /\ outcome = "none" /\ calls = 0

(***************************************************************************)
(* start                                                                   *)
(***************************************************************************)
Return(how) ==
    /\ outcome' = how
    /\ pc' = IF serving /\ how \in {"started", "skipped"} THEN "serve" ELSE "idle"

\* Whoever finds an engine is told that the gateway runs, whether it does or not.
CallStart(serve) ==
    /\ pc = "idle" /\ calls < MaxCalls /\ calls' = calls + 1
    /\ serving' = serve
    /\ IF engine
         THEN /\ outcome' = "skipped" /\ pc' = IF serve THEN "serve" ELSE "idle"
              /\ UNCHANGED <<server, engine, listening, engines>>
         ELSE /\ server' = TRUE /\ engine' = TRUE
              /\ engines' = engines + 1 /\ listening' = FALSE
              /\ pc' = "engine" /\ UNCHANGED outcome
    /\ UNCHANGED <<slots, module, measured, completed, at, next>>

\* Engine.start on modules that have not been started yet; a module that has been
\* shut down rejects it and fails.  engine.started is emitted before anybody listens.
EngineStarts ==
    /\ pc = "engine"
    /\ module' \in [Modules -> {"running", "failed"}]
    /\ \A m \in Modules : module[m] # "fresh" => module'[m] = "failed"
    /\ pc' = "wire"
    /\ UNCHANGED <<server, slots, engine, wiring, engines, at, next, serving, outcome, calls>>

\* It raises before anything is started, or is cancelled among the modules.
EngineRaises ==
    /\ pc = "engine"
    /\ module' \in [Modules -> {"fresh", "running", "failed", "down"}]
    /\ \A m \in Modules : module'[m] \in
          IF module[m] = "fresh" THEN {"fresh", "running", "failed"} ELSE {module[m], "failed"}
    /\ Return("raised")
    /\ UNCHANGED <<server, slots, engine, wiring, engines, at, next, serving, calls>>

\* Mutation of Wire: the subscriber stays on the bus of the first engine.
WireOnce ==
    /\ pc = "wire"
    /\ listening' = (engines = 1)
    /\ pc' = "register" /\ at' = 1 /\ next' = 1
    /\ UNCHANGED <<server, slots, engine, module, measured, completed, engines, serving, outcome, calls>>

\* The coordinator is built and the subscriber put on the new engine's bus.
Wire ==
    /\ pc = "wire"
    /\ listening' = TRUE
    /\ pc' = "register" /\ at' = 1 /\ next' = 1
    /\ UNCHANGED <<server, slots, engine, module, measured, completed, engines, serving, outcome, calls>>

\* Mutation of FinalName: a tool whose name is taken replaces its holder.
FinalNamePlain(o, n) == n
FinalName(o, n) == IF n \in Registered THEN Prefixed[<<o, n>>] ELSE n

\* Mutation of RegisterTool: the first tool of every owner is passed over.
RegisterToolLate ==
    /\ pc = "register" /\ at <= Len(Owners)
    /\ LET o == Owners[at] IN
         /\ next <= Len(ToolsOf[o])
         /\ slots' = IF next = 1 THEN slots
                     ELSE [slots EXCEPT ![FinalName(o, ToolsOf[o][next])] = <<o, next>>]
         /\ next' = next + 1
    /\ UNCHANGED <<server, engine, module, wiring, engines, pc, at, serving, outcome, calls>>

RegisterTool ==
    /\ pc = "register" /\ at <= Len(Owners)
    /\ LET o == Owners[at] IN
         /\ next <= Len(ToolsOf[o])
         /\ slots' = [slots EXCEPT ![FinalName(o, ToolsOf[o][next])] = <<o, next>>]
         /\ next' = next + 1
    /\ UNCHANGED <<server, engine, module, wiring, engines, pc, at, serving, outcome, calls>>

NextOwner ==
    /\ pc = "register" /\ at <= Len(Owners) /\ next > Len(ToolsOf[Owners[at]])
    /\ at' = at + 1 /\ next' = 1
    /\ UNCHANGED <<server, slots, engine, module, wiring, engines, pc, serving, outcome, calls>>

\* A missing or private handler aborts the start; what is registered stays.
RegisterRaises ==
    /\ pc = "register" /\ at <= Len(Owners)
    /\ Owners[at] \in Plugins /\ next <= Len(ToolsOf[Owners[at]])
    /\ Return("raised")
    /\ UNCHANGED <<server, slots, engine, module, wiring, engines, at, next, serving, calls>>

StartDone ==
    /\ pc = "register" /\ at > Len(Owners)
    /\ Return("started")
    /\ UNCHANGED <<server, slots, engine, module, wiring, engines, at, next, serving, calls>>

(***************************************************************************)
(* stop and serve                                                          *)
(***************************************************************************)
\* Mutation of CallStop: the engine is dropped before it has stopped.
CallStopForgets ==
    /\ pc = "idle" /\ calls < MaxCalls /\ calls' = calls + 1
    /\ serving' = FALSE /\ engine' = FALSE
    /\ IF engine
         THEN server' = FALSE /\ slots' = NoSlots /\ pc' = "stop_engine" /\ UNCHANGED outcome
         ELSE outcome' = "skipped" /\ UNCHANGED <<server, slots, pc>>
    /\ UNCHANGED <<module, wiring, engines, at, next>>

CallStop ==
    /\ pc = "idle" /\ calls < MaxCalls /\ calls' = calls + 1
    /\ serving' = FALSE
    /\ IF engine
         THEN server' = FALSE /\ slots' = NoSlots /\ pc' = "stop_engine" /\ UNCHANGED outcome
         ELSE outcome' = "skipped" /\ UNCHANGED <<server, slots, pc>>
    /\ UNCHANGED <<engine, module, wiring, engines, at, next>>

\* emit hands a SystemEvent to the handler as its keyword `event`.  A plain topic comes
\* without one: the subscriber's handlers, which require it, raise, and emit only logs that.
Emitted(topic, form) ==
    measured' = IF form = "event" /\ listening /\ module[Pulse] = "running"
                  THEN measured \cup {<<engines, topic>>} ELSE measured

EngineStopping ==
    /\ pc = "stop_engine"
    /\ Emitted("stopping", "plain")
    /\ pc' = "stop_modules"
    /\ UNCHANGED <<server, slots, engine, module, listening, completed, engines, at, next,
                   serving, outcome, calls>>

EngineStops ==
    /\ pc = "stop_modules"
    /\ module' \in [Modules -> {"fresh", "failed", "down"}]
    /\ \A m \in Modules : module'[m] \in
          CASE module[m] = "running" -> {"failed", "down"}
            [] module[m] = "fresh"   -> {"fresh", "down"}
            [] OTHER                 -> {module[m], "down"}
    /\ engine' = FALSE
    /\ Return("stopped")
    /\ UNCHANGED <<server, slots, wiring, engines, at, next, serving, calls>>

\* Engine.stop is cancelled: some modules keep running, and so does the engine.
EngineStopCancelled ==
    /\ pc = "stop_modules"
    /\ module' \in [Modules -> {"fresh", "running", "failed", "down"}]
    /\ \A m \in Modules : module'[m] \in {module[m], "failed", "down"}
    /\ Return("raised")
    /\ UNCHANGED <<server, slots, engine, wiring, engines, at, next, serving, calls>>

\* adapter.serve() makes sure of a server, which may then be one without tools.
Serve ==
    /\ pc = "serve" /\ ~server
    /\ server' = TRUE
    /\ UNCHANGED <<slots, engine, module, wiring, engines, pc, at, next, serving, outcome, calls>>

\* A call through the loop that completes.  The handler belongs to the coordinator of the
\* current engine, since no tool is registered when an engine is created.
CallTool(n) ==
    /\ pc = "serve" /\ server
    /\ n \in Registered /\ slots[n][1] \in Tellers
    /\ Emitted("completed", "event")
    /\ completed' = IF module[Pulse] = "running" THEN completed \cup {engines} ELSE completed
    /\ UNCHANGED <<server, slots, engine, module, listening, engines, pc, at, next,
                   serving, outcome, calls>>

\* The client goes away or the loop is cancelled; nobody stops the engine.
ServeEnds ==
    /\ pc = "serve" /\ server
    /\ Return("served")
    /\ UNCHANGED <<server, slots, engine, module, wiring, engines, at, next, serving, calls>>

Step ==
    \/ EngineStarts \/ EngineRaises \/ Wire \/ RegisterTool \/ NextOwner
    \/ RegisterRaises \/ StartDone \/ EngineStopping \/ EngineStops \/ EngineStopCancelled

Next ==
    \/ \E serve \in BOOLEAN : CallStart(serve)
    \/ \E n \in Names : CallTool(n)
    \/ CallStop \/ Step \/ Serve \/ ServeEnds

Spec == Init /\ [][Next]_vars

(***************************************************************************)
(* Properties                                                              *)
(***************************************************************************)
Callable(h) == \E n \in Names : slots[n] = h

\* After a start that ran to its end every tool of every owner can be called under
\* some name, whatever failed before on the same registry (manager.py:135-173).
EveryToolCallable ==
    outcome = "started" /\ pc \in {"idle", "serve"} => \A h \in Handlers : Callable(h)

\* The manager forgets an engine only when nothing is left of it: whenever it holds
\* none, after a stop, also when an earlier one was cancelled half-way, no module runs
\* and no tool is registered, so that a stop it skips has nothing to do (manager.py:172-183).
StopLeavesNothing ==
    ~engine => ~server /\ Registered = {} /\ \A m \in Modules : module[m] # "running"

\* Whatever Pulse can measure it does: a call completed by a tool of the coordinator while
\* Pulse runs is measured under its engine, on whichever bus that is and also when the start
\* that registered the tool raised and its retry was skipped (manager.py:81, 126-157).
CompletionsAreMeasured == \A e \in completed : <<e, "completed">> \in measured

(***************************************************************************)
(* What documents say and the code does not keep (README, section 6): TLC  *)
(* shows how when one of these takes the place of the properties above.    *)
(***************************************************************************)
\* pulse/events.py:3-4: ENGINE_STOPPING is recorded as a Pulse measurement.  An engine that was
\* fully started and has announced its end is measured if Pulse runs (core/engine.py:128).
StoppingIsMeasured ==
    pc = "stop_modules" /\ outcome = "started" /\ module[Pulse] = "running"
        => <<engines, "stopping">> \in measured
====
