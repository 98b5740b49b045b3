-------------------------- MODULE ModuleLifecycle --------------------------
(***************************************************************************)
(* What the core promises about the life of each module, without saying    *)
(* who drives it: a module is instantiated once, runs at most once, is     *)
(* stopped before it is shut down, and may fail at any point of its life;  *)
(* a failed module stays failed.  EngineLifecycle implements this.         *)
(***************************************************************************)
EXTENDS ModuleStates

CONSTANT Modules     \* the names of the modules

VARIABLE state       \* Module._state of every module

Init == state = [m \in Modules |-> "UNLOADED"]

Move(m, s, t) ==
  /\ state[m] = s
  /\ state' = [state EXCEPT ![m] = t]

Load(m)     == Move(m, "UNLOADED", "LOADED")
Start(m)    == Move(m, "LOADED", "RUNNING")
Stop(m)     == Move(m, "RUNNING", "STOPPED")
Shutdown(m) == Move(m, "STOPPED", "SHUTDOWN")

\* The exception boundary writes FAILED without asking the transition table.
Fail(m) ==
  /\ state[m] # "UNLOADED"
  /\ state' = [state EXCEPT ![m] = "FAILED"]

Next == \E m \in Modules :
          Load(m) \/ Start(m) \/ Stop(m) \/ Shutdown(m) \/ Fail(m)

Spec == Init /\ [][Next]_state

TypeOK == state \in [Modules -> AllStates]
=============================================================================
