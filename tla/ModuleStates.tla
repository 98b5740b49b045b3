---------------------------- MODULE ModuleStates ----------------------------
(***************************************************************************)
(* The module state machine of core/module.py: the states, the table of    *)
(* valid transitions, and the three _pre_* hooks that _validate_lifecycle   *)
(* runs before the body of start(), stop() and shutdown().  A hook either  *)
(* accepts the call, and the module is in the next state before its body   *)
(* runs, or raises LifecycleError and leaves the state alone.              *)
(***************************************************************************)

\* "UNLOADED" stands for a module that has no instance yet.
States == {"LOADED", "RUNNING", "STOPPED", "SHUTDOWN", "FAILED"}
AllStates == States \cup {"UNLOADED"}

\* _StateMachine._valid_transitions
ValidTransitions ==
  [LOADED  |-> {"RUNNING", "FAILED"},
   RUNNING |-> {"STOPPED", "FAILED"},
   STOPPED |-> {"SHUTDOWN", "FAILED"}]

\* _StateMachine._transition: does it accept the step from s to t?
CanTransition(s, t) ==
  /\ s \in DOMAIN ValidTransitions
  /\ t \in ValidTransitions[s]

\* Mutation of StartAccepted: a module may be started again after shutdown.
StartAcceptedAfterShutdown(s) ==
  \/ s = "SHUTDOWN"
  \/ CanTransition(s, "RUNNING")

\* Module._pre_start
StartAccepted(s) ==
  /\ s \notin {"SHUTDOWN", "FAILED"}
  /\ CanTransition(s, "RUNNING")

\* Module._pre_stop; chronicle, pulse, optimizer and oracle override it so
\* that stop() on a STOPPED module is accepted and leaves it STOPPED.
StopAccepted(s, idempotent) ==
  \/ s = "RUNNING" /\ CanTransition(s, "STOPPED")
  \/ idempotent /\ s = "STOPPED"

\* Module._pre_shutdown
ShutdownAccepted(s) ==
  /\ s = "STOPPED"
  /\ CanTransition(s, "SHUTDOWN")
=============================================================================
