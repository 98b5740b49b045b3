----------------------------- MODULE MCEventBus -----------------------------
(* Instances of EventBus for TLC: two tasks emit, two handlers register,   *)
(* each possibly several times.                                            *)
EXTENDS EventBus
=============================================================================
