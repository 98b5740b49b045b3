------------------------------ MODULE MCEngine ------------------------------
(* Instances of EngineLifecycle for TLC.                                    *)
EXTENDS EngineLifecycle
=============================================================================
