---- MODULE MCCoordinator ----
(***************************************************************************)
(* Two concurrent calls of every tool, two of them by an alias, on the     *)
(* services of the repository's modules, and on few of them with the       *)
(* service of Oracle that only the coordinator knows of.                   *)
(***************************************************************************)
EXTENDS Coordinator

MCEntries == {"status", "history", "guardian_diagnostics", "recommend", "progress",
              "insights", "vision_logs"}
Repository == Services \ {"oracle.status"}
MCLoadouts == {Repository, {"vision.module_state", "oracle.status", "optimizer.hypotheses"}}
====
