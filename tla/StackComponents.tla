---- MODULE StackComponents ----
(***************************************************************************)
(* What the four adapters of apoch/stack/components find on the machine    *)
(* and what they conclude from it.  A component is known by the binary     *)
(* that answers to its name: there is none that answers, one whose version *)
(* cannot be parsed ("unversioned"), or one below, within or above the     *)
(* versions its descriptor asks for.                                       *)
(***************************************************************************)

Absent == "absent"
Parsed == {"old", "fit", "new"}
Detected == Parsed \cup {"unversioned"}
Contents == Detected \cup {Absent}

Statuses == {"UNKNOWN", "NOT_INSTALLED", "INSTALLING", "INSTALLED", "ACTIVE",
             "INACTIVE", "OUTDATED", "UNSUPPORTED", "BROKEN", "ERROR", "REMOVED"}
Usable == {"INSTALLED", "ACTIVE", "INACTIVE"}

\* detect() reports a component as installed, with or without a version.
Installed(found) == found \in Detected

\* derive_state: what a detection makes of the component.
Derived(found) ==
    CASE found \notin Parsed -> "NOT_INSTALLED"
      [] found = "old"       -> "OUTDATED"
      [] found = "new"       -> "UNSUPPORTED"
      [] found = "fit"       -> "INSTALLED"

(***************************************************************************)
(* The adapters differ in what install() accepts as its own success, in    *)
(* what uninstall() answers when there is nothing to remove, and in        *)
(* whether a binary may have come from no package manager, which           *)
(* uninstall() then leaves alone.                                          *)
(***************************************************************************)
Adapter == [confirms : SUBSET Detected, absentIsRemoved : BOOLEAN, mayBeUnmanaged : BOOLEAN]

OpenSpec  == [confirms |-> Parsed,   absentIsRemoved |-> TRUE,  mayBeUnmanaged |-> FALSE]
Engram    == [confirms |-> Detected, absentIsRemoved |-> FALSE, mayBeUnmanaged |-> TRUE]
Context7  == [confirms |-> Detected, absentIsRemoved |-> TRUE,  mayBeUnmanaged |-> FALSE]
CodeGraph == [confirms |-> Detected, absentIsRemoved |-> TRUE,  mayBeUnmanaged |-> FALSE]

(***************************************************************************)
(* What a subprocess leaves behind (RealRunner.run).  An installation may  *)
(* fail with something in place and exit with 0 with nothing; a removal    *)
(* may uncover a second installation, or fail after its work is done.      *)
(***************************************************************************)
AfterInstall(found) == Contents
AfterRemoval(found) == {Absent, found}
====
