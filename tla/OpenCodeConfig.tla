---- MODULE OpenCodeConfig ----
(***************************************************************************)
(* opencode.json between `apoch install`, `apoch uninstall` and its owner: *)
(* apoch/adapters/opencode/config.py, the four configuration methods of    *)
(* apoch/adapters/opencode/server.py and apoch/cli/{install,uninstall}.py. *)
(* A text is what its owner wrote (his keys and the apoch entry) in some   *)
(* form: JSON, JSON with comments, JSON that read() does not take for what *)
(* it says ("tangled"), or not parseable.  An empty file reads as {}.      *)
(*                                                                         *)
(* Assumed: the clock that names the backups never goes back.  The code    *)
(* names them in local time, so that it does when summer time ends.        *)
(***************************************************************************)
EXTENDS Naturals, FiniteSetsExt

CONSTANTS
    Keys,         \* what the user may have written apart from the apoch entry
    NoKeys,       \* nothing
    Launchers,    \* what _resolve_apoch_command may return
    MaxCommands,  \* bound: commands
    MaxEdits,     \* bound: edits by the user
    MaxTime       \* bound: seconds

NoEntry == "none"

Parse == [keys : Keys, apoch : Launchers \cup {NoEntry}]
Text == [form : {"json", "jsonc", "tangled", "broken"}, keys : Keys, apoch : Launchers \cup {NoEntry}]
Blank == [keys |-> NoKeys, apoch |-> NoEntry]
Missing == [form |-> "missing", keys |-> NoKeys, apoch |-> NoEntry]
Files == Text \cup {Missing}

ASSUME ConfigAssumption ==
    /\ NoKeys \in Keys /\ NoEntry \notin Launchers
    /\ MaxCommands \in Nat /\ MaxEdits \in Nat /\ MaxTime \in Nat

VARIABLES
    file,      \* opencode.json
    backups,   \* .apoch-backups: by the second in the name, Missing where there is none
    now,       \* the clock, in seconds
    pc,        \* where the command in progress is
    plan,      \* InstallPlan: what was read, what is proposed, the name of the backup
    chosen,    \* the backup uninstall() restores
    before,    \* the file the last applied install had backed up, or Missing
    quiet,     \* since then nobody but one uninstall() touched file or backups
    edited,    \* the user changed the file after the plan was read, not during a rollback
    own,       \* the text the user wrote last
    perils,    \* what may have cost the user his text since he wrote it
    result,    \* how the last command ended
    commands, edits

history == <<before, quiet, edited, own, perils>>
vars == <<file, backups, now, pc, plan, chosen, history, result, commands, edits>>

Times == 0..MaxTime
NoPlan == [current |-> Blank, proposed |-> Blank, backup |-> 0]

TypeOK ==
    /\ file \in Files /\ backups \in [Times -> Files] /\ now \in Times
    /\ pc \in {"idle", "read", "backup", "copy", "consent", "write", "discard",
               "select", "truncate", "fill", "unlink"}
    /\ plan \in [current : Parse, proposed : Parse, backup : Times]
    /\ chosen \in Times /\ before \in Files /\ quiet \in BOOLEAN /\ edited \in BOOLEAN
    /\ own \in Files /\ perils \subseteq {"edited", "shared", "torn"}
    /\ result \in {"none", "installed", "already", "cancelled", "error", "uninstalled", "killed"}
    /\ commands \in 0..MaxCommands /\ edits \in 0..MaxEdits
    /\ pc = "fill" => backups[chosen] # Missing

Init ==
    /\ file \in {Missing} \cup [form : {"json", "jsonc", "tangled"}, keys : Keys, apoch : {NoEntry}]
    /\ backups = [t \in Times |-> Missing] /\ now = 0
    /\ pc = "idle" /\ plan = NoPlan /\ chosen = 0
    /\ before = Missing /\ quiet = FALSE /\ edited = FALSE /\ own = file /\ perils = {}
    /\ result = "none" /\ commands = 0 /\ edits = 0

\* read(): comments and trailing commas are stripped, a missing or empty file is {}.
\* The stripping knows nothing of JSON: a key on the line on which a block comment ends
\* where it began goes with it, and so does a comma within a string before a bracket.
Unreadable(f) == f.form = "broken"
Read(f) == [keys |-> IF f.form = "tangled" THEN NoKeys ELSE f.keys, apoch |-> f.apoch]

\* Mutation of Merge: a fresh document is written around the entry.
MergeAlone(current, launcher) == [Blank EXCEPT !.apoch = launcher]

\* merge(): every other key and server is kept.
Merge(current, launcher) == [current EXCEPT !.apoch = launcher]

\* write(): what is written is plain JSON, whatever the form was before.
Written(p) == [form |-> "json", keys |-> p.keys, apoch |-> p.apoch]

(***************************************************************************)
(* apoch install                                                           *)
(***************************************************************************)
CallInstall ==
    /\ pc = "idle" /\ commands < MaxCommands /\ commands' = commands + 1
    /\ pc' = "read"
    /\ UNCHANGED <<file, backups, now, plan, chosen, history, result, edits>>

End(how) == pc' = "idle" /\ result' = how

PrepareRead ==
    /\ pc = "read"
    /\ IF Unreadable(file)
         THEN End("error") /\ UNCHANGED <<plan, edited>>
         ELSE /\ \E l \in Launchers : plan' = [current  |-> Read(file),
                                              proposed |-> Merge(Read(file), l),
                                              backup   |-> now]
              /\ edited' = FALSE /\ pc' = "backup" /\ UNCHANGED result
    /\ UNCHANGED <<file, backups, now, chosen, before, quiet, own, perils, commands, edits>>

Saved == {t \in Times : backups[t] # Missing}

\* The backups that are not being copied at the moment.
Complete == IF pc = "copy" THEN Saved \ {plan.backup} ELSE Saved

\* backup(): the name is the second, a backup of that name is overwritten, and the copy
\* is empty before it has the text of the file as it is by now.
Copy(f) == IF f = Missing THEN Written(Blank) ELSE f

BackupCreate ==
    /\ pc = "backup"
    /\ backups' = [backups EXCEPT ![now] = Written(Blank)]
    /\ plan' = [plan EXCEPT !.backup = now] /\ pc' = "copy"
    /\ quiet' = FALSE
    /\ perils' = IF Saved = {now} THEN perils \cup {"shared"} ELSE perils
    /\ UNCHANGED <<file, now, chosen, before, edited, own, result, commands, edits>>

BackupFill ==
    /\ pc = "copy"
    /\ backups' = [backups EXCEPT ![plan.backup] = Copy(file)]
    /\ pc' = IF plan.current = plan.proposed THEN "discard" ELSE "consent"
    /\ UNCHANGED <<file, now, plan, chosen, history, result, commands, edits>>

Consent ==
    /\ pc = "consent"
    /\ pc' \in {"write", "discard"}
    /\ UNCHANGED <<file, backups, now, plan, chosen, history, result, commands, edits>>

\* Mutation of ApplyInstall: the file is written in place, and a kill leaves half a text.
ApplyInstallInPlace ==
    /\ pc = "write"
    /\ \/ file' = Written(plan.proposed) /\ End("installed")
       \/ file' = [form |-> "broken", keys |-> NoKeys, apoch |-> NoEntry] /\ End("killed")
    /\ before' = backups[plan.backup] /\ quiet' = TRUE
    /\ UNCHANGED <<backups, now, plan, chosen, edited, own, perils, commands, edits>>

\* apply_install(): a temporary file is renamed over the old one.
ApplyInstall ==
    /\ pc = "write"
    /\ file' = Written(plan.proposed)
    /\ before' = backups[plan.backup] /\ quiet' = TRUE
    /\ End("installed")
    /\ UNCHANGED <<backups, now, plan, chosen, edited, own, perils, commands, edits>>

\* Mutation of DiscardInstall: the whole backup directory is cleaned.
DiscardInstallAll ==
    /\ pc = "discard"
    /\ backups' = [t \in Times |-> Missing]
    /\ End(IF plan.current = plan.proposed THEN "already" ELSE "cancelled")
    /\ UNCHANGED <<file, now, plan, chosen, history, commands, edits>>

DiscardInstall ==
    /\ pc = "discard"
    /\ backups' = [backups EXCEPT ![plan.backup] = Missing]
    /\ End(IF plan.current = plan.proposed THEN "already" ELSE "cancelled")
    /\ UNCHANGED <<file, now, plan, chosen, history, commands, edits>>

(***************************************************************************)
(* apoch uninstall                                                         *)
(***************************************************************************)
CallUninstall ==
    /\ pc = "idle" /\ commands < MaxCommands /\ commands' = commands + 1
    /\ pc' = "select"
    /\ quiet' = (quiet /\ result = "installed")
    /\ UNCHANGED <<file, backups, now, plan, chosen, before, edited, own, perils, result, edits>>

\* Mutation of SelectBackup: the oldest backup.
SelectOldest ==
    /\ pc = "select"
    /\ IF Saved = {}
         THEN End("uninstalled") /\ UNCHANGED chosen
         ELSE chosen' = Min(Saved) /\ pc' = "truncate" /\ UNCHANGED result
    /\ UNCHANGED <<file, backups, now, plan, history, commands, edits>>

\* The command reports a removal also when it has found no backup.
SelectBackup ==
    /\ pc = "select"
    /\ IF Saved = {}
         THEN End("uninstalled") /\ UNCHANGED chosen
         ELSE chosen' = Max(Saved) /\ pc' = "truncate" /\ UNCHANGED result
    /\ UNCHANGED <<file, backups, now, plan, history, commands, edits>>

\* rollback() copies over the file in place, which is empty for a moment.
RollbackTruncate ==
    /\ pc = "truncate"
    /\ file' = Written(Blank) /\ pc' = "fill"
    /\ UNCHANGED <<backups, now, plan, chosen, history, result, commands, edits>>

RollbackFill ==
    /\ pc = "fill"
    /\ file' = backups[chosen] /\ pc' = "unlink"
    /\ UNCHANGED <<backups, now, plan, chosen, history, result, commands, edits>>

UnlinkBackup ==
    /\ pc = "unlink"
    /\ backups' = [backups EXCEPT ![chosen] = Missing]
    /\ End("uninstalled")
    /\ UNCHANGED <<file, now, plan, chosen, history, commands, edits>>

(***************************************************************************)
(* The user, the clock and the interrupt key                               *)
(***************************************************************************)
Edit ==
    /\ edits < MaxEdits /\ edits' = edits + 1
    /\ \E f \in Text : f # file /\ file' = f
    /\ own' = file'
    /\ perils' = IF Complete = {} THEN {} ELSE perils \cup {"edited"}
    /\ quiet' = FALSE /\ edited' = (edited \/ pc \notin {"truncate", "fill", "unlink"})
    /\ UNCHANGED <<backups, now, pc, plan, chosen, before, result, commands>>

Tick ==
    /\ now < MaxTime /\ now' = now + 1
    /\ UNCHANGED <<file, backups, pc, plan, chosen, history, result, commands, edits>>

\* Ctrl-C at a prompt or a kill: nothing is cleaned up, an unfinished backup stays.
Kill ==
    /\ pc # "idle"
    /\ End("killed") /\ quiet' = FALSE
    /\ perils' = IF pc = "copy" /\ Complete = {} THEN perils \cup {"torn"} ELSE perils
    /\ UNCHANGED <<file, backups, now, plan, chosen, before, edited, own, commands, edits>>

Next ==
    \/ CallInstall \/ PrepareRead \/ BackupCreate \/ BackupFill \/ Consent \/ ApplyInstall \/ DiscardInstall
    \/ CallUninstall \/ SelectBackup \/ RollbackTruncate \/ RollbackFill \/ UnlinkBackup
    \/ Edit \/ Tick \/ Kill

Spec == Init /\ [][Next]_vars

(***************************************************************************)
(* Properties                                                              *)
(***************************************************************************)
\* install changes the apoch entry and nothing else, unless the user has edited the
\* file since it was read (config.py:192, server.py:465) or reading it loses keys
\* (config.py:276-307).
InstallKeepsKeys ==
    [][pc = "write" /\ pc' = "idle" /\ ~edited /\ result' = "installed" /\ file.form # "tangled"
        => file'.keys = file.keys /\ file'.apoch = plan.proposed.apoch]_vars

\* An uninstall that follows an install, with nobody interfering, gives back what the
\* file contained and the form it had (config.py:210-253, server.py:488-505).
UninstallUndoesInstall ==
    pc = "idle" /\ result = "uninstalled" /\ quiet => file = before

Kept == Copy(own) \in {Copy(file)} \cup {backups[t] : t \in Saved}

\* No sequence of installs, refusals, kills and uninstalls loses what the user wrote: the
\* file is it, or some backup has it.  There are three ways to lose it, and no others: the
\* only backup is overwritten within its second (config.py:226), is cut short (:231), or
\* the user edits a file of which there is a backup (server.py:465, 493).
OwnTextSurvives == perils = {} => Kept

\* No command turns a readable file into one that cannot be read, whenever it is
\* killed (config.py:130, 250); a text the user broke may come back.
StaysReadable ==
    [][~Unreadable(file) /\ Unreadable(file')
        => edits' > edits \/ \E t \in Saved : Unreadable(backups[t])]_vars

(***************************************************************************)
(* What documents say and the code does not keep (README, section 6): TLC  *)
(* shows how when one of these takes the place of the properties above.    *)
(***************************************************************************)
\* openspec/specs/cli-interface/spec.md:81: uninstall restores opencode.json to its
\* pre-install state, which a user who never edits it finds in the end.
UninstallReverts ==
    pc = "idle" /\ result = "uninstalled" /\ edits = 0 => Copy(file) = Copy(own)

\* spec.md:197, 181: if the user overwrites opencode.json between install and uninstall, the
\* revert is refused; it never starts on a text of his that no backup has.
UninstallRefusesOverwritten ==
    pc = "truncate" /\ before # Missing /\ edited /\ file = own => \E t \in Saved : backups[t] = own
====
