---- MODULE StackManager ----
(***************************************************************************)
(* StackManager (apoch/stack/manager.py) as its callers drive it: a status *)
(* for every component, and operations that run one component after the    *)
(* other against a machine that others change as well.  A call of the      *)
(* manager handles one component ("one"), all of them ("all"), or is a     *)
(* command of apoch/cli/stack.py ("cli"), which builds a fresh manager and *)
(* calls it once per target.                                               *)
(***************************************************************************)
EXTENDS StackComponents, Naturals, Sequences, SequencesExt, FiniteSetsExt

CONSTANTS
    N,            \* components are numbered in registration order
    AdapterOf,    \* the adapter behind each component
    Deps,         \* StackDescriptor.dependencies
    MayNotLoad,   \* components whose entry point may fail to import
    Found,        \* the contents of the machine the instance distinguishes
    Initially,    \* those of them the instance starts from
    MaxCommands,  \* bound: calls of the manager
    MaxChanges    \* bound: changes of the machine by others

Components == 1..N

ASSUME ComponentsAssumption ==
    /\ N \in Nat
    /\ AdapterOf \in [Components -> Adapter]
    /\ Deps \in [Components -> SUBSET Components]
    /\ MayNotLoad \subseteq Components
    /\ Found \subseteq Contents /\ Absent \in Found /\ Initially \subseteq Found
    /\ MaxCommands \in Nat /\ MaxChanges \in Nat

VARIABLES
    disk,       \* what is on the machine, by component
    status,     \* _statuses[c].state
    instances,  \* _instances: the components that have been loaded
    op,         \* the operation in progress or last completed
    caller,     \* who runs it: "one", "all", "cli", or install_all's "rollback"
    todo,       \* the components it has yet to handle
    pc,         \* where it is with the first of them
    reported,   \* the components for which it has returned success
    stuck,      \* removals of this rollback that left the component where it was
    before,     \* the components shown as usable when the operation began
    disturbed,  \* components changed by others since the manager detected them
    commands, changes

machine == <<disk, disturbed, changes>>
vars == <<disk, status, instances, op, caller, todo, pc, reported, stuck, before,
          disturbed, commands, changes>>

Operations == {"refresh", "install", "uninstall", "verify"}
Ascending == [i \in Components |-> i]
Descending(S) == CHOOSE s \in [1..Cardinality(S) -> S] :
    Range(s) = S /\ \A i, j \in DOMAIN s : i < j => s[i] > s[j]
TargetLists == {s \in UNION {[1..k -> Components] : k \in Components} : IsInjective(s)}

TypeOK ==
    /\ disk \in [Components -> Found] /\ status \in [Components -> Statuses]
    /\ instances \subseteq Components
    /\ op \in Operations \cup {"none"} /\ caller \in {"one", "all", "cli", "rollback"}
    /\ todo \in Seq(Components) /\ Len(todo) <= N
    /\ pc \in {"idle", "next", "command", "confirm", "remove", "doctor"}
    /\ (pc = "idle") = (todo = << >>)
    /\ reported \subseteq Components /\ stuck \subseteq Components
    /\ before \subseteq Components /\ disturbed \subseteq Components
    /\ commands \in 0..MaxCommands /\ changes \in 0..MaxChanges

Unknown == [c \in Components |-> "UNKNOWN"]

Init ==
    /\ disk \in [Components -> Initially] /\ status = Unknown /\ instances = {}
    /\ op = "none" /\ caller = "one" /\ todo = << >> /\ pc = "idle"
    /\ reported = {} /\ stuck = {} /\ before = {} /\ disturbed = {}
    /\ commands = 0 /\ changes = 0

(***************************************************************************)
(* Calls                                                                   *)
(***************************************************************************)
Proceed(rest) == todo' = rest /\ pc' = IF rest = << >> THEN "idle" ELSE "next"

Begin(o, who, targets) ==
    /\ pc = "idle" /\ commands < MaxCommands
    /\ commands' = commands + 1
    /\ op' = o /\ caller' = who /\ Proceed(targets)
    /\ reported' = {} /\ stuck' = {}
    /\ UNCHANGED machine

Shown == {c \in Components : status[c] \in Usable}

Call(o, who, targets) ==
    Begin(o, who, targets) /\ before' = Shown /\ UNCHANGED <<status, instances>>
CallOne(o, c) == Call(o, "one", <<c>>)
CallRefreshAll == Call("refresh", "all", Ascending)
CallInstallAll == Call("install", "all", Ascending)
CallUninstallAll == Call("uninstall", "all", Reverse(Ascending))

\* A command starts from create_manager(), which has loaded and detected nothing.
Command(o, targets) ==
    Begin(o, "cli", targets) /\ before' = {} /\ status' = Unknown /\ instances' = {}
StatusCommand == Command("refresh", Ascending)

(***************************************************************************)
(* The end of one component's turn.  install_all turns its first failure   *)
(* into a rollback, whose results it ignores; an exception ends the call.  *)
(***************************************************************************)
\* Mutation of Advance: the loop does not move on.
AdvanceStays == Proceed(todo) /\ UNCHANGED <<op, caller>>
Advance == Proceed(Tail(todo)) /\ UNCHANGED <<op, caller>>

Succeed(c) ==
    /\ Advance
    /\ reported' = IF caller = "rollback" THEN reported ELSE reported \cup {c}
    /\ UNCHANGED <<stuck, before, commands>>

\* Mutation of RollBack: dependencies are removed before what needs them.
RollBackForward ==
    caller' = "rollback" /\ op' = "uninstall" /\ Proceed(SetToSortSeq(reported, <))
RollBack == caller' = "rollback" /\ op' = "uninstall" /\ Proceed(Descending(reported))

Fail ==
    /\ IF op = "install" /\ caller = "all" THEN RollBack ELSE Advance
    /\ UNCHANGED <<reported, stuck, before, commands>>

\* The end of a removal.  The rollback asks for each one once, and goes on to the
\* next whatever the adapter answers and whatever is still on the machine.
EndRemoval(c, success) ==
    /\ Advance
    /\ reported' = IF success /\ caller # "rollback" THEN reported \cup {c} ELSE reported
    /\ stuck' = IF caller = "rollback" /\ Installed(disk'[c]) THEN stuck \cup {c} ELSE stuck
    /\ UNCHANGED <<before, commands>>

Abort == Proceed(<< >>) /\ UNCHANGED <<op, caller, reported, stuck, before, commands>>

GoTo(where) ==
    pc' = where /\ UNCHANGED <<op, caller, todo, reported, stuck, before, commands>>

SetStatus(c, s) == status' = [status EXCEPT ![c] = s]
\* The manager has just seen what is on the machine.
Observe(c) == disturbed' = disturbed \ {c} /\ UNCHANGED <<disk, changes>>
\* A subprocess of the manager leaves something behind.
Leave(c, contents) ==
    /\ \E d \in contents \cap Found : disk' = [disk EXCEPT ![c] = d]
    /\ UNCHANGED <<disturbed, changes>>

\* _get_component() keeps what it has loaded; only what it has not can fail to load.
Load(c) == instances' = instances \cup {c}
MayFail(c) == c \in MayNotLoad \ instances

At(o, where, c) == op = o /\ pc = where /\ c = Head(todo)
Ready(o, c) == At(o, "next", c)

(***************************************************************************)
(* install                                                                 *)
(***************************************************************************)
DependenciesMet(c) == \A d \in Deps[c] : status[d] \in Usable

SkipInstall(c) ==
    /\ Ready("install", c) /\ status[c] \in Usable
    /\ Succeed(c) /\ UNCHANGED <<machine, status, instances>>

BlockInstall(c) ==
    /\ Ready("install", c) /\ status[c] \notin Usable /\ ~DependenciesMet(c)
    /\ Fail /\ UNCHANGED <<machine, status, instances>>

\* The component is loaded outside the try: an import error escapes install().
BeginInstall(c) ==
    /\ Ready("install", c) /\ status[c] \notin Usable /\ DependenciesMet(c)
    /\ SetStatus(c, "INSTALLING")
    /\ (MayFail(c) /\ Abort /\ UNCHANGED instances) \/ (GoTo("command") /\ Load(c))
    /\ UNCHANGED machine

InstallFails(c) ==
    /\ At("install", "command", c)
    /\ Leave(c, AfterInstall(disk[c])) /\ SetStatus(c, "ERROR") /\ Fail /\ UNCHANGED instances

InstallRuns(c) ==
    /\ At("install", "command", c)
    /\ Leave(c, AfterInstall(disk[c])) /\ GoTo("confirm") /\ UNCHANGED <<status, instances>>

\* Mutation of ConfirmInstall: the exit code of the command is trusted.
ConfirmInstallUnseen(c) ==
    /\ At("install", "confirm", c)
    /\ SetStatus(c, "INSTALLED") /\ Observe(c) /\ Succeed(c) /\ UNCHANGED instances

\* install() succeeds only when the adapter finds the component afterwards.
ConfirmInstall(c) ==
    /\ At("install", "confirm", c)
    /\ disk[c] \in AdapterOf[c].confirms
    /\ SetStatus(c, "INSTALLED") /\ Observe(c) /\ Succeed(c) /\ UNCHANGED instances

\* It does not find it, or looking for it raises.
DenyInstall(c) ==
    /\ At("install", "confirm", c)
    /\ SetStatus(c, "ERROR") /\ Fail /\ UNCHANGED <<machine, instances>>

(***************************************************************************)
(* uninstall                                                               *)
(***************************************************************************)
\* Mutation of RequiredBy: the search for dependents starts one too late.
RequiredByLater(c) == {d \in Components : d > c + 1 /\ status[d] \in Usable /\ c \in Deps[d]}
RequiredBy(c) == {d \in Components \ {c} : status[d] \in Usable /\ c \in Deps[d]}

SkipUninstall(c) ==
    /\ Ready("uninstall", c) /\ status[c] \in {"UNKNOWN", "NOT_INSTALLED"}
    /\ Succeed(c) /\ UNCHANGED <<machine, status, instances>>

BlockUninstall(c) ==
    /\ Ready("uninstall", c) /\ status[c] \notin {"UNKNOWN", "NOT_INSTALLED"}
    /\ RequiredBy(c) # {}
    /\ Fail /\ UNCHANGED <<machine, status, instances>>

Removable(c) ==
    /\ Ready("uninstall", c) /\ status[c] \notin {"UNKNOWN", "NOT_INSTALLED"}
    /\ RequiredBy(c) = {}

CannotLoadToUninstall(c) ==
    /\ Removable(c) /\ MayFail(c)
    /\ Abort /\ UNCHANGED <<machine, status, instances>>

\* The adapter looks first; what it does not find needs no command, and what no
\* package manager owns it leaves alone.  The manager takes any answer for a removal.
UninstallNothing(c) ==
    /\ Removable(c)
    /\ SetStatus(c, "NOT_INSTALLED") /\ Load(c) /\ UNCHANGED machine
    /\ \/ ~Installed(disk[c]) /\ EndRemoval(c, AdapterOf[c].absentIsRemoved)
       \/ Installed(disk[c]) /\ AdapterOf[c].mayBeUnmanaged /\ EndRemoval(c, FALSE)

BeginUninstall(c) ==
    /\ Removable(c) /\ Installed(disk[c])
    /\ GoTo("remove") /\ Load(c) /\ UNCHANGED <<machine, status>>

UninstallRaises(c) ==
    /\ Removable(c) \/ At("uninstall", "remove", c)
    /\ Load(c) /\ UNCHANGED <<machine, status>> /\ EndRemoval(c, FALSE)

UninstallRuns(c) ==
    /\ At("uninstall", "remove", c)
    /\ Leave(c, AfterRemoval(disk[c])) /\ SetStatus(c, "NOT_INSTALLED") /\ UNCHANGED instances
    /\ EndRemoval(c, TRUE)

UninstallFails(c) ==
    /\ At("uninstall", "remove", c)
    /\ Leave(c, AfterRemoval(disk[c])) /\ SetStatus(c, "NOT_INSTALLED") /\ UNCHANGED instances
    /\ EndRemoval(c, FALSE)

(***************************************************************************)
(* verify and refresh                                                      *)
(***************************************************************************)
\* Neither the loading nor the two detections of verify() are in a try.
VerifyRaises(c) ==
    /\ Ready("verify", c) \/ At("verify", "doctor", c)
    /\ (MayFail(c) /\ UNCHANGED instances) \/ Load(c)
    /\ Abort /\ UNCHANGED <<machine, status>>

VerifyDetects(c) ==
    /\ Ready("verify", c)
    /\ SetStatus(c, Derived(disk[c])) /\ Observe(c) /\ Load(c)
    /\ IF Derived(disk[c]) = "NOT_INSTALLED" THEN Fail ELSE GoTo("doctor")

VerifySucceeds(c) ==
    /\ At("verify", "doctor", c) /\ Installed(disk[c])
    /\ Succeed(c) /\ UNCHANGED <<machine, status, instances>>

VerifyFails(c) ==
    /\ At("verify", "doctor", c)
    /\ SetStatus(c, "BROKEN") /\ Fail /\ UNCHANGED <<machine, instances>>

RefreshRaises(c) ==
    /\ Ready("refresh", c)
    /\ (MayFail(c) /\ UNCHANGED instances) \/ Load(c)
    /\ SetStatus(c, "ERROR") /\ Succeed(c) /\ UNCHANGED machine

\* A component in ERROR keeps its status whatever the detection shows.
RefreshDetects(c) ==
    /\ Ready("refresh", c)
    /\ IF status[c] = "ERROR" THEN UNCHANGED status ELSE SetStatus(c, Derived(disk[c]))
    /\ Observe(c) /\ Load(c) /\ Succeed(c)

(***************************************************************************)
(* Somebody else installs, removes or damages a component.                 *)
(***************************************************************************)
World(c) ==
    /\ changes < MaxChanges /\ changes' = changes + 1
    /\ \E d \in Found \ {disk[c]} : disk' = [disk EXCEPT ![c] = d]
    /\ disturbed' = disturbed \cup {c}
    /\ UNCHANGED <<status, instances, op, caller, todo, pc, reported, stuck,
                   before, commands>>

Step(c) ==
    \/ SkipInstall(c) \/ BlockInstall(c) \/ BeginInstall(c) \/ InstallFails(c)
    \/ InstallRuns(c) \/ ConfirmInstall(c) \/ DenyInstall(c)
    \/ SkipUninstall(c) \/ BlockUninstall(c) \/ CannotLoadToUninstall(c)
    \/ UninstallNothing(c) \/ BeginUninstall(c) \/ UninstallRaises(c)
    \/ UninstallRuns(c) \/ UninstallFails(c)
    \/ VerifyRaises(c) \/ VerifyDetects(c) \/ VerifySucceeds(c) \/ VerifyFails(c)
    \/ RefreshRaises(c) \/ RefreshDetects(c)

Calls ==
    \/ \E o \in Operations, c \in Components : CallOne(o, c)
    \/ CallRefreshAll \/ CallInstallAll \/ CallUninstallAll \/ StatusCommand
    \/ \E o \in Operations \ {"refresh"}, targets \in TargetLists : Command(o, targets)

Next == Calls \/ \E c \in Components : Step(c) \/ World(c)

Spec == Init /\ [][Next]_vars
\* Subprocesses end: no caller of RealRunner.run passes a timeout.
FairSpec == Spec /\ WF_vars(\E c \in Components : Step(c))

(***************************************************************************)
(* Properties                                                              *)
(***************************************************************************)
\* What the manager shows as INSTALLED is on the machine, unless others have
\* touched it since the manager looked (manager.py:201, 125).
InstalledIsPresent ==
    \A c \in Components : status[c] = "INSTALLED" /\ c \notin disturbed => Installed(disk[c])

\* A component the rollback has passed over: something usable needs it, or something
\* did that is registered before it and came later in the rollback.
PassedOver(c) == RequiredBy(c) # {} \/ \E d \in reported : d < c /\ c \in Deps[d]

\* After the rollback of install_all, what it had reported as installed is still on the
\* machine only where its removal was tried in vain or had to be passed over
\* (manager.py:383).
RollbackIsComplete ==
    (caller = "rollback" /\ pc = "idle") =>
        \A c \in reported \ disturbed : Installed(disk[c]) => c \in stuck \/ PassedOver(c)

Broken(c) == status[c] \in Usable /\ ~DependenciesMet(c)

\* No operation takes away what a usable component depends on: only a look at the
\* machine can show that a dependency is gone (manager.py:242).
OnlyObservationBreaksDependencies ==
    [][\A c \in Components : ~Broken(c) /\ Broken(c)' => op \in {"verify", "refresh"}]_vars

\* Every call of the manager returns, with its rollback (manager.py:375).
CallsReturn == pc # "idle" ~> pc = "idle"

(***************************************************************************)
(* What documents say and the code does not keep (README, section 6): TLC  *)
(* shows how when one of these takes the place of the properties above.    *)
(***************************************************************************)
\* cli/stack.py:156: the uninstall command removes the components it reports on.
UninstallCommandRemoves ==
    (caller = "cli" /\ op = "uninstall" /\ pc = "idle") =>
        \A c \in reported \ disturbed : ~Installed(disk[c])

\* docs/core-stack.md:60: NOT_INSTALLED means "Not found on the system".  (A binary without
\* a version is not found either, line 121.)
NotInstalledIsNotFound ==
    \A c \in Components \ disturbed :
        status[c] = "NOT_INSTALLED" => Derived(disk[c]) = "NOT_INSTALLED"

\* openspec/specs/core-stack/spec.md:83, of a rollback: "no partial success remains".
NoPartialSuccess ==
    (caller = "rollback" /\ pc = "idle") =>
        \A c \in reported \ (before \cup disturbed) : ~Installed(disk[c])

\* openspec/changes/core-stack-installation/proposal.md:68: the rollback undoes "a stack of
\* completed installs"; what the call had skipped as already installed is none of them.
RollbackUndoesItsInstalls ==
    caller = "rollback" => \A c \in (reported \cap before) \ disturbed : Installed(disk[c])
====
