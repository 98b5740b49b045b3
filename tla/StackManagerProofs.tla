---- MODULE StackManagerProofs ----
(***************************************************************************)
(* That StackManager keeps its promises for every number of components,    *)
(* every wiring of their dependencies, every adapter and every             *)
(* number of calls, and not only on the three components TLC explores.     *)
(***************************************************************************)
EXTENDS StackManager, SequenceTheorems, FiniteSetTheorems, TLAPS

(***************************************************************************)
(* The inductive invariant                                                 *)
(***************************************************************************)
Turn == Head(todo)

\* In the middle of a turn, what the manager checked at its beginning still holds.
TurnInv ==
    /\ pc \in {"command", "confirm"} =>
           op = "install" /\ status[Turn] = "INSTALLING" /\ DependenciesMet(Turn)
    /\ pc = "remove" => op = "uninstall" /\ RequiredBy(Turn) = {}
    /\ pc = "doctor" => op = "verify"
    /\ pc \in {"command", "confirm", "remove", "doctor"} => Turn \in instances

\* A component is usable only after it was loaded, and what install_all has reported
\* is usable as long as the call goes on.
LoadInv ==
    /\ \A c \in Components : status[c] \in Usable => c \in instances
    /\ op = "install" /\ caller = "all" => \A c \in reported : status[c] \in Usable

\* c needs no more attention from the rollback.
Settled(c) == c \notin disturbed /\ Installed(disk[c]) => c \in stuck \/ PassedOver(c)

\* A rollback walks down: what it has left behind is above all it has yet to handle,
\* and what it has yet to handle is as usable as install_all has left it.
RollbackInv ==
    caller = "rollback" =>
        /\ op = "uninstall"
        /\ \A i \in 1..Len(todo) : todo[i] \in reported /\ status[todo[i]] \in Usable
        /\ \A i, j \in 1..Len(todo) : i < j => todo[i] > todo[j]
        /\ \A c \in reported :
              \/ \E i \in 1..Len(todo) : todo[i] = c
              \/ Settled(c) /\ \A i \in 1..Len(todo) : todo[i] < c

IInv == TypeOK /\ TurnInv /\ LoadInv /\ InstalledIsPresent /\ RollbackInv

------------------------------------------------------------------------------
(* Lists of components                                                     *)

\* The end of a turn leaves the list without its first component.
LEMMA Turns ==
  ASSUME NEW s \in Seq(Components), s # << >>
  PROVE  /\ Len(s) \in Nat \ {0} /\ Head(s) = s[1] /\ Head(s) \in Components
         /\ Tail(s) \in Seq(Components) /\ Len(Tail(s)) = Len(s) - 1
         /\ \A i \in 1..Len(Tail(s)) : Tail(s)[i] = s[i + 1]
         /\ \A i \in 1..Len(s) : s[i] \in Components
<1>1. Len(s) \in Nat \ {0}
  BY EmptySeq
<1> QED
  BY <1>1, HeadTailProperties, ElementOfSeq

Downward(s, S) ==
    Range(s) = S /\ \A i, j \in DOMAIN s : i < j => s[i] > s[j]

\* Every set of numbers has a list that walks it down.
LEMMA DownwardExists ==
  ASSUME NEW n \in Nat, NEW S, S \subseteq 1..n
  PROVE  \E s \in [1..Cardinality(S) -> S] : Downward(s, S)
<1> DEFINE P(k) == \A T : T \subseteq 1..k => \E s \in [1..Cardinality(T) -> T] : Downward(s, T)
           Bad == {k \in Nat : ~P(k)}
<1>1. SUFFICES Bad = {}
  <2>1. P(n)
    BY <1>1
  <2> QED
    BY <2>1
<1>2. SUFFICES ASSUME Bad # {} PROVE FALSE
  OBVIOUS
<1>3. PICK k \in Bad : \A e \in Bad : <<e, k>> \notin OpToRel(<, Nat)
  <2>1. Bad \subseteq Nat
    OBVIOUS
  <2> HIDE DEF Bad
  <2> QED
    BY <1>2, <2>1, WFMin, NatLessThanWellFounded
<1>4. PICK T : T \subseteq 1..k /\ ~ \E s \in [1..Cardinality(T) -> T] : Downward(s, T)
  BY <1>3
<1>5. k \in Nat
  BY <1>3
<1>6. CASE k \notin T
  <2>1. k # 0
    <3>1. ASSUME k = 0 PROVE FALSE
      <4>1. T = {} /\ Cardinality(T) = 0
        <5>1. T = {}
          BY <1>4, <3>1
        <5> QED
          BY <5>1, FS_EmptySet
      <4>2. [i \in {} |-> i] \in [1..Cardinality(T) -> T]
        BY <4>1
      <4>3. Downward([i \in {} |-> i], T)
        BY <4>1 DEF Downward, Range
      <4> QED
        BY <1>4, <4>2, <4>3
    <3> QED
      BY <3>1
  <2>2. k - 1 \in Nat /\ T \subseteq 1..(k - 1)
    BY <1>4, <1>5, <1>6, <2>1
  <2>3. <<k - 1, k>> \in OpToRel(<, Nat)
    BY <1>5, <2>2 DEF OpToRel
  <2>4. k - 1 \notin Bad
    BY <1>3, <2>3
  <2>5. P(k - 1)
    BY <2>2, <2>4
  <2> QED
    BY <1>4, <2>2, <2>5
<1>7. CASE k \in T
  <2>1. k - 1 \in Nat /\ T \ {k} \subseteq 1..(k - 1)
    BY <1>4, <1>5, <1>7
  <2>2. <<k - 1, k>> \in OpToRel(<, Nat)
    BY <1>5, <2>1 DEF OpToRel
  <2>3. k - 1 \notin Bad
    BY <1>3, <2>2
  <2>4. P(k - 1)
    BY <2>1, <2>3
  <2> DEFINE R == T \ {k}
             c == Cardinality(R)
  <2>5. PICK r \in [1..c -> R] : Downward(r, R)
    BY <2>1, <2>4
  <2>6. IsFiniteSet(T) /\ c \in Nat /\ Cardinality(T) = c + 1
    <3>1. IsFiniteSet(T)
      <4>1. IsFiniteSet(1..k)
        BY <1>5, FS_Interval
      <4> QED
        BY <1>4, <4>1, FS_Subset
    <3>2. IsFiniteSet(R) /\ T = R \cup {k} /\ k \notin R
      BY <1>7, <3>1, FS_Subset
    <3>3. c \in Nat /\ Cardinality(R \cup {k}) = c + 1
      BY <3>2, FS_CardinalityType, FS_AddElement
    <3> QED
      BY <3>1, <3>2, <3>3
  <2> HIDE DEF c, R
  <2> DEFINE s == [i \in 1..(c + 1) |-> IF i = 1 THEN k ELSE r[i - 1]]
  <2>7. s \in [1..Cardinality(T) -> T]
    <3>1. ASSUME NEW i \in 1..(c + 1) PROVE s[i] \in T
      <4>1. CASE i = 1
        BY <1>7, <4>1
      <4>2. CASE i # 1
        <5>1. i - 1 \in 1..c
          BY <2>6, <4>2
        <5> QED
          BY <2>5, <4>2, <5>1 DEF R
      <4> QED
        BY <4>1, <4>2
    <3> QED
      BY <2>6, <3>1
  <2>8. Range(s) = T
    <3>1. ASSUME NEW x \in T PROVE x \in Range(s)
      <4>1. CASE x = k
        <5>1. 1 \in 1..(c + 1) /\ s[1] = x
          BY <2>6, <4>1
        <5> QED
          BY <5>1 DEF Range
      <4>2. CASE x # k
        <5>1. PICK j \in 1..c : r[j] = x
          BY <2>5, <4>2 DEF Downward, Range, R
        <5>2. j + 1 \in 1..(c + 1) /\ j + 1 # 1 /\ (j + 1) - 1 = j
          BY <2>6
        <5>3. s[j + 1] = x
          BY <5>1, <5>2
        <5> QED
          BY <5>2, <5>3 DEF Range
      <4> QED
        BY <4>1, <4>2
    <3>2. Range(s) \subseteq T
      BY <2>6, <2>7 DEF Range
    <3> QED
      BY <3>1, <3>2
  <2>9. ASSUME NEW i \in 1..(c + 1), NEW j \in 1..(c + 1), i < j PROVE s[i] > s[j]
    <3>1. j # 1 /\ j - 1 \in 1..c /\ s[j] = r[j - 1] /\ r[j - 1] \in 1..(k - 1)
      BY <2>1, <2>5, <2>6, <2>9 DEF R
    <3>2. CASE i = 1
      BY <1>5, <3>1, <3>2
    <3>3. CASE i # 1
      <4>1. i - 1 \in 1..c /\ i - 1 < j - 1 /\ s[i] = r[i - 1]
        BY <2>6, <2>9, <3>3
      <4> QED
        BY <2>5, <3>1, <4>1 DEF Downward
    <3> QED
      BY <3>2, <3>3
  <2>10. DOMAIN s = 1..(c + 1)
    OBVIOUS
  <2> HIDE DEF s
  <2>11. Downward(s, T)
    BY <2>8, <2>9, <2>10 DEF Downward
  <2> QED
    BY <1>4, <2>7, <2>11
<1> QED
  BY <1>6, <1>7

\* The list of a rollback: the components of S, the last registered first.
LEMMA DescendingList ==
  ASSUME NEW S, S \subseteq Components
  PROVE  /\ Descending(S) \in Seq(Components) /\ Len(Descending(S)) <= N
         /\ \A i \in 1..Len(Descending(S)) : Descending(S)[i] \in S
         /\ \A c \in S : \E i \in 1..Len(Descending(S)) : Descending(S)[i] = c
         /\ \A i, j \in 1..Len(Descending(S)) : i < j => Descending(S)[i] > Descending(S)[j]
<1> DEFINE d == Descending(S)
           k == Cardinality(S)
<1>1. N \in Nat /\ Components = 1..N
  BY ComponentsAssumption DEF Components
<1>2. d \in [1..k -> S] /\ Range(d) = S
      /\ \A i, j \in DOMAIN d : i < j => d[i] > d[j]
  BY <1>1, DownwardExists DEF Descending, Downward
<1>3. k \in Nat /\ k <= N
  <2>1. IsFiniteSet(1..N) /\ Cardinality(1..N) = N
    BY <1>1, FS_Interval
  <2>2. IsFiniteSet(S) /\ k <= N
    BY <1>1, <2>1, FS_Subset
  <2> QED
    BY <2>2, FS_CardinalityType
<1> HIDE DEF d, k
<1>4. d \in Seq(Components) /\ Len(d) = k
  BY <1>2, <1>3
<1>5. \A c \in S : \E i \in 1..k : d[i] = c
  BY <1>2 DEF Range
<1>6. d \in Seq(Components) /\ Len(d) <= N /\ (\A i \in 1..Len(d) : d[i] \in S)
      /\ (\A c \in S : \E i \in 1..Len(d) : d[i] = c)
      /\ (\A i, j \in 1..Len(d) : i < j => d[i] > d[j])
  BY <1>2, <1>3, <1>4, <1>5
<1> QED
  BY <1>6 DEF d

\* The lists the callers hand over.
LEMMA TargetsAreLists ==
  /\ Ascending \in Seq(Components) /\ Len(Ascending) <= N
  /\ Reverse(Ascending) \in Seq(Components) /\ Len(Reverse(Ascending)) <= N
  /\ \A s \in TargetLists : s \in Seq(Components) /\ Len(s) <= N
  /\ \A c \in Components : <<c>> \in Seq(Components) /\ Len(<<c>>) <= N
<1>1. N \in Nat /\ Components = 1..N
  BY ComponentsAssumption DEF Components
<1>2. Ascending \in Seq(Components) /\ Len(Ascending) = N
  BY <1>1 DEF Ascending
<1>3. Reverse(Ascending) \in Seq(Components) /\ Len(Reverse(Ascending)) = N
  <2>1. \A i \in 1..N : (N - i) + 1 \in 1..N
    BY <1>1
  <2>2. \A i \in 1..N : Ascending[(N - i) + 1] \in Components
    BY <1>1, <2>1 DEF Ascending
  <2> QED
    BY <1>1, <1>2, <2>2 DEF Reverse
<1>4. ASSUME NEW s \in TargetLists PROVE s \in Seq(Components) /\ Len(s) <= N
  <2>1. PICK k \in 1..N : s \in [1..k -> Components]
    BY <1>1 DEF TargetLists
  <2>2. k \in Nat /\ s \in Seq(Components) /\ Len(s) = k
    BY <1>1, <2>1
  <2> QED
    BY <1>1, <2>1, <2>2
<1>5. ASSUME NEW c \in Components PROVE <<c>> \in Seq(Components) /\ Len(<<c>>) <= N
  BY <1>1
<1> QED
  BY <1>1, <1>2, <1>3, <1>4, <1>5

------------------------------------------------------------------------------
(* Type correctness                                                        *)

\* What a detection makes of a component.
LEMMA DerivedStatus ==
  ASSUME NEW found \in Contents
  PROVE  /\ Derived(found) \in Statuses
         /\ Derived(found) \in Usable => Derived(found) = "INSTALLED" /\ Installed(found)
         /\ Derived(found) # "INSTALLING"
  BY DEF Contents, Detected, Parsed, Absent, Derived, Statuses, Usable, Installed

ControlOK ==
    /\ op \in Operations \cup {"none"} /\ caller \in {"one", "all", "cli", "rollback"}
    /\ todo \in Seq(Components) /\ Len(todo) <= N
    /\ pc \in {"idle", "next", "command", "confirm", "remove", "doctor"}
    /\ (pc = "idle") = (todo = << >>)
    /\ reported \subseteq Components /\ stuck \subseteq Components /\ before \subseteq Components
    /\ commands \in 0..MaxCommands

LEMMA BeginType ==
  ASSUME TypeOK, NEW o \in Operations, NEW who \in {"one", "all", "cli"},
         NEW s \in Seq(Components), Len(s) <= N, Begin(o, who, s), before' \subseteq Components
  PROVE  ControlOK' /\ pc' \in {"idle", "next"} /\ caller' # "rollback" /\ reported' = {}
  BY ComponentsAssumption DEF TypeOK, Begin, Proceed, ControlOK

\* Every ending of a turn, and every move within one.
LEMMA ControlType ==
  ASSUME TypeOK, pc # "idle", NEW c \in Components
  PROVE  /\ Succeed(c) => ControlOK' /\ pc' \in {"idle", "next"}
         /\ Fail => ControlOK' /\ pc' \in {"idle", "next"}
         /\ \A b \in BOOLEAN : EndRemoval(c, b) => ControlOK' /\ pc' \in {"idle", "next"}
         /\ Abort => ControlOK' /\ pc' \in {"idle", "next"}
         /\ \A w \in {"command", "confirm", "remove", "doctor"} : GoTo(w) => ControlOK'
<1>1. todo \in Seq(Components) /\ todo # << >> /\ Len(todo) <= N
  BY DEF TypeOK
<1>2. Tail(todo) \in Seq(Components) /\ Len(Tail(todo)) <= N
  BY <1>1, Turns, ComponentsAssumption
<1>3. Advance => /\ todo' \in Seq(Components) /\ Len(todo') <= N
                 /\ pc' \in {"idle", "next"} /\ (pc' = "idle") = (todo' = << >>)
                 /\ op' = op /\ caller' = caller
  BY <1>2 DEF Advance, Proceed
<1>4. RollBack => /\ todo' \in Seq(Components) /\ Len(todo') <= N
                  /\ pc' \in {"idle", "next"} /\ (pc' = "idle") = (todo' = << >>)
                  /\ op' \in Operations /\ caller' = "rollback"
  <2>1. Descending(reported) \in Seq(Components) /\ Len(Descending(reported)) <= N
    BY DescendingList DEF TypeOK
  <2> QED
    BY <2>1 DEF RollBack, Proceed, Operations
<1>5. Succeed(c) => ControlOK' /\ pc' \in {"idle", "next"}
  BY <1>3 DEF TypeOK, Succeed, ControlOK
<1>6. Fail => ControlOK' /\ pc' \in {"idle", "next"}
  BY <1>3, <1>4 DEF TypeOK, Fail, ControlOK
<1>7. ASSUME NEW b \in BOOLEAN, EndRemoval(c, b)
      PROVE  ControlOK' /\ pc' \in {"idle", "next"}
  BY <1>3, <1>7 DEF TypeOK, EndRemoval, ControlOK
<1>8. Abort => ControlOK' /\ pc' \in {"idle", "next"}
  BY ComponentsAssumption DEF TypeOK, Abort, Proceed, ControlOK
<1>9. ASSUME NEW w \in {"command", "confirm", "remove", "doctor"}, GoTo(w)
      PROVE  ControlOK'
  BY <1>1, <1>9 DEF TypeOK, GoTo, ControlOK
<1> QED
  BY <1>5, <1>6, <1>7, <1>8, <1>9

\* A turn is one of the component at the head of the list.
LEMMA StepIsATurn ==
  ASSUME TypeOK, NEW c \in Components, Step(c)
  PROVE  pc # "idle" /\ c = Turn
  BY DEF Step, SkipInstall, BlockInstall, BeginInstall, InstallFails, InstallRuns, ConfirmInstall,
         DenyInstall, SkipUninstall, BlockUninstall, CannotLoadToUninstall, UninstallNothing,
         BeginUninstall, UninstallRaises, UninstallRuns, UninstallFails, VerifyRaises,
         VerifyDetects, VerifySucceeds, VerifyFails, RefreshRaises, RefreshDetects,
         Removable, Ready, At, Turn

\* What a turn does to everything but the control: it sets the status of its
\* component, may load it, and may change and observe what is on the machine of it.
TurnEffect(c) ==
    /\ \A d \in Components \ {c} : status'[d] = status[d] /\ disk'[d] = disk[d]
                                   /\ (d \in disturbed' <=> d \in disturbed)
    /\ instances' \in {instances, instances \cup {c}} /\ changes' = changes

LEMMA StepType ==
  ASSUME TypeOK, NEW c \in Components, Step(c)
  PROVE  TypeOK' /\ TurnEffect(c)
<1> DEFINE Data == /\ disk \in [Components -> Found] /\ status \in [Components -> Statuses]
                   /\ instances \subseteq Components /\ disturbed \subseteq Components
                   /\ changes \in 0..MaxChanges
<1>1. pc # "idle"
  BY StepIsATurn
<1>2. Data /\ c \in Components /\ disk[c] \in Contents /\ Derived(disk[c]) \in Statuses
  BY DerivedStatus, ComponentsAssumption DEF TypeOK
<1>3. \A s \in Statuses : SetStatus(c, s) => /\ status' \in [Components -> Statuses]
                                             /\ \A d \in Components \ {c} : status'[d] = status[d]
  BY <1>2 DEF SetStatus
<1>4. \A X : Leave(c, X) => /\ disk' \in [Components -> Found] /\ disturbed' = disturbed
                            /\ \A d \in Components \ {c} : disk'[d] = disk[d]
                            /\ changes' = changes
  BY <1>2 DEF Leave
<1>5. {"INSTALLING", "ERROR", "INSTALLED", "NOT_INSTALLED", "BROKEN", Derived(disk[c])} \subseteq Statuses
  BY <1>2 DEF Statuses
<1>answer. AdapterOf[c].absentIsRemoved \in BOOLEAN
  BY ComponentsAssumption DEF Adapter
<1>6. SUFFICES Data' /\ TurnEffect(c) /\ ControlOK'
  BY DEF TypeOK, ControlOK
<1> USE DEF machine
<1>7. CASE SkipInstall(c)
  BY <1>1, <1>2, <1>7, ControlType DEF SkipInstall, TurnEffect
<1>8. CASE BlockInstall(c)
  BY <1>1, <1>2, <1>8, ControlType DEF BlockInstall, TurnEffect
<1>9. CASE BeginInstall(c)
  BY <1>1, <1>2, <1>3, <1>5, <1>9, ControlType DEF BeginInstall, Load, TurnEffect
<1>10. CASE InstallFails(c)
  BY <1>1, <1>2, <1>3, <1>4, <1>5, <1>10, ControlType DEF InstallFails, TurnEffect
<1>11. CASE InstallRuns(c)
  BY <1>1, <1>2, <1>4, <1>11, ControlType DEF InstallRuns, TurnEffect
<1>12. CASE ConfirmInstall(c)
  BY <1>1, <1>2, <1>3, <1>5, <1>12, ControlType DEF ConfirmInstall, Observe, TurnEffect
<1>13. CASE DenyInstall(c)
  BY <1>1, <1>2, <1>3, <1>5, <1>13, ControlType DEF DenyInstall, TurnEffect
<1>14. CASE SkipUninstall(c)
  BY <1>1, <1>2, <1>14, ControlType DEF SkipUninstall, TurnEffect
<1>15. CASE BlockUninstall(c)
  BY <1>1, <1>2, <1>15, ControlType DEF BlockUninstall, TurnEffect
<1>16. CASE CannotLoadToUninstall(c)
  BY <1>1, <1>2, <1>16, ControlType DEF CannotLoadToUninstall, TurnEffect
<1>17. CASE UninstallNothing(c)
  BY <1>1, <1>2, <1>3, <1>5, <1>answer, <1>17, ControlType DEF UninstallNothing, Load, TurnEffect
<1>18. CASE BeginUninstall(c)
  BY <1>1, <1>2, <1>18, ControlType DEF BeginUninstall, Load, TurnEffect
<1>19. CASE UninstallRaises(c)
  BY <1>1, <1>2, <1>19, ControlType DEF UninstallRaises, Load, TurnEffect
<1>20. CASE UninstallRuns(c)
  BY <1>1, <1>2, <1>3, <1>4, <1>5, <1>20, ControlType DEF UninstallRuns, TurnEffect
<1>21. CASE UninstallFails(c)
  BY <1>1, <1>2, <1>3, <1>4, <1>5, <1>21, ControlType DEF UninstallFails, TurnEffect
<1>22. CASE VerifyRaises(c)
  BY <1>1, <1>2, <1>22, ControlType DEF VerifyRaises, Load, TurnEffect
<1>23. CASE VerifyDetects(c)
  BY <1>1, <1>2, <1>3, <1>5, <1>23, ControlType DEF VerifyDetects, Observe, Load, TurnEffect
<1>24. CASE VerifySucceeds(c)
  BY <1>1, <1>2, <1>24, ControlType DEF VerifySucceeds, TurnEffect
<1>25. CASE VerifyFails(c)
  BY <1>1, <1>2, <1>3, <1>5, <1>25, ControlType DEF VerifyFails, TurnEffect
<1>26. CASE RefreshRaises(c)
  BY <1>1, <1>2, <1>3, <1>5, <1>26, ControlType DEF RefreshRaises, Load, TurnEffect
<1>27. CASE RefreshDetects(c)
  BY <1>1, <1>2, <1>3, <1>5, <1>27, ControlType DEF RefreshDetects, Observe, Load, TurnEffect
<1> QED
  BY <1>7, <1>8, <1>9, <1>10, <1>11, <1>12, <1>13, <1>14, <1>15, <1>16, <1>17, <1>18, <1>19,
     <1>20, <1>21, <1>22, <1>23, <1>24, <1>25, <1>26, <1>27 DEF Step

\* A call starts a list of turns, and changes nothing but what the manager forgets.
LEMMA CallsStart ==
  ASSUME TypeOK, Calls
  PROVE  /\ TypeOK' /\ pc = "idle" /\ pc' \in {"idle", "next"} /\ caller' # "rollback"
         /\ reported' = {} /\ UNCHANGED machine
         /\ UNCHANGED <<status, instances>> \/ (status' = Unknown /\ instances' = {})
<1>1. \A o \in Operations, who \in {"one", "all", "cli"}, s \in Seq(Components) :
          Len(s) <= N /\ Begin(o, who, s) /\ before' \subseteq Components =>
              ControlOK' /\ pc' \in {"idle", "next"} /\ caller' # "rollback" /\ reported' = {}
  BY BeginType
<1>2. Unknown \in [Components -> Statuses]
  BY DEF Unknown, Statuses
<1>3. PICK o \in Operations, who \in {"one", "all", "cli"}, s \in Seq(Components) :
          /\ Len(s) <= N /\ Begin(o, who, s) /\ before' \subseteq Components
          /\ UNCHANGED <<status, instances>> \/ (status' = Unknown /\ instances' = {})
  <2>1. CASE \E o \in Operations, c \in Components : CallOne(o, c)
    BY <2>1, TargetsAreLists DEF CallOne, Call, Shown
  <2>2. CASE CallRefreshAll \/ CallInstallAll \/ CallUninstallAll
    BY <2>2, TargetsAreLists
       DEF CallRefreshAll, CallInstallAll, CallUninstallAll, Call, Shown, Operations
  <2>3. CASE StatusCommand
    BY <2>3, TargetsAreLists DEF StatusCommand, Command, Operations
  <2>4. CASE \E o \in Operations \ {"refresh"}, targets \in TargetLists : Command(o, targets)
    BY <2>4, TargetsAreLists DEF Command
  <2> QED
    BY <2>1, <2>2, <2>3, <2>4 DEF Calls
<1>4. ControlOK' /\ pc' \in {"idle", "next"} /\ caller' # "rollback" /\ reported' = {}
  BY <1>1, <1>3
<1>5. pc = "idle" /\ UNCHANGED machine
  BY <1>3 DEF Begin
<1>6. TypeOK'
  BY <1>2, <1>3, <1>4, <1>5 DEF TypeOK, ControlOK, machine
<1> QED
  BY <1>3, <1>4, <1>5, <1>6

LEMMA TypeInit ==
  ASSUME Init PROVE TypeOK
<1>1. << >> \in Seq(Components) /\ Len(<< >>) = 0
  BY EmptySeq
<1> QED
  BY <1>1, ComponentsAssumption DEF Init, TypeOK, Unknown, Statuses

LEMMA TypeStep ==
  ASSUME TypeOK, [Next]_vars PROVE TypeOK'
<1>1. ASSUME NEW c \in Components, World(c) PROVE TypeOK'
  <2>1. disk' \in [Components -> Found] /\ changes' \in 0..MaxChanges
    BY <1>1, ComponentsAssumption DEF World, TypeOK
  <2> QED
    BY <1>1, <2>1 DEF World, TypeOK
<1>2. CASE UNCHANGED vars
  BY <1>2 DEF TypeOK, vars
<1> QED
  BY <1>1, <1>2, StepType, CallsStart DEF Next

------------------------------------------------------------------------------
(* What one turn does to the control                                       *)

\* Only install_all rolls back, and only when a turn of it fails.
LEMMA TurnControl ==
  ASSUME TypeOK, NEW c \in Components, Step(c)
  PROVE  /\ op = "install" /\ caller = "all" /\ Fail
         \/ /\ op' = op /\ caller' = caller
            /\ \/ reported' = reported
               \/ /\ caller # "rollback" /\ reported' = reported \cup {c}
                  /\ op = "install" => SkipInstall(c) \/ ConfirmInstall(c)
<1> DEFINE Stays == op' = op /\ caller' = caller /\ reported' = reported
           Counts == /\ op' = op /\ caller' = caller
                     /\ \/ reported' = reported
                        \/ caller # "rollback" /\ reported' = reported \cup {c}
<1>1. Fail => Stays \/ (op = "install" /\ caller = "all")
  BY DEF Fail, Advance
<1>2. (Abort \/ \E w \in {"command", "confirm", "remove", "doctor"} : GoTo(w)) => Stays
  BY DEF Abort, GoTo
<1>3. Succeed(c) => Counts
  <2>1. CASE caller = "rollback"
    BY <2>1 DEF Succeed, Advance
  <2>2. CASE caller # "rollback"
    BY <2>2 DEF Succeed, Advance
  <2> QED
    BY <2>1, <2>2
<1>removal. \A b \in BOOLEAN : EndRemoval(c, b) => Counts
  BY DEF EndRemoval, Advance
<1> HIDE DEF Stays, Counts
<1>4. CASE SkipInstall(c) \/ ConfirmInstall(c)
  BY <1>3, <1>4 DEF SkipInstall, ConfirmInstall, Counts
<1>5. CASE BlockInstall(c) \/ BeginInstall(c) \/ InstallFails(c) \/ InstallRuns(c) \/ DenyInstall(c)
  <2>1. Stays \/ (op = "install" /\ caller = "all" /\ Fail)
    BY <1>1, <1>2, <1>5 DEF BlockInstall, BeginInstall, InstallFails, InstallRuns, DenyInstall
  <2> QED
    BY <2>1 DEF Stays
<1>6. CASE \/ SkipUninstall(c) \/ BlockUninstall(c) \/ CannotLoadToUninstall(c) \/ UninstallNothing(c)
           \/ BeginUninstall(c) \/ UninstallRaises(c) \/ UninstallRuns(c) \/ UninstallFails(c)
  <2>1. op = "uninstall" /\ op # "install"
    BY <1>6 DEF SkipUninstall, BlockUninstall, CannotLoadToUninstall, UninstallNothing, BeginUninstall,
                UninstallRaises, UninstallRuns, UninstallFails, Removable, Ready, At
  <2>2. Stays \/ Counts
    BY <1>1, <1>2, <1>3, <1>removal, <1>6, <2>1, ComponentsAssumption
       DEF Adapter, TypeOK, SkipUninstall, BlockUninstall, CannotLoadToUninstall, UninstallNothing, BeginUninstall,
           UninstallRaises, UninstallRuns, UninstallFails
  <2> QED
    BY <2>1, <2>2 DEF Stays, Counts
<1>7. CASE \/ VerifyRaises(c) \/ VerifyDetects(c) \/ VerifySucceeds(c) \/ VerifyFails(c)
           \/ RefreshRaises(c) \/ RefreshDetects(c)
  <2>1. op \in {"verify", "refresh"} /\ op # "install"
    BY <1>7 DEF VerifyRaises, VerifyDetects, VerifySucceeds, VerifyFails, RefreshRaises,
                RefreshDetects, Ready, At
  <2>2. Stays \/ Counts
    BY <1>1, <1>2, <1>3, <1>7, <2>1
       DEF VerifyRaises, VerifyDetects, VerifySucceeds, VerifyFails, RefreshRaises, RefreshDetects
  <2> QED
    BY <2>1, <2>2 DEF Stays, Counts
<1> QED
  BY <1>4, <1>5, <1>6, <1>7 DEF Step

\* What a turn makes of the status of its component, by operation.
LEMMA TurnStatus ==
  ASSUME TypeOK, NEW c \in Components, Step(c)
  PROVE  \/ status'[c] = status[c]
         \/ op = "install" /\ (BeginInstall(c) \/ ConfirmInstall(c) \/ status'[c] = "ERROR")
         \/ op = "uninstall" /\ status'[c] = "NOT_INSTALLED"
         \/ op \in {"verify", "refresh"}
  BY DEF TypeOK, Step, SkipInstall, BlockInstall, BeginInstall, InstallFails, InstallRuns, ConfirmInstall,
         DenyInstall, SkipUninstall, BlockUninstall, CannotLoadToUninstall, UninstallNothing,
         BeginUninstall, UninstallRaises, UninstallRuns, UninstallFails, VerifyRaises,
         VerifyDetects, VerifySucceeds, VerifyFails, RefreshRaises, RefreshDetects,
         SetStatus, Removable, Ready, At

\* Somebody else's change leaves the manager as it is.
LEMMA WorldControl ==
  ASSUME TypeOK, NEW c \in Components, World(c)
  PROVE  /\ UNCHANGED <<status, instances, op, caller, todo, pc, reported, stuck>>
         /\ disturbed' = disturbed \cup {c} /\ \A d \in Components \ {c} : disk'[d] = disk[d]
  BY DEF World, TypeOK

------------------------------------------------------------------------------
(* Within a turn                                                           *)

LEMMA TurnStep ==
  ASSUME TypeOK, TurnInv, [Next]_vars PROVE TurnInv'
<1>1. SUFFICES ASSUME NEW c \in Components, Step(c) PROVE TurnInv'
  <2>1. ASSUME NEW c \in Components, World(c) PROVE TurnInv'
    BY <2>1, WorldControl DEF TurnInv, Turn, DependenciesMet, RequiredBy
  <2>2. CASE Calls
    BY <2>2, CallsStart DEF TurnInv
  <2>3. CASE UNCHANGED vars
    BY <2>3 DEF TurnInv, Turn, DependenciesMet, RequiredBy, vars
  <2> QED
    BY <1>1, <2>1, <2>2, <2>3 DEF Next
<1>2. pc # "idle" /\ c = Turn
  BY <1>1, StepIsATurn
<1>3. pc' \in {"idle", "next"} => TurnInv'
  BY DEF TurnInv
<1>4. Succeed(c) \/ Fail \/ (\E b \in BOOLEAN : EndRemoval(c, b)) \/ Abort => TurnInv'
  BY <1>2, <1>3, ControlType
<1>answer. AdapterOf[c].absentIsRemoved \in BOOLEAN /\ TRUE \in BOOLEAN /\ FALSE \in BOOLEAN
  BY ComponentsAssumption DEF Adapter
<1>5. CASE BeginInstall(c)
  <2>1. CASE Abort
    BY <1>4, <2>1
  <2>2. CASE GoTo("command") /\ Load(c)
    <3>1. Turn' = c /\ op' = "install" /\ pc' = "command" /\ c \in instances'
      BY <1>2, <1>5, <2>2 DEF BeginInstall, Ready, At, GoTo, Load, Turn
    <3>2. status' = [status EXCEPT ![c] = "INSTALLING"] /\ DependenciesMet(c)
      BY <1>5 DEF BeginInstall, SetStatus
    <3>3. \A d \in Deps[c] : d \in Components /\ d # c
      BY <1>5, ComponentsAssumption DEF BeginInstall, DependenciesMet
    <3>4. status'[c] = "INSTALLING" /\ \A d \in Deps[c] : status'[d] \in Usable
      BY <3>2, <3>3 DEF DependenciesMet, TypeOK
    <3> QED
      BY <3>1, <3>4 DEF TurnInv, DependenciesMet
  <2> QED
    BY <1>5, <2>1, <2>2 DEF BeginInstall
<1>6. CASE InstallRuns(c)
  BY <1>2, <1>6 DEF InstallRuns, At, GoTo, TurnInv, Turn, DependenciesMet
<1>7. CASE BeginUninstall(c)
  BY <1>2, <1>7 DEF BeginUninstall, Removable, Ready, At, GoTo, Load, TurnInv, Turn, RequiredBy
<1>8. CASE VerifyDetects(c)
  <2>1. CASE GoTo("doctor")
    BY <1>2, <1>8, <2>1 DEF VerifyDetects, Ready, At, GoTo, Load, TurnInv, Turn
  <2> QED
    BY <1>4, <1>8, <2>1 DEF VerifyDetects
<1> QED
  BY <1>1, <1>4, <1>answer, <1>5, <1>6, <1>7, <1>8
     DEF Step, SkipInstall, BlockInstall, InstallFails, ConfirmInstall, DenyInstall,
         SkipUninstall, BlockUninstall, CannotLoadToUninstall, UninstallNothing, UninstallRaises,
         UninstallRuns, UninstallFails, VerifyRaises, VerifySucceeds, VerifyFails,
         RefreshRaises, RefreshDetects

------------------------------------------------------------------------------
(* What is usable has been loaded                                          *)

\* An installation leaves what is usable alone.
LEMMA UsableStays ==
  ASSUME TypeOK, TurnInv, NEW c \in Components, Step(c), op = "install", status[c] \in Usable
  PROVE  status'[c] = status[c]
<1>1. c = Turn /\ op # "uninstall" /\ op # "verify" /\ op # "refresh"
  BY StepIsATurn
<1>2. ~At("install", "command", c) /\ ~At("install", "confirm", c)
  BY <1>1 DEF At, TurnInv, Usable
<1>3. SkipInstall(c)
  BY <1>1, <1>2
     DEF Step, BlockInstall, BeginInstall, InstallFails, InstallRuns,
         ConfirmInstall, DenyInstall, SkipUninstall, BlockUninstall,
         CannotLoadToUninstall, UninstallNothing, BeginUninstall, UninstallRaises,
         UninstallRuns, UninstallFails, VerifyRaises, VerifyDetects, VerifySucceeds,
         VerifyFails, RefreshRaises, RefreshDetects, Removable, Ready, At
<1> QED
  BY <1>3 DEF SkipInstall

LEMMA LoadStep ==
  ASSUME TypeOK, TurnInv, LoadInv, [Next]_vars PROVE LoadInv'
<1>1. CASE Calls
  <2>1. \A c \in Components : status'[c] \in Usable => c \in instances'
    BY <1>1, CallsStart DEF LoadInv, Unknown, Usable
  <2> QED
    BY <1>1, <2>1, CallsStart DEF LoadInv
<1>2. ASSUME NEW c \in Components, World(c) PROVE LoadInv'
  BY <1>2, WorldControl DEF LoadInv
<1>3. ASSUME NEW c \in Components, Step(c) PROVE LoadInv'
  <2>1. /\ \A d \in Components \ {c} : status'[d] = status[d]
        /\ instances \subseteq instances' /\ c = Turn
    BY <1>3, StepType, StepIsATurn DEF TurnEffect
  <2>2. status'[c] \in Usable => c \in instances'
    <3>1. CASE status'[c] = status[c] \/ status'[c] \in {"ERROR", "NOT_INSTALLED"}
      BY <2>1, <3>1 DEF LoadInv, Usable
    <3>2. CASE BeginInstall(c)
      BY <3>2 DEF BeginInstall, SetStatus, Usable, TypeOK
    <3>3. CASE ConfirmInstall(c)
      BY <2>1, <3>3 DEF ConfirmInstall, At, TurnInv
    <3>4. CASE op \in {"verify", "refresh"}
      BY <1>3, <2>1, <3>4
         DEF Step, SkipInstall, BlockInstall, BeginInstall, InstallFails, InstallRuns, ConfirmInstall,
             DenyInstall, SkipUninstall, BlockUninstall, CannotLoadToUninstall, UninstallNothing,
             BeginUninstall, UninstallRaises, UninstallRuns, UninstallFails, VerifyRaises,
             VerifyDetects, VerifySucceeds, VerifyFails, RefreshRaises, RefreshDetects,
             SetStatus, Load, Removable, Ready, At, LoadInv, TypeOK, Usable
    <3> QED
      BY <1>3, <3>1, <3>2, <3>3, <3>4, TurnStatus
  <2>3. SUFFICES ASSUME op' = "install" /\ caller' = "all", NEW d \in reported'
                 PROVE  status'[d] \in Usable
    BY <2>1, <2>2 DEF LoadInv
  <2>4. ~(op = "install" /\ caller = "all" /\ Fail)
    BY <2>3 DEF Fail, RollBack
  <2>5. /\ op = "install" /\ caller = "all"
        /\ d \in reported \/ (d = c /\ (SkipInstall(c) \/ ConfirmInstall(c)))
    BY <1>3, <2>3, <2>4, TurnControl
  <2>6. CASE d \in reported
    <3>1. status[d] \in Usable /\ d \in Components
      BY <2>5, <2>6 DEF LoadInv, TypeOK
    <3> QED
      BY <1>3, <2>1, <2>5, <3>1, UsableStays
  <2>7. CASE d = c /\ (SkipInstall(c) \/ ConfirmInstall(c))
    BY <2>7 DEF SkipInstall, ConfirmInstall, SetStatus, Usable, TypeOK
  <2> QED
    BY <2>5, <2>6, <2>7
<1>4. CASE UNCHANGED vars
  BY <1>4 DEF LoadInv, vars
<1> QED
  BY <1>1, <1>2, <1>3, <1>4 DEF Next

------------------------------------------------------------------------------
(* What is shown as installed is there                                     *)

LEMMA PresentStep ==
  ASSUME TypeOK, TurnInv, InstalledIsPresent, [Next]_vars PROVE InstalledIsPresent'
<1>1. CASE Calls
  BY <1>1, CallsStart DEF InstalledIsPresent, Unknown, machine
<1>2. ASSUME NEW c \in Components, World(c) PROVE InstalledIsPresent'
  BY <1>2 DEF World, InstalledIsPresent, TypeOK
<1>3. ASSUME NEW c \in Components, Step(c) PROVE InstalledIsPresent'
  <2>1. SUFFICES status'[c] = "INSTALLED" /\ c \notin disturbed' => Installed(disk'[c])
    BY <1>3, StepType DEF TurnEffect, InstalledIsPresent
  <2>2. disk[c] \in Contents /\ AdapterOf[c] \in Adapter /\ c = Turn
    BY <1>3, StepIsATurn, ComponentsAssumption DEF TypeOK
  <2>3. Derived(disk[c]) = "INSTALLED" => Installed(disk[c])
    BY <2>2, DerivedStatus DEF Usable
  <2>4. CASE UNCHANGED <<machine, status>>
    BY <2>4 DEF machine, InstalledIsPresent
  <2>5. CASE status'[c] # "INSTALLED"
    BY <2>5
  <2>6. CASE InstallRuns(c)
    BY <2>2, <2>6 DEF InstallRuns, At, TurnInv
  <2>7. CASE ConfirmInstall(c)
    BY <2>2, <2>7 DEF ConfirmInstall, Observe, Adapter, Installed
  <2>8. CASE VerifyDetects(c) \/ RefreshDetects(c)
    BY <2>3, <2>8 DEF VerifyDetects, RefreshDetects, SetStatus, Observe, TypeOK
  <2> QED
    BY <1>3, <2>4, <2>5, <2>6, <2>7, <2>8
       DEF Step, SkipInstall, BlockInstall, BeginInstall, InstallFails, DenyInstall,
           SkipUninstall, BlockUninstall, CannotLoadToUninstall, UninstallNothing,
           BeginUninstall, UninstallRaises, UninstallRuns, UninstallFails, VerifyRaises,
           VerifySucceeds, VerifyFails, RefreshRaises, SetStatus, TypeOK
<1>4. CASE UNCHANGED vars
  BY <1>4 DEF InstalledIsPresent, vars
<1> QED
  BY <1>1, <1>2, <1>3, <1>4 DEF Next

------------------------------------------------------------------------------
(* The rollback                                                            *)

\* The turn of a component below c leaves c settled: if it was what needed c, the
\* rollback has passed c over.
LEMMA SettledIsStable ==
  ASSUME NEW c \in Components, NEW e \in reported, e < c, Settled(c), stuck \subseteq stuck',
         reported' = reported, disk'[c] = disk[c], c \in disturbed' <=> c \in disturbed,
         \A d \in Components \ {e} : status'[d] = status[d]
  PROVE  Settled(c)'
<1>1. SUFFICES ASSUME c \notin disturbed', Installed(disk'[c])
               PROVE  c \in stuck' \/ PassedOver(c)'
  BY DEF Settled
<1>2. c \in stuck \/ PassedOver(c)
  BY <1>1 DEF Settled
<1>3. CASE RequiredBy(c) # {}
  <2>1. PICK d \in Components \ {c} : status[d] \in Usable /\ c \in Deps[d]
    BY <1>3 DEF RequiredBy
  <2>2. CASE d = e
    BY <2>1, <2>2 DEF PassedOver
  <2>3. CASE d # e
    BY <2>1, <2>3 DEF PassedOver, RequiredBy
  <2> QED
    BY <2>2, <2>3
<1> QED
  BY <1>2, <1>3 DEF PassedOver

\* The rollback starts with everything install_all has reported still ahead of it.
LEMMA RollBackStarts ==
  ASSUME TypeOK, TurnInv, LoadInv, op = "install", caller = "all", Fail,
         NEW c \in Components, Step(c)
  PROVE  RollbackInv'
<1>1. /\ op' = "uninstall" /\ todo' = Descending(reported) /\ reported' = reported
      /\ reported \subseteq Components
  BY DEF Fail, RollBack, Proceed, TypeOK
<1>2. \A d \in reported : status'[d] \in Usable
  <2>1. SUFFICES ASSUME NEW d \in reported PROVE status'[d] \in Usable
    OBVIOUS
  <2>2. status[d] \in Usable /\ d \in Components
    BY <1>1 DEF LoadInv
  <2>3. CASE d = c
    BY <2>2, <2>3, UsableStays
  <2>4. CASE d # c
    BY <2>2, <2>4, StepType DEF TurnEffect
  <2> QED
    BY <2>3, <2>4
<1> DEFINE l == Descending(reported)
<1>3. /\ \A i \in 1..Len(l) : l[i] \in reported
      /\ \A d \in reported : \E i \in 1..Len(l) : l[i] = d
      /\ \A i, j \in 1..Len(l) : i < j => l[i] > l[j]
  BY <1>1, DescendingList
<1>4. todo' = l
  BY <1>1
<1> HIDE DEF l
<1> QED
  BY <1>1, <1>2, <1>3, <1>4 DEF RollbackInv

\* One turn of it settles the component at the head of the list.
LEMMA RollBackAdvances ==
  ASSUME TypeOK, RollbackInv, caller = "rollback", todo # << >>, NEW c \in Components, c = Turn,
         Advance, reported' = reported, stuck \subseteq stuck', TurnEffect(c), Settled(c)'
  PROVE  RollbackInv'
<1>1. todo \in Seq(Components)
  BY DEF TypeOK
<1>2. /\ Len(todo) \in Nat \ {0} /\ c = todo[1]
      /\ todo' = Tail(todo) /\ Len(todo') = Len(todo) - 1
      /\ \A i \in 1..Len(todo') : todo'[i] = todo[i + 1]
      /\ \A i \in 1..Len(todo) : todo[i] \in Components
  BY <1>1, Turns DEF Turn, Advance, Proceed
<1>3. Components \subseteq Nat
  BY ComponentsAssumption DEF Components
<1>4. \A i \in 1..Len(todo') : i + 1 \in 1..Len(todo) /\ 1 < i + 1 /\ 1 \in 1..Len(todo)
  BY <1>2
<1>5. \A i \in 1..Len(todo') :
        todo'[i] \in reported' /\ status'[todo'[i]] \in Usable /\ todo'[i] < c
  <2>1. SUFFICES ASSUME NEW i \in 1..Len(todo')
                 PROVE  todo'[i] \in reported' /\ status'[todo'[i]] \in Usable /\ todo'[i] < c
    OBVIOUS
  <2>2. /\ todo'[i] = todo[i + 1] /\ todo[i + 1] \in reported
        /\ status[todo[i + 1]] \in Usable /\ todo[1] > todo[i + 1]
    BY <1>2, <1>4 DEF RollbackInv
  <2>3. todo[i + 1] \in Components /\ todo[i + 1] \in Nat /\ c \in Nat
    BY <1>2, <1>3, <1>4
  <2>4. todo[i + 1] < c
    BY <1>2, <2>2, <2>3
  <2>5. status'[todo[i + 1]] = status[todo[i + 1]]
    BY <2>3, <2>4 DEF TurnEffect
  <2> QED
    BY <2>2, <2>4, <2>5
<1>head. c \in reported
  BY <1>2 DEF RollbackInv
<1>6. \A i, j \in 1..Len(todo') : i < j => todo'[i] > todo'[j]
  <2>1. SUFFICES ASSUME NEW i \in 1..Len(todo'), NEW j \in 1..Len(todo'), i < j
                 PROVE  todo'[i] > todo'[j]
    OBVIOUS
  <2>2. i + 1 \in 1..Len(todo) /\ j + 1 \in 1..Len(todo) /\ i + 1 < j + 1
    BY <1>2, <2>1
  <2>3. todo[i + 1] > todo[j + 1]
    BY <2>2 DEF RollbackInv
  <2> QED
    BY <1>2, <2>3
<1>7. ASSUME NEW d \in reported'
      PROVE  \/ \E i \in 1..Len(todo') : todo'[i] = d
             \/ Settled(d)' /\ \A i \in 1..Len(todo') : todo'[i] < d
  <2>1. d \in reported /\ d \in Components
    BY <1>7 DEF TypeOK
  <2>2. CASE d = c
    BY <1>5, <2>2
  <2>3. CASE d # c /\ \E i \in 1..Len(todo) : todo[i] = d
    <3>1. PICK i \in 1..Len(todo) : todo[i] = d
      BY <2>3
    <3>2. i # 1 /\ i - 1 \in 1..Len(todo') /\ (i - 1) + 1 = i
      BY <1>2, <2>3, <3>1
    <3>3. todo'[i - 1] = d
      BY <1>2, <3>1, <3>2
    <3> QED
      BY <3>2, <3>3
  <2>4. CASE d # c /\ Settled(d) /\ \A i \in 1..Len(todo) : todo[i] < d
    <3>1. c < d
      BY <1>2, <2>4
    <3>2. Settled(d)'
      BY <1>head, <2>1, <2>4, <3>1, SettledIsStable DEF TurnEffect
    <3>3. ASSUME NEW i \in 1..Len(todo') PROVE todo'[i] < d
      <4>1. i + 1 \in 1..Len(todo) /\ todo'[i] = todo[i + 1]
        BY <1>2, <1>4
      <4> QED
        BY <2>4, <4>1
    <3> QED
      BY <3>2, <3>3
  <2> QED
    BY <2>1, <2>2, <2>3, <2>4 DEF RollbackInv
<1>8. op' = "uninstall"
  BY DEF Advance, RollbackInv
<1> QED
  BY <1>5, <1>6, <1>7, <1>8 DEF RollbackInv

LEMMA RollbackStep ==
  ASSUME TypeOK, TurnInv, LoadInv, RollbackInv, [Next]_vars PROVE RollbackInv'
<1>1. CASE Calls
  BY <1>1, CallsStart DEF RollbackInv
<1>2. ASSUME NEW c \in Components, World(c) PROVE RollbackInv'
  <2>1. \A d \in Components : Settled(d) => Settled(d)'
    BY <1>2, WorldControl DEF Settled, PassedOver, RequiredBy
  <2>2. reported \subseteq Components
    BY DEF TypeOK
  <2> QED
    BY <1>2, <2>1, <2>2, WorldControl DEF RollbackInv
<1>3. CASE UNCHANGED vars
  BY <1>3 DEF RollbackInv, Settled, PassedOver, RequiredBy, vars
<1>4. ASSUME NEW c \in Components, Step(c) PROVE RollbackInv'
  <2>1. TurnEffect(c) /\ c = Turn /\ pc # "idle" /\ todo # << >>
    BY <1>4, StepType, StepIsATurn DEF TypeOK
  <2>2. CASE op = "install" /\ caller = "all" /\ Fail
    BY <1>4, <2>2, RollBackStarts
  <2>3. CASE ~(op = "install" /\ caller = "all" /\ Fail) /\ caller # "rollback"
    BY <1>4, <2>3, TurnControl DEF RollbackInv
  <2>4. CASE caller = "rollback"
    <3>1. op = "uninstall" /\ op # "install" /\ op # "verify" /\ op # "refresh"
      BY <2>4 DEF RollbackInv
    <3>2. c \in reported /\ status[c] \in Usable /\ c \in instances
      <4>1. 1 \in 1..Len(todo) /\ Turn = todo[1]
        BY <2>1, Turns DEF Turn, TypeOK
      <4> QED
        BY <2>1, <2>4, <4>1 DEF RollbackInv, LoadInv
    <3>3. /\ Fail => Advance /\ reported' = reported /\ stuck' = stuck
          /\ \A b : EndRemoval(c, b) => /\ Advance /\ reported' = reported /\ stuck \subseteq stuck'
                                       /\ Settled(c)'
      BY <2>4, <3>1 DEF Fail, EndRemoval, Settled
    <3>4. SUFFICES BeginUninstall(c)
                   \/ (Advance /\ reported' = reported /\ stuck \subseteq stuck' /\ Settled(c)')
      <4>1. CASE BeginUninstall(c)
        BY <2>1, <4>1 DEF BeginUninstall, GoTo, machine, RollbackInv, Settled, PassedOver, RequiredBy
      <4> QED
        BY <2>1, <2>4, <3>4, <4>1, RollBackAdvances
    <3>5. ~SkipUninstall(c)
      BY <3>2 DEF SkipUninstall, Usable
    <3>6. CASE BlockUninstall(c)
      BY <3>3, <3>6 DEF BlockUninstall, Settled, PassedOver, RequiredBy
    <3>7. CASE UninstallNothing(c) \/ UninstallRaises(c) \/ UninstallRuns(c) \/ UninstallFails(c)
      BY <3>3, <3>7 DEF UninstallNothing, UninstallRaises, UninstallRuns, UninstallFails
    <3>8. ~CannotLoadToUninstall(c)
      BY <3>2 DEF CannotLoadToUninstall, MayFail
    <3> QED
      BY <1>4, <3>1, <3>5, <3>6, <3>7, <3>8
         DEF Step, SkipInstall, BlockInstall, BeginInstall, InstallFails, InstallRuns,
             ConfirmInstall, DenyInstall, VerifyRaises, VerifyDetects, VerifySucceeds,
             VerifyFails, RefreshRaises, RefreshDetects, Ready, At
  <2> QED
    BY <2>2, <2>3, <2>4
<1> QED
  BY <1>1, <1>2, <1>3, <1>4 DEF Next

------------------------------------------------------------------------------
(* The theorems                                                            *)

\* The parts of the invariant support each other and hold at all times.
THEOREM StackInvariant == Spec => []IInv
<1>1. Init => IInv
  <2>1. SUFFICES ASSUME Init PROVE IInv
    OBVIOUS
  <2>2. TypeOK
    BY <2>1, TypeInit
  <2>3. TurnInv /\ LoadInv /\ InstalledIsPresent /\ RollbackInv
    BY <2>1 DEF Init, TurnInv, LoadInv, InstalledIsPresent, RollbackInv, Unknown, Usable
  <2> QED
    BY <2>2, <2>3 DEF IInv
<1>2. IInv /\ [Next]_vars => IInv'
  BY TypeStep, TurnStep, LoadStep, PresentStep, RollbackStep DEF IInv
<1> QED
  BY <1>1, <1>2, PTL DEF Spec

\* Every variable keeps to its values: no list of a call or of a rollback names what
\* is not registered, and the manager is idle exactly when it has nothing left to do.
THEOREM StackTypeCorrect == Spec => []TypeOK
<1>1. IInv => TypeOK
  BY DEF IInv
<1> QED
  BY <1>1, StackInvariant, PTL

\* What the manager shows as INSTALLED is on the machine, however many commands,
\* failing subprocesses and adapters lie behind it (manager.py:201).
THEOREM StackInstalledIsPresent == Spec => []InstalledIsPresent
<1>1. IInv => InstalledIsPresent
  BY DEF IInv
<1> QED
  BY <1>1, StackInvariant, PTL

\* A rollback of install_all leaves on the machine nothing it has reported but what was
\* removed in vain or needed, whatever depends on what (manager.py:383).
THEOREM StackRollbackIsComplete == Spec => []RollbackIsComplete
<1>1. IInv => RollbackIsComplete
  <2>1. SUFFICES ASSUME IInv, caller = "rollback", pc = "idle" PROVE \A c \in reported : Settled(c)
    BY DEF RollbackIsComplete, Settled
  <2>2. todo = << >> /\ Len(todo) = 0
    BY <2>1, EmptySeq DEF IInv, TypeOK
  <2> QED
    BY <2>1, <2>2 DEF IInv, RollbackInv
<1> QED
  BY <1>1, StackInvariant, PTL

\* An operation takes away only what no usable component needs, and makes usable only
\* what has all it needs (manager.py:242, 150).
THEOREM StackOnlyObservationBreaksDependencies == Spec => OnlyObservationBreaksDependencies
<1> DEFINE Harmless == \A c \in Components : ~Broken(c) /\ Broken(c)' => op \in {"verify", "refresh"}
<1>1. IInv /\ [Next]_vars => [Harmless]_vars
  <2>1. SUFFICES ASSUME IInv, Next, NEW c \in Components, ~Broken(c), Broken(c)',
                        op \notin {"verify", "refresh"}
                 PROVE  FALSE
    OBVIOUS
  <2>2. TypeOK /\ TurnInv
    BY <2>1 DEF IInv
  <2>3. Deps[c] \subseteq Components
    BY ComponentsAssumption
  <2>4. PICK d \in Deps[c] : status'[c] \in Usable /\ status'[d] \notin Usable
    BY <2>1 DEF Broken, DependenciesMet
  <2>5. d \in Components \ {c}
    BY <2>3, <2>4
  <2>6. status[c] \notin Usable \/ status[d] \in Usable
    BY <2>1 DEF Broken, DependenciesMet
  <2>7. CASE Calls
    BY <2>2, <2>4, <2>6, <2>7, CallsStart DEF Unknown, Usable
  <2>8. ASSUME NEW e \in Components, World(e) PROVE FALSE
    BY <2>2, <2>4, <2>6, <2>8, WorldControl
  <2>9. ASSUME NEW e \in Components, Step(e) PROVE FALSE
    <3>1. e = Turn /\ \A f \in Components \ {e} : status'[f] = status[f]
      BY <2>2, <2>9, StepType, StepIsATurn DEF TurnEffect
    <3>2. CASE status'[e] = status[e]
      BY <2>4, <2>5, <2>6, <3>1, <3>2
    <3>3. CASE BeginInstall(e)
      <4>1. status[e] \notin Usable /\ status'[e] \notin Usable
        BY <2>2, <3>3 DEF BeginInstall, SetStatus, Usable, TypeOK
      <4> QED
        BY <2>4, <2>5, <2>6, <3>1, <4>1
    <3>4. CASE ConfirmInstall(e)
      <4>1. DependenciesMet(e) /\ status'[e] \in Usable
        BY <2>2, <3>1, <3>4 DEF ConfirmInstall, At, TurnInv, SetStatus, Usable, TypeOK
      <4>2. CASE c = e
        BY <2>4, <2>5, <3>1, <4>1, <4>2 DEF DependenciesMet
      <4>3. CASE c # e
        BY <2>4, <2>5, <2>6, <3>1, <4>1, <4>3
      <4> QED
        BY <4>2, <4>3
    <3>5. CASE op = "install" /\ status'[e] = "ERROR"
      <4>1. status[e] \notin Usable \/ status'[e] = status[e]
        BY <2>2, <2>9, <3>1, <3>5
           DEF Step, SkipInstall, BlockInstall, BeginInstall, InstallFails, InstallRuns,
               ConfirmInstall, DenyInstall, SkipUninstall, BlockUninstall,
               CannotLoadToUninstall, UninstallNothing, BeginUninstall, UninstallRaises,
               UninstallRuns, UninstallFails, VerifyRaises, VerifyDetects, VerifySucceeds,
               VerifyFails, RefreshRaises, RefreshDetects, Removable, Ready, At, TurnInv, Usable
      <4> QED
        BY <2>4, <2>5, <2>6, <3>1, <3>5, <4>1 DEF Usable
    <3>6. CASE op = "uninstall" /\ status'[e] = "NOT_INSTALLED"
      <4>1. RequiredBy(e) = {} \/ status'[e] = status[e]
        BY <2>2, <2>9, <3>1, <3>6
           DEF Step, SkipInstall, BlockInstall, BeginInstall, InstallFails, InstallRuns,
               ConfirmInstall, DenyInstall, SkipUninstall, BlockUninstall,
               CannotLoadToUninstall, UninstallNothing, BeginUninstall, UninstallRaises,
               UninstallRuns, UninstallFails, VerifyRaises, VerifyDetects, VerifySucceeds,
               VerifyFails, RefreshRaises, RefreshDetects, Removable, Ready, At, TurnInv
      <4>2. CASE RequiredBy(e) = {}
        <5>1. c # e
          BY <2>4, <3>6 DEF Usable
        <5>2. status[c] \in Usable /\ d = e
          BY <2>4, <2>5, <2>6, <3>1, <5>1
        <5>3. c \in RequiredBy(e)
          BY <2>4, <5>1, <5>2 DEF RequiredBy
        <5> QED
          BY <4>2, <5>3
      <4> QED
        BY <3>2, <4>1, <4>2
    <3> QED
      BY <2>1, <2>2, <2>9, <3>2, <3>3, <3>4, <3>5, <3>6, TurnStatus
  <2> QED
    BY <2>1, <2>7, <2>8, <2>9 DEF Next
<1> QED
  BY <1>1, StackInvariant, PTL DEF Spec, OnlyObservationBreaksDependencies
====
