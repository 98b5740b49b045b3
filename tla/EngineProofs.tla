--------------------------- MODULE EngineProofs ---------------------------
(***************************************************************************)
(* The safety properties of EngineLifecycle for every number of modules,   *)
(* every position of the guardian, every set of plug-ins and services and  *)
(* every number of calls.                                                  *)
(*                                                                         *)
(* None of them is inductive alone.  IInv ties the position of the loop in *)
(* progress to the states of the modules it has passed (LoopInv), says     *)
(* that nothing can have failed before the guardian is loaded              *)
(* (UnguardedInv), and that a resource is only held in the states in which *)
(* stop() can still close it (ResourceInv).                                *)
(***************************************************************************)
EXTENDS EngineLifecycle, TLAPS

Starting == {"start", "start_body", "announce"}
Stopping == {"stop", "stop_body", "shutdown", "shutdown_body"}

LoopInv ==
  /\ pc \in Starting => loaded = N
  /\ pc \in {"start", "start_body"} =>
       \A k \in 1..at - 1 : state[k] \in {"RUNNING", "FAILED"}
  /\ pc = "start_body" => state[at] = "RUNNING"
  /\ pc \in Stopping =>
       \A m \in at + 1..loaded : state[m] \notin {"RUNNING", "STOPPED"}
  /\ pc = "stop_body" => state[at] = "STOPPED"
  /\ pc = "shutdown" => state[at] # "RUNNING"
  /\ pc = "shutdown_body" => state[at] = "SHUTDOWN"

UnguardedInv ==
  /\ \A m \in Modules : m > loaded => diag[m] = 0
  /\ Guardian > loaded =>
       /\ open = {}
       /\ \A m \in Modules : state[m] \in {"UNLOADED", "LOADED"} /\ diag[m] = 0

ResourceInv ==
  /\ open \subseteq Resourceful
  /\ Guardian \in 1..loaded =>
       /\ \A m \in open : state[m] \in {"RUNNING", "STOPPED", "FAILED"}
       /\ pc = "shutdown" /\ state[at] = "STOPPED" => at \notin open

Clash == \E m \in 1..N : Collides(m)

NothingStarted == \A m \in Modules : state[m] \in {"UNLOADED", "LOADED", "FAILED"}

ClashInv == Clash => pc \notin Starting /\ NothingStarted

IInv ==
  /\ TypeOK
  /\ LoopInv
  /\ PredecessorsOutlive
  /\ FailuresAreDiagnosed
  /\ UnguardedInv
  /\ ResourceInv
  /\ StopIsComplete
  /\ ClashInv

LEMMA InitInv == Init => IInv
<1> SUFFICES ASSUME Init PROVE IInv
  OBVIOUS
<1> USE ConstantsAssumption DEF Init, Modules
<1>1. TypeOK
  BY DEF TypeOK, AllStates, States, Loops, Bodies, Outcomes, Topics
<1>2. LoopInv /\ PredecessorsOutlive /\ FailuresAreDiagnosed /\ StopIsComplete
  BY DEF LoopInv, Starting, Stopping, PredecessorsOutlive, FailuresAreDiagnosed, StopIsComplete
<1>3. UnguardedInv /\ ResourceInv /\ ClashInv
  BY DEF UnguardedInv, ResourceInv, ClashInv, NothingStarted, Starting
<1>4. QED
  BY <1>1, <1>2, <1>3 DEF IInv

LEMMA PublishedType ==
  ASSUME TypeOK, NEW n \in 0..N
  PROVE  Published(n) \subseteq Keys
BY ConstantsAssumption DEF TypeOK, Modules, Published

\* What the exception boundary writes has the right shape.
LEMMA FailTypes ==
  ASSUME TypeOK, NEW m \in 1..loaded, FailStart(m) \/ FailStop(m)
  PROVE  /\ state' \in [Modules -> AllStates]
         /\ \A k \in Modules : state'[k] = "UNLOADED" <=> k > loaded
         /\ diag' \in [Modules -> Nat]
<1>1. /\ m \in Modules /\ state \in [Modules -> AllStates] /\ diag \in [Modules -> Nat]
      /\ \A k \in Modules : state[k] = "UNLOADED" <=> k > loaded
  BY ConstantsAssumption DEF TypeOK, Modules
<1>2. state' = state \/ state' = [state EXCEPT ![m] = "FAILED"]
  BY DEF FailStart, FailStop
<1>3. diag' = diag \/ diag' = [diag EXCEPT ![m] = @ + 1]
  BY DEF FailStart, FailStop, Diagnose
<1>4. ~(m > loaded)
  BY DEF TypeOK
<1>5. state' \in [Modules -> AllStates]
  BY <1>1, <1>2 DEF AllStates, States
<1>6. \A k \in Modules : state'[k] = "UNLOADED" <=> k > loaded
  BY <1>1, <1>2, <1>4
<1>7. diag' \in [Modules -> Nat]
  BY <1>1, <1>3
<1>8. QED
  BY <1>5, <1>6, <1>7

\* The variables keep their types.
LEMMA TypeOKStep ==
  ASSUME TypeOK, [Next]_vars
  PROVE  TypeOK'
<1> USE ConstantsAssumption
    DEF Modules, TypeOK, Finish, AllStates, States, Loops, Bodies,
        Outcomes, Topics, MayOpen, Protected, Diagnose, FailStart, FailStop
<1>1.  CASE CallStart          BY <1>1 DEF CallStart
<1>2.  CASE LoadCached         BY <1>2 DEF LoadCached
<1>3.  CASE LoadFresh          BY <1>3 DEF LoadFresh
<1>4.  CASE LoadFails          BY <1>4 DEF LoadFails
<1>5.  CASE GatherServices     BY <1>5, PublishedType DEF GatherServices
<1>6.  CASE RejectServices     BY <1>6, PublishedType DEF RejectServices
<1>7.  CASE StartModule        BY <1>7 DEF StartModule
<1>8. CASE RejectStart
  <2>1. at \in 1..loaded /\ FailStart(at)
    BY <1>8 DEF RejectStart
  <2> HIDE DEF FailStart, FailStop
  <2>2. /\ state' \in [Modules -> AllStates]
        /\ \A m \in Modules : state'[m] = "UNLOADED" <=> m > loaded
        /\ diag' \in [Modules -> Nat]
    BY <2>1, FailTypes
  <2>3. QED
    BY <1>8, <2>1, <2>2 DEF RejectStart
<1>9.  CASE StartReturns       BY <1>9 DEF StartReturns
<1>10. CASE StartRaises
  <2>1. at \in 1..loaded /\ FailStart(at)
    BY <1>10 DEF StartRaises
  <2> HIDE DEF FailStart, FailStop
  <2>2. /\ state' \in [Modules -> AllStates]
        /\ \A m \in Modules : state'[m] = "UNLOADED" <=> m > loaded
        /\ diag' \in [Modules -> Nat]
    BY <2>1, FailTypes
  <2>3. QED
    BY <1>10, <2>1, <2>2 DEF StartRaises
<1>11. CASE StartCancelled     BY <1>11 DEF StartCancelled
<1>12. CASE AllStarted         BY <1>12 DEF AllStarted
<1>13. CASE Announce           BY <1>13 DEF Announce, AnnouncedTopic
<1>14. CASE StartDone          BY <1>14 DEF StartDone
<1>15. CASE CallStop           BY <1>15 DEF CallStop
<1>16. CASE StopModule         BY <1>16 DEF StopModule
<1>17. CASE RejectStop
  <2>1. at \in 1..loaded /\ FailStop(at)
    BY <1>17 DEF RejectStop
  <2> HIDE DEF FailStart, FailStop
  <2>2. /\ state' \in [Modules -> AllStates]
        /\ \A m \in Modules : state'[m] = "UNLOADED" <=> m > loaded
        /\ diag' \in [Modules -> Nat]
    BY <2>1, FailTypes
  <2>3. QED
    BY <1>17, <2>1, <2>2 DEF RejectStop
<1>18. CASE StopReturns        BY <1>18 DEF StopReturns
<1>19. CASE StopRaises
  <2>1. at \in 1..loaded /\ FailStop(at)
    BY <1>19 DEF StopRaises
  <2> HIDE DEF FailStart, FailStop
  <2>2. /\ state' \in [Modules -> AllStates]
        /\ \A m \in Modules : state'[m] = "UNLOADED" <=> m > loaded
        /\ diag' \in [Modules -> Nat]
    BY <2>1, FailTypes
  <2>3. QED
    BY <1>19, <2>1, <2>2 DEF StopRaises
<1>20. CASE StopCancelled      BY <1>20 DEF StopCancelled
<1>21. CASE ShutdownModule     BY <1>21 DEF ShutdownModule
<1>22. CASE RejectShutdown
  <2>1. at \in 1..loaded /\ FailStop(at)
    BY <1>22 DEF RejectShutdown
  <2> HIDE DEF FailStart, FailStop
  <2>2. /\ state' \in [Modules -> AllStates]
        /\ \A m \in Modules : state'[m] = "UNLOADED" <=> m > loaded
        /\ diag' \in [Modules -> Nat]
    BY <2>1, FailTypes
  <2>3. QED
    BY <1>22, <2>1, <2>2 DEF RejectShutdown
<1>23. CASE ShutdownReturns    BY <1>23 DEF ShutdownReturns
<1>24. CASE ShutdownRaises
  <2>1. at \in 1..loaded /\ FailStop(at)
    BY <1>24 DEF ShutdownRaises
  <2> HIDE DEF FailStart, FailStop
  <2>2. /\ state' \in [Modules -> AllStates]
        /\ \A m \in Modules : state'[m] = "UNLOADED" <=> m > loaded
        /\ diag' \in [Modules -> Nat]
    BY <2>1, FailTypes
  <2>3. QED
    BY <1>24, <2>1, <2>2 DEF ShutdownRaises
<1>25. CASE ShutdownCancelled  BY <1>25 DEF ShutdownCancelled
<1>26. CASE StopDone           BY <1>26 DEF StopDone
<1>27. CASE UNCHANGED vars     BY <1>27 DEF vars
<1>28. QED
  BY <1>1, <1>2, <1>3, <1>4, <1>5, <1>6, <1>7, <1>8, <1>9,
     <1>10, <1>11, <1>12, <1>13, <1>14, <1>15, <1>16, <1>17, <1>18,
     <1>19, <1>20, <1>21, <1>22, <1>23, <1>24, <1>25, <1>26, <1>27
     DEF Next, StartSteps, StopSteps

\* The loop in progress has done its work on the modules it has passed.
LEMMA LoopInvStep ==
  ASSUME TypeOK, LoopInv, [Next]_vars
  PROVE  LoopInv'
<1> USE ConstantsAssumption
    DEF Modules, TypeOK, Finish, LoopInv, Starting, Stopping, AllStates,
        States, Protected, Diagnose, FailStart, FailStop, StartAccepted,
        StopAccepted, ShutdownAccepted, CanTransition, ValidTransitions
<1>1.  CASE CallStart          BY <1>1 DEF CallStart
<1>2.  CASE LoadCached         BY <1>2 DEF LoadCached
<1>3.  CASE LoadFresh          BY <1>3 DEF LoadFresh
<1>4.  CASE LoadFails          BY <1>4 DEF LoadFails
<1>5.  CASE GatherServices     BY <1>5 DEF GatherServices
<1>6.  CASE RejectServices     BY <1>6 DEF RejectServices
<1>7.  CASE StartModule        BY <1>7 DEF StartModule
<1>8.  CASE RejectStart        BY <1>8 DEF RejectStart
<1>9.  CASE StartReturns       BY <1>9 DEF StartReturns
<1>10. CASE StartRaises        BY <1>10 DEF StartRaises
<1>11. CASE StartCancelled     BY <1>11 DEF StartCancelled
<1>12. CASE AllStarted         BY <1>12 DEF AllStarted
<1>13. CASE Announce           BY <1>13 DEF Announce
<1>14. CASE StartDone          BY <1>14 DEF StartDone
<1>15. CASE CallStop           BY <1>15 DEF CallStop
<1>16. CASE StopModule         BY <1>16 DEF StopModule
<1>17. CASE RejectStop         BY <1>17 DEF RejectStop
<1>18. CASE StopReturns        BY <1>18 DEF StopReturns
<1>19. CASE StopRaises         BY <1>19 DEF StopRaises
<1>20. CASE StopCancelled      BY <1>20 DEF StopCancelled
<1>21. CASE ShutdownModule     BY <1>21 DEF ShutdownModule
<1>22. CASE RejectShutdown     BY <1>22 DEF RejectShutdown
<1>23. CASE ShutdownReturns    BY <1>23 DEF ShutdownReturns
<1>24. CASE ShutdownRaises     BY <1>24 DEF ShutdownRaises
<1>25. CASE ShutdownCancelled  BY <1>25 DEF ShutdownCancelled
<1>26. CASE StopDone           BY <1>26 DEF StopDone
<1>27. CASE UNCHANGED vars     BY <1>27 DEF vars
<1>28. QED
  BY <1>1, <1>2, <1>3, <1>4, <1>5, <1>6, <1>7, <1>8, <1>9,
     <1>10, <1>11, <1>12, <1>13, <1>14, <1>15, <1>16, <1>17, <1>18,
     <1>19, <1>20, <1>21, <1>22, <1>23, <1>24, <1>25, <1>26, <1>27
     DEF Next, StartSteps, StopSteps

\* A module that fails leaves the order as it is.
LEMMA FailKeepsOrder ==
  ASSUME TypeOK, PredecessorsOutlive, NEW m \in 1..loaded, loaded' = loaded,
         FailStart(m) \/ FailStop(m)
  PROVE  PredecessorsOutlive'
<1>1. state' = state \/ state' = [state EXCEPT ![m] = "FAILED"]
  BY DEF FailStart, FailStop
<1>2. state \in [Modules -> AllStates] /\ 1..loaded \subseteq Modules
  BY ConstantsAssumption DEF TypeOK, Modules
<1>3. ASSUME NEW a \in 1..loaded, NEW b \in 1..a - 1, state'[a] = "RUNNING"
      PROVE  state'[b] \notin {"STOPPED", "SHUTDOWN"}
  <2>1. b \in 1..loaded
    BY DEF TypeOK
  <2>2. state[a] = "RUNNING"
    BY <1>1, <1>2, <1>3
  <2>3. state[b] \notin {"STOPPED", "SHUTDOWN"}
    BY <2>2 DEF PredecessorsOutlive
  <2>4. QED
    BY <1>1, <1>2, <2>1, <2>3
<1>4. QED
  BY <1>3 DEF PredecessorsOutlive

\* stop_all moves backwards, start_all forwards.
LEMMA PredecessorsOutliveStep ==
  ASSUME TypeOK, LoopInv, PredecessorsOutlive, [Next]_vars
  PROVE  PredecessorsOutlive'
<1> USE ConstantsAssumption
    DEF Modules, TypeOK, Finish, LoopInv, PredecessorsOutlive, Starting,
        Stopping, AllStates, States, Protected, Diagnose, FailStart, FailStop, StartAccepted,
        StopAccepted, ShutdownAccepted, CanTransition, ValidTransitions
<1>1.  CASE CallStart          BY <1>1 DEF CallStart
<1>2.  CASE LoadCached         BY <1>2 DEF LoadCached
<1>3.  CASE LoadFresh          BY <1>3 DEF LoadFresh
<1>4.  CASE LoadFails          BY <1>4 DEF LoadFails
<1>5.  CASE GatherServices     BY <1>5 DEF GatherServices
<1>6.  CASE RejectServices     BY <1>6 DEF RejectServices
<1>7.  CASE StartModule
  <2>1. /\ \A k \in 1..at - 1 : state[k] \in {"RUNNING", "FAILED"}
        /\ at \in 1..loaded /\ loaded' = loaded
        /\ state' = [state EXCEPT ![at] = "RUNNING"]
    BY <1>7 DEF StartModule
  <2>2. ASSUME NEW m \in 1..loaded', NEW k \in 1..m - 1, state'[m] = "RUNNING"
        PROVE  state'[k] \notin {"STOPPED", "SHUTDOWN"}
    <3>1. CASE m = at
      <4>1. k \in 1..at - 1 /\ k # at /\ k \in Modules
        BY <2>1, <3>1
      <4>2. state[k] \in {"RUNNING", "FAILED"} /\ state'[k] = state[k]
        BY <2>1, <4>1
      <4>3. QED
        BY <4>2
    <3>2. CASE m # at
      <4>1. state[m] = "RUNNING" /\ m \in 1..loaded
        BY <2>1, <2>2, <3>2
      <4>2. state[k] \notin {"STOPPED", "SHUTDOWN"}
        BY <4>1
      <4>3. QED
        BY <2>1, <4>2
    <3>3. QED
      BY <3>1, <3>2
  <2>3. QED
    BY <2>2, Zenon
<1>8. CASE RejectStart
  <2> HIDE DEF FailStart, FailStop, PredecessorsOutlive, LoopInv
  <2>1. at \in 1..loaded /\ loaded' = loaded /\ FailStart(at)
    BY <1>8 DEF RejectStart
  <2>2. QED
    BY <2>1, FailKeepsOrder
<1>9.  CASE StartReturns       BY <1>9 DEF StartReturns
<1>10. CASE StartRaises
  <2> HIDE DEF FailStart, FailStop, PredecessorsOutlive, LoopInv
  <2>1. at \in 1..loaded /\ loaded' = loaded /\ FailStart(at)
    BY <1>10 DEF StartRaises, Bodies
  <2>2. QED
    BY <2>1, FailKeepsOrder
<1>11. CASE StartCancelled     BY <1>11 DEF StartCancelled
<1>12. CASE AllStarted         BY <1>12 DEF AllStarted
<1>13. CASE Announce           BY <1>13 DEF Announce
<1>14. CASE StartDone          BY <1>14 DEF StartDone
<1>15. CASE CallStop           BY <1>15 DEF CallStop
<1>16. CASE StopModule         BY <1>16 DEF StopModule
<1>17. CASE RejectStop
  <2> HIDE DEF FailStart, FailStop, PredecessorsOutlive, LoopInv
  <2>1. at \in 1..loaded /\ loaded' = loaded /\ FailStop(at)
    BY <1>17 DEF RejectStop
  <2>2. QED
    BY <2>1, FailKeepsOrder
<1>18. CASE StopReturns        BY <1>18 DEF StopReturns
<1>19. CASE StopRaises
  <2> HIDE DEF FailStart, FailStop, PredecessorsOutlive, LoopInv
  <2>1. at \in 1..loaded /\ loaded' = loaded /\ FailStop(at)
    BY <1>19 DEF StopRaises, Bodies
  <2>2. QED
    BY <2>1, FailKeepsOrder
<1>20. CASE StopCancelled      BY <1>20 DEF StopCancelled
<1>21. CASE ShutdownModule     BY <1>21 DEF ShutdownModule
<1>22. CASE RejectShutdown
  <2> HIDE DEF FailStart, FailStop, PredecessorsOutlive, LoopInv
  <2>1. at \in 1..loaded /\ loaded' = loaded /\ FailStop(at)
    BY <1>22 DEF RejectShutdown, Bodies
  <2>2. QED
    BY <2>1, FailKeepsOrder
<1>23. CASE ShutdownReturns    BY <1>23 DEF ShutdownReturns
<1>24. CASE ShutdownRaises
  <2> HIDE DEF FailStart, FailStop, PredecessorsOutlive, LoopInv
  <2>1. at \in 1..loaded /\ loaded' = loaded /\ FailStop(at)
    BY <1>24 DEF ShutdownRaises, Bodies
  <2>2. QED
    BY <2>1, FailKeepsOrder
<1>25. CASE ShutdownCancelled  BY <1>25 DEF ShutdownCancelled
<1>26. CASE StopDone           BY <1>26 DEF StopDone
<1>27. CASE UNCHANGED vars     BY <1>27 DEF vars
<1>28. QED
  BY <1>1, <1>2, <1>3, <1>4, <1>5, <1>6, <1>7, <1>8, <1>9,
     <1>10, <1>11, <1>12, <1>13, <1>14, <1>15, <1>16, <1>17, <1>18,
     <1>19, <1>20, <1>21, <1>22, <1>23, <1>24, <1>25, <1>26, <1>27
     DEF Next, StartSteps, StopSteps

\* Whatever the exception boundary does to a module is recorded, or is done to
\* the guardian itself.
LEMMA FailIsDiagnosed ==
  ASSUME TypeOK, FailuresAreDiagnosed, NEW m \in 1..loaded, loaded' = loaded,
         FailStart(m) \/ FailStop(m)
  PROVE  FailuresAreDiagnosed'
<1> SUFFICES ASSUME Guardian \in 1..loaded, state'[Guardian] \in {"LOADED", "RUNNING"},
                    NEW k \in 1..loaded \ {Guardian}
             PROVE  state'[k] = "FAILED" <=> diag'[k] > 0
  BY DEF FailuresAreDiagnosed
<1>1. /\ state \in [Modules -> AllStates] /\ diag \in [Modules -> Nat]
      /\ 1..loaded \subseteq Modules
  BY ConstantsAssumption DEF TypeOK, Modules
<1>2. CASE m # Guardian
  <2>1. state' = [state EXCEPT ![m] = "FAILED"] /\ diag' = [diag EXCEPT ![m] = @ + 1]
    BY <1>2 DEF FailStart, FailStop, Protected, Diagnose
  <2>2. state[k] = "FAILED" <=> diag[k] > 0
    BY <1>1, <1>2, <2>1 DEF FailuresAreDiagnosed
  <2>3. QED
    BY <1>1, <2>1, <2>2
<1>3. CASE m = Guardian
  <2>1. state' = state /\ diag' = diag
    BY <1>1, <1>3 DEF FailStart, FailStop, Protected
  <2>2. QED
    BY <2>1 DEF FailuresAreDiagnosed
<1>4. QED
  BY <1>2, <1>3

\* Guardian's diagnostics follow the failures.
LEMMA FailuresAreDiagnosedStep ==
  ASSUME TypeOK, LoopInv, UnguardedInv, FailuresAreDiagnosed, [Next]_vars
  PROVE  FailuresAreDiagnosed'
<1> USE ConstantsAssumption
    DEF Modules, TypeOK, Finish, LoopInv, Starting, Stopping,
        UnguardedInv, FailuresAreDiagnosed, AllStates, States, Protected,
        Diagnose, FailStart, FailStop, StartAccepted, StopAccepted,
        ShutdownAccepted, CanTransition, ValidTransitions
<1>1.  CASE CallStart          BY <1>1 DEF CallStart
<1>2.  CASE LoadCached         BY <1>2 DEF LoadCached
<1>3.  CASE LoadFresh          BY <1>3 DEF LoadFresh
<1>4.  CASE LoadFails          BY <1>4 DEF LoadFails
<1>5.  CASE GatherServices     BY <1>5 DEF GatherServices
<1>6.  CASE RejectServices     BY <1>6 DEF RejectServices
<1>7.  CASE StartModule        BY <1>7 DEF StartModule
<1>8. CASE RejectStart
  <2> HIDE DEF FailStart, FailStop, FailuresAreDiagnosed, LoopInv, UnguardedInv
  <2>1. at \in 1..loaded /\ loaded' = loaded /\ FailStart(at)
    BY <1>8 DEF RejectStart, Bodies
  <2>2. QED
    BY <2>1, FailIsDiagnosed
<1>9.  CASE StartReturns       BY <1>9 DEF StartReturns
<1>10. CASE StartRaises
  <2> HIDE DEF FailStart, FailStop, FailuresAreDiagnosed, LoopInv, UnguardedInv
  <2>1. at \in 1..loaded /\ loaded' = loaded /\ FailStart(at)
    BY <1>10 DEF StartRaises, Bodies
  <2>2. QED
    BY <2>1, FailIsDiagnosed
<1>11. CASE StartCancelled     BY <1>11 DEF StartCancelled
<1>12. CASE AllStarted         BY <1>12 DEF AllStarted
<1>13. CASE Announce           BY <1>13 DEF Announce
<1>14. CASE StartDone          BY <1>14 DEF StartDone
<1>15. CASE CallStop           BY <1>15 DEF CallStop
<1>16. CASE StopModule         BY <1>16 DEF StopModule
<1>17. CASE RejectStop
  <2> HIDE DEF FailStart, FailStop, FailuresAreDiagnosed, LoopInv, UnguardedInv
  <2>1. at \in 1..loaded /\ loaded' = loaded /\ FailStop(at)
    BY <1>17 DEF RejectStop, Bodies
  <2>2. QED
    BY <2>1, FailIsDiagnosed
<1>18. CASE StopReturns        BY <1>18 DEF StopReturns
<1>19. CASE StopRaises
  <2> HIDE DEF FailStart, FailStop, FailuresAreDiagnosed, LoopInv, UnguardedInv
  <2>1. at \in 1..loaded /\ loaded' = loaded /\ FailStop(at)
    BY <1>19 DEF StopRaises, Bodies
  <2>2. QED
    BY <2>1, FailIsDiagnosed
<1>20. CASE StopCancelled      BY <1>20 DEF StopCancelled
<1>21. CASE ShutdownModule     BY <1>21 DEF ShutdownModule
<1>22. CASE RejectShutdown
  <2> HIDE DEF FailStart, FailStop, FailuresAreDiagnosed, LoopInv, UnguardedInv
  <2>1. at \in 1..loaded /\ loaded' = loaded /\ FailStop(at)
    BY <1>22 DEF RejectShutdown, Bodies
  <2>2. QED
    BY <2>1, FailIsDiagnosed
<1>23. CASE ShutdownReturns    BY <1>23 DEF ShutdownReturns
<1>24. CASE ShutdownRaises
  <2> HIDE DEF FailStart, FailStop, FailuresAreDiagnosed, LoopInv, UnguardedInv
  <2>1. at \in 1..loaded /\ loaded' = loaded /\ FailStop(at)
    BY <1>24 DEF ShutdownRaises, Bodies
  <2>2. QED
    BY <2>1, FailIsDiagnosed
<1>25. CASE ShutdownCancelled  BY <1>25 DEF ShutdownCancelled
<1>26. CASE StopDone           BY <1>26 DEF StopDone
<1>27. CASE UNCHANGED vars     BY <1>27 DEF vars
<1>28. QED
  BY <1>1, <1>2, <1>3, <1>4, <1>5, <1>6, <1>7, <1>8, <1>9,
     <1>10, <1>11, <1>12, <1>13, <1>14, <1>15, <1>16, <1>17, <1>18,
     <1>19, <1>20, <1>21, <1>22, <1>23, <1>24, <1>25, <1>26, <1>27
     DEF Next, StartSteps, StopSteps

\* Nothing fails before the guardian is loaded.
LEMMA UnguardedInvStep ==
  ASSUME TypeOK, LoopInv, UnguardedInv, [Next]_vars
  PROVE  UnguardedInv'
<1> USE ConstantsAssumption
    DEF Modules, TypeOK, Finish, LoopInv, Starting, UnguardedInv, MayOpen,
        Protected, Diagnose, FailStart, FailStop, StartAccepted,
        StopAccepted, ShutdownAccepted, CanTransition, ValidTransitions
<1>1.  CASE CallStart          BY <1>1 DEF CallStart
<1>2.  CASE LoadCached         BY <1>2 DEF LoadCached
<1>3.  CASE LoadFresh          BY <1>3 DEF LoadFresh
<1>4.  CASE LoadFails          BY <1>4 DEF LoadFails
<1>5.  CASE GatherServices     BY <1>5 DEF GatherServices
<1>6.  CASE RejectServices     BY <1>6 DEF RejectServices
<1>7.  CASE StartModule        BY <1>7 DEF StartModule
<1>8.  CASE RejectStart        BY <1>8 DEF RejectStart
<1>9.  CASE StartReturns       BY <1>9 DEF StartReturns
<1>10. CASE StartRaises        BY <1>10 DEF StartRaises
<1>11. CASE StartCancelled     BY <1>11 DEF StartCancelled
<1>12. CASE AllStarted         BY <1>12 DEF AllStarted
<1>13. CASE Announce           BY <1>13 DEF Announce
<1>14. CASE StartDone          BY <1>14 DEF StartDone
<1>15. CASE CallStop           BY <1>15 DEF CallStop
<1>16. CASE StopModule         BY <1>16 DEF StopModule
<1>17. CASE RejectStop         BY <1>17 DEF RejectStop
<1>18. CASE StopReturns        BY <1>18 DEF StopReturns
<1>19. CASE StopRaises         BY <1>19 DEF StopRaises
<1>20. CASE StopCancelled      BY <1>20 DEF StopCancelled
<1>21. CASE ShutdownModule     BY <1>21 DEF ShutdownModule
<1>22. CASE RejectShutdown     BY <1>22 DEF RejectShutdown
<1>23. CASE ShutdownReturns    BY <1>23 DEF ShutdownReturns
<1>24. CASE ShutdownRaises     BY <1>24 DEF ShutdownRaises
<1>25. CASE ShutdownCancelled  BY <1>25 DEF ShutdownCancelled
<1>26. CASE StopDone           BY <1>26 DEF StopDone
<1>27. CASE UNCHANGED vars     BY <1>27 DEF vars
<1>28. QED
  BY <1>1, <1>2, <1>3, <1>4, <1>5, <1>6, <1>7, <1>8, <1>9,
     <1>10, <1>11, <1>12, <1>13, <1>14, <1>15, <1>16, <1>17, <1>18,
     <1>19, <1>20, <1>21, <1>22, <1>23, <1>24, <1>25, <1>26, <1>27
     DEF Next, StartSteps, StopSteps

\* A resource is held only where stop() still reaches it.
LEMMA ResourceInvStep ==
  ASSUME TypeOK, LoopInv, UnguardedInv, ResourceInv, [Next]_vars
  PROVE  ResourceInv'
<1> USE ConstantsAssumption
    DEF Modules, TypeOK, Finish, LoopInv, UnguardedInv, ResourceInv,
        MayOpen, Protected, Diagnose, FailStart, FailStop, StartAccepted,
        StopAccepted, ShutdownAccepted, CanTransition, ValidTransitions
<1>1.  CASE CallStart          BY <1>1 DEF CallStart
<1>2.  CASE LoadCached         BY <1>2 DEF LoadCached
<1>3.  CASE LoadFresh          BY <1>3 DEF LoadFresh
<1>4.  CASE LoadFails          BY <1>4 DEF LoadFails
<1>5.  CASE GatherServices     BY <1>5 DEF GatherServices
<1>6.  CASE RejectServices     BY <1>6 DEF RejectServices
<1>7.  CASE StartModule        BY <1>7 DEF StartModule
<1>8.  CASE RejectStart        BY <1>8 DEF RejectStart
<1>9.  CASE StartReturns       BY <1>9 DEF StartReturns
<1>10. CASE StartRaises        BY <1>10 DEF StartRaises
<1>11. CASE StartCancelled     BY <1>11 DEF StartCancelled
<1>12. CASE AllStarted         BY <1>12 DEF AllStarted
<1>13. CASE Announce           BY <1>13 DEF Announce
<1>14. CASE StartDone          BY <1>14 DEF StartDone
<1>15. CASE CallStop           BY <1>15 DEF CallStop
<1>16. CASE StopModule         BY <1>16 DEF StopModule
<1>17. CASE RejectStop         BY <1>17 DEF RejectStop
<1>18. CASE StopReturns        BY <1>18 DEF StopReturns
<1>19. CASE StopRaises         BY <1>19 DEF StopRaises
<1>20. CASE StopCancelled      BY <1>20 DEF StopCancelled
<1>21. CASE ShutdownModule     BY <1>21 DEF ShutdownModule
<1>22. CASE RejectShutdown     BY <1>22 DEF RejectShutdown
<1>23. CASE ShutdownReturns    BY <1>23 DEF ShutdownReturns
<1>24. CASE ShutdownRaises     BY <1>24 DEF ShutdownRaises
<1>25. CASE ShutdownCancelled  BY <1>25 DEF ShutdownCancelled
<1>26. CASE StopDone           BY <1>26 DEF StopDone
<1>27. CASE UNCHANGED vars     BY <1>27 DEF vars
<1>28. QED
  BY <1>1, <1>2, <1>3, <1>4, <1>5, <1>6, <1>7, <1>8, <1>9,
     <1>10, <1>11, <1>12, <1>13, <1>14, <1>15, <1>16, <1>17, <1>18,
     <1>19, <1>20, <1>21, <1>22, <1>23, <1>24, <1>25, <1>26, <1>27
     DEF Next, StartSteps, StopSteps

\* A stop that returns has dealt with every module.
LEMMA StopIsCompleteStep ==
  ASSUME TypeOK, LoopInv, StopIsComplete, [Next]_vars
  PROVE  StopIsComplete'
<1> USE ConstantsAssumption
    DEF Modules, TypeOK, Finish, LoopInv, Stopping, StopIsComplete,
        Outcomes, Protected, Diagnose, FailStart, FailStop, StartAccepted,
        StopAccepted, ShutdownAccepted, CanTransition, ValidTransitions
<1>1.  CASE CallStart          BY <1>1 DEF CallStart
<1>2.  CASE LoadCached         BY <1>2 DEF LoadCached
<1>3.  CASE LoadFresh          BY <1>3 DEF LoadFresh
<1>4.  CASE LoadFails          BY <1>4 DEF LoadFails
<1>5.  CASE GatherServices     BY <1>5 DEF GatherServices
<1>6.  CASE RejectServices     BY <1>6 DEF RejectServices
<1>7.  CASE StartModule        BY <1>7 DEF StartModule
<1>8.  CASE RejectStart        BY <1>8 DEF RejectStart
<1>9.  CASE StartReturns       BY <1>9 DEF StartReturns
<1>10. CASE StartRaises        BY <1>10 DEF StartRaises
<1>11. CASE StartCancelled     BY <1>11 DEF StartCancelled
<1>12. CASE AllStarted         BY <1>12 DEF AllStarted
<1>13. CASE Announce           BY <1>13 DEF Announce
<1>14. CASE StartDone          BY <1>14 DEF StartDone
<1>15. CASE CallStop           BY <1>15 DEF CallStop
<1>16. CASE StopModule         BY <1>16 DEF StopModule
<1>17. CASE RejectStop         BY <1>17 DEF RejectStop
<1>18. CASE StopReturns        BY <1>18 DEF StopReturns
<1>19. CASE StopRaises         BY <1>19 DEF StopRaises
<1>20. CASE StopCancelled      BY <1>20 DEF StopCancelled
<1>21. CASE ShutdownModule     BY <1>21 DEF ShutdownModule
<1>22. CASE RejectShutdown     BY <1>22 DEF RejectShutdown
<1>23. CASE ShutdownReturns    BY <1>23 DEF ShutdownReturns
<1>24. CASE ShutdownRaises     BY <1>24 DEF ShutdownRaises
<1>25. CASE ShutdownCancelled  BY <1>25 DEF ShutdownCancelled
<1>26. CASE StopDone           BY <1>26 DEF StopDone
<1>27. CASE UNCHANGED vars     BY <1>27 DEF vars
<1>28. QED
  BY <1>1, <1>2, <1>3, <1>4, <1>5, <1>6, <1>7, <1>8, <1>9,
     <1>10, <1>11, <1>12, <1>13, <1>14, <1>15, <1>16, <1>17, <1>18,
     <1>19, <1>20, <1>21, <1>22, <1>23, <1>24, <1>25, <1>26, <1>27
     DEF Next, StartSteps, StopSteps

\* A collision bars every start.
LEMMA ClashInvStep ==
  ASSUME TypeOK, LoopInv, ClashInv, [Next]_vars
  PROVE  ClashInv'
<1> USE ConstantsAssumption
    DEF Modules, TypeOK, Finish, LoopInv, ClashInv, NothingStarted,
        Starting, AllStates, States, Bodies, Protected, Diagnose, FailStart,
        FailStop, StartAccepted, StopAccepted, ShutdownAccepted,
        CanTransition, ValidTransitions
<1>a. services' = services
  BY DEF Next, StartSteps, StopSteps, vars, CallStart, LoadCached, LoadFresh,
     LoadFails, GatherServices, RejectServices, StartModule, RejectStart,
     StartReturns, StartRaises, StartCancelled, AllStarted, Announce, StartDone,
     CallStop, StopModule, RejectStop, StopReturns, StopRaises, StopCancelled,
     ShutdownModule, RejectShutdown, ShutdownReturns, ShutdownRaises,
     ShutdownCancelled, StopDone
<1>b. Clash' = Clash
  BY <1>a DEF Clash, Collides, Published
<1>c. GatherServices => ~Clash
  BY DEF GatherServices, Collision, Clash
<1>1.  CASE CallStart          BY <1>b, <1>1 DEF CallStart
<1>2.  CASE LoadCached         BY <1>b, <1>2 DEF LoadCached
<1>3.  CASE LoadFresh          BY <1>b, <1>3 DEF LoadFresh
<1>4.  CASE LoadFails          BY <1>b, <1>4 DEF LoadFails
<1>5.  CASE GatherServices     BY <1>b, <1>5, <1>c DEF GatherServices
<1>6.  CASE RejectServices     BY <1>b, <1>6 DEF RejectServices
<1>7.  CASE StartModule        BY <1>b, <1>7 DEF StartModule
<1>8.  CASE RejectStart        BY <1>b, <1>8 DEF RejectStart
<1>9.  CASE StartReturns       BY <1>b, <1>9 DEF StartReturns
<1>10. CASE StartRaises        BY <1>b, <1>10 DEF StartRaises
<1>11. CASE StartCancelled     BY <1>b, <1>11 DEF StartCancelled
<1>12. CASE AllStarted         BY <1>b, <1>12 DEF AllStarted
<1>13. CASE Announce           BY <1>b, <1>13 DEF Announce
<1>14. CASE StartDone          BY <1>b, <1>14 DEF StartDone
<1>15. CASE CallStop           BY <1>b, <1>15 DEF CallStop
<1>16. CASE StopModule         BY <1>b, <1>16 DEF StopModule
<1>17. CASE RejectStop         BY <1>b, <1>17 DEF RejectStop
<1>18. CASE StopReturns        BY <1>b, <1>18 DEF StopReturns
<1>19. CASE StopRaises         BY <1>b, <1>19 DEF StopRaises
<1>20. CASE StopCancelled      BY <1>b, <1>20 DEF StopCancelled
<1>21. CASE ShutdownModule     BY <1>b, <1>21 DEF ShutdownModule
<1>22. CASE RejectShutdown     BY <1>b, <1>22 DEF RejectShutdown
<1>23. CASE ShutdownReturns    BY <1>b, <1>23 DEF ShutdownReturns
<1>24. CASE ShutdownRaises     BY <1>b, <1>24 DEF ShutdownRaises
<1>25. CASE ShutdownCancelled  BY <1>b, <1>25 DEF ShutdownCancelled
<1>26. CASE StopDone           BY <1>b, <1>26 DEF StopDone
<1>27. CASE UNCHANGED vars     BY <1>b, <1>27 DEF vars
<1>28. QED
  BY <1>1, <1>2, <1>3, <1>4, <1>5, <1>6, <1>7, <1>8, <1>9,
     <1>10, <1>11, <1>12, <1>13, <1>14, <1>15, <1>16, <1>17, <1>18,
     <1>19, <1>20, <1>21, <1>22, <1>23, <1>24, <1>25, <1>26, <1>27
     DEF Next, StartSteps, StopSteps

LEMMA NextInv == IInv /\ [Next]_vars => IInv'
BY TypeOKStep, LoopInvStep, PredecessorsOutliveStep, FailuresAreDiagnosedStep,
   UnguardedInvStep, ResourceInvStep, StopIsCompleteStep, ClashInvStep DEF IInv

THEOREM EngineInvariant == Spec => []IInv
<1>1. Init => IInv
  BY InitInv
<1>2. IInv /\ [Next]_vars => IInv'
  BY NextInv
<1>3. QED
  BY <1>1, <1>2, PTL DEF Spec

\* Every variable of the engine, the registry and the guardian keeps its type.
THEOREM EngineTypeCorrect == Spec => []TypeOK
BY EngineInvariant, PTL DEF IInv

\* A RUNNING module's predecessors have not been stopped (registry.stop_all).
THEOREM EnginePredecessorsOutlive == Spec => []PredecessorsOutlive
BY EngineInvariant, PTL DEF IInv

\* Guardian knows of exactly the failed modules until it is stopped
\* (GuardianModule.protect).
THEOREM EngineFailuresAreDiagnosed == Spec => []FailuresAreDiagnosed
BY EngineInvariant, PTL DEF IInv

\* Engine.stop that returns leaves nothing RUNNING or STOPPED.
THEOREM EngineStopIsComplete == Spec => []StopIsComplete
BY EngineInvariant, PTL DEF IInv

\* Under a guardian, a resource that outlives Engine.stop belongs to a FAILED
\* module.
THEOREM EngineLeaksAreFailures == Spec => []LeaksAreFailures
<1>1. IInv => LeaksAreFailures
  BY ConstantsAssumption
     DEF IInv, TypeOK, UnguardedInv, ResourceInv, StopIsComplete, LeaksAreFailures,
         AllStates, States, Modules
<1>2. QED
  BY <1>1, EngineInvariant, PTL

\* A service key published twice starts nothing (registry.start_all).
THEOREM EngineCollisionStartsNothing == Spec => []CollisionStartsNothing
<1>1. IInv => CollisionStartsNothing
  BY DEF IInv, ClashInv, Clash, NothingStarted, CollisionStartsNothing
<1>2. QED
  BY <1>1, EngineInvariant, PTL

-----------------------------------------------------------------------------
(* Refinement: what each step of the engine is in ModuleLifecycle.         *)

\* _pre_start accepts nothing but LOADED.
LEMMA AcceptedIsLoaded ==
  ASSUME NEW s \in AllStates, StartAccepted(s)
  PROVE  s = "LOADED"
BY DEF AllStates, States, StartAccepted, CanTransition, ValidTransitions

LEMMA StepRefines ==
  ASSUME TypeOK, [Next]_vars
  PROVE  [LifecycleOf!Next]_state
<1> USE ConstantsAssumption DEF TypeOK, Modules
<1>1. CASE LoadFresh
  <2>1. LifecycleOf!Load(at)
    BY <1>1 DEF LoadFresh, LifecycleOf!Load, LifecycleOf!Move
  <2>2. QED
    BY <1>1, <2>1 DEF LoadFresh, LifecycleOf!Next
<1>2. CASE StartModule
  <2>1. at \in Modules /\ state[at] \in AllStates
    BY <1>2 DEF StartModule
  <2>2. StartAccepted(state[at]) /\ state' = [state EXCEPT ![at] = "RUNNING"]
    BY <1>2 DEF StartModule
  <2>3. state[at] = "LOADED"
    BY <2>1, <2>2, AcceptedIsLoaded
  <2>4. LifecycleOf!Start(at)
    BY <2>2, <2>3 DEF LifecycleOf!Start, LifecycleOf!Move
  <2>5. QED
    BY <2>1, <2>4 DEF LifecycleOf!Next
<1>3. CASE StopModule
  <2>1. CASE state[at] = "RUNNING"
    <3>1. LifecycleOf!Stop(at)
      BY <1>3, <2>1 DEF StopModule, LifecycleOf!Stop, LifecycleOf!Move
    <3>2. QED
      BY <1>3, <3>1 DEF StopModule, LifecycleOf!Next
  <2>2. CASE state[at] = "STOPPED"
    BY <1>3, <2>2 DEF StopModule
  <2>3. QED
    BY <1>3, <2>1, <2>2 DEF StopModule, StopAccepted
<1>4. CASE ShutdownModule
  <2>1. LifecycleOf!Shutdown(at)
    BY <1>4 DEF ShutdownModule, ShutdownAccepted, LifecycleOf!Shutdown, LifecycleOf!Move
  <2>2. QED
    BY <1>4, <2>1 DEF ShutdownModule, Bodies, LifecycleOf!Next
<1>5. CASE RejectStart \/ StartRaises \/ RejectStop \/ StopRaises
           \/ RejectShutdown \/ ShutdownRaises
  <2>1. at \in 1..loaded
    BY <1>5 DEF RejectStart, StartRaises, RejectStop, StopRaises, RejectShutdown,
       ShutdownRaises, Bodies
  <2>2. FailStart(at) \/ FailStop(at)
    BY <1>5 DEF RejectStart, StartRaises, RejectStop, StopRaises, RejectShutdown,
       ShutdownRaises
  <2>3. LifecycleOf!Fail(at) \/ UNCHANGED state
    BY <2>1, <2>2 DEF FailStart, FailStop, LifecycleOf!Fail
  <2>4. QED
    BY <2>1, <2>3 DEF LifecycleOf!Next
<1>6. CASE \/ CallStart \/ LoadCached \/ LoadFails \/ GatherServices \/ RejectServices
           \/ StartReturns \/ StartCancelled \/ AllStarted \/ Announce \/ StartDone
           \/ CallStop \/ StopReturns \/ StopCancelled
           \/ ShutdownReturns \/ ShutdownCancelled \/ StopDone
  <2>1. UNCHANGED state
    BY <1>6 DEF CallStart, LoadCached, LoadFails, GatherServices, RejectServices,
       StartReturns, StartCancelled, AllStarted, Announce, StartDone, CallStop,
       StopReturns, StopCancelled, ShutdownReturns, ShutdownCancelled, StopDone
  <2>2. QED
    BY <2>1
<1>7. CASE UNCHANGED vars
  BY <1>7 DEF vars
<1>8. QED
  BY <1>1, <1>2, <1>3, <1>4, <1>5, <1>6, <1>7 DEF Next, StartSteps, StopSteps

\* Each module lives the life that ModuleLifecycle describes, although the
\* exception boundary writes _state behind the transition table.
THEOREM EngineImplementsLifecycle == Spec => Lifecycle
<1>1. Init => LifecycleOf!Init
  BY DEF Init, LifecycleOf!Init
<1>2. IInv /\ [Next]_vars => [LifecycleOf!Next]_state
  BY StepRefines DEF IInv
<1>3. QED
  BY <1>1, <1>2, EngineInvariant, PTL DEF Spec, Lifecycle, LifecycleOf!Spec
=============================================================================
