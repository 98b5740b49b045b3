--------------------------- MODULE FileLockProofs ---------------------------
(***************************************************************************)
(* FileLock is a mutual exclusion lock for every number of processes, every *)
(* threshold and every timeout, as long as a break never hits the file of a *)
(* process that still has it open or is in the middle of release()          *)
(* (CleanSpec); and it is so up to the       *)
(* moment when something first looks stale (FreshSpec).                     *)
(*                                                                          *)
(* MutualExclusion is not inductive: release() and a break unlink by path.  *)
(* Ownership, that whoever has the file open or is about to unlink it       *)
(* created the file that is there now, is what makes them remove the right file.                     *)
(***************************************************************************)
EXTENDS FileLock, TLAPS

IInv == TypeOK /\ Ownership

CleanNext == Next /\ BreaksOnlyDead

LEMMA ForeverType == Forever \in Nat /\ 0 \in 0..Forever
BY LockAssumption DEF Forever

LEMMA InitInv == Init => IInv
BY LockAssumption, ForeverType DEF Init, IInv, TypeOK, Ownership, Locations

\* Time changes ages and deadlines only.
LEMMA TickInv == IInv /\ Tick => IInv'
<1> SUFFICES ASSUME IInv, Tick PROVE IInv'
  OBVIOUS
<1>1. age' \in 0..StaleThreshold
  BY LockAssumption DEF IInv, TypeOK, Tick, Older
<1>2. seen' \in [Procs -> 0..StaleThreshold]
  BY LockAssumption DEF IInv, TypeOK, Tick, Older
<1>3. left' \in [Procs -> 0..Forever]
  BY LockAssumption, ForeverType DEF IInv, TypeOK, Tick, Sooner
<1>4. QED
  BY <1>1, <1>2, <1>3 DEF IInv, TypeOK, Ownership, Tick

\* The steps of acquire() that neither create nor remove a file.
LEMMA ReadingInv ==
  ASSUME NEW p \in Procs, IInv,
         \/ CallAcquire(p) \/ StatMissing(p) \/ StatFile(p) \/ KeepFresh(p)
         \/ CreateExists(p) \/ CreateFails(p) \/ GiveUp(p) \/ Sleep(p) \/ Wake(p)
  PROVE  IInv'
<1> USE LockAssumption, ForeverType DEF IInv, TypeOK, Ownership, Goto, Return, Locations
<1>1. CASE CallAcquire(p)  BY <1>1 DEF CallAcquire
<1>2. CASE StatMissing(p)  BY <1>2 DEF StatMissing
<1>3. CASE StatFile(p)     BY <1>3 DEF StatFile
<1>4. CASE KeepFresh(p)    BY <1>4 DEF KeepFresh
<1>5. CASE CreateExists(p) BY <1>5 DEF CreateExists
<1>6. CASE CreateFails(p)  BY <1>6 DEF CreateFails
<1>7. CASE GiveUp(p)       BY <1>7 DEF GiveUp
<1>8. CASE Sleep(p)        BY <1>8 DEF Sleep
<1>9. CASE Wake(p)         BY <1>9 DEF Wake
<1>10. QED
  BY <1>1, <1>2, <1>3, <1>4, <1>5, <1>6, <1>7, <1>8, <1>9

\* A break keeps the invariant when the file it removes belongs to nobody alive:
\* then no process has an open descriptor at all.
LEMMA BreakInv ==
  ASSUME NEW p \in Procs, IInv, Break(p), BreaksOnlyDead
  PROVE  IInv'
<1>1. ~InUse
  BY DEF BreaksOnlyDead
<1>2. fd = {} /\ \A q \in Procs : pc[q] # "unlink"
  BY <1>1 DEF IInv, Ownership, InUse
<1>3. TypeOK'
  BY LockAssumption DEF IInv, TypeOK, Break, Goto, Locations
<1>4. Ownership'
  BY <1>2 DEF IInv, TypeOK, Ownership, Break, Goto
<1>5. QED
  BY <1>3, <1>4 DEF IInv

\* The steps that create the file, write the PID, fail to, release and crash.
LEMMA WritingInv ==
  ASSUME NEW p \in Procs, IInv,
         \/ Create(p) \/ WritePid(p) \/ WriteFails(p)
         \/ ReleaseClose(p) \/ ReleaseUnlink(p) \/ Crash(p)
  PROVE  IInv'
<1> USE LockAssumption, ForeverType DEF IInv, TypeOK, Ownership, Goto, Return, Locations
<1>1. CASE Create(p)     BY <1>1 DEF Create
<1>2. CASE WritePid(p)   BY <1>2 DEF WritePid
<1>3. CASE WriteFails(p) BY <1>3 DEF WriteFails
<1>4. CASE ReleaseClose(p)  BY <1>4 DEF ReleaseClose
<1>5. CASE ReleaseUnlink(p)
  <2>1. fd = {} \/ fd = {p}
    BY <1>5 DEF ReleaseUnlink
  <2>2. p \notin fd
    BY <1>5 DEF ReleaseUnlink
  <2>3. \A q \in Procs : pc[q] = "unlink" => q = p
    BY <1>5 DEF ReleaseUnlink
  <2>4. QED
    BY <1>5, <2>1, <2>2, <2>3 DEF ReleaseUnlink
<1>6. CASE Crash(p)      BY <1>6 DEF Crash
<1>7. QED
  BY <1>1, <1>2, <1>3, <1>4, <1>5, <1>6

LEMMA NextInv == IInv /\ [CleanNext]_vars => IInv'
<1> SUFFICES ASSUME IInv, [CleanNext]_vars PROVE IInv'
  OBVIOUS
<1>1. CASE Tick
  BY <1>1, TickInv
<1>2. ASSUME NEW p \in Procs, Step(p), BreaksOnlyDead PROVE IInv'
  BY <1>2, ReadingInv, BreakInv, WritingInv DEF Step, Acquiring
<1>3. CASE UNCHANGED vars
  BY <1>3 DEF IInv, TypeOK, Ownership, vars
<1>4. QED
  BY <1>1, <1>2, <1>3 DEF CleanNext, Next

THEOREM CleanInvariant == CleanSpec => []IInv
<1>1. Init => IInv
  BY InitInv
<1>2. IInv /\ [CleanNext]_vars => IInv'
  BY NextInv
<1>3. QED
  BY <1>1, <1>2, PTL DEF CleanSpec, CleanNext

\* The variables of FileLock keep their types (lock.py, FileLock).
THEOREM LockTypeCorrect == CleanSpec => []TypeOK
BY CleanInvariant, PTL DEF IInv

\* Whoever has the file open created the file that is at the path, as long as a break
\* hits only the files of dead processes (FileLock.acquire and release).
THEOREM LockOwnership == CleanSpec => []Ownership
BY CleanInvariant, PTL DEF IInv

\* Two processes never both hold the lock while breaks hit only the files of
\* dead processes (FileLock.acquire, release and _try_break_stale).
THEOREM LockMutualExclusion == CleanSpec => []MutualExclusion
<1>1. IInv => MutualExclusion
  BY DEF IInv, TypeOK, Ownership, MutualExclusion
<1>2. QED
  BY <1>1, CleanInvariant, PTL

\* release() unlinks by path, and yet removes only the releaser's own file.
THEOREM LockReleaseOwnFile == CleanSpec => ReleaseOwnFile
<1>1. IInv /\ [CleanNext]_vars =>
        [\A p \in Procs :
            pc[p] = "unlink" /\ pc'[p] = "idle" /\ owner # NoOwner /\ owner' = NoOwner
              => owner = p]_vars
  BY DEF IInv, Ownership
<1>2. QED
  BY <1>1, CleanInvariant, PTL DEF CleanSpec, CleanNext, ReleaseOwnFile

-----------------------------------------------------------------------------
(* Refinement of Mutex by the set of processes that hold the lock.          *)

LEMMA StepRefines ==
  ASSUME IInv, [CleanNext]_vars
  PROVE  [Exclusion!Next]_held
<1>1. ASSUME NEW p \in Procs, WritePid(p)
      PROVE  [Exclusion!Next]_held
  <2>1. p \in fd /\ \A q \in held : q = p
    BY <1>1 DEF IInv, TypeOK, Ownership, WritePid
  <2>2. CASE p \in held
    <3>1. held' = held
      BY <1>1, <2>2 DEF WritePid
    <3>2. QED
      BY <3>1
  <2>3. CASE p \notin held
    <3>1. held = {} /\ held' = {p}
      BY <1>1, <2>1, <2>3 DEF WritePid
    <3>2. Exclusion!Enter(p)
      BY <3>1 DEF Exclusion!Enter
    <3>3. QED
      BY <3>2 DEF Exclusion!Next
  <2>4. QED
    BY <2>2, <2>3
<1>2. ASSUME NEW p \in Procs, ReleaseClose(p) \/ Crash(p)
      PROVE  [Exclusion!Next]_held
  <2>1. held' = held \ {p}
    BY <1>2 DEF ReleaseClose, Crash
  <2>2. CASE p \in held
    BY <2>1, <2>2 DEF Exclusion!Next, Exclusion!Leave
  <2>3. CASE p \notin held
    <3>1. held' = held
      BY <2>1, <2>3
    <3>2. QED
      BY <3>1
  <2>4. QED
    BY <2>2, <2>3
<1>3. ASSUME NEW p \in Procs, Step(p)
      PROVE  WritePid(p) \/ ReleaseClose(p) \/ Crash(p) \/ held' = held
  BY <1>3 DEF Step, Acquiring, CallAcquire, StatMissing, StatFile, Break, KeepFresh,
     Create, CreateExists, GiveUp, Sleep, Wake, CreateFails, WriteFails, ReleaseUnlink
<1>4. QED
  BY <1>1, <1>2, <1>3 DEF CleanNext, Next, Tick, vars

\* While breaks are clean, FileLock implements the abstract mutex.
THEOREM LockIsMutex == CleanSpec => IsMutex
<1>1. Init => Exclusion!Init
  BY DEF Init, Exclusion!Init
<1>2. IInv /\ [CleanNext]_vars => [Exclusion!Next]_held
  BY StepRefines
<1>3. QED
  BY <1>1, <1>2, CleanInvariant, PTL DEF CleanSpec, CleanNext, IsMutex, Exclusion!Spec

-----------------------------------------------------------------------------
(* Nothing stale, nothing broken.                                           *)

\* Up to the moment when a lock file or an observation of one first grows as
\* old as the threshold, every break is clean, because there is none.
THEOREM FreshIsClean == FreshSpec => CleanSpec
<1>1. Init => NothingGrowsStale
  BY LockAssumption DEF Init, NothingGrowsStale
<1>2. NothingGrowsStale /\ [Next /\ NothingGrowsStale']_vars => NothingGrowsStale'
  BY DEF NothingGrowsStale, vars
<1>3. NothingGrowsStale => BreaksOnlyDead
  BY LockAssumption DEF NothingGrowsStale, BreaksOnlyDead, Break, Stale
<1>4. NothingGrowsStale /\ [Next /\ NothingGrowsStale']_vars => [Next /\ BreaksOnlyDead]_vars
  BY <1>3
<1>5. QED
  BY <1>1, <1>2, <1>4, PTL DEF FreshSpec, CleanSpec

\* So the lock excludes until something looks stale: what a holder has to fear
\* is the clock, not the other processes.
THEOREM FreshMutualExclusion == FreshSpec => []MutualExclusion
BY FreshIsClean, LockMutualExclusion, PTL

\* Until then release() unlinks nobody else's file either: the window between
\* its close and its unlink is harmless as long as nothing is broken in it.
THEOREM FreshReleaseOwnFile == FreshSpec => ReleaseOwnFile
BY FreshIsClean, LockReleaseOwnFile, PTL
=============================================================================
