------------------------------ MODULE FileLock ------------------------------
(***************************************************************************)
(* FileLock (stack/lock.py): a lock file created with O_CREAT | O_EXCL,    *)
(* broken by whoever finds it older than the stale threshold.  Several     *)
(* processes, each with one FileLock object on the same path, run          *)
(* acquire() and release() interleaved at every system call; a process may *)
(* crash anywhere and leave its lock file behind.                          *)
(*                                                                         *)
(* Time enters only through ages: the file's age, the age a process will   *)
(* compute from the mtime it has read, and the time left to a deadline.    *)
(* Tick advances all of them; ages stop at StaleThreshold, beyond which    *)
(* the code tells nothing apart.                                           *)
(***************************************************************************)
EXTENDS Naturals

CONSTANTS
  Procs,            \* the processes
  NoOwner,          \* no lock file exists
  StaleThreshold,   \* FileLock._stale_threshold, in ticks
  MaxTimeout,       \* bound: the largest finite timeout of acquire()
  MaxFaults         \* bound: how many crashes and failed writes occur

ASSUME LockAssumption ==
  /\ NoOwner \notin Procs
  /\ StaleThreshold \in Nat \ {0}
  /\ MaxTimeout \in Nat
  /\ MaxFaults \in Nat

\* The deadline of acquire(timeout=0), float("inf").
Forever == MaxTimeout + 1

VARIABLES
  owner,      \* the process that created the lock file, NoOwner if there is none
  age,        \* time since the lock file was created or written
  pc,         \* where acquire() or release() of each process is
  seen,       \* age of the mtime that _try_break_stale has read
  left,       \* time left until the deadline of acquire()
  fd,         \* processes whose FileLock._fd is not None
  held,       \* processes whose acquire() returned True, until they release
  faults      \* crashes and failed writes so far

vars == <<owner, age, pc, seen, left, fd, held, faults>>

Locations == {"idle", "stat", "break", "open", "write", "check", "sleep", "unlink"}

Init ==
  /\ owner = NoOwner
  /\ age = 0
  /\ pc = [p \in Procs |-> "idle"]
  /\ seen = [p \in Procs |-> 0]
  /\ left = [p \in Procs |-> 0]
  /\ fd = {}
  /\ held = {}
  /\ faults = 0

Goto(p, l) == pc' = [pc EXCEPT ![p] = l]

\* acquire() ends; its deadline is forgotten.
Return(p) == Goto(p, "idle") /\ left' = [left EXCEPT ![p] = 0]

-----------------------------------------------------------------------------

\* acquire(timeout) is called: a negative timeout sets a deadline in the past
\* (0 left), a positive one in the future, and zero sets none.  A holder may
\* call it again.
CallAcquire(p) ==
  /\ pc[p] = "idle"
  /\ \E t \in 0..Forever : left' = [left EXCEPT ![p] = t]
  /\ Goto(p, "stat")
  /\ UNCHANGED <<owner, age, seen, fd, held, faults>>

\* _try_break_stale: stat() finds no file, or reads its mtime.
StatMissing(p) ==
  /\ pc[p] = "stat" /\ owner = NoOwner
  /\ Goto(p, "open")
  /\ UNCHANGED <<owner, age, seen, left, fd, held, faults>>

StatFile(p) ==
  /\ pc[p] = "stat" /\ owner # NoOwner
  /\ seen' = [seen EXCEPT ![p] = age]
  /\ Goto(p, "break")
  /\ UNCHANGED <<owner, age, left, fd, held, faults>>

\* Mutation of Stale: an old lock file is never considered stale.
NeverStale(p) == FALSE

\* The age computed after the stat reaches the threshold.
Stale(p) == seen[p] = StaleThreshold

\* unlink() removes whatever file is at the path by now, if any.
Break(p) ==
  /\ pc[p] = "break" /\ Stale(p)
  /\ owner' = NoOwner /\ age' = 0
  /\ Goto(p, "open") /\ seen' = [seen EXCEPT ![p] = 0]
  /\ UNCHANGED <<left, fd, held, faults>>

KeepFresh(p) ==
  /\ pc[p] = "break" /\ ~Stale(p)
  /\ Goto(p, "open") /\ seen' = [seen EXCEPT ![p] = 0]
  /\ UNCHANGED <<owner, age, left, fd, held, faults>>

\* Mutation of Create: the file is opened without O_EXCL.
CreateNotExclusive(p) ==
  /\ pc[p] = "open"
  /\ owner' = p /\ age' = 0
  /\ fd' = fd \cup {p}
  /\ Goto(p, "write")
  /\ UNCHANGED <<seen, left, held, faults>>

\* Mutation of Create: the descriptor is not kept in _fd.
CreateForgetsFd(p) ==
  /\ pc[p] = "open" /\ owner = NoOwner
  /\ owner' = p /\ age' = 0
  /\ Goto(p, "write")
  /\ UNCHANGED <<seen, left, fd, held, faults>>

\* open(O_CREAT | O_EXCL) succeeds and sets _fd.
Create(p) ==
  /\ pc[p] = "open" /\ owner = NoOwner
  /\ owner' = p /\ age' = 0
  /\ fd' = fd \cup {p}
  /\ Goto(p, "write")
  /\ UNCHANGED <<seen, left, held, faults>>

\* The path exists already (EEXIST).
CreateExists(p) ==
  /\ pc[p] = "open" /\ owner # NoOwner
  /\ Goto(p, "check")
  /\ UNCHANGED <<owner, age, seen, left, fd, held, faults>>

\* open() fails otherwise, as in a missing directory: StackLockError.
CreateFails(p) ==
  /\ pc[p] = "open"
  /\ Return(p)
  /\ UNCHANGED <<owner, age, seen, fd, held, faults>>

\* The PID is written (which renews the mtime of the file, if it is still
\* linked) and acquire() returns True.
WritePid(p) ==
  /\ pc[p] = "write"
  /\ age' = IF owner = p THEN 0 ELSE age
  /\ held' = held \cup {p}
  /\ Return(p)
  /\ UNCHANGED <<owner, seen, fd, faults>>

\* os.write fails (a full disk): StackLockError, with _fd set and the file there.
WriteFails(p) ==
  /\ pc[p] = "write"
  /\ Return(p)
  /\ faults < MaxFaults /\ faults' = faults + 1
  /\ UNCHANGED <<owner, age, seen, fd, held>>

\* Mutation of Expired: a process with a finite deadline never gives up.
NeverExpired(p) == FALSE

\* time.monotonic() >= deadline
Expired(p) == left[p] = 0

GiveUp(p) ==
  /\ pc[p] = "check" /\ Expired(p)
  /\ Return(p)
  /\ UNCHANGED <<owner, age, seen, fd, held, faults>>

Sleep(p) ==
  /\ pc[p] = "check" /\ ~Expired(p)
  /\ Goto(p, "sleep")
  /\ UNCHANGED <<owner, age, seen, left, fd, held, faults>>

Wake(p) ==
  /\ pc[p] = "sleep"
  /\ Goto(p, "stat")
  /\ UNCHANGED <<owner, age, seen, left, fd, held, faults>>

\* release(): _fd is closed and forgotten; the lock is given up although its
\* file is still there.  After a write failure the caller holds nothing but
\* release() still works.
ReleaseClose(p) ==
  /\ pc[p] = "idle" /\ p \in fd
  /\ fd' = fd \ {p}
  /\ held' = held \ {p}
  /\ Goto(p, "unlink")
  /\ UNCHANGED <<owner, age, seen, left, faults>>

\* Then unlink() removes whatever file is at the path by now, if any.
ReleaseUnlink(p) ==
  /\ pc[p] = "unlink"
  /\ owner' = NoOwner /\ age' = 0
  /\ Goto(p, "idle")
  /\ UNCHANGED <<seen, left, fd, held, faults>>

-----------------------------------------------------------------------------
(* The environment.                                                        *)

\* The process dies; its object is gone, its lock file stays.
Crash(p) ==
  /\ pc[p] # "idle" \/ p \in fd
  /\ Return(p)
  /\ fd' = fd \ {p}
  /\ held' = held \ {p}
  /\ seen' = [seen EXCEPT ![p] = 0]
  /\ faults < MaxFaults /\ faults' = faults + 1
  /\ UNCHANGED <<owner, age>>

Older(a) == IF a < StaleThreshold THEN a + 1 ELSE a

Sooner(t) == IF t = Forever \/ t = 0 THEN t ELSE t - 1

\* Time passes.
Tick ==
  /\ age' = IF owner = NoOwner THEN 0 ELSE Older(age)
  /\ seen' = [p \in Procs |-> IF pc[p] = "break" THEN Older(seen[p]) ELSE seen[p]]
  /\ left' = [p \in Procs |-> IF pc[p] = "idle" THEN left[p] ELSE Sooner(left[p])]
  /\ UNCHANGED <<owner, pc, fd, held, faults>>

Acquiring(p) ==
  \/ StatMissing(p) \/ StatFile(p) \/ Break(p) \/ KeepFresh(p)
  \/ Create(p) \/ CreateExists(p) \/ WritePid(p)
  \/ GiveUp(p) \/ Sleep(p) \/ Wake(p)

Step(p) ==
  \/ CallAcquire(p) \/ Acquiring(p) \/ CreateFails(p) \/ WriteFails(p)
  \/ ReleaseClose(p) \/ ReleaseUnlink(p) \/ Crash(p)

Next == Tick \/ \E p \in Procs : Step(p)

Spec == Init /\ [][Next]_vars

-----------------------------------------------------------------------------
(* Assumptions under which the lock is analysed.                           *)

\* No process keeps the lock as long as the threshold, and none is suspended
\* between two system calls of acquire() or release() for any time that counts.
HoldersAreTimely == \A p \in fd : owner = p => age < StaleThreshold
StepsArePrompt == Tick => \A p \in Procs : pc[p] \in {"idle", "sleep"}

PromptSpec == Init /\ [][Next /\ HoldersAreTimely' /\ StepsArePrompt]_vars

\* No lock file, and no observation of one, grows as old as the threshold: these
\* are the behaviours up to the moment when something first looks stale.
NothingGrowsStale ==
  /\ age < StaleThreshold
  /\ \A p \in Procs : pc[p] = "break" => seen[p] < StaleThreshold

FreshSpec == Init /\ [][Next /\ NothingGrowsStale']_vars

\* The lock file is still somebody's: its creator has it open, or has closed it
\* in release() and is about to unlink it.
InUse == owner \in fd \/ \E p \in Procs : p = owner /\ pc[p] = "unlink"

\* Locks are broken, but a break never hits the file of a process that still
\* has it open or is releasing it.
BreaksOnlyDead == \A p \in Procs : Break(p) => ~InUse

CleanSpec == Init /\ [][Next /\ BreaksOnlyDead]_vars

\* Processes keep running, sleeps end, time passes, and a holder that is not
\* calling acquire() again releases.
Fairness ==
  /\ WF_vars(Tick)
  /\ \A p \in Procs : WF_vars(Acquiring(p))
  /\ \A p \in Procs : WF_vars(ReleaseClose(p) /\ p \in held) /\ WF_vars(ReleaseUnlink(p))

FairSpec == Spec /\ Fairness

-----------------------------------------------------------------------------
(* Properties.                                                             *)

TypeOK ==
  /\ owner \in Procs \cup {NoOwner}
  /\ age \in 0..StaleThreshold
  /\ pc \in [Procs -> Locations]
  /\ seen \in [Procs -> 0..StaleThreshold]
  /\ left \in [Procs -> 0..Forever]
  /\ fd \subseteq Procs
  /\ held \subseteq fd
  /\ faults \in Nat

\* The lock's one promise: two processes never both believe that they hold it.
MutualExclusion == \A p, q \in held : p = q

\* The inductive strengthening: a process that has an open descriptor, one that
\* is between creating the file and writing its PID, and one that is between
\* closing the file and unlinking it owns the file.
Ownership ==
  /\ \A p \in fd : owner = p
  /\ \A p \in Procs : pc[p] = "write" => p \in fd
  /\ \A p \in Procs : pc[p] = "unlink" => owner = p /\ p \notin fd

\* release() removes the file that the releasing process created, although it
\* unlinks by path, never looks, and no longer has the file open when it does.
ReleaseOwnFile ==
  [][\A p \in Procs :
        pc[p] = "unlink" /\ pc'[p] = "idle" /\ owner # NoOwner /\ owner' = NoOwner
          => owner = p]_vars

\* While breaks hit only dead processes, the lock is an abstract mutex.
Exclusion == INSTANCE Mutex WITH holders <- held
IsMutex == Exclusion!Spec

\* acquire() with a finite deadline returns or raises: crashes, stale files and
\* contention never keep a caller beyond its deadline for good.
AcquireReturns ==
  \A p \in Procs :
    pc[p] # "idle" /\ left[p] # Forever ~> pc[p] = "idle"

\* A lock file left by a dead process does not lock the others out: as long as
\* somebody waits for it, the lock changes hands.
SomebodyGetsIn ==
  \A p \in Procs :
    pc[p] # "idle" /\ left[p] = Forever ~> pc[p] = "idle" \/ held # {}
=============================================================================
