---- MODULE Archive ----
(***************************************************************************)
(* What happens to a log entry: apoch/modules/vision/module.py keeps it in *)
(* a ring buffer and a rotating file and hands it, by a task of the event  *)
(* loop nobody waits for, to apoch/modules/chronicle/{module,storage}.py,  *)
(* whose SQLite table outlives the process and is pruned when it starts.   *)
(* One process at a time is followed; those that have the same table open  *)
(* at the same time appear by what they do to it.                          *)
(***************************************************************************)
EXTENDS Sequences, SequencesExt, Builtins

CONSTANTS
    Levels,        \* severities
    BufferSize,    \* capacity of the ring buffer
    FileSize,      \* entries the rotating file and its backups hold
    Retention,     \* retention_days, in ticks of the clock
    OtherProcesses,   \* the processes beside the one that is followed
    MaxEntries,    \* bound: log() calls and tool calls
    MaxTime,       \* bound: ticks
    MaxRuns        \* bound: processes that are followed, one after the other

ASSUME ArchiveAssumption ==
    /\ {BufferSize, FileSize, Retention, MaxEntries, MaxTime, MaxRuns} \subseteq Nat
    /\ BufferSize > 0 /\ FileSize > 0 /\ MaxRuns > 0 /\ Levels # {}
    /\ OtherProcesses \subseteq Nat /\ OtherProcesses \cap 1..MaxRuns = {}

VARIABLES
    run,       \* os.getpid(): the process
    phase,     \* how far registry.start_all() and stop_all() are
    store,     \* Chronicle._store: None, open, or open on a database that fails
    sink,      \* Vision._event_sink is set
    handler,   \* Vision._handler is set
    buffer,    \* Vision._buffer, oldest first
    lines,     \* what the log file and its backups have of this process, oldest first
    tasks,     \* scheduled _ensure_sink() calls, in the order they will run
    db,        \* the events table
    now,       \* the clock
    logged,    \* every entry of this process: what a caller asked to be logged
    warned,    \* the entries this process has warned it did not archive
    floor,     \* the latest instant up to which rows have been pruned
    count      \* bound: entries

chronicle == <<store, db, floor>>
vision == <<sink, handler, buffer, lines, logged, warned>>
vars == <<run, phase, store, sink, handler, buffer, lines, tasks, db, now, logged, warned, floor, count>>

Entries == [n : 1..MaxEntries, at : 0..MaxTime, level : Levels, fits : BOOLEAN, due : BOOLEAN]
Rows == [id : Seq(Nat), n : 1..MaxEntries, at : 0..MaxTime, type : {"log", "tool"},
         level : Levels \cup {"info"}]

TypeOK ==
    /\ run \in 1..MaxRuns /\ now \in 0..MaxTime /\ floor \in 0..MaxTime /\ count \in 0..MaxEntries
    /\ phase \in {"loaded", "chronicle", "up", "stopping", "stopped", "gone"}
    /\ store \in {"none", "open", "broken"} /\ sink \in BOOLEAN /\ handler \in BOOLEAN
    /\ buffer \in Seq(Entries) /\ Len(buffer) <= BufferSize
    /\ lines \in Seq(Entries) /\ Len(lines) <= FileSize
    /\ tasks \in Seq(Entries) /\ logged \in Seq(Entries) /\ warned \subseteq Entries
    /\ db \subseteq Rows
    /\ \A a, b \in db : a.id = b.id => a = b

Init ==
    /\ run = 1 /\ phase = "loaded" /\ store = "none" /\ sink = FALSE /\ handler = FALSE
    /\ buffer = <<>> /\ lines = <<>> /\ tasks = <<>> /\ db = {} /\ now = 0
    /\ logged = <<>> /\ warned = {} /\ floor = 0 /\ count = 0

Newest(s, k) == IF Len(s) <= k THEN s ELSE SubSeq(s, Len(s) - k + 1, Len(s))

(***************************************************************************)
(* Chronicle: the store                                                    *)
(***************************************************************************)
Cutoff == IF now > Retention THEN now - Retention ELSE 0
\* Mutation of Kept: what is as old as the limit goes too.
KeptNewer(rows, before) == {r \in rows : r.at > before}
Kept(rows, before) == {r \in rows : r.at >= before}

Prune(before) ==
    /\ db' = Kept(db, before)
    /\ floor' = IF before > floor THEN before ELSE floor

\* connect() may fail, the schema may fail with the store already set, and a failed
\* prune is swallowed.
ChronicleStart ==
    /\ phase = "loaded" /\ phase' = "chronicle"
    /\ \/ store' \in {"none", "broken", "open"} /\ UNCHANGED <<db, floor>>
       \/ store' = "open" /\ Prune(Cutoff)
    /\ UNCHANGED <<run, vision, tasks, now, count>>

\* INSERT OR IGNORE: the first row with an id stays.
Insert(rows, row) == IF \E r \in rows : r.id = row.id THEN rows ELSE rows \cup {row}

\* A stop() after a failed start is refused and leaves the store as it is.
ChronicleStop ==
    /\ phase = "stopping" /\ phase' = "stopped"
    /\ store' = IF store = "open" THEN "none" ELSE store
    /\ UNCHANGED <<run, vision, tasks, db, floor, now, count>>

\* record_tool(): without a store, or when the INSERT fails on a locked database or a full
\* disk, the call raises, and nothing is recorded.
RecordTool ==
    /\ phase # "gone" /\ count < MaxEntries
    /\ \/ UNCHANGED <<db, count>>
       \/ /\ store # "none" /\ count' = count + 1
          /\ db' = Insert(db, [id |-> <<count'>>, n |-> count', at |-> now,
                               type |-> "tool", level |-> "info"])
    /\ UNCHANGED <<run, phase, store, vision, tasks, floor, now>>

\* prune() of this process, or of one beside it, which prunes when it starts.
PruneBefore(t) ==
    /\ Prune(t)
    /\ UNCHANGED <<run, phase, store, vision, tasks, now, count>>

\* A process beside this one archives an entry that it logged earlier or just now.
OtherDelivers ==
    /\ count < MaxEntries /\ count' = count + 1
    /\ \E p \in OtherProcesses, at \in 0..now, l \in Levels :
         db' = Insert(db, [id |-> <<at, p>>, n |-> count', at |-> at, type |-> "log", level |-> l])
    /\ UNCHANGED <<run, phase, store, vision, tasks, floor, now>>

\* query(): the rows of a type (and a severity), newest first, at most limit of them;
\* in which order rows of the same instant come is not defined.
Matches(type, levels) == {r \in db : r.type = type /\ r.level \in levels}
IsAnswer(rows, all, limit) ==
    /\ Range(rows) \subseteq all /\ IsInjective(rows)
    /\ Len(rows) = IF Cardinality(all) < limit THEN Cardinality(all) ELSE limit
    /\ \A i, j \in DOMAIN rows : i < j => rows[i].at >= rows[j].at
    /\ \A r \in all \ Range(rows) : \A i \in DOMAIN rows : rows[i].at >= r.at

(***************************************************************************)
(* Vision: the live window                                                 *)
(***************************************************************************)
\* Services are gathered before anything starts, so the sink is there even when
\* Chronicle has failed; without a writable directory there is no file.
VisionStart ==
    /\ phase = "chronicle" /\ phase' = "up"
    /\ sink' = TRUE /\ handler' \in BOOLEAN
    /\ UNCHANGED <<run, chronicle, buffer, lines, tasks, now, logged, warned, count>>

VisionStop ==
    /\ phase = "up" /\ phase' = "stopping"
    /\ handler' = FALSE
    /\ UNCHANGED <<run, chronicle, sink, buffer, lines, tasks, now, logged, warned, count>>

\* log(): callable in every state. A context that json cannot write is refused by the
\* formatter, and the handler drops the line.
Log(level, fits) ==
    LET e == [n |-> count + 1, at |-> now, level |-> level, fits |-> fits, due |-> sink] IN
    /\ phase # "gone" /\ count < MaxEntries /\ count' = count + 1
    /\ logged' = Append(logged, e)
    /\ buffer' = Newest(Append(buffer, e), BufferSize)
    /\ lines' = IF handler /\ fits THEN Newest(Append(lines, e), FileSize) ELSE lines
    /\ tasks' = IF sink THEN Append(tasks, e) ELSE tasks
    /\ UNCHANGED <<run, phase, chronicle, sink, handler, warned, now>>

\* The row of an entry: its id is the instant and the process.
Row(e) == [id |-> <<e.at, run>>, n |-> e.n, at |-> e.at, type |-> "log", level |-> e.level]

\* Mutation of Deliver: of what is waiting only the last is recorded.
DeliverLast ==
    /\ phase # "gone" /\ tasks # <<>> /\ tasks' = <<>>
    /\ db' = IF store # "none" /\ Last(tasks).fits THEN Insert(db, Row(Last(tasks))) ELSE db
    /\ UNCHANGED <<run, phase, store, floor, vision, now, count>>

\* _ensure_sink() runs when the loop gets to it, also after Chronicle has stopped.
\* Whatever record() raises is a warning: there is no store, json cannot write the
\* context, or the INSERT fails, which it may whenever it is tried.
Deliver ==
    /\ phase # "gone" /\ tasks # <<>> /\ tasks' = Tail(tasks)
    /\ \/ store # "none" /\ Head(tasks).fits /\ db' = Insert(db, Row(Head(tasks))) /\ UNCHANGED warned
       \/ db' = db /\ warned' = warned \cup {Head(tasks)}
    /\ UNCHANGED <<run, phase, store, floor, sink, handler, buffer, lines, logged, now, count>>

\* Mutation of Recent: the limit before the filter.
RecentCut(limit, levels) ==
    LET hits == {i \in DOMAIN buffer : buffer[i].level \in levels /\ i > Len(buffer) - limit}
    IN  [k \in 1..Cardinality(hits) |-> buffer[Descending(hits)[k]]]

\* recent(): newest first, the filter before the limit.
Recent(limit, levels) ==
    LET hits == {i \in DOMAIN buffer : buffer[i].level \in levels}
    IN  [k \in 1..Smaller(Cardinality(hits), limit) |-> buffer[Descending(hits)[k]]]

(***************************************************************************)
(* The process and the clock                                               *)
(***************************************************************************)
\* The process ends, orderly or not, and takes the loop and its tasks along.
Exit ==
    /\ phase # "gone" /\ phase' = "gone"
    /\ tasks' = <<>> /\ buffer' = <<>> /\ lines' = <<>> /\ logged' = <<>> /\ warned' = {}
    /\ store' = "none" /\ sink' = FALSE /\ handler' = FALSE
    /\ UNCHANGED <<run, db, floor, now, count>>

\* The next process that is followed; those of OtherProcesses come and go as they like.
Restart ==
    /\ phase = "gone" /\ run < MaxRuns /\ run' = run + 1 /\ phase' = "loaded"
    /\ UNCHANGED <<chronicle, vision, tasks, now, count>>

Tick ==
    /\ now < MaxTime /\ now' = now + 1
    /\ UNCHANGED <<run, phase, chronicle, vision, tasks, count>>

Next ==
    \/ ChronicleStart \/ VisionStart \/ VisionStop \/ ChronicleStop
    \/ \E l \in Levels, fits \in BOOLEAN : Log(l, fits)
    \/ Deliver \/ RecordTool \/ OtherDelivers \/ \E t \in 0..MaxTime : PruneBefore(t)
    \/ Exit \/ Restart \/ Tick

Spec == Init /\ [][Next]_vars

(***************************************************************************)
(* Properties                                                              *)
(***************************************************************************)
\* Lost: no row, no warning, not pruned.
Lost(e) == e.due /\ Row(e) \notin db /\ e \notin warned /\ e.at >= floor

\* When the loop has run dry, an entry that was handed over and has neither a row nor a
\* warning was pruned, or gave way to another entry of its instant: whatever else fails is
\* told, also after Chronicle has stopped (vision/module.py:203-226).
LossesAreTold ==
    tasks = <<>> =>
        \A e \in Range(logged) : Lost(e) =>
            \E f \in Range(logged) : f # e /\ f.at = e.at /\ Row(f) \in db

Foreign == {r \in db : r.type = "log" /\ r.id[2] \in OtherProcesses}

\* The live window and the archive answer alike: what recent() shows is what a query for
\* the same severity may answer, if what it shows is archived and the rows of
\* processes that run beside are set aside (vision/module.py:205, 233,
\* chronicle/storage.py:80).
WindowAgreesWithArchive ==
    \A l \in Levels, limit \in 1..BufferSize :
        LET window == Recent(limit, {l})
            rows == [i \in DOMAIN window |-> Row(window[i])]
        IN  Cardinality({i \in DOMAIN buffer : buffer[i].level = l}) >= limit /\ Range(rows) \subseteq db
                => IsAnswer(rows, Matches("log", {l}) \ Foreign, limit)

\* A row goes only when it is older than what a prune has asked for; no stop, crash,
\* restart or later entry with the same id takes or changes it (chronicle/storage.py:133).
RowsAreKept == [][\A r \in db \ db' : r.at < floor']_vars

(***************************************************************************)
(* What documents say and the code does not keep (README, section 6): TLC  *)
(* shows how when one of these takes the place of the properties above.    *)
(***************************************************************************)
\* vision/module.py:155: an entry is forwarded to Chronicle for archival, unless a warning
\* says that it was not.
EntriesAreForwarded == tasks = <<>> => \A e \in Range(logged) : ~Lost(e)

\* vision/module.py:159: of a context that json cannot write only the problematic key is
\* left out; the entry is in the file.
BadKeysAreSkipped ==
    [][handler /\ Len(logged') > Len(logged) => Last(logged') \in Range(lines')]_vars
====
