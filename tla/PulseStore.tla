---- MODULE PulseStore ----
(***************************************************************************)
(* The measurements of apoch/modules/pulse/{module,storage,events}.py: an  *)
(* append-only table in SQLite, or a dictionary that ends with the module. *)
(* Times are hours, money and durations are counted in small units.        *)
(***************************************************************************)
EXTENDS Sequences, SequencesExt, Builtins

CONSTANTS
    Samples,      \* what callers measure: model, tokens, duration, cost, lines
    SystemModel,  \* the model name the event subscriber records
    Pricing,      \* model_pricing: the price of a token, NoValue where there is none
    Limit,        \* WorkUnitFilter.limit
    Earlier,      \* system events an earlier process has left in the file
    MaxRecords,   \* bound: record() calls
    Steps,        \* bound: by how many hours the clock may move at once
    MaxHours      \* bound: the clock

System == [model |-> SystemModel, tokens_input |-> 0, tokens_output |-> 0, wall_clock_s |-> 0,
           cost |-> NoValue, lines_original |-> 0, lines_modified |-> 0]

ASSUME StoreAssumption ==
    /\ System \in Samples
    /\ Limit \in Nat \ {0} /\ Earlier \in Nat /\ MaxRecords \in Nat /\ MaxHours \in Nat
    /\ Steps \subseteq Nat \ {0}
    /\ \A m \in DOMAIN Pricing : Pricing[m] \in Nat \cup {NoValue}
    /\ \A s \in Samples :
         /\ s.model \in DOMAIN Pricing /\ s.cost \in Nat \cup {NoValue}
         /\ {s.tokens_input, s.tokens_output, s.wall_clock_s} \subseteq Nat

VARIABLES
    backend,    \* what the configuration says: "sqlite" or "memory"
    pulseStore, \* Pulse._store: none, open, or on a database that fails
    units,      \* the work units, in the order they were saved
    hour,       \* the clock
    records     \* bound: record() calls

pulseVars == <<backend, pulseStore, units, hour, records>>

Identified(sample, id, at) ==
    [id |-> id, at |-> at, model |-> sample.model, tokens_input |-> sample.tokens_input,
     tokens_output |-> sample.tokens_output, wall_clock_s |-> sample.wall_clock_s,
     cost |-> sample.cost, lines_original |-> sample.lines_original,
     lines_modified |-> sample.lines_modified]

PulseInit ==
    /\ backend \in {"sqlite", "memory"} /\ pulseStore = "none" /\ hour = 0 /\ records = 0
    /\ \/ units = <<>>
       \/ backend = "sqlite" /\ units = [i \in 1..Earlier |-> Identified(System, i, 0)]

\* start(): connect() or the schema may fail, the latter with the store already set.
Start ==
    /\ pulseStore = "none"
    /\ pulseStore' \in IF backend = "sqlite" THEN {"none", "broken", "open"} ELSE {"open"}
    /\ UNCHANGED <<backend, units, hour, records>>

\* stop(), or the end of the process.
Stop ==
    /\ pulseStore # "none" /\ pulseStore' = "none"
    /\ units' = IF backend = "memory" THEN <<>> ELSE units
    /\ UNCHANGED <<backend, hour, records>>

\* record(): a cost that was not measured is computed, if the model has a price.
Priced(s) ==
    IF s.cost = NoValue /\ Pricing[s.model] # NoValue
      THEN [s EXCEPT !.cost = (s.tokens_input + s.tokens_output) * Pricing[s.model]]
      ELSE s

\* Mutation of Saved: a measurement replaces the one recorded under its identifier.
Replaced(u) == IF \E i \in DOMAIN units : units[i].id = u.id
                 THEN [i \in DOMAIN units |-> IF units[i].id = u.id THEN u ELSE units[i]]
                 ELSE Append(units, u)

\* save(): an identifier that is taken is refused with a StorageError, as is every save
\* on a database that fails; without a store the call raises too.
Saved(u) == IF \E i \in DOMAIN units : units[i].id = u.id THEN units ELSE Append(units, u)

Record(s, id) ==
    /\ records < MaxRecords /\ records' = records + 1
    /\ units' = IF pulseStore = "open" THEN Saved(Identified(Priced(s), id, hour)) ELSE units
    /\ UNCHANGED <<backend, pulseStore, hour>>

\* The subscriber's measurement of a tool.completed event, under its event_id; it ignores a
\* duplicate.  The engine's own events never get this far (Gateway, Emitted).
HandleEvent(id) == Record(System, id)

HoursPass == \E d \in Steps :
    /\ hour + d <= MaxHours /\ hour' = hour + d
    /\ UNCHANGED <<backend, pulseStore, units, records>>

\* An identifier is a new one, or taken if there are units.
PulseNext ==
    \/ Start \/ Stop \/ HoursPass
    \/ \E id \in {1, Len(units) + 1} :
        HandleEvent(id) \/ \E s \in Samples \ {System} : Record(s, id)

PulseSpec == PulseInit /\ [][PulseNext]_pulseVars

-----------------------------------------------------------------------------
\* list(): newest first and at most Limit; a store that fails raises, which the readers
\* take for an empty list.
NewestFirst ==
    LET order == Ordered(DOMAIN units, {p \in (DOMAIN units) \X (DOMAIN units) :
            \/ units[p[1]].at > units[p[2]].at
            \/ units[p[1]].at = units[p[2]].at /\ p[1] < p[2]})
    IN  [k \in DOMAIN units |-> units[order[k]]]
Listed == IF pulseStore # "open" THEN <<>>
          ELSE SubSeq(NewestFirst, 1, Smaller(Len(units), Limit))

-----------------------------------------------------------------------------
\* Whatever is saved, refused, stopped and started again, a measurement stays what it
\* was, and only a store in memory forgets (pulse/storage.py:155-207).
Promise == INSTANCE Ledger WITH entries <- Range(units), durable <- (backend = "sqlite")
AppendOnly == Promise!Spec
====
