---- MODULE Insight ----
(***************************************************************************)
(* From measurements to recommendations: what apoch/modules/optimizer      *)
(* (module.py) and apoch/modules/oracle (engine.py, module.py) make of the *)
(* work units that Pulse lists.  Both are read-only and hold no state of   *)
(* their own: every answer is a function of the store and the clock.       *)
(***************************************************************************)
EXTENDS PulseStore, PulseAnalysis, Detectors

\* OptimizerModule._detectors, in the order of registration.
Findings(list) == <<Baseline(list), Degradation(list), ModelEfficiency(list), Anomaly(list),
                    SessionPattern(list), ReworkCorrelation(list)>>

\* _run_cycle(): the findings of each detector, the surest first; a detector that fails
\* is left out and the others are not.
Surest(found) ==
    LET order == Ordered(DOMAIN found, {p \in (DOMAIN found) \X (DOMAIN found) :
            \/ found[p[1]].confidence > found[p[2]].confidence
            \/ found[p[1]].confidence = found[p[2]].confidence /\ p[1] < p[2]})
    IN  [k \in DOMAIN found |-> found[order[k]]]
Hypotheses(list, failing) ==
    LET found == Findings(list)
        Found(d) == IF d \in failing THEN <<>> ELSE Surest(found[d])
    IN  Found(1) \o Found(2) \o Found(3) \o Found(4) \o Found(5) \o Found(6)

-----------------------------------------------------------------------------
Tiers == <<"critical", "high", "medium", "low">>
Rank(priority) == CHOOSE k \in DOMAIN Tiers : Tiers[k] = priority

\* _PRIORITY_MAP
Base(h) ==
    LET is(domain, type) == h.domain = domain /\ h.type = type IN
    CASE is("cost", "anomaly") -> <<"critical", 900>>
      [] is("rework", "anomaly") \/ is("time", "anomaly") -> <<"high", 850>>
      [] is("cost", "pattern") -> <<"high", 800>>
      [] is("model_efficiency", "pattern") -> <<"medium", 750>>
      [] is("model_efficiency", "opportunity") \/ is("rework", "pattern")
           \/ is("time", "pattern") \/ is("time", "opportunity") -> <<"medium", 700>>
      [] is("session_behavior", "pattern") -> <<"low", 600>>
      [] is("session_behavior", "anomaly") -> <<"low", 550>>
      [] OTHER -> <<"low", 500>>

\* _apply_bonus(): one tier up for what is all but certain.
Bonus(h, priority) ==
    IF h.confidence >= 900 /\ h.domain \in {"cost", "time", "rework"} /\ priority # "critical"
      THEN Tiers[Rank(priority) - 1] ELSE priority

\* _DEFAULT_TTLS in hours.
Lifetime(priority) ==
    CASE priority = "critical" -> 1 [] priority = "high" -> 4
      [] priority = "medium" -> 8 [] priority = "low" -> 24

\* The confidence is that of the table; no module publishes guardian.diagnostics or
\* vision.module_state, so that nothing lowers it; and it has just been made, so that
\* none has expired.
Recommendation(h, created) ==
    LET priority == Bonus(h, Base(h)[1]) IN
    [priority |-> priority, confidence |-> Base(h)[2], domain |-> h.domain,
     created |-> created, expires |-> created + Lifetime(priority)]

\* generate(): hypotheses are made on the way, so they are as old as the answer, and
\* created_at, the third sort key, grows with their place in the list.
Made(hypotheses) == [k \in DOMAIN hypotheses |-> Recommendation(hypotheses[k], hour)]
Precedes(made, i, j) ==
    LET a == <<Rank(made[i].priority), -made[i].confidence, i>>
        b == <<Rank(made[j].priority), -made[j].confidence, j>>
    IN  \E k \in 1..3 : a[k] < b[k] /\ \A l \in 1..(k - 1) : a[l] = b[l]
InOrder(made) ==
    LET order == Ordered(DOMAIN made, {p \in (DOMAIN made) \X (DOMAIN made) : Precedes(made, p[1], p[2])})
    IN  [k \in DOMAIN made |-> made[order[k]]]
Recommendations(list, failing) == InOrder(Made(Hypotheses(list, failing)))

(***************************************************************************)
(* Properties                                                              *)
(***************************************************************************)
PulseTypeOK ==
    /\ backend \in {"sqlite", "memory"} /\ pulseStore \in {"none", "broken", "open"}
    /\ Len(units) <= Earlier + MaxRecords
    /\ hour \in 0..MaxHours /\ records \in 0..MaxRecords
    /\ backend = "memory" /\ pulseStore = "none" => units = <<>>
    /\ \A i, j \in DOMAIN units : units[i].id = units[j].id => i = j

\* A trend and the summary tell the same story for every length of period: each unit is
\* counted in the one period it lies in (pulse/analysis.py:110, 150, 217).
TrendAddsUp ==
    \A days \in 1..3 : LET list == Listed  points == Trend(list, days) IN
        /\ Total([p \in points |-> p.tokens]) = Summary(list).tokens
        /\ Total([p \in points |-> p.cost]) = Summary(list).cost
        /\ \A p \in points :
             p.count = Cardinality({i \in DOMAIN list : Day(list[i]) \in p.start..(p.end - 1)})

\* What is found does not depend on the order of units measured in the same instant,
\* which SQLite leaves open (_detectors.py:116, storage.py:248).
OrderDoesNotMatter ==
    LET there == Hypotheses(Listed, {})
        back == Hypotheses(Reverse(Listed), {})
    IN  ToBag(there) = ToBag(back)

\* Three measurements are too few for anything critical, whichever detector speaks and
\* whichever fails (_confidence.py:10, _detectors.py:148, 349, engine.py:245).
FewAreNeverCritical ==
    Len(Listed) <= 3 => \A failing \in {{}} \cup {{d} : d \in 1..6} :
        \A r \in Range(Recommendations(Listed, failing)) : r.priority # "critical"
====
