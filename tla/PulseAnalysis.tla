---- MODULE PulseAnalysis ----
(***************************************************************************)
(* The figures of apoch/modules/pulse/analysis.py over a list of work      *)
(* units.  A quotient is the pair of its two terms: rounding is left out.  *)
(***************************************************************************)
EXTENDS Sequences, Builtins

Cost(u) == IF u.cost = NoValue THEN 0 ELSE u.cost
Tokens(u) == u.tokens_input + u.tokens_output

Day(u) == u.at \div 24

\* Mutation of PeriodOf: weeks are counted from the first one.
PeriodFromOne(u, days) == IF days <= 1 THEN Day(u) ELSE ((Day(u) + 1) \div days) * days

\* _period_key(): the first day of the period.
PeriodOf(u, days) == IF days <= 1 THEN Day(u) ELSE (Day(u) \div days) * days

\* bucket: which units of the list lie in the period.
Point(list, bucket, start, days) ==
    [start |-> start, end |-> start + days,
     tokens |-> Total([i \in bucket |-> Tokens(list[i])]),
     cost |-> Total([i \in bucket |-> Cost(list[i])]), count |-> Cardinality(bucket)]

\* trend(): one point for each period in which something was measured.
Bucket(list, days, p) == {i \in DOMAIN list : PeriodOf(list[i], days) = p}
Trend(list, days) ==
    {Point(list, Bucket(list, days, p), p, days) :
        p \in {PeriodOf(list[i], days) : i \in DOMAIN list}}

\* summary()
Summary(list) ==
    [count |-> Len(list), tokens |-> Total([i \in DOMAIN list |-> Tokens(list[i])]),
     cost |-> Total([i \in DOMAIN list |-> Cost(list[i])]),
     time |-> Total([i \in DOMAIN list |-> list[i].wall_clock_s])]
====
