---- MODULE Detectors ----
(***************************************************************************)
(* The detectors of apoch/modules/optimizer/_detectors.py over a list of   *)
(* work units, in integers: a confidence is counted in thousandths and     *)
(* rounded down, a mean is kept as a sum and a number, and the sigmoid of  *)
(* the z-score is replaced by the lower end of its class.                  *)
(***************************************************************************)
EXTENDS Sequences, Builtins

Hypothesis(type, domain, confidence) ==
    [type |-> type, domain |-> domain, confidence |-> confidence]

CapUnderpowered(score, n) ==
    Larger(0, Smaller(1000, IF n < 3 THEN Smaller(score, 500) ELSE score))

Metrics == <<"tokens_input", "tokens_output", "cost", "wall_clock_s">>

\* Where a metric was measured.
Measured(list, metric) == {i \in DOMAIN list : list[i][metric] # NoValue}

-----------------------------------------------------------------------------
\* BaselineGenerator: one pattern, the surer the more units there are.
Baseline(list) ==
    IF list = <<>> THEN <<>>
    ELSE LET n == Max({Cardinality(Measured(list, Metrics[k])) : k \in DOMAIN Metrics})
         IN  <<Hypothesis("pattern", "cost", CapUnderpowered(Smaller(100 * n, 1000), n))>>

\* Mutation of Others: a unit is compared with those before it.
Before(list, i, metric) == {j \in Measured(list, metric) : j < i}

\* DegradationDetector: a unit is compared with all the others.
Others(list, i, metric) == Measured(list, metric) \ {i}

\* z > 2 and z > 4.197 (a confidence of 0.9) without a root: both sides squared.
Exceeds(list, i, metric) ==
    LET others == Others(list, i, metric)
        m == Cardinality(others)
        sum == Total([j \in others |-> list[j][metric]])
        squares == Total([j \in others |-> list[j][metric] * list[j][metric]])
        above == m * list[i][metric] - sum
        spread == m * squares - sum * sum
    IN  IF ~(m >= 3 /\ above > 0 /\ above * above * (m - 1) > 4 * m * spread) THEN "no"
        ELSE IF above * above * (m - 1) * 1000 >= 17617 * m * spread THEN "far" ELSE "yes"

\* The units and metrics that do, unit by unit: c numbers the pairs.
Unit(c) == (c - 1) \div Len(Metrics) + 1
Metric(c) == Metrics[((c - 1) % Len(Metrics)) + 1]
Degraded(list) ==
    Ascending({c \in 1..(Len(list) * Len(Metrics)) :
                  /\ Unit(c) \in Measured(list, Metric(c))
                  /\ Exceeds(list, Unit(c), Metric(c)) # "no"})

Degradation(list) ==
    LET Found(c) ==
            Hypothesis("anomaly", IF Metric(c) = "wall_clock_s" THEN "time" ELSE "cost",
                CapUnderpowered(IF Exceeds(list, Unit(c), Metric(c)) = "far" THEN 900 ELSE 500,
                                Len(list)))
        degraded == Degraded(list)
    IN  [k \in DOMAIN degraded |-> Found(degraded[k])]

-----------------------------------------------------------------------------
\* ModelEfficiencyDetector: the averages of the models, each a quotient <<a, b>>; the
\* tokens of a unit without a cost count all the same.
Models(list) == {list[i].model : i \in DOMAIN list}
OfModel(list, model) == {i \in DOMAIN list : list[i].model = model}
AverageCost(list, model) ==
    <<Total([i \in OfModel(list, model) \cap Measured(list, "cost") |-> list[i].cost]),
      Larger(1, Total([i \in OfModel(list, model) |-> list[i].tokens_input + list[i].tokens_output]))>>
AverageTime(list, model) ==
    <<Total([i \in OfModel(list, model) |-> list[i].wall_clock_s]),
      Cardinality(OfModel(list, model))>>

Less(p, q) == p[1] * q[2] < q[1] * p[2]

\* One finding if the averages differ: the spread over the least, of which 5 is the top.
Comparison(averages, n) ==
    LET least == CHOOSE p \in averages : \A q \in averages : ~Less(q, p)
        most == CHOOSE p \in averages : \A q \in averages : ~Less(p, q)
        over == most[1] * least[2] - least[1] * most[2]
        unit == 5 * least[1] * most[2]
    IN  IF over <= 0 THEN <<>>
        ELSE <<Hypothesis("opportunity", "model_efficiency", CapUnderpowered(
                 IF unit = 0 THEN 1000 ELSE Smaller(1000, (1000 * over) \div unit), n))>>

ModelEfficiency(list) ==
    LET costed == {m \in Models(list) : OfModel(list, m) \cap Measured(list, "cost") # {}}
        Compared(models, Average(_, _)) ==
            IF Cardinality(models) < 2 THEN <<>>
            ELSE Comparison({Average(list, m) : m \in models}, Len(list))
    IN  Compared(costed, AverageCost) \o Compared(Models(list), AverageTime)

-----------------------------------------------------------------------------
\* Mutation of Quartiles: counted from one instead of zero.
QuartilesShifted(n) == <<Larger(n \div 4, 1), Larger((3 * n) \div 4, 1)>>

\* Where the quartiles are in a sorted list.
Quartiles(n) == <<n \div 4 + 1, (3 * n) \div 4 + 1>>

\* The values of a metric, twice so that halves are whole, the least first.
Values(list, metric) ==
    LET order == Ordered(Measured(list, metric),
            {p \in Measured(list, metric) \X Measured(list, metric) :
                \/ list[p[1]][metric] < list[p[2]][metric]
                \/ list[p[1]][metric] = list[p[2]][metric] /\ p[1] < p[2]})
    IN  [k \in DOMAIN order |-> 2 * list[order[k]][metric]]

\* AnomalyDetector: outside the fences, which are one and a half ranges away.  The farther
\* out, the less confidence.
Outliers(list, metric) ==
    LET value == Values(list, metric)
        n == Cardinality(Measured(list, metric))
        first == value[Quartiles(n)[1]]
        third == value[Quartiles(n)[2]]
        median == (value[(n + 1) \div 2] + value[n \div 2 + 1]) \div 2
        Distance(k) == Absolute(value[k] - median)
        farthest == Larger(Distance(1), Distance(n))
        out == Ascending({k \in 1..n : \/ 2 * value[k] < 2 * first - 3 * (third - first)
                                       \/ 2 * value[k] > 2 * third + 3 * (third - first)})
    IN  IF n < 3 THEN <<>>
        ELSE [k \in DOMAIN out |->
                Hypothesis("anomaly", IF metric = "cost" THEN "cost" ELSE "time",
                    CapUnderpowered((1000 * (farthest - Distance(out[k]))) \div farthest, n))]

Anomaly(list) == Outliers(list, "cost") \o Outliers(list, "wall_clock_s")

-----------------------------------------------------------------------------
\* SessionPatternDetector: more than six tenths of the units within four hours of a day.
Cluster(list, start) ==
    Cardinality({i \in DOMAIN list : (list[i].at - start) % 24 < 4})

SessionPattern(list) ==
    LET best == Max({Cluster(list, h) : h \in 0..23}) IN
    IF Len(list) < 3 \/ 10 * best <= 6 * Len(list) THEN <<>>
    ELSE <<Hypothesis("pattern", "session_behavior",
                      CapUnderpowered((1000 * best) \div Len(list), Len(list)))>>

\* ReworkCorrelationDetector: it keeps the units that have rework_cycles or rework_tokens,
\* which a WorkUnit never has, and finds nothing.
ReworkCorrelation(list) == <<>>
====
