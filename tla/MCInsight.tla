---- MODULE MCInsight ----
\* A cheap and a dear model, a unit with lines, and the system's own events.
EXTENDS Insight
Sample(model, input, output, time, cost, lines) ==
    [model |-> model, tokens_input |-> input, tokens_output |-> output, wall_clock_s |-> time,
     cost |-> cost, lines_original |-> lines, lines_modified |-> 0]
MCSamples == {System, Sample("small", 2, 1, 1, NoValue, 0), Sample("large", 3, 3, 4, 5, 1),
              Sample("small", 2, 1, 1, 0, 0)}
MCPricing == [m \in {"system", "small", "large"} |-> IF m = "small" THEN 1 ELSE NoValue]
====
