---- MODULE Ledger ----
\* What Pulse promises of its measurements: entries are only ever added, each under an
\* identifier of its own, and only a ledger kept in memory is ever emptied, as a whole.
VARIABLES entries, durable

Init == entries = {} \/ durable
Add ==
    /\ \E e \in entries' : /\ entries' = entries \cup {e}
                          /\ \A old \in entries : old.id # e.id
    /\ UNCHANGED durable
Forget == ~durable /\ entries' = {} /\ UNCHANGED durable

Spec == Init /\ [][Add \/ Forget]_<<entries, durable>>
====
