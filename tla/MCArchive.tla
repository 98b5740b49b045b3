---- MODULE MCArchive ----
\* A window of two entries over a file of one, and a retention of one tick.  Nothing
\* tells one severity from another.
EXTENDS Archive
Severities == Permutations(Levels)
====
