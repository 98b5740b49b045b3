---- MODULE MCStack ----
\* Three components, each needing the one before, behind three different adapters.
EXTENDS StackManager

MCAdapterOf == <<OpenSpec, Engram, CodeGraph>>
MCDeps == <<{}, {1}, {2}>>
====
