---- MODULE MCConfig ----
\* Two launchers: a virtual environment and a global installation.
EXTENDS OpenCodeConfig
====
