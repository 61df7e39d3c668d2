---- MODULE MCDiagnostics ----
\* A small instance of Diagnostics for TLC.
EXTENDS Diagnostics, TLC

CONSTANTS t1, t2   \* publishers

MCPublishers == {t1, t2}
MCSymmetry   == Permutations(MCPublishers)
====
