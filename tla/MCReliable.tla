---- MODULE MCReliable ----
\* A small instance of Reliable for TLC.
EXTENDS Reliable

CONSTANTS c1, c2   \* callers

MCCallers == {c1, c2}
====
