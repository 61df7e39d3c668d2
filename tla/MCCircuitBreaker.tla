---- MODULE MCCircuitBreaker ----
\* A small instance of CircuitBreaker for TLC: two or three concurrent callers.
EXTENDS CircuitBreaker

CONSTANTS c1, c2, c3   \* callers

MCCallers2 == {c1, c2}
MCCallers3 == {c1, c2, c3}
====
