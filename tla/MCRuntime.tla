---- MODULE MCRuntime ----
\* Small instances of Runtime for TLC; the constants are numbers and Booleans.
EXTENDS Runtime
====
