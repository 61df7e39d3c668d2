---- MODULE MCSupervisor ----
\* Small instances of Supervisor for TLC; the constants are numbers and Booleans.
EXTENDS Supervisor
====
