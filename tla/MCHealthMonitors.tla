---- MODULE MCHealthMonitors ----
\* A small instance of HealthMonitors for TLC: storage with two cleanup actions,
\* hardware without any mitigation.
EXTENDS HealthMonitors

MCPressures == {"storage", "hardware"}
MCRemedies  == [m \in MCPressures |-> IF m = "storage" THEN 2 ELSE 0]
====
