---- MODULE MCDatabase ----
\* A small instance of Database for TLC.
EXTENDS Database

CONSTANTS w1, b1, p1, o1, o2, x1

MCWriters == {w1}
MCBlocks  == {b1}
MCPruners == {p1}
MCOpeners == {o1, o2}
MCClosers == {x1}
MCCallers == MCWriters \cup MCBlocks \cup MCPruners \cup MCOpeners \cup MCClosers
====
