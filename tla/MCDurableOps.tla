---- MODULE MCDurableOps ----
\* A small instance of DurableOps for TLC: two operations and a call of each.
EXTENDS DurableOps

CONSTANTS i1, i2   \* intents

MCIntents    == {i1, i2}
MCOperations == {"publish", "report"}
MCOpOf       == [i \in MCIntents |-> IF i = i1 THEN "publish" ELSE "report"]
====
