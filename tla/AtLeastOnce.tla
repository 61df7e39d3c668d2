---- MODULE AtLeastOnce ----
(***************************************************************************)
(* What guard.durable() promises, with no journal, no process and no       *)
(* crash: a requested operation stays owed until it is confirmed, it is    *)
(* confirmed only after its function has run to the end at least once, and *)
(* neither a confirmed nor a given-up operation is ever run again.         *)
(* DurableOps implements this specification.                               *)
(***************************************************************************)

CONSTANT Intents   \* the durable calls an application may make

VARIABLES outcome, \* what became of each call
          ran      \* the calls whose function has returned at least once

avars == <<outcome, ran>>

Outcomes == {"unrequested", "owed", "done", "given_up"}

AInit ==
  /\ outcome = [i \in Intents |-> "unrequested"]
  /\ ran = {}

Request(i) ==
  /\ outcome[i] = "unrequested"
  /\ outcome' = [outcome EXCEPT ![i] = "owed"]
  /\ UNCHANGED ran

\* The function returns; it may do so more than once for one call.
Perform(i) ==
  /\ outcome[i] = "owed"
  /\ ran' = ran \cup {i}
  /\ UNCHANGED outcome

Confirm(i) ==
  /\ outcome[i] = "owed"
  /\ i \in ran
  /\ outcome' = [outcome EXCEPT ![i] = "done"]
  /\ UNCHANGED ran

GiveUp(i) ==
  /\ outcome[i] = "owed"
  /\ outcome' = [outcome EXCEPT ![i] = "given_up"]
  /\ UNCHANGED ran

ANext == \E i \in Intents : Request(i) \/ Perform(i) \/ Confirm(i) \/ GiveUp(i)

ASpec == AInit /\ [][ANext]_avars
====
