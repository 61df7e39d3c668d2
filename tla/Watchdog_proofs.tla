---- MODULE Watchdog_proofs ----
(***************************************************************************)
(* Proofs about Watchdog, for any number of targets that come and go as    *)
(* they like. Neither property depends on what the iterator finds before   *)
(* it: whichever entry it turns, and wherever it raises, the flags, the    *)
(* events and the escalation agree.                                        *)
(***************************************************************************)
EXTENDS Watchdog, TLAPS

Down == {"failed", "stopping", "stopped"}

\* A flag was found up by this poll, or by one that did not escalate, or the
\* runtime was escalated; newly_stale is a local of the poll.
EscalationInv ==
  /\ state \in Down \cup {"initializing", "healthy"}
  /\ newly \in BOOLEAN
  /\ pc # "publishing" => ~newly
  /\ pc = "telling" => state \in Down
  /\ newly \/ stale \subseteq missed \/ state \in Down

\* The last event about a target says what its flag says.
EventsInv ==
  /\ told \in [Names -> {"nothing", "stale", "recovered"}]
  /\ \A n \in Names : told[n] = "stale" => n \in stale

IInv == EscalationInv /\ EventsInv

-----------------------------------------------------------------------------
LEMMA InitInv == Init => IInv
  BY DEF Init, IInv, EscalationInv, EventsInv, Down

\* FAILED is out of reach only of a runtime that is there, or beyond.
LEMMA Graph ==
  ASSUME NEW s \in Down \cup {"initializing", "healthy"}
  PROVE  /\ s \notin UnsafeToEscalate => CanTransition(s, "failed") \/ s \in Down
         /\ \A target : s \in Down /\ CanTransition(s, target) /\ target \in {"stopping", "stopped"} =>
              target \in Down
  BY DEF Down, UnsafeToEscalate, CanTransition, Allowed, States

\* However far an iteration gets: it turns one entry, or raises, or is finished.
LEMMA IterationEnds ==
  ASSUME NEW entries, NEW size, NEW visited, NEW late, NEW found,
         Iterate(entries, size, visited, late, found)
  PROVE  \/ Raise(found) \/ Finish(found)
         \/ \E n, left, seen : Turn(n, left, size, seen, late, found)
  BY DEF Iterate

\* A poll that was left before it escalated is remembered, any other escalates.
LEMMA IterationInv ==
  ASSUME IInv, NEW found \in BOOLEAN, found = newly,
         NEW entries, NEW size, NEW visited, NEW late,
         Iterate(entries, size, visited, late, found)
  PROVE  IInv'
<1>1. CASE Raise(found)
  BY <1>1 DEF Raise, NoIterator, IteratorIs, IInv, EscalationInv, EventsInv
<1>2. CASE Finish(found)
  BY <1>2, Graph DEF Finish, NoIterator, IteratorIs, IInv, EscalationInv, EventsInv, Down, UnsafeToEscalate
<1>3. ASSUME NEW n, NEW left, NEW seen, Turn(n, left, size, seen, late, found) PROVE IInv'
  <2>1. EventsInv'
    BY <1>3 DEF Turn, IInv, EventsInv
  <2>2. newly' \in BOOLEAN
    BY <1>3 DEF Turn, IteratorIs
  <2>3. newly' \/ stale' \subseteq missed' \/ state' \in Down
    BY <1>3 DEF Turn, IteratorIs, IInv, EscalationInv
  <2> QED
    BY <1>3, <2>1, <2>2, <2>3 DEF Turn, IInv, EscalationInv
<1> QED
  BY <1>1, <1>2, <1>3, IterationEnds

LEMMA NextInv == IInv /\ [Next]_vars => IInv'
<1> SUFFICES ASSUME IInv, [Next]_vars PROVE IInv'
  OBVIOUS
<1>1. CASE Poll
  <2>1. newly = FALSE
    BY <1>1 DEF Poll, IInv, EscalationInv
  <2> QED
    BY <1>1, <2>1, IterationInv DEF Poll
<1>2. CASE Published
  BY <1>2, IterationInv DEF Published, IInv, EscalationInv
<1>3. CASE Told
  BY <1>3 DEF Told, iter, IInv, EscalationInv, EventsInv
<1>4. CASE Stop
  BY <1>4 DEF Stop, NoIterator, IteratorIs, IInv, EscalationInv, EventsInv
<1>5. CASE Elsewhere
  BY <1>5, Graph DEF Elsewhere, iter, IInv, EscalationInv, EventsInv, Down
<1>6. ASSUME NEW n \in Names, Register(n) \/ Unregister(n) PROVE IInv'
  <2>1. EventsInv'
    BY <1>6 DEF Register, Unregister, IInv, EventsInv
  <2> QED
    BY <1>6, <2>1 DEF Register, Unregister, IInv, EscalationInv
<1>7. ASSUME NEW n \in Names, Heartbeat(n) \/ GoesSilent(n) PROVE IInv'
  BY <1>7 DEF Heartbeat, GoesSilent, iter, IInv, EscalationInv, EventsInv
<1>8. CASE UNCHANGED vars
  BY <1>8 DEF vars, iter, IInv, EscalationInv, EventsInv
<1> QED
  BY <1>1, <1>2, <1>3, <1>4, <1>5, <1>6, <1>7, <1>8 DEF Next

THEOREM Invariance == Spec => []IInv
  BY InitInv, NextInv, PTL DEF Spec

-----------------------------------------------------------------------------
\* The properties.

\* After a poll that found a silent target the runtime is FAILED or shutting down,
\* unless the poll was cancelled or raised (check_once, _escalate).
THEOREM StaleEscalates == Spec => []StaleIsEscalated
<1>1. IInv => StaleIsEscalated
  BY DEF IInv, EscalationInv, StaleIsEscalated, Down
<1> QED
  BY Invariance, <1>1, PTL

\* A target is announced stale again only after it was announced recovered, or
\* registered anew (check_once; heartbeat() leaves the flag alone).
THEOREM StaleAlternates == Spec => StaleThenRecovered
<1>1. IInv => \A n \in Names : n \in stale' \ stale => told[n] # "stale"
  BY DEF IInv, EventsInv
<1> QED
  BY Invariance, <1>1, PTL DEF Spec, StaleThenRecovered
====
