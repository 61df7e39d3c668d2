---- MODULE HealthMonitors ----
(***************************************************************************)
(* The monitors that drive the runtime's state side by side: one network   *)
(* monitor (network/monitor.py) and any number of storage and hardware     *)
(* monitors (storage/monitor.py, metrics/monitor.py), which have the same  *)
(* shape: a flag that is up while a reading is past its mark, remedies     *)
(* (cleanup or mitigation actions) tried when it goes up, and an           *)
(* escalation when they do not help.                                       *)
(*                                                                         *)
(* Each monitor polls in a task of its own. A step runs from one await to  *)
(* the next; a publish, a remedy and a set_state (whose handlers are       *)
(* awaited after the transition) are awaits. The rest of the runtime is    *)
(* Elsewhere.                                                              *)
(***************************************************************************)
EXTENDS Naturals, RuntimeStates

CONSTANTS
  Pressures,   \* the storage and hardware monitors
  Remedies,    \* how many remedies each of them was given
  NumLayers    \* connectivity layers the network monitor checks, lowest first

Network == "network"

ASSUME MonitorsAssumption ==
  /\ Remedies \in [Pressures -> Nat]
  /\ NumLayers \in Nat \ {0}
  /\ Network \notin Pressures

VARIABLES
  state,       \* the runtime's state
  pc,          \* where the task of each storage or hardware monitor stands
  high,        \* _low or _high: the last reading was past a mark
  tried,       \* remedies tried since the flag went up
  netPc,       \* where the task of the network monitor stands
  passed,      \* layers found reachable so far in the poll under way
  status,      \* layers reachable on the last poll; Unknown before the first
  \* Observations, which no guard reads.
  announced,   \* the last event published by each storage or hardware monitor
  cutShort     \* monitors whose reaction to a change was cancelled or raised

net      == <<netPc, passed, status>>
pressure == <<pc, high, tried, announced>>
vars     == <<state, pressure, net, cutShort>>

Unknown == NumLayers + 1

\* "off": no task; "idle": sleeping. The others name what is awaited: publishing
\* that the mark is passed, the handlers told of DEGRADED, a remedy, publishing
\* that remedies are exhausted or that the pressure is gone, handlers again.
Points == {"off", "idle", "low", "told_low", "remedying", "exhausted", "recovered", "told"}

\* "hopping": the handlers are told of the DEGRADED between OFFLINE and HEALTHY.
NetPoints == {"off", "idle", "checking", "changed", "hopping", "told"}

Announcements == {"nothing", "low", "exhausted", "recovered"}

Init ==
  /\ state = "initializing"
  /\ pc = [m \in Pressures |-> "off"]
  /\ high = [m \in Pressures |-> FALSE]
  /\ tried = [m \in Pressures |-> 0]
  /\ netPc = "off"
  /\ passed = 0
  /\ status = Unknown
  /\ announced = [m \in Pressures |-> "nothing"]
  /\ cutShort = {}

Goto(m, point) == pc' = [pc EXCEPT ![m] = point]

\* set_state as a monitor sees it: an illegal transition raises and is logged,
\* one to the current state does nothing. Both go on without a wait.
Reachable(target) == target # state /\ CanTransition(state, target)

-----------------------------------------------------------------------------
\* Storage and hardware monitors.

\* The states these monitors own (_MANAGED_STATES).
Owned == {"healthy", "degraded"}

\* The last step before a wait: transition to target if it is owned and legal
\* and wait for the handlers at waiting, else go on at next.
Apply(m, target, owned, waiting, next) ==
  IF state \in owned /\ Reachable(target)
    THEN state' = target /\ Goto(m, waiting)
    ELSE UNCHANGED state /\ Goto(m, next)

\* check_once: one reading; only a change of the flag has consequences. The first
\* of them is to publish.
Poll(m, reading) ==
  /\ high' = [high EXCEPT ![m] = reading]
  /\ IF reading = high[m] THEN Goto(m, "idle") /\ UNCHANGED announced
       ELSE LET what == IF reading THEN "low" ELSE "recovered"
            IN  Goto(m, what) /\ announced' = [announced EXCEPT ![m] = what]
  /\ tried' = [tried EXCEPT ![m] = 0]
  /\ cutShort' = IF reading = high[m] THEN cutShort ELSE cutShort \ {m}
  /\ UNCHANGED <<state, net>>

\* start() polls once before it creates the task; so does every wake-up after it.
StartPressure(m, reading) == pc[m] = "off" /\ Poll(m, reading)
WakePressure(m, reading)  == pc[m] = "idle" /\ Poll(m, reading)

\* _on_low, after the event: DEGRADED.
Degrade(m) ==
  /\ pc[m] = "low"
  /\ Apply(m, "degraded", Owned, "told_low", "remedying")
  /\ UNCHANGED <<high, tried, announced, net, cutShort>>

\* Handlers are done, or one of them raised, which is logged.
Told(m) ==
  /\ pc[m] \in {"told_low", "told"}
  /\ Goto(m, IF pc[m] = "told_low" THEN "remedying" ELSE "idle")
  /\ UNCHANGED <<state, high, tried, announced, net, cutShort>>

HasRemedy(m) == high[m] /\ tried[m] < Remedies[m]

\* One remedy ends -- if it raises, that is logged -- and a new reading is taken.
Remedy(m, reading) ==
  /\ pc[m] = "remedying"
  /\ HasRemedy(m)
  /\ tried' = [tried EXCEPT ![m] = @ + 1]
  /\ high' = [high EXCEPT ![m] = reading]
  /\ UNCHANGED <<state, pc, announced, net, cutShort>>

\* Mutant: a monitor whose remedies are exhausted does not escalate.
RemediedGivesUp(m) ==
  /\ pc[m] = "remedying"
  /\ ~HasRemedy(m)
  /\ LET next == IF ~high[m] THEN "recovered" ELSE "idle"
     IN  /\ Goto(m, next)
         /\ announced' = IF next = "idle" THEN announced ELSE [announced EXCEPT ![m] = next]
  /\ UNCHANGED <<state, high, tried, net, cutShort>>

\* The end of the remedies: the pressure is gone, or it is time to escalate. A
\* monitor without remedies does neither.
Remedied(m) ==
  /\ pc[m] = "remedying"
  /\ ~HasRemedy(m)
  /\ LET next == IF ~high[m] THEN "recovered"
                 ELSE IF Remedies[m] > 0 THEN "exhausted" ELSE "idle"
     IN  /\ Goto(m, next)
         /\ announced' = IF next = "idle" THEN announced ELSE [announced EXCEPT ![m] = next]
  /\ UNCHANGED <<state, high, tried, net, cutShort>>

\* _on_recovered, after the event: HEALTHY.
Recover(m) ==
  /\ pc[m] = "recovered"
  /\ Apply(m, "healthy", Owned, "told", "idle")
  /\ UNCHANGED <<high, tried, announced, net, cutShort>>

\* _escalate, after the event: FAILED, from anywhere but a shutdown.
Escalate(m) ==
  /\ pc[m] = "exhausted"
  /\ Apply(m, "failed", States \ UnsafeToEscalate, "told", "idle")
  /\ UNCHANGED <<high, tried, announced, net, cutShort>>

\* The reading after a remedy raises: check_once is left with the flag up.
ReadingFails(m) ==
  /\ pc[m] = "remedying"
  /\ HasRemedy(m)
  /\ Goto(m, "idle")
  /\ cutShort' = cutShort \cup {m}
  /\ UNCHANGED <<state, high, tried, announced, net>>

\* stop() cancels the task wherever it is and awaits its end. The flag stays.
StopPressure(m) ==
  /\ pc[m] # "off"
  /\ Goto(m, "off")
  /\ cutShort' = IF pc[m] = "idle" THEN cutShort ELSE cutShort \cup {m}
  /\ UNCHANGED <<state, high, tried, announced, net>>

-----------------------------------------------------------------------------
\* The network monitor.

\* start() and every wake-up begin a poll, which checks layer after layer.
BeginPoll ==
  /\ netPc \in {"off", "idle"}
  /\ netPc' = "checking"
  /\ passed' = 0
  /\ UNCHANGED <<state, pressure, status, cutShort>>

LayerPasses ==
  /\ netPc = "checking"
  /\ passed < NumLayers
  /\ passed' = passed + 1
  /\ UNCHANGED <<state, pressure, netPc, status, cutShort>>

\* A layer fails (or its check raises), or all have passed. Only a change of the
\* highest layer has consequences.
EndPoll ==
  /\ netPc = "checking"
  /\ status' = passed
  /\ netPc' = IF passed = status THEN "idle" ELSE "changed"
  /\ cutShort' = IF passed = status THEN cutShort ELSE cutShort \ {Network}
  /\ UNCHANGED <<state, pressure, passed>>

\* Mutant: INITIALIZING is among the states the network monitor owns.
ManagedFromBoot == {"initializing", "healthy", "degraded", "offline"}

\* The network monitor's _MANAGED_STATES.
Managed == {"healthy", "degraded", "offline"}

Target == CASE status = NumLayers -> "healthy"
            [] status = 0         -> "offline"
            [] OTHER              -> "degraded"

\* Mutant: no hop through DEGRADED.
NeedsHopNever(target) == FALSE

\* OFFLINE -> HEALTHY is no legal transition.
NeedsHop(target) == target = "healthy" /\ state = "offline"

\* _apply_to_runtime, after network_status_changed was published.
ApplyNetwork ==
  /\ netPc = "changed"
  /\ LET target == IF NeedsHop(Target) THEN "degraded" ELSE Target
     IN  IF state \in Managed /\ Reachable(target)
           THEN state' = target /\ netPc' = IF NeedsHop(Target) THEN "hopping" ELSE "told"
           ELSE UNCHANGED state /\ netPc' = "idle"
  /\ UNCHANGED <<pressure, passed, status, cutShort>>

\* The second hop is taken from whatever state the handlers' await has left.
Hop ==
  /\ netPc = "hopping"
  /\ IF Reachable("healthy")
       THEN state' = "healthy" /\ netPc' = "told"
       ELSE UNCHANGED state /\ netPc' = "idle"
  /\ UNCHANGED <<pressure, passed, status, cutShort>>

\* A handler told of the first hop raises: there is no second one.
HopRaises ==
  /\ netPc = "hopping"
  /\ netPc' = "idle"
  /\ UNCHANGED <<state, pressure, passed, status, cutShort>>

NetworkTold ==
  /\ netPc = "told"
  /\ netPc' = "idle"
  /\ UNCHANGED <<state, pressure, passed, status, cutShort>>

StopNetwork ==
  /\ netPc # "off"
  /\ netPc' = "off"
  /\ cutShort' = IF netPc \in {"changed", "hopping"} THEN cutShort \cup {Network} ELSE cutShort
  /\ UNCHANGED <<state, pressure, passed, status>>

-----------------------------------------------------------------------------
\* The rest of the runtime: the end of the boot, the escalation of a supervisor
\* or the watchdog, and shutdown.

FinishBoot == state = "initializing" /\ state' = "healthy"

Elsewhere ==
  /\ \/ FinishBoot
     \/ Reachable("failed") /\ state \notin UnsafeToEscalate /\ state' = "failed"
     \/ Reachable("stopping") /\ state' = "stopping"
     \/ Reachable("stopped") /\ state' = "stopped"
  /\ UNCHANGED <<pressure, net, cutShort>>

PressureStep(m) ==
  \/ \E reading \in BOOLEAN :
       StartPressure(m, reading) \/ WakePressure(m, reading) \/ Remedy(m, reading)
  \/ Degrade(m) \/ Told(m) \/ Remedied(m) \/ Recover(m) \/ Escalate(m)
  \/ ReadingFails(m) \/ StopPressure(m)

NetworkStep ==
  \/ BeginPoll \/ LayerPasses \/ EndPoll \/ ApplyNetwork
  \/ Hop \/ HopRaises \/ NetworkTold \/ StopNetwork

Next == Elsewhere \/ NetworkStep \/ \E m \in Pressures : PressureStep(m)

Spec == Init /\ [][Next]_vars

-----------------------------------------------------------------------------
\* Properties.

TypeOK ==
  /\ state \in States
  /\ pc \in [Pressures -> Points]
  /\ high \in [Pressures -> BOOLEAN]
  /\ tried \in [Pressures -> Nat] /\ \A m \in Pressures : tried[m] <= Remedies[m]
  /\ netPc \in NetPoints
  /\ passed \in 0..NumLayers
  /\ status \in 0..NumLayers \cup {Unknown}
  /\ announced \in [Pressures -> Announcements]
  /\ cutShort \subseteq Pressures \cup {Network}

\* "All four only touch runtime states they own" (CHANGELOG 112): whatever
\* happened during an await, a monitor ends neither the boot, nor a failure, nor
\* a shutdown, and only its escalation leads out of HEALTHY, DEGRADED, OFFLINE.
StateOwnership ==
  [][\/ UNCHANGED <<pc, netPc>>
     \/ state' = state
     \/ {state, state'} \subseteq {"healthy", "degraded", "offline"}
     \/ state' = "failed" /\ \E m \in Pressures : pc[m] = "exhausted" /\ pc'[m] # pc[m]]_vars

\* A monitor with remedies that sleeps over a passed mark has tried all of them
\* and said so (_on_low, storage/monitor.py 176-195).
RemediesAreTried ==
  \A m \in Pressures \ cutShort :
    pc[m] = "idle" /\ high[m] /\ Remedies[m] > 0 => announced[m] = "exhausted"

\* The last event of a sleeping monitor agrees with its flag: every
\* low is followed by a recovered once the pressure is gone, and by nothing else.
AnnouncedIsTrue ==
  \A m \in Pressures \ cutShort :
    pc[m] = "idle" => (high[m] <=> announced[m] \in {"low", "exhausted"})

\* A monitor that sleeps has dealt with its last reading: whoever listened to its
\* events knows whether the mark is passed, and all remedies were tried -- unless its
\* reaction was cancelled or a reading raised in it.
PressureIsAnswered == RemediesAreTried /\ AnnouncedIsTrue

\* OFFLINE belongs to the network monitor: while it sleeps the runtime is OFFLINE
\* only if the last poll reached nothing (monitor.py 239-242).
OfflineIsTrue ==
  netPc = "idle" /\ state = "offline" /\ Network \notin cutShort => status = 0
====
