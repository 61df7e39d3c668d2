---- MODULE HealthMonitors_proofs ----
(***************************************************************************)
(* Proofs about HealthMonitors, for any number of storage and hardware     *)
(* monitors, of remedies and of connectivity layers.                       *)
(*                                                                         *)
(* What a sleeping monitor promises is settled while it is awake: IInv     *)
(* says at each await what has been announced so far, and what the network *)
(* monitor knows about the state it is about to leave.                     *)
(***************************************************************************)
EXTENDS HealthMonitors, TLAPS

\* A monitor that has nothing left to do has said what its flag says.
Settled(m) ==
  /\ high[m] <=> announced[m] \in {"low", "exhausted"}
  /\ high[m] /\ Remedies[m] > 0 => announced[m] = "exhausted"

\* What a storage or hardware monitor has announced, await by await.
PressureInv ==
  \A m \in Pressures :
    /\ pc[m] \in {"off", "idle", "told"} /\ m \notin cutShort => Settled(m)
    /\ pc[m] \in {"low", "told_low", "remedying"} => announced[m] = "low"
    /\ pc[m] = "exhausted" => announced[m] = "exhausted" /\ high[m]
    /\ pc[m] = "recovered" => announced[m] = "recovered" /\ ~high[m]

\* Only the network monitor enters OFFLINE, and it has left it before it hops.
NetworkInv ==
  /\ state \notin {"booting", "recovering"}
  /\ state = "offline" /\ netPc \in {"off", "idle", "checking", "told"} /\ Network \notin cutShort
       => status = 0
  /\ netPc = "hopping" => state \notin {"initializing", "offline"}

IInv == TypeOK /\ PressureInv /\ NetworkInv

-----------------------------------------------------------------------------
\* The invariant.

\* Before any monitor is started, nothing is high and nothing was announced.
LEMMA InitInv == Init => IInv
  BY MonitorsAssumption
  DEF Init, IInv, TypeOK, PressureInv, NetworkInv, Settled, States, Points, NetPoints,
      Announcements, Unknown

\* What can be reached from a state, spelled out.
LEMMA Transitions ==
  ASSUME NEW s \in States, NEW t, CanTransition(s, t)
  PROVE  /\ t \in States \ {"booting"}
         /\ t = "healthy" => s \in {"initializing", "degraded", "recovering"}
         /\ t = "stopping" \/ t = "stopped" => s # "initializing"
  BY DEF CanTransition, Allowed, States

\* No step of a storage or hardware monitor breaks the invariant.
LEMMA PressureStepInv ==
  ASSUME IInv, NEW m \in Pressures, PressureStep(m)
  PROVE  IInv'
<1> USE MonitorsAssumption
<1> USE DEF IInv, TypeOK, PressureInv, NetworkInv, Settled, Points, NetPoints, Announcements,
            Unknown, pressure, net, Goto
<1>1. ASSUME NEW reading \in BOOLEAN, StartPressure(m, reading) PROVE IInv'
  BY <1>1 DEF StartPressure, Poll
<1>2. ASSUME NEW reading \in BOOLEAN, WakePressure(m, reading) PROVE IInv'
  BY <1>2 DEF WakePressure, Poll
<1>3. ASSUME NEW reading \in BOOLEAN, Remedy(m, reading) PROVE IInv'
  BY <1>3 DEF Remedy, HasRemedy
<1>4. CASE Degrade(m)
  BY <1>4 DEF Degrade, Apply, Owned, States
<1>5. CASE Told(m)
  BY <1>5 DEF Told
<1>6. CASE Remedied(m)
  BY <1>6 DEF Remedied, HasRemedy
<1>7. CASE Recover(m)
  BY <1>7 DEF Recover, Apply, Owned, States
<1>8. CASE Escalate(m)
  BY <1>8 DEF Escalate, Apply, States
<1>9. CASE ReadingFails(m)
  BY <1>9 DEF ReadingFails
<1>10. CASE StopPressure(m)
  BY <1>10 DEF StopPressure
<1> QED
  BY <1>1, <1>2, <1>3, <1>4, <1>5, <1>6, <1>7, <1>8, <1>9, <1>10, PressureStep(m)
  DEF PressureStep

\* No step of the network monitor does.
LEMMA NetworkStepInv ==
  ASSUME IInv, NetworkStep
  PROVE  IInv'
<1> USE MonitorsAssumption
<1> USE DEF IInv, TypeOK, PressureInv, NetworkInv, Settled, NetPoints, Unknown, pressure, net
<1>1. CASE BeginPoll
  BY <1>1 DEF BeginPoll
<1>2. CASE LayerPasses
  BY <1>2 DEF LayerPasses
<1>3. CASE EndPoll
  BY <1>3 DEF EndPoll
<1>4. CASE ApplyNetwork
  BY <1>4 DEF ApplyNetwork, NeedsHop, Target, Managed, Reachable, CanTransition, Allowed, States
<1>5. CASE Hop
  BY <1>5, Transitions DEF Hop, Reachable
<1>6. CASE HopRaises
  BY <1>6 DEF HopRaises
<1>7. CASE NetworkTold
  BY <1>7 DEF NetworkTold
<1>8. CASE StopNetwork
  BY <1>8 DEF StopNetwork
<1> QED
  BY <1>1, <1>2, <1>3, <1>4, <1>5, <1>6, <1>7, <1>8, NetworkStep DEF NetworkStep

\* Nor does the rest of the runtime, or a step that changes nothing.
LEMMA NextInv == IInv /\ [Next]_vars => IInv'
<1> SUFFICES ASSUME IInv, [Next]_vars PROVE IInv'
  OBVIOUS
<1>1. CASE Elsewhere
  BY <1>1 DEF Elsewhere, FinishBoot, IInv, TypeOK, PressureInv, NetworkInv, Settled, pressure,
              net, States
<1>2. CASE UNCHANGED vars
  BY <1>2 DEF vars, pressure, net, IInv, TypeOK, PressureInv, NetworkInv, Settled
<1> QED
  BY <1>1, <1>2, PressureStepInv, NetworkStepInv, [Next]_vars DEF Next

THEOREM Invariance == Spec => []IInv
  BY InitInv, NextInv, PTL DEF Spec

-----------------------------------------------------------------------------
\* The properties.

\* Every state the monitors can bring about is well typed; above all, no monitor
\* tries more remedies than it was given.
THEOREM TypeCorrect == Spec => []TypeOK
<1>1. IInv => TypeOK
  BY DEF IInv
<1> QED
  BY Invariance, <1>1, PTL

\* A monitor that sleeps over a passed mark has tried all its remedies and
\* published that they are exhausted (_on_low, _on_high).
THEOREM PressureAnswered == Spec => []PressureIsAnswered
<1>1. IInv => PressureIsAnswered
  BY DEF IInv, PressureInv, Settled, PressureIsAnswered, RemediesAreTried, AnnouncedIsTrue
<1> QED
  BY Invariance, <1>1, PTL

\* Between polls the runtime is OFFLINE only if the last poll reached nothing
\* (NetworkMonitor._apply_to_runtime with its hop through DEGRADED).
THEOREM OfflineTrue == Spec => []OfflineIsTrue
<1>1. IInv => OfflineIsTrue
  BY DEF IInv, NetworkInv, OfflineIsTrue
<1> QED
  BY Invariance, <1>1, PTL

\* No monitor ends the boot, a failure or a shutdown; only an escalation leads out
\* of the states the monitors own, whatever happened during an await.
THEOREM StatesAreOwned == Spec => StateOwnership
<1> DEFINE Owns ==
      \/ UNCHANGED <<pc, netPc>>
      \/ state' = state
      \/ {state, state'} \subseteq {"healthy", "degraded", "offline"}
      \/ state' = "failed" /\ \E m \in Pressures : pc[m] = "exhausted" /\ pc'[m] # pc[m]
<1>1. IInv /\ [Next]_vars => [Owns]_vars
  <2> SUFFICES ASSUME IInv, Next PROVE Owns
    OBVIOUS
  <2>1. CASE Elsewhere
    BY <2>1 DEF Elsewhere, pressure, net
  <2>2. ASSUME NEW m \in Pressures, PressureStep(m) PROVE Owns
    <3>1. CASE Degrade(m)
      BY <3>1 DEF Degrade, Apply, Owned
    <3>2. CASE Recover(m)
      BY <3>2 DEF Recover, Apply, Owned
    <3>3. CASE Escalate(m)
      BY <3>3 DEF Escalate, Apply, Goto, IInv, TypeOK
    <3>4. CASE UNCHANGED state
      BY <3>4
    <3> QED
      BY <2>2, <3>1, <3>2, <3>3, <3>4
      DEF PressureStep, StartPressure, WakePressure, Poll, Remedy, Told, Remedied, ReadingFails,
          StopPressure
  <2>3. CASE NetworkStep
    <3>1. CASE ApplyNetwork
      BY <3>1 DEF ApplyNetwork, NeedsHop, Target, Managed, Reachable
    <3>2. CASE Hop
      BY <3>2, Transitions DEF Hop, Reachable, IInv, TypeOK, NetworkInv
    <3>3. CASE UNCHANGED state
      BY <3>3
    <3> QED
      BY <2>3, <3>1, <3>2, <3>3
      DEF NetworkStep, BeginPoll, LayerPasses, EndPoll, HopRaises, NetworkTold, StopNetwork
  <2> QED
    BY <2>1, <2>2, <2>3 DEF Next
<1> QED
  BY Invariance, <1>1, PTL DEF Spec, StateOwnership
====
