---- MODULE RuntimeStates ----
(***************************************************************************)
(* core/state.py: the lifecycle states and the graph of legal transitions. *)
(***************************************************************************)

States ==
  {"booting", "initializing", "healthy", "degraded", "offline",
   "recovering", "failed", "stopping", "stopped"}

Allowed ==
  [s \in States |->
    CASE s = "booting"      -> {"initializing", "failed"}
      [] s = "initializing" -> {"healthy", "degraded", "failed"}
      [] s = "healthy"      -> {"degraded", "offline", "recovering", "stopping", "failed"}
      [] s = "degraded"     -> {"healthy", "offline", "recovering", "stopping", "failed"}
      [] s = "offline"      -> {"recovering", "degraded", "stopping", "failed"}
      [] s = "recovering"   -> {"healthy", "degraded", "offline", "failed", "stopping"}
      [] s = "failed"       -> {"recovering", "stopping"}
      [] s = "stopping"     -> {"stopped"}
      [] s = "stopped"      -> {}]

\* StateMachine.can_transition.
CanTransition(s, target) == target \in Allowed[s]

\* Mutant: OFFLINE is left to the network monitor.
IncidentStatesOnline == {"degraded", "recovering", "failed"}

\* Time spent in these is an incident (diagnostics/incidents.py).
IncidentStates == {"degraded", "offline", "recovering", "failed"}

\* _UNSAFE_TO_ESCALATE of the watchdog, the supervisor and the monitors.
UnsafeToEscalate == {"stopping", "stopped"}
====
