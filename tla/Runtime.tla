---- MODULE Runtime ----
(***************************************************************************)
(* EdgeSentinel.start() and stop(), the LifecycleManager they drive, the   *)
(* subsystems they start and stop, and every set_state a subsystem makes   *)
(* meanwhile, with the on_state_change handlers awaited after each         *)
(* transition.                                                             *)
(*                                                                         *)
(* start() and stop() run under one lock, so one program counter stands    *)
(* for whichever call holds it. A step runs from one await to the next.    *)
(* The replay of durable intents inside start() is DurableOps; here it is  *)
(* a part of on_init that may raise.                                       *)
(***************************************************************************)
EXTENDS Naturals, RuntimeStates

CONSTANTS
  NumSubs,            \* subsystems registered before start(), in order 1..NumSubs
  NumHandlers,        \* on_state_change handlers
  HandlersMayRaise,   \* whether an on_state_change handler may raise
  MayCancel           \* whether the task awaiting start() or stop() may be cancelled

ASSUME RuntimeAssumption ==
  /\ NumSubs \in Nat
  /\ NumHandlers \in Nat
  /\ HandlersMayRaise \in BOOLEAN
  /\ MayCancel \in BOOLEAN

VARIABLES
  state,      \* StateMachine._state
  pc,         \* where the call holding the runtime's lock stands
  reached,    \* subsystems 1..reached have been awaited by on_init and not by on_stop
  sub,        \* each subsystem: stopped, starting (its start() is awaited) or running
  note,       \* per actor: the transition its handlers are being told of, and how many are left
  connected,  \* Database._conn is not None
  attached,   \* timeline and incident tracker are subscribed to the bus
  started,    \* _started
  stopped,    \* _stopped
  incident,   \* IncidentTracker.open_incident is not None
  answer,     \* how the last start() or stop() ended
  astray      \* observation, which no guard reads: the tracker did not hear of the
              \* last transition, or not of it last

flags == <<connected, attached, started, stopped>>
observers == <<incident, astray>>
vars  == <<state, pc, reached, sub, note, flags, observers, answer>>

Subs   == 1..NumSubs
Main   == 0
Actors == {Main} \cup Subs

Points == {"idle", "connect", "migrate", "init", "cleanup", "save",
           "stopping", "aborted", "stopped", "close"}

Answers == {"none", "started", "stopped", "not_started", "already_started",
            "init_error", "invalid_transition", "handler_error", "io_error", "cancelled"}

NoNote == [current |-> "none", left |-> 0]
Notes  == [current : States, left : 1..NumHandlers] \cup {NoNote}

Quiet(a) == note[a] = NoNote

Init ==
  /\ state = "booting"
  /\ pc = "idle"
  /\ reached = 0
  /\ sub = [s \in Subs |-> "stopped"]
  /\ note = [a \in Actors |-> NoNote]
  /\ connected = FALSE /\ attached = FALSE
  /\ started = FALSE /\ stopped = FALSE
  /\ incident = FALSE /\ astray = FALSE
  /\ answer = "none"

-----------------------------------------------------------------------------
\* LifecycleManager._set_state: transition, tell every handler in turn, publish.

\* Actor a publishes its transition to target; subscribers of the bus receive events
\* in the order they are published.
Deliver(a, target, on) ==
  /\ incident' = IF on THEN target \in IncidentStates ELSE incident
  /\ astray' = ~(on /\ target = state' /\ \A b \in Actors \ {a} : Quiet(b))

\* The transition of actor a to target, up to the first await. With no handler
\* the event is published at once.
Transition(a, target, on) ==
  /\ state' = target
  /\ IF NumHandlers = 0
       THEN Deliver(a, target, on) /\ UNCHANGED note
       ELSE note' = [note EXCEPT ![a] = [current |-> target, left |-> NumHandlers]]
            /\ UNCHANGED observers

\* A handler returns; after the last one the event is published.
HandlerReturns(a) ==
  /\ ~Quiet(a)
  /\ UNCHANGED <<state, pc, reached, sub, flags, answer>>
  /\ IF note[a].left = 1
       THEN Deliver(a, note[a].current, attached) /\ note' = [note EXCEPT ![a] = NoNote]
       ELSE note' = [note EXCEPT ![a].left = @ - 1] /\ UNCHANGED observers

\* The transition of these actors is never published.
Unheard(actors) == astray' = (astray \/ \E a \in actors : ~Quiet(a))

\* A handler of a transition made by a subsystem raises: the subsystem logs
\* the exception; later handlers and the bus never hear of the transition.
SubHandlerRaises(s) ==
  /\ HandlersMayRaise
  /\ ~Quiet(s)
  /\ note' = [note EXCEPT ![s] = NoNote]
  /\ UNCHANGED <<state, pc, reached, sub, flags, incident, answer>>
  /\ Unheard({s})

\* Mutant: the transition to HEALTHY is outside the try of start().
MainHandlerRaisesOutside ==
  /\ HandlersMayRaise
  /\ ~Quiet(Main)
  /\ note' = [note EXCEPT ![Main] = NoNote]
  /\ answer' = "handler_error"
  /\ pc' = IF pc \in {"init", "cleanup"} THEN "cleanup" ELSE "idle"
  /\ UNCHANGED <<state, reached, sub, flags, incident>>
  /\ Unheard({Main})

\* A handler of a transition made by start() or stop() raises: so does the call.
\* start() detaches and closes on its way out; a raise while on_init's failure
\* is reported, or on the way to HEALTHY, takes the same way.
MainHandlerRaises ==
  /\ HandlersMayRaise
  /\ ~Quiet(Main)
  /\ note' = [note EXCEPT ![Main] = NoNote]
  /\ answer' = "handler_error"
  /\ pc' = IF pc \in {"init", "cleanup", "save"} THEN "cleanup" ELSE "idle"
  /\ UNCHANGED <<state, reached, sub, flags, incident>>
  /\ Unheard({Main})

\* A step of start() or stop() itself.
At(point) == pc = point /\ Quiet(Main)

\* The call's own _set_state(target), going on at next. A transition to the
\* current state is a no-op; an illegal one raises and goes on at recover.
SetState(target, next, recover, result) ==
  IF state = target \/ CanTransition(state, target)
    THEN /\ IF state = target THEN UNCHANGED <<state, note, observers>>
                              ELSE Transition(Main, target, attached)
         /\ pc' = next
         /\ answer' = result
    ELSE /\ pc' = recover
         /\ answer' = "invalid_transition"
         /\ UNCHANGED <<state, note, observers>>

-----------------------------------------------------------------------------
\* start().

\* Mutant: no check for a runtime that is already started.
StartUnchecked ==
  /\ At("idle")
  /\ pc' = "connect"
  /\ UNCHANGED <<state, reached, sub, note, flags, observers, answer>>

Start ==
  /\ At("idle")
  /\ IF started /\ ~stopped
       THEN answer' = "already_started" /\ UNCHANGED pc
       ELSE pc' = "connect" /\ UNCHANGED answer
  /\ UNCHANGED <<state, reached, sub, note, flags, observers>>

Connect ==
  /\ At("connect")
  /\ connected' = TRUE
  /\ pc' = "migrate"
  /\ UNCHANGED <<state, reached, sub, note, attached, started, stopped, observers, answer>>

ConnectFails ==
  /\ At("connect")
  /\ pc' = "idle"
  /\ answer' = "io_error"
  /\ UNCHANGED <<state, reached, sub, note, flags, observers>>

MigrateFails ==
  /\ At("migrate")
  /\ pc' = "cleanup"
  /\ answer' = "io_error"
  /\ UNCHANGED <<state, reached, sub, note, flags, observers>>

\* Attach the observers, then BOOTING and INITIALIZING. BOOTING is the initial
\* state and can be entered from no other.
Boot ==
  /\ At("migrate")
  /\ attached' = TRUE
  /\ IF state = "booting"
       THEN Transition(Main, "initializing", TRUE) /\ pc' = "init" /\ UNCHANGED answer
       ELSE pc' = "cleanup" /\ answer' = "invalid_transition"
            /\ UNCHANGED <<state, note, observers>>
  /\ reached' = 0
  /\ UNCHANGED <<sub, connected, started, stopped>>

\* on_init awaits the start() of one subsystem after the other.
SubStarting == \E s \in Subs : s = reached /\ sub[s] = "starting"

StartSub ==
  /\ At("init")
  /\ ~SubStarting
  /\ reached < NumSubs
  /\ reached' = reached + 1
  /\ sub' = [sub EXCEPT ![reached + 1] = "starting"]
  /\ UNCHANGED <<state, pc, note, flags, observers, answer>>

SubStarted ==
  /\ At("init")
  /\ SubStarting /\ Quiet(reached)
  /\ sub' = [sub EXCEPT ![reached] = "running"]
  /\ UNCHANGED <<state, pc, reached, note, flags, observers, answer>>

\* The replay's read of the journal or a subsystem's start() raises.
InitFails ==
  /\ At("init")
  /\ \/ reached = 0 /\ UNCHANGED sub
     \/ SubStarting /\ Quiet(reached) /\ sub' = [sub EXCEPT ![reached] = "stopped"]
  /\ SetState("failed", "cleanup", "cleanup", "init_error")
  /\ UNCHANGED <<reached, flags>>

\* Mutant: boot waits for INITIALIZING instead of failing on a FAILED runtime.
InitDoneWaits ==
  /\ At("init")
  /\ ~SubStarting
  /\ reached = NumSubs
  /\ state = "initializing"
  /\ SetState("healthy", "save", "cleanup", answer)
  /\ UNCHANGED <<reached, sub, flags>>

InitDone ==
  /\ At("init")
  /\ ~SubStarting
  /\ reached = NumSubs
  /\ SetState("healthy", "save", "cleanup", answer)
  /\ UNCHANGED <<reached, sub, flags>>

\* The except branch of start(): the runtime will not call stop().
Cleanup ==
  /\ At("cleanup")
  /\ attached' = FALSE
  /\ connected' = FALSE
  /\ pc' = "idle"
  /\ UNCHANGED <<state, reached, sub, note, started, stopped, observers, answer>>

SaveStarted ==
  /\ At("save")
  /\ started' = TRUE
  /\ stopped' = FALSE
  /\ pc' = "idle"
  /\ answer' = "started"
  /\ UNCHANGED <<state, reached, sub, note, connected, attached, observers>>

SaveFails ==
  /\ At("save")
  /\ pc' = "idle"
  /\ answer' = "io_error"
  /\ UNCHANGED <<state, reached, sub, note, flags, observers>>

-----------------------------------------------------------------------------
\* stop().

Stop ==
  /\ At("idle")
  /\ IF started /\ ~stopped
       THEN SetState("stopping", "stopping", "idle", answer)
       ELSE /\ answer' = IF started THEN "stopped" ELSE "not_started"
            /\ UNCHANGED <<state, note, pc, observers>>
  /\ UNCHANGED <<reached, sub, flags>>

\* Mutant: a subsystem's task is cancelled but not awaited.
StopSubNoWait ==
  /\ At("stopping")
  /\ reached > 0
  /\ sub' = [sub EXCEPT ![reached] = "stopped"]
  /\ reached' = reached - 1
  /\ UNCHANGED <<state, pc, note, flags, observers, answer>>

\* on_stop, in reverse order. Cancelling a subsystem's task ends whatever
\* notification it was in; an exception of its stop() is logged.
StopSub ==
  /\ At("stopping")
  /\ reached > 0
  /\ sub' = [sub EXCEPT ![reached] = "stopped"]
  /\ note' = [note EXCEPT ![reached] = NoNote]
  /\ reached' = reached - 1
  /\ UNCHANGED <<state, pc, flags, incident, answer>>
  /\ Unheard({reached})

SubsStopped ==
  /\ At("stopping")
  /\ reached = 0
  /\ SetState("stopped", "stopped", "idle", answer)
  /\ UNCHANGED <<reached, sub, flags>>

SaveStopped ==
  /\ At("stopped")
  /\ attached' = FALSE
  /\ pc' = "close"
  /\ UNCHANGED <<state, reached, sub, note, connected, started, stopped, observers, answer>>

SaveStoppedFails ==
  /\ At("stopped")
  /\ attached' = FALSE
  /\ pc' = "idle"
  /\ answer' = "io_error"
  /\ UNCHANGED <<state, reached, sub, note, connected, started, stopped, observers>>

\* Mutant: _stopped is not set.
CloseForgets ==
  /\ At("close")
  /\ connected' = FALSE
  /\ pc' = "idle"
  /\ answer' = "stopped"
  /\ UNCHANGED <<state, reached, sub, note, attached, started, stopped, observers>>

Close ==
  /\ At("close")
  /\ connected' = FALSE
  /\ stopped' = TRUE
  /\ pc' = "idle"
  /\ answer' = "stopped"
  /\ UNCHANGED <<state, reached, sub, note, attached, started, observers>>

\* The task awaiting start() or stop() is cancelled. No "except Exception" sees
\* it; only shutdown()'s finally still runs.
Cancel ==
  /\ MayCancel
  /\ pc \notin {"idle", "aborted"}
  /\ sub' = [s \in Subs |-> IF pc = "init" /\ sub[s] = "starting" THEN "stopped" ELSE sub[s]]
  /\ answer' = "cancelled"
  /\ UNCHANGED <<reached, flags>>
  /\ IF pc = "stopping" /\ Quiet(Main)
       THEN pc' = "aborted" /\ Transition(Main, "stopped", attached)
       ELSE /\ pc' = "idle"
            /\ note' = [a \in Actors |->
                          IF a = Main \/ (pc = "init" /\ sub[a] = "starting") THEN NoNote ELSE note[a]]
            /\ Unheard({a \in Actors : note'[a] # note[a]})
            /\ UNCHANGED <<state, incident>>

\* The finally has run; the cancellation propagates.
Aborted ==
  /\ At("aborted")
  /\ pc' = "idle"
  /\ UNCHANGED <<state, reached, sub, note, flags, observers, answer>>

-----------------------------------------------------------------------------
\* What a subsystem does to the runtime's state while it is starting or running.

Alive(s) == sub[s] # "stopped" /\ Quiet(s)

\* The network, storage and hardware monitors touch these states only.
Managed == {"healthy", "degraded", "offline"}

\* A monitor maps its reading to a state; an illegal transition is logged.
Adjust(s, target) ==
  /\ Alive(s)
  /\ state \in Managed
  /\ target # state
  /\ CanTransition(state, target)
  /\ Transition(s, target, attached)
  /\ UNCHANGED <<pc, reached, sub, flags, answer>>

\* Mutant: the state is set without asking the state machine.
EscalateAnyway(s) ==
  /\ Alive(s)
  /\ state # "failed"
  /\ Transition(s, "failed", attached)
  /\ UNCHANGED <<pc, reached, sub, flags, answer>>

\* A supervisor, the watchdog, or a monitor out of remedies moves to FAILED.
Escalate(s) ==
  /\ Alive(s)
  /\ state \notin UnsafeToEscalate
  /\ CanTransition(state, "failed")
  /\ Transition(s, "failed", attached)
  /\ UNCHANGED <<pc, reached, sub, flags, answer>>

-----------------------------------------------------------------------------

StartStep ==
  \/ Connect \/ ConnectFails \/ MigrateFails \/ Boot
  \/ StartSub \/ SubStarted \/ InitFails \/ InitDone
  \/ Cleanup \/ SaveStarted \/ SaveFails

StopStep == StopSub \/ SubsStopped \/ SaveStopped \/ SaveStoppedFails \/ Close \/ Aborted

Next ==
  \/ Start \/ Stop \/ StartStep \/ StopStep
  \/ MainHandlerRaises \/ Cancel
  \/ \E a \in Actors : HandlerReturns(a)
  \/ \E s \in Subs :
       \/ SubHandlerRaises(s) \/ Escalate(s)
       \/ \E target \in Managed : Adjust(s, target)

Spec == Init /\ [][Next]_vars

\* Every awaited operation ends, one way or another. Nothing obliges the
\* application to call start() or stop(), or a subsystem to act.
Fairness ==
  /\ WF_vars(StartStep) /\ WF_vars(StopStep)
  /\ \A a \in Actors : WF_vars(HandlerReturns(a))

FairSpec == Spec /\ Fairness

-----------------------------------------------------------------------------
\* Properties.

TypeOK ==
  /\ state \in States
  /\ pc \in Points
  /\ reached \in 0..NumSubs
  /\ sub \in [Subs -> {"stopped", "starting", "running"}]
  /\ note \in [Actors -> Notes]
  /\ connected \in BOOLEAN /\ attached \in BOOLEAN
  /\ started \in BOOLEAN /\ stopped \in BOOLEAN
  /\ incident \in BOOLEAN /\ astray \in BOOLEAN
  /\ answer \in Answers

Serving == started /\ ~stopped /\ state \notin {"stopping", "stopped"}

\* While the runtime serves -- from a successful start() to the beginning of
\* stop() -- the database is open, the timeline records and every subsystem
\* runs, whatever calls of start() failed or were refused in between
\* (runtime.py 502-532).
ServingIsComplete ==
  Serving => connected /\ attached /\ \A s \in Subs : sub[s] = "running"

\* A stop() that returns leaves nothing behind: stopped, STOPPED, connection closed,
\* observers detached, no subsystem running or in the middle of a transition
\* (runtime.py 534-555, state.py 34-37) -- and it returns unless a handler, the
\* store or a cancellation interferes.
StopIsComplete ==
  [][pc = "close" /\ pc' # "close" /\ answer' # "cancelled" =>
       /\ stopped' /\ state' = "stopped" /\ ~connected' /\ ~attached'
       /\ \A s \in Subs : sub'[s] = "stopped" /\ Quiet(s)']_vars

\* A boot that failed with an exception keeps no connection and no observer
\* (the comment in start(), runtime.py 521-527).
FailedBootReleases ==
  pc = "idle" /\ answer \in {"init_error", "invalid_transition", "handler_error"} /\ ~started
    => ~connected /\ ~attached

\* Once shutdown began no subsystem brings the runtime back: the state only
\* moves on to STOPPED, however late a subsystem's reading is applied.
ShutdownIsFinal ==
  [][(state \in UnsafeToEscalate) => state' \in {state, "stopped"}]_vars

\* "The currently open incident, or None while healthy" (incidents.py 168-171), as
\* far as it holds: a transition made while the handlers of another are awaited may
\* be published before it, and one whose handler raises is not published at all. The
\* tracker is right again after the next transition that is told undisturbed.
IncidentMatchesState ==
  Serving /\ ~astray /\ (\A a \in Actors : Quiet(a)) => (incident <=> state # "healthy")

\* start() and stop() come to an end, whatever the subsystems do to the state.
CallsReturn == pc # "idle" ~> pc = "idle"
====
