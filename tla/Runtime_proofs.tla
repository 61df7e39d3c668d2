---- MODULE Runtime_proofs ----
(***************************************************************************)
(* Proofs about Runtime, for any number of subsystems and of handlers,     *)
(* with or without handlers that raise and calls that are cancelled.       *)
(*                                                                         *)
(* What a call finds when it gets the lock is what the last call left, so  *)
(* the invariant says it point by point: which state the runtime is in,    *)
(* what is connected and attached, which subsystems run, at every point at *)
(* which start() or stop() may stand.                                      *)
(***************************************************************************)
EXTENDS Runtime, TLAPS

Up       == started /\ ~stopped
Booted   == States \ {"booting", "initializing"}
Failures == {"init_error", "invalid_transition", "handler_error"}

\* The calls: which state each point of a call is in.
CallInv ==
  /\ pc \in {"connect", "migrate", "init", "cleanup", "save"} => ~Up
  /\ pc \in {"stopping", "aborted", "stopped", "close"} => Up
  /\ pc \in {"migrate", "init", "save"} => connected
  /\ pc \in {"init", "save"} => attached
  /\ pc = "save" \/ started => state \in Booted
  /\ pc = "stopping" => state = "stopping"
  /\ pc \in {"aborted", "stopped", "close"} => state = "stopped"
  /\ pc = "close" => ~attached
  /\ pc \in {"idle", "connect", "migrate", "close"} => Quiet(Main)
  /\ Up /\ state \notin UnsafeToEscalate => connected /\ attached
  /\ FailedBootReleases

\* The subsystems: those start() has reached run, and those stop() has reached are
\* stopped and have no transition under way.
SubsInv ==
  /\ pc = "init" => \A s \in 1..reached : sub[s] = "running" \/ (s = reached /\ sub[s] = "starting")
  /\ pc = "save" => reached = NumSubs
  /\ pc = "save" \/ (Up /\ state \notin UnsafeToEscalate) => \A s \in Subs : sub[s] = "running"
  /\ Up => \A s \in Subs : s > reached => sub[s] = "stopped" /\ Quiet(s)
  /\ Up /\ state \notin UnsafeToEscalate => reached = NumSubs
  /\ pc \in {"stopped", "close"} => \A s \in Subs : sub[s] = "stopped" /\ Quiet(s)

\* The tracker knows of the last transition once nothing is under way.
TrackerInv == ~astray /\ (\A a \in Actors : Quiet(a)) => (incident <=> state \in IncidentStates)

IInv ==
  /\ TypeOK
  /\ CallInv
  /\ SubsInv
  /\ TrackerInv

-----------------------------------------------------------------------------
\* The graph of transitions.

\* No transition leads to BOOTING, only BOOTING leads to INITIALIZING, and STOPPING
\* leads to STOPPED, which leads nowhere.
LEMMA Graph ==
  ASSUME NEW s \in States, NEW target, CanTransition(s, target)
  PROVE  /\ target \in States
         /\ target # "booting"
         /\ target = "initializing" => s = "booting"
         /\ s = "stopping" => target = "stopped"
         /\ s # "stopped"
  BY DEF States, CanTransition, Allowed


-----------------------------------------------------------------------------
\* Transitions and what is told of them.

\* TypeOK in two parts: the transitions under way, and the calls.
ToldTyped ==
  /\ state \in States
  /\ note \in [Actors -> Notes]
  /\ incident \in BOOLEAN /\ astray \in BOOLEAN

CallTyped ==
  /\ pc \in Points
  /\ reached \in 0..NumSubs
  /\ sub \in [Subs -> {"stopped", "starting", "running"}]
  /\ connected \in BOOLEAN /\ attached \in BOOLEAN
  /\ started \in BOOLEAN /\ stopped \in BOOLEAN
  /\ answer \in Answers

LEMMA Typed == TypeOK <=> ToldTyped /\ CallTyped
  BY DEF TypeOK, ToldTyped, CallTyped

\* What is told is a proper note, never NoNote.
LEMMA Telling ==
  ASSUME NEW target \in States, NEW n \in 1..NumHandlers
  PROVE  LET told == [current |-> target, left |-> n] IN told \in Notes /\ told # NoNote
<1>1. "none" \notin States
  BY DEF States
<1> QED
  BY <1>1 DEF Notes, NoNote

LEMMA TransitionKeeps ==
  ASSUME ToldTyped, NEW a \in Actors, NEW target \in States, NEW on \in BOOLEAN,
         Transition(a, target, on)
  PROVE  /\ ToldTyped' /\ TrackerInv'
         /\ state' = target
         /\ \A b \in Actors \ {a} : note'[b] = note[b]
<1> USE RuntimeAssumption DEF ToldTyped
<1>1. CASE NumHandlers = 0
  <2>1. /\ state' = target /\ note' = note
        /\ incident' = IF on THEN target \in IncidentStates ELSE incident
        /\ astray' = ~(on /\ target = state' /\ \A b \in Actors \ {a} : Quiet(b))
    BY <1>1 DEF Transition, Deliver
  <2>2. incident' = (target \in IncidentStates) \/ incident' = incident
    BY <2>1
  <2>3. TrackerInv'
    BY <2>1 DEF TrackerInv
  <2>4. incident' \in BOOLEAN
    <3>1. CASE incident' = incident
      BY <3>1, Zenon
    <3>2. CASE incident' = (target \in IncidentStates)
      BY <3>2, SMT
    <3> QED
      BY <2>2, <3>1, <3>2
  <2>6. astray' \in BOOLEAN
    BY <2>1
  <2> QED
    BY <2>1, <2>3, <2>4, <2>6
<1>2. CASE NumHandlers # 0
  <2> DEFINE told == [current |-> target, left |-> NumHandlers]
  <2>1. /\ state' = target /\ note' = [note EXCEPT ![a] = told]
        /\ incident' = incident /\ astray' = astray
    BY <1>2 DEF Transition, observers
  <2>2. told \in Notes /\ told # NoNote
    BY <1>2, Telling
  <2> HIDE DEF told
  <2>3. note' \in [Actors -> Notes] /\ note'[a] # NoNote
    BY <2>1, <2>2
  <2>4. TrackerInv'
    BY <2>3 DEF TrackerInv, Quiet
  <2>5. incident' \in BOOLEAN /\ astray' \in BOOLEAN
    BY <2>1
  <2> QED
    BY <2>1, <2>3, <2>4, <2>5
<1> QED
  BY <1>1, <1>2

LEMMA HandlerReturnsKeeps ==
  ASSUME ToldTyped, TrackerInv, attached \in BOOLEAN, NEW a \in Actors, HandlerReturns(a)
  PROVE  ToldTyped' /\ TrackerInv' /\ \A b \in Actors \ {a} : note'[b] = note[b]
<1> USE RuntimeAssumption DEF ToldTyped
<1>1. note[a] \in [current : States, left : 1..NumHandlers] /\ state' = state
  BY DEF HandlerReturns, Quiet, Notes
<1>2. CASE note[a].left = 1
  <2>1. /\ note' = [note EXCEPT ![a] = NoNote]
        /\ incident' = IF attached THEN note[a].current \in IncidentStates ELSE incident
        /\ astray' = ~(attached /\ note[a].current = state' /\ \A b \in Actors \ {a} : Quiet(b))
    BY <1>2 DEF HandlerReturns, Deliver
  <2>2. incident' = (note[a].current \in IncidentStates) \/ incident' = incident
    BY <2>1
  <2>5. incident' \in BOOLEAN
    <3>1. CASE incident' = incident
      BY <3>1, Zenon
    <3>2. CASE incident' = (note[a].current \in IncidentStates)
      BY <3>2, SMT
    <3> QED
      BY <2>2, <3>1, <3>2
  <2>6. astray' \in BOOLEAN
    BY <2>1
  <2>3. note' \in [Actors -> Notes] /\ \A b \in Actors \ {a} : note'[b] = note[b]
    BY <2>1 DEF Notes
  <2>4. TrackerInv'
    BY <1>1, <2>1, <2>3 DEF TrackerInv, Quiet
  <2> QED
    BY <1>1, <2>3, <2>4, <2>5, <2>6
<1>3. CASE note[a].left # 1
  <2> DEFINE told == [current |-> note[a].current, left |-> note[a].left - 1]
  <2>1. note' = [note EXCEPT ![a] = told] /\ UNCHANGED <<incident, astray>>
    <3>1. note' = [note EXCEPT ![a] = [note[a] EXCEPT !.left = @ - 1]] /\ UNCHANGED <<incident, astray>>
      BY <1>3 DEF HandlerReturns, observers
    <3>2. [note[a] EXCEPT !.left = @ - 1] = told
      BY <1>1
    <3> QED
      BY <3>1, <3>2
  <2>2. told \in Notes /\ told # NoNote
    BY <1>1, <1>3, Telling
  <2> HIDE DEF told
  <2>3. note' \in [Actors -> Notes] /\ note'[a] # NoNote /\ \A b \in Actors \ {a} : note'[b] = note[b]
    BY <2>1, <2>2
  <2>4. TrackerInv'
    BY <2>3 DEF TrackerInv, Quiet
  <2>5. incident' \in BOOLEAN /\ astray' \in BOOLEAN
    BY <2>1
  <2> QED
    BY <1>1, <2>3, <2>4, <2>5
<1> QED
  BY <1>2, <1>3

\* Transitions that end unheard lead the tracker astray.
LEMMA UnheardKeeps ==
  ASSUME ToldTyped, TrackerInv, NEW actors \in SUBSET Actors,
         note' = [a \in Actors |-> IF a \in actors THEN NoNote ELSE note[a]],
         astray' = (astray \/ \E a \in actors : ~Quiet(a)), UNCHANGED <<state, incident>>
  PROVE  ToldTyped' /\ TrackerInv'
<1> USE DEF ToldTyped
<1>1. note' \in [Actors -> Notes]
  BY DEF Notes
<1>2. astray' = (astray \/ \E a \in actors : ~Quiet(a))
  OBVIOUS
<1>3. incident' \in BOOLEAN /\ astray' \in BOOLEAN
  BY <1>2
<1>4. TrackerInv'
  BY <1>2 DEF TrackerInv, Quiet
<1> QED
  BY <1>1, <1>3, <1>4

-----------------------------------------------------------------------------
\* The invariant.

LEMMA InitInv == Init => IInv
<1> SUFFICES ASSUME Init PROVE IInv
  OBVIOUS
<1> USE RuntimeAssumption DEF Init
<1>1. ToldTyped
  <2>1. NoNote \in Notes
    BY DEF Notes
  <2> QED
    BY <2>1 DEF ToldTyped, States
<1>2. CallTyped
  <2>1. /\ pc \in Points /\ reached \in 0..NumSubs /\ answer \in Answers
        /\ sub \in [Subs -> {"stopped", "starting", "running"}]
    BY DEF Points, Answers
  <2>2. connected \in BOOLEAN /\ attached \in BOOLEAN /\ started \in BOOLEAN /\ stopped \in BOOLEAN
    OBVIOUS
  <2> QED
    BY <2>1, <2>2 DEF CallTyped
<1>3. CallInv
  BY DEF CallInv, Up, Quiet, FailedBootReleases, Main, Actors
<1>4. SubsInv
  BY DEF SubsInv, Up
<1>5. TrackerInv
  BY DEF TrackerInv, IncidentStates
<1> QED
  BY <1>1, <1>2, <1>3, <1>4, <1>5, Typed DEF IInv

LEMMA Whole ==
  ASSUME ToldTyped', CallTyped', TrackerInv', CallInv', SubsInv'
  PROVE  IInv'
  BY DEF IInv, TypeOK, ToldTyped, CallTyped

\* Steps that make no transition and tell of none.
Calm == Start \/ Connect \/ ConnectFails \/ MigrateFails \/ StartSub \/ SubStarted \/ Cleanup
        \/ SaveStarted \/ SaveFails \/ SaveStopped \/ SaveStoppedFails \/ Close \/ Aborted

LEMMA CalmTold == IInv /\ Calm => UNCHANGED <<state, note, observers>>
  BY DEF Calm, Start, Connect, ConnectFails, MigrateFails, StartSub, SubStarted, Cleanup, SaveStarted, SaveFails, SaveStopped, SaveStoppedFails, Close, Aborted, observers, flags

LEMMA ToldUnchanged ==
  ASSUME ToldTyped, TrackerInv, UNCHANGED <<state, note, observers>>
  PROVE  ToldTyped' /\ TrackerInv'
<1>1. incident' \in BOOLEAN /\ astray' \in BOOLEAN
  BY Zenon DEF ToldTyped, observers
<1>2. TrackerInv'
  BY DEF TrackerInv, Quiet, observers
<1> QED
  BY <1>1, <1>2 DEF ToldTyped

LEMMA CalmKeeps == IInv /\ Calm => IInv'
<1> SUFFICES ASSUME IInv, Calm PROVE IInv'
  OBVIOUS
<1> USE RuntimeAssumption
<1>1. ToldTyped' /\ TrackerInv' /\ UNCHANGED <<state, note, observers>>
  BY CalmTold, ToldUnchanged, Typed DEF IInv
<1>2. CallTyped
  BY Typed DEF IInv
<1>3. CASE Start
  <2>1. CallTyped'
    BY <1>1, <1>2, <1>3 DEF Start, CallTyped, Points, Answers, At, flags, SubStarting, Subs
  <2>2. CallInv'
    BY <1>1, <1>2, <1>3 DEF Start, IInv, CallInv, CallTyped, Up, Quiet, FailedBootReleases, At, flags, SubStarting
  <2>3. SubsInv'
    BY <1>1, <1>2, <1>3 DEF Start, IInv, CallInv, SubsInv, CallTyped, Up, Quiet, At, flags, SubStarting, Subs
  <2> QED
    BY <1>1, <2>1, <2>2, <2>3, Whole
<1>4. CASE Connect
  <2>1. CallTyped'
    BY <1>1, <1>2, <1>4 DEF Connect, CallTyped, Points, Answers, At, flags, SubStarting, Subs
  <2>2. CallInv'
    BY <1>1, <1>2, <1>4 DEF Connect, IInv, CallInv, CallTyped, Up, Quiet, FailedBootReleases, At, flags, SubStarting
  <2>3. SubsInv'
    BY <1>1, <1>2, <1>4 DEF Connect, IInv, CallInv, SubsInv, CallTyped, Up, Quiet, At, flags, SubStarting, Subs
  <2> QED
    BY <1>1, <2>1, <2>2, <2>3, Whole
<1>5. CASE ConnectFails
  <2>1. CallTyped'
    BY <1>1, <1>2, <1>5 DEF ConnectFails, CallTyped, Points, Answers, At, flags, SubStarting, Subs
  <2>2. CallInv'
    BY <1>1, <1>2, <1>5 DEF ConnectFails, IInv, CallInv, CallTyped, Up, Quiet, FailedBootReleases, At, flags, SubStarting
  <2>3. SubsInv'
    BY <1>1, <1>2, <1>5 DEF ConnectFails, IInv, CallInv, SubsInv, CallTyped, Up, Quiet, At, flags, SubStarting, Subs
  <2> QED
    BY <1>1, <2>1, <2>2, <2>3, Whole
<1>6. CASE MigrateFails
  <2>1. CallTyped'
    BY <1>1, <1>2, <1>6 DEF MigrateFails, CallTyped, Points, Answers, At, flags, SubStarting, Subs
  <2>2. CallInv'
    BY <1>1, <1>2, <1>6 DEF MigrateFails, IInv, CallInv, CallTyped, Up, Quiet, FailedBootReleases, At, flags, SubStarting
  <2>3. SubsInv'
    BY <1>1, <1>2, <1>6 DEF MigrateFails, IInv, CallInv, SubsInv, CallTyped, Up, Quiet, At, flags, SubStarting, Subs
  <2> QED
    BY <1>1, <2>1, <2>2, <2>3, Whole
<1>7. CASE StartSub
  <2>1. CallTyped'
    BY <1>1, <1>2, <1>7 DEF StartSub, CallTyped, Points, Answers, At, flags, SubStarting, Subs
  <2>2. CallInv'
    BY <1>1, <1>2, <1>7 DEF StartSub, IInv, CallInv, CallTyped, Up, Quiet, FailedBootReleases, At, flags, SubStarting
  <2>3. SubsInv'
    BY <1>1, <1>2, <1>7 DEF StartSub, IInv, CallInv, SubsInv, CallTyped, Up, Quiet, At, flags, SubStarting, Subs
  <2> QED
    BY <1>1, <2>1, <2>2, <2>3, Whole
<1>8. CASE SubStarted
  <2>1. CallTyped'
    BY <1>1, <1>2, <1>8 DEF SubStarted, CallTyped, Points, Answers, At, flags, SubStarting, Subs
  <2>2. CallInv'
    BY <1>1, <1>2, <1>8 DEF SubStarted, IInv, CallInv, CallTyped, Up, Quiet, FailedBootReleases, At, flags, SubStarting
  <2>3. SubsInv'
    BY <1>1, <1>2, <1>8 DEF SubStarted, IInv, CallInv, SubsInv, CallTyped, Up, Quiet, At, flags, SubStarting, Subs
  <2> QED
    BY <1>1, <2>1, <2>2, <2>3, Whole
<1>9. CASE Cleanup
  <2>1. CallTyped'
    BY <1>1, <1>2, <1>9 DEF Cleanup, CallTyped, Points, Answers, At, flags, SubStarting, Subs
  <2>2. CallInv'
    BY <1>1, <1>2, <1>9 DEF Cleanup, IInv, CallInv, CallTyped, Up, Quiet, FailedBootReleases, At, flags, SubStarting
  <2>3. SubsInv'
    BY <1>1, <1>2, <1>9 DEF Cleanup, IInv, CallInv, SubsInv, CallTyped, Up, Quiet, At, flags, SubStarting, Subs
  <2> QED
    BY <1>1, <2>1, <2>2, <2>3, Whole
<1>10. CASE SaveStarted
  <2>1. CallTyped'
    BY <1>1, <1>2, <1>10 DEF SaveStarted, CallTyped, Points, Answers, At, flags, SubStarting, Subs
  <2>2. CallInv'
    BY <1>1, <1>2, <1>10 DEF SaveStarted, IInv, CallInv, CallTyped, Up, Quiet, FailedBootReleases, At, flags, SubStarting
  <2>3. SubsInv'
    BY <1>1, <1>2, <1>10 DEF SaveStarted, IInv, CallInv, SubsInv, CallTyped, Up, Quiet, At, flags, SubStarting, Subs
  <2> QED
    BY <1>1, <2>1, <2>2, <2>3, Whole
<1>11. CASE SaveFails
  <2>1. CallTyped'
    BY <1>1, <1>2, <1>11 DEF SaveFails, CallTyped, Points, Answers, At, flags, SubStarting, Subs
  <2>2. CallInv'
    BY <1>1, <1>2, <1>11 DEF SaveFails, IInv, CallInv, CallTyped, Up, Quiet, FailedBootReleases, At, flags, SubStarting
  <2>3. SubsInv'
    BY <1>1, <1>2, <1>11 DEF SaveFails, IInv, CallInv, SubsInv, CallTyped, Up, Quiet, At, flags, SubStarting, Subs
  <2> QED
    BY <1>1, <2>1, <2>2, <2>3, Whole
<1>12. CASE SaveStopped
  <2>1. CallTyped'
    BY <1>1, <1>2, <1>12 DEF SaveStopped, CallTyped, Points, Answers, At, flags, SubStarting, Subs
  <2>2. CallInv'
    BY <1>1, <1>2, <1>12 DEF SaveStopped, IInv, CallInv, CallTyped, UnsafeToEscalate, Up, Quiet, FailedBootReleases, At, flags, SubStarting
  <2>3. SubsInv'
    BY <1>1, <1>2, <1>12 DEF SaveStopped, IInv, CallInv, SubsInv, CallTyped, Up, Quiet, At, flags, SubStarting, Subs
  <2> QED
    BY <1>1, <2>1, <2>2, <2>3, Whole
<1>13. CASE SaveStoppedFails
  <2>1. CallTyped'
    BY <1>1, <1>2, <1>13 DEF SaveStoppedFails, CallTyped, Points, Answers, At, flags, SubStarting, Subs
  <2>2. CallInv'
    BY <1>1, <1>2, <1>13 DEF SaveStoppedFails, IInv, CallInv, CallTyped, UnsafeToEscalate, Up, Quiet, FailedBootReleases, At, flags, SubStarting
  <2>3. SubsInv'
    BY <1>1, <1>2, <1>13 DEF SaveStoppedFails, IInv, CallInv, SubsInv, CallTyped, Up, Quiet, At, flags, SubStarting, Subs
  <2> QED
    BY <1>1, <2>1, <2>2, <2>3, Whole
<1>14. CASE Close
  <2>1. CallTyped'
    BY <1>1, <1>2, <1>14 DEF Close, CallTyped, Points, Answers, At, flags, SubStarting, Subs
  <2>2. CallInv'
    BY <1>1, <1>2, <1>14 DEF Close, IInv, CallInv, CallTyped, UnsafeToEscalate, Up, Quiet, FailedBootReleases, At, flags, SubStarting
  <2>3. SubsInv'
    BY <1>1, <1>2, <1>14 DEF Close, IInv, CallInv, SubsInv, CallTyped, Up, Quiet, At, flags, SubStarting, Subs
  <2> QED
    BY <1>1, <2>1, <2>2, <2>3, Whole
<1>15. CASE Aborted
  <2>1. CallTyped'
    BY <1>1, <1>2, <1>15 DEF Aborted, CallTyped, Points, Answers, At, flags, SubStarting, Subs
  <2>2. CallInv'
    BY <1>1, <1>2, <1>15 DEF Aborted, IInv, CallInv, CallTyped, Up, Quiet, FailedBootReleases, At, flags, SubStarting
  <2>3. SubsInv'
    BY <1>1, <1>2, <1>15 DEF Aborted, IInv, CallInv, SubsInv, CallTyped, Up, Quiet, At, flags, SubStarting, Subs
  <2> QED
    BY <1>1, <2>1, <2>2, <2>3, Whole
<1> QED
  BY <1>3, <1>4, <1>5, <1>6, <1>7, <1>8, <1>9, <1>10, <1>11, <1>12, <1>13, <1>14, <1>15 DEF Calm

-----------------------------------------------------------------------------
\* The transitions of start() and stop().

LEMMA SetStateKeeps ==
  ASSUME ToldTyped, TrackerInv, attached \in BOOLEAN,
         NEW target \in States, NEW next, NEW recover, NEW result,
         SetState(target, next, recover, result)
  PROVE  /\ ToldTyped' /\ TrackerInv'
         /\ \A b \in Actors \ {Main} : note'[b] = note[b]
         /\ \/ state' = target /\ pc' = next /\ answer' = result
            \/ /\ state' = state /\ note' = note
               /\ pc' = recover /\ answer' = "invalid_transition"
<1>1. CASE state = target \/ ~CanTransition(state, target)
  <2>1. UNCHANGED <<state, note, observers>>
    BY <1>1 DEF SetState
  <2> QED
    BY <1>1, <2>1, ToldUnchanged DEF SetState
<1>2. CASE state # target /\ CanTransition(state, target)
  <2>1. Transition(Main, target, attached) /\ pc' = next /\ answer' = result
    BY <1>2 DEF SetState
  <2>2. Main \in Actors
    BY DEF Actors
  <2> QED
    BY <2>1, <2>2, TransitionKeeps
<1> QED
  BY <1>1, <1>2

LEMMA InitFailsKeeps == IInv /\ InitFails => IInv'
<1> SUFFICES ASSUME IInv, InitFails PROVE IInv'
  OBVIOUS
<1> USE RuntimeAssumption
<1>1. ToldTyped /\ CallTyped /\ TrackerInv
  BY Typed DEF IInv
<1>2. /\ ToldTyped' /\ TrackerInv'
      /\ \A b \in Actors \ {Main} : note'[b] = note[b]
      /\ \/ state' = "failed" /\ pc' = "cleanup" /\ answer' = "init_error"
         \/ /\ state' = state /\ note' = note
            /\ pc' = "cleanup" /\ answer' = "invalid_transition"
  BY <1>1, SetStateKeeps DEF InitFails, States, CallTyped
<1>3. CallTyped'
  BY <1>1, <1>2 DEF InitFails, CallTyped, Points, Answers, flags, SubStarting, Subs
<1>4. CallInv'
  BY <1>1, <1>2 DEF InitFails, IInv, CallInv, CallTyped, Up, Booted, States, UnsafeToEscalate,
     Quiet, FailedBootReleases, At, flags
<1>5. SubsInv'
  BY <1>1, <1>2 DEF InitFails, IInv, CallInv, SubsInv, CallTyped, Up, UnsafeToEscalate, Quiet, At,
     flags, SubStarting, Subs, Actors, Main
<1> QED
  BY <1>2, <1>3, <1>4, <1>5, Whole

LEMMA InitDoneKeeps == IInv /\ InitDone => IInv'
<1> SUFFICES ASSUME IInv, InitDone PROVE IInv'
  OBVIOUS
<1> USE RuntimeAssumption
<1>1. ToldTyped /\ CallTyped /\ TrackerInv
  BY Typed DEF IInv
<1>2. /\ ToldTyped' /\ TrackerInv'
      /\ \A b \in Actors \ {Main} : note'[b] = note[b]
      /\ \/ state' = "healthy" /\ pc' = "save" /\ answer' = answer
         \/ /\ state' = state /\ note' = note
            /\ pc' = "cleanup" /\ answer' = "invalid_transition"
  BY <1>1, SetStateKeeps DEF InitDone, States, CallTyped
<1>3. CallTyped'
  BY <1>1, <1>2 DEF InitDone, CallTyped, Points, Answers, flags, SubStarting, Subs
<1>4. CallInv'
  BY <1>1, <1>2 DEF InitDone, IInv, CallInv, CallTyped, Up, Booted, States, UnsafeToEscalate,
     Quiet, FailedBootReleases, At, flags
<1>5. SubsInv'
  BY <1>1, <1>2 DEF InitDone, IInv, CallInv, SubsInv, CallTyped, Up, UnsafeToEscalate, Quiet, At,
     flags, SubStarting, Subs, Actors, Main
<1> QED
  BY <1>2, <1>3, <1>4, <1>5, Whole

LEMMA SubsStoppedKeeps == IInv /\ SubsStopped => IInv'
<1> SUFFICES ASSUME IInv, SubsStopped PROVE IInv'
  OBVIOUS
<1> USE RuntimeAssumption
<1>1. ToldTyped /\ CallTyped /\ TrackerInv
  BY Typed DEF IInv
<1>2. /\ ToldTyped' /\ TrackerInv'
      /\ \A b \in Actors \ {Main} : note'[b] = note[b]
      /\ \/ state' = "stopped" /\ pc' = "stopped" /\ answer' = answer
         \/ /\ state' = state /\ note' = note
            /\ pc' = "idle" /\ answer' = "invalid_transition"
  BY <1>1, SetStateKeeps DEF SubsStopped, States, CallTyped
<1>3. CallTyped'
  BY <1>1, <1>2 DEF SubsStopped, CallTyped, Points, Answers, flags, SubStarting, Subs
<1>4. CallInv'
  BY <1>1, <1>2 DEF SubsStopped, IInv, CallInv, CallTyped, Up, Booted, States, UnsafeToEscalate,
     Quiet, FailedBootReleases, At, flags
<1>5. SubsInv'
  BY <1>1, <1>2 DEF SubsStopped, IInv, CallInv, SubsInv, CallTyped, Up, UnsafeToEscalate, Quiet, At,
     flags, SubStarting, Subs, Actors, Main
<1> QED
  BY <1>2, <1>3, <1>4, <1>5, Whole

LEMMA StopKeeps == IInv /\ Stop => IInv'
<1> SUFFICES ASSUME IInv, Stop PROVE IInv'
  OBVIOUS
<1> USE RuntimeAssumption
<1>1. ToldTyped /\ CallTyped /\ TrackerInv
  BY Typed DEF IInv
<1>2. CASE started /\ ~stopped
  <2>1. /\ ToldTyped' /\ TrackerInv'
        /\ \A b \in Actors \ {Main} : note'[b] = note[b]
        /\ \/ state' = "stopping" /\ pc' = "stopping" /\ answer' = answer
           \/ /\ state' = state /\ note' = note
              /\ pc' = "idle" /\ answer' = "invalid_transition"
    BY <1>1, <1>2, SetStateKeeps DEF Stop, States, CallTyped
  <2>2. CallTyped'
    BY <1>1, <2>1 DEF Stop, CallTyped, Points, Answers, flags, SubStarting, Subs
  <2>3. CallInv'
    BY <1>1, <1>2, <2>1 DEF Stop, IInv, CallInv, CallTyped, Up, Booted, States, UnsafeToEscalate,
     Quiet, FailedBootReleases, At, flags
  <2>4. SubsInv'
    BY <1>1, <1>2, <2>1 DEF Stop, IInv, CallInv, SubsInv, CallTyped, Up, UnsafeToEscalate, Quiet, At,
     flags, SubStarting, Subs, Actors, Main
  <2> QED
    BY <2>1, <2>2, <2>3, <2>4, Whole
<1>3. CASE ~(started /\ ~stopped)
  <2>1. UNCHANGED <<state, note, observers, pc, reached, sub, flags>>
        /\ answer' \in {"stopped", "not_started"}
    BY <1>3 DEF Stop
  <2>2. ToldTyped' /\ TrackerInv'
    BY <1>1, <2>1, ToldUnchanged
  <2>3. CallTyped'
    BY <1>1, <2>1 DEF CallTyped, Points, Answers, flags, SubStarting, Subs
  <2>4. CallInv'
    BY <2>1 DEF IInv, CallInv, Up, Quiet, FailedBootReleases, flags
  <2>5. SubsInv'
    BY <2>1 DEF IInv, SubsInv, Up, Quiet, flags
  <2> QED
    BY <2>2, <2>3, <2>4, <2>5, Whole
<1> QED
  BY <1>2, <1>3

LEMMA BootKeeps == IInv /\ Boot => IInv'
<1> SUFFICES ASSUME IInv, Boot PROVE IInv'
  OBVIOUS
<1> USE RuntimeAssumption
<1>1. ToldTyped /\ CallTyped /\ TrackerInv
  BY Typed DEF IInv
<1>2. /\ ToldTyped' /\ TrackerInv'
      /\ \A b \in Actors \ {Main} : note'[b] = note[b]
      /\ \/ state = "booting" /\ state' = "initializing" /\ pc' = "init" /\ answer' = answer
         \/ state' = state /\ pc' = "cleanup" /\ answer' = "invalid_transition"
  <2>1. CASE state = "booting"
    <3>1. Transition(Main, "initializing", TRUE) /\ pc' = "init" /\ answer' = answer
      BY <2>1 DEF Boot
    <3> QED
      BY <1>1, <2>1, <3>1, TransitionKeeps DEF Actors, States
  <2>2. CASE state # "booting"
    <3>1. UNCHANGED <<state, note, observers>> /\ pc' = "cleanup" /\ answer' = "invalid_transition"
      BY <2>2 DEF Boot
    <3> QED
      BY <1>1, <3>1, ToldUnchanged
  <2> QED
    BY <2>1, <2>2
<1>3. CallTyped'
  BY <1>1, <1>2 DEF Boot, CallTyped, Points, Answers, flags, SubStarting, Subs
<1>4. CallInv'
  BY <1>1, <1>2 DEF Boot, IInv, CallInv, CallTyped, Up, Booted, States, UnsafeToEscalate,
     Quiet, FailedBootReleases, At, flags
<1>5. SubsInv'
  BY <1>1, <1>2 DEF Boot, IInv, CallInv, SubsInv, CallTyped, Up, UnsafeToEscalate, Quiet, At,
     flags, SubStarting, Subs, Actors, Main
<1> QED
  BY <1>2, <1>3, <1>4, <1>5, Whole

-----------------------------------------------------------------------------
\* Handlers, cancellation and the subsystems.

LEMMA HandlerReturnsStays == ASSUME IInv, NEW a \in Actors, HandlerReturns(a) PROVE IInv'
<1>1. ToldTyped /\ CallTyped /\ TrackerInv
  BY Typed DEF IInv
<1>2. /\ ToldTyped' /\ TrackerInv'
      /\ \A b \in Actors \ {a} : note'[b] = note[b]
  BY <1>1, HandlerReturnsKeeps DEF CallTyped
<1>3. ~Quiet(a) /\ UNCHANGED <<state, pc, reached, sub, flags, answer>>
  BY DEF HandlerReturns
<1>4. CallTyped'
  <2>1. connected' \in BOOLEAN /\ attached' \in BOOLEAN /\ started' \in BOOLEAN /\ stopped' \in BOOLEAN
    BY <1>1, <1>3 DEF CallTyped, flags
  <2> QED
    BY <1>1, <1>3, <2>1 DEF CallTyped
<1>5. CallInv'
  BY <1>2, <1>3 DEF IInv, CallInv, Up, Quiet, FailedBootReleases, flags, Actors
<1>6. SubsInv'
  BY <1>2, <1>3 DEF IInv, SubsInv, Up, Quiet, flags, Actors
<1> QED
  BY <1>2, <1>4, <1>5, <1>6, Whole

LEMMA SubHandlerRaisesKeeps == ASSUME IInv, NEW s \in Subs, SubHandlerRaises(s) PROVE IInv'
<1>1. ToldTyped /\ CallTyped /\ TrackerInv
  BY Typed DEF IInv
<1>2. /\ ToldTyped' /\ TrackerInv'
      /\ note' = [a \in Actors |-> IF a \in {s} THEN NoNote ELSE note[a]]
  <2>1. note' = [a \in Actors |-> IF a \in {s} THEN NoNote ELSE note[a]]
    BY <1>1 DEF SubHandlerRaises, ToldTyped
  <2>2. astray' = (astray \/ \E a \in {s} : ~Quiet(a)) /\ UNCHANGED <<state, incident>>
    BY DEF SubHandlerRaises, Unheard
  <2>3. {s} \in SUBSET Actors
    BY DEF Actors
  <2> QED
    BY <1>1, <2>1, <2>2, <2>3, UnheardKeeps
<1>3. UNCHANGED <<state, pc, reached, sub, flags, answer>>
  BY DEF SubHandlerRaises
<1>4. CallTyped'
  BY <1>1, <1>3 DEF CallTyped, flags
<1>5. CallInv'
  BY <1>2, <1>3 DEF IInv, CallInv, Up, Quiet, FailedBootReleases, flags, Actors
<1>6. SubsInv'
  BY <1>2, <1>3 DEF IInv, SubsInv, Up, Quiet, flags, Actors
<1> QED
  BY <1>2, <1>4, <1>5, <1>6, Whole

LEMMA StopSubKeeps == IInv /\ StopSub => IInv'
<1> SUFFICES ASSUME IInv, StopSub PROVE IInv'
  OBVIOUS
<1> USE RuntimeAssumption
<1>1. ToldTyped /\ CallTyped /\ TrackerInv
  BY Typed DEF IInv
<1>2. reached \in Subs
  BY <1>1 DEF StopSub, CallTyped, Subs
<1>3. /\ ToldTyped' /\ TrackerInv'
      /\ note' = [a \in Actors |-> IF a \in {reached} THEN NoNote ELSE note[a]]
  <2>1. note' = [a \in Actors |-> IF a \in {reached} THEN NoNote ELSE note[a]]
    BY <1>1 DEF StopSub, ToldTyped
  <2>2. astray' = (astray \/ \E a \in {reached} : ~Quiet(a)) /\ UNCHANGED <<state, incident>>
    BY DEF StopSub, Unheard
  <2>3. {reached} \in SUBSET Actors
    BY <1>2 DEF Actors
  <2> QED
    BY <1>1, <2>1, <2>2, <2>3, UnheardKeeps
<1>4. CallTyped'
  BY <1>1, <1>2 DEF StopSub, CallTyped, Points, Answers, flags, SubStarting, Subs
<1>5. CallInv'
  BY <1>1, <1>3 DEF StopSub, IInv, CallInv, CallTyped, Up, Booted, States, UnsafeToEscalate,
     Quiet, FailedBootReleases, At, flags, Actors
<1>6. SubsInv'
  BY <1>1, <1>2, <1>3 DEF StopSub, IInv, CallInv, SubsInv, CallTyped, Up, UnsafeToEscalate, Quiet, At,
     flags, SubStarting, Subs, Actors, Main
<1> QED
  BY <1>3, <1>4, <1>5, <1>6, Whole

LEMMA MainHandlerRaisesKeeps == IInv /\ MainHandlerRaises => IInv'
<1> SUFFICES ASSUME IInv, MainHandlerRaises PROVE IInv'
  OBVIOUS
<1>1. ToldTyped /\ CallTyped /\ TrackerInv
  BY Typed DEF IInv
<1>2. /\ ToldTyped' /\ TrackerInv'
      /\ note' = [a \in Actors |-> IF a \in {Main} THEN NoNote ELSE note[a]]
  <2>1. note' = [a \in Actors |-> IF a \in {Main} THEN NoNote ELSE note[a]]
    BY <1>1 DEF MainHandlerRaises, ToldTyped
  <2>2. astray' = (astray \/ \E a \in {Main} : ~Quiet(a)) /\ UNCHANGED <<state, incident>>
    BY DEF MainHandlerRaises, Unheard
  <2>3. {Main} \in SUBSET Actors
    BY DEF Actors
  <2> QED
    BY <1>1, <2>1, <2>2, <2>3, UnheardKeeps
<1>3. CallTyped'
  BY <1>1 DEF MainHandlerRaises, CallTyped, Points, Answers, flags, SubStarting, Subs
<1>4. CallInv'
  BY <1>1, <1>2 DEF MainHandlerRaises, IInv, CallInv, CallTyped, Up, Booted, States, UnsafeToEscalate,
     Quiet, FailedBootReleases, At, flags, Points, Actors
<1>5. SubsInv'
  BY <1>1, <1>2 DEF MainHandlerRaises, IInv, CallInv, SubsInv, CallTyped, Up, UnsafeToEscalate, Quiet, At,
     flags, SubStarting, Subs, Actors, Main
<1> QED
  BY <1>2, <1>3, <1>4, <1>5, Whole

\* A subsystem's transition out of a state that is not STOPPING or STOPPED.
LEMMA SubTransitionKeeps ==
  ASSUME IInv, NEW s \in Subs, NEW target \in States, Alive(s), Transition(s, target, attached),
         state \notin UnsafeToEscalate, target \in Booted,
         UNCHANGED <<pc, reached, sub, flags, answer>>
  PROVE  IInv'
<1> USE RuntimeAssumption
<1>1. ToldTyped /\ CallTyped /\ TrackerInv
  BY Typed DEF IInv
<1>2. /\ ToldTyped' /\ TrackerInv' /\ state' = target
      /\ \A b \in Actors \ {s} : note'[b] = note[b]
  BY <1>1, TransitionKeeps DEF Actors, CallTyped
<1>3. CallTyped'
  BY <1>1 DEF CallTyped, flags
<1>4. CallInv'
  BY <1>1, <1>2 DEF IInv, CallInv, CallTyped, Up, Booted, States, UnsafeToEscalate,
     Quiet, FailedBootReleases, At, flags, Actors, Main, Subs
<1>5. SubsInv'
  BY <1>1, <1>2 DEF IInv, CallInv, SubsInv, CallTyped, Up, UnsafeToEscalate, Quiet, At,
     flags, SubStarting, Subs, Actors, Main, Alive
<1> QED
  BY <1>2, <1>3, <1>4, <1>5, Whole

LEMMA EscalateKeeps == ASSUME IInv, NEW s \in Subs, Escalate(s) PROVE IInv'
<1>1. "failed" \in States /\ "failed" \in Booted
  BY DEF States, Booted
<1> QED
  BY <1>1, SubTransitionKeeps DEF Escalate

LEMMA AdjustKeeps ==
  ASSUME IInv, NEW s \in Subs, NEW target \in Managed, Adjust(s, target)
  PROVE  IInv'
<1>1. target \in States /\ target \in Booted /\ state \notin UnsafeToEscalate
  BY DEF Managed, States, Booted, Adjust, UnsafeToEscalate
<1> QED
  BY <1>1, SubTransitionKeeps DEF Adjust

LEMMA CancelKeeps == IInv /\ Cancel => IInv'
<1> SUFFICES ASSUME IInv, Cancel PROVE IInv'
  OBVIOUS
<1> USE RuntimeAssumption
<1>1. ToldTyped /\ CallTyped /\ TrackerInv
  BY Typed DEF IInv
<1>2. /\ sub' = [s \in Subs |-> IF pc = "init" /\ sub[s] = "starting" THEN "stopped" ELSE sub[s]]
      /\ answer' = "cancelled" /\ UNCHANGED <<reached, flags>>
  BY DEF Cancel
<1>3. CASE pc = "stopping" /\ Quiet(Main)
  <2>1. Transition(Main, "stopped", attached) /\ pc' = "aborted"
    BY <1>3 DEF Cancel
  <2>2. /\ ToldTyped' /\ TrackerInv' /\ state' = "stopped"
        /\ \A b \in Actors \ {Main} : note'[b] = note[b]
    BY <1>1, <2>1, TransitionKeeps DEF Actors, States, CallTyped
  <2>3. sub' = sub
    BY <1>1, <1>2, <1>3 DEF CallTyped
  <2>4. CallTyped'
    BY <1>1, <1>2, <2>1, <2>3 DEF CallTyped, Points, Answers, flags, SubStarting, Subs
  <2>5. CallInv'
    BY <1>1, <1>2, <1>3, <2>1, <2>2 DEF IInv, CallInv, CallTyped, Up, Booted, States, UnsafeToEscalate,
     Quiet, FailedBootReleases, At, flags
  <2>6. SubsInv'
    BY <1>1, <1>2, <1>3, <2>1, <2>2, <2>3 DEF IInv, CallInv, SubsInv, CallTyped, Up, UnsafeToEscalate, Quiet, At,
     flags, SubStarting, Subs, Actors, Main
  <2> QED
    BY <2>2, <2>4, <2>5, <2>6, Whole
<1>4. CASE ~(pc = "stopping" /\ Quiet(Main))
  <2> DEFINE ended == {a \in Actors : a = Main \/ (pc = "init" /\ sub[a] = "starting")}
  <2>1. /\ pc' = "idle" /\ UNCHANGED <<state, incident>>
        /\ note' = [a \in Actors |->
                      IF a = Main \/ (pc = "init" /\ sub[a] = "starting") THEN NoNote ELSE note[a]]
        /\ astray' = (astray \/ \E a \in {a \in Actors : note'[a] # note[a]} : ~Quiet(a))
    BY <1>4 DEF Cancel, Unheard
  <2>2. note' = [a \in Actors |-> IF a \in ended THEN NoNote ELSE note[a]]
    BY <2>1
  <2>3. astray' = (astray \/ \E a \in ended : ~Quiet(a))
    BY <2>1, <2>2 DEF Quiet
  <2>4. ended \in SUBSET Actors /\ Main \in ended
    BY DEF Actors
  <2> HIDE DEF ended
  <2>5. ToldTyped' /\ TrackerInv'
    BY <1>1, <2>1, <2>2, <2>3, <2>4, UnheardKeeps
  <2>6. CallTyped'
    BY <1>1, <1>2, <2>1 DEF CallTyped, Points, Answers, flags, SubStarting, Subs
  <2>7. CallInv'
    BY <1>1, <1>2, <1>4, <2>1, <2>2, <2>4 DEF Cancel, IInv, CallInv, CallTyped, Up, Booted, States, UnsafeToEscalate,
     Quiet, FailedBootReleases, At, flags, Points
  <2>8. SubsInv'
    BY <1>1, <1>2, <1>4, <2>1, <2>2, <2>4 DEF Cancel, Points, IInv, CallInv, SubsInv, CallTyped, Up, UnsafeToEscalate, Quiet, At,
     flags, SubStarting, Subs, Actors, Main
  <2> QED
    BY <2>5, <2>6, <2>7, <2>8, Whole
<1> QED
  BY <1>3, <1>4

LEMMA StutterKeeps == IInv /\ UNCHANGED vars => IInv'
<1> SUFFICES ASSUME IInv, UNCHANGED vars PROVE IInv'
  OBVIOUS
<1>1. ToldTyped /\ CallTyped /\ TrackerInv
  BY Typed DEF IInv
<1>2. ToldTyped' /\ TrackerInv'
  BY <1>1, ToldUnchanged DEF vars
<1>3. CallTyped'
  BY <1>1 DEF CallTyped, vars, flags
<1>4. CallInv'
  BY DEF IInv, CallInv, Up, Quiet, FailedBootReleases, vars, flags
<1>5. SubsInv'
  BY DEF IInv, SubsInv, Up, Quiet, vars, flags
<1> QED
  BY <1>2, <1>3, <1>4, <1>5, Whole

LEMMA NextInv == IInv /\ [Next]_vars => IInv'
<1> SUFFICES ASSUME IInv, [Next]_vars PROVE IInv'
  OBVIOUS
<1>1. CASE Start \/ StartStep
  <2>1. CASE Calm
    BY <2>1, CalmKeeps
  <2>2. CASE Boot \/ InitFails \/ InitDone
    BY <2>2, BootKeeps, InitFailsKeeps, InitDoneKeeps
  <2> QED
    BY <1>1, <2>1, <2>2 DEF StartStep, Calm
<1>2. CASE Stop \/ StopStep
  <2>1. CASE Calm
    BY <2>1, CalmKeeps
  <2>2. CASE Stop \/ StopSub \/ SubsStopped
    BY <2>2, StopKeeps, StopSubKeeps, SubsStoppedKeeps
  <2> QED
    BY <1>2, <2>1, <2>2 DEF StopStep, Calm
<1>3. CASE MainHandlerRaises \/ Cancel
  BY <1>3, MainHandlerRaisesKeeps, CancelKeeps
<1>4. CASE \E a \in Actors : HandlerReturns(a)
  BY <1>4, HandlerReturnsStays
<1>5. CASE \E s \in Subs : SubHandlerRaises(s) \/ Escalate(s)
  BY <1>5, SubHandlerRaisesKeeps, EscalateKeeps
<1>6. CASE \E s \in Subs, target \in Managed : Adjust(s, target)
  BY <1>6, AdjustKeeps
<1>7. CASE UNCHANGED vars
  BY <1>7, StutterKeeps
<1> QED
  BY <1>1, <1>2, <1>3, <1>4, <1>5, <1>6, <1>7 DEF Next

\* IInv holds in every state of every behaviour.
THEOREM Invariance == Spec => []IInv
  BY InitInv, NextInv, PTL DEF Spec

-----------------------------------------------------------------------------
\* The theorems.

\* Type correctness of the call, the flags, the subsystems and what is told.
THEOREM TypeCorrect == Spec => []TypeOK
<1>1. IInv => TypeOK
  BY DEF IInv
<1> QED
  BY <1>1, Invariance, PTL

\* Whatever start() and stop() were called before, failed or were cancelled, a
\* runtime that serves is whole (runtime.py 502-532).
THEOREM ServiceIsComplete == Spec => []ServingIsComplete
<1>1. IInv => ServingIsComplete
  BY DEF IInv, CallInv, SubsInv, ServingIsComplete, Serving, Up, UnsafeToEscalate
<1> QED
  BY <1>1, Invariance, PTL

\* A boot that raised has released what it opened (runtime.py 521-527).
THEOREM FailedBootsRelease == Spec => []FailedBootReleases
<1>1. IInv => FailedBootReleases
  BY DEF IInv, CallInv
<1> QED
  BY <1>1, Invariance, PTL

\* The tracker agrees with the state whenever it heard of the last transition
\* undisturbed (incidents.py 164-166).
THEOREM TrackerAgrees == Spec => []IncidentMatchesState
<1>1. ASSUME IInv PROVE IncidentMatchesState
  <2>1. Serving => state \in Booted /\ state \notin {"stopping", "stopped"}
    BY <1>1 DEF IInv, CallInv, Serving
  <2>2. Serving => (state \in IncidentStates <=> state # "healthy")
    BY <2>1 DEF Booted, States, IncidentStates
  <2> QED
    BY <1>1, <2>2 DEF IInv, TrackerInv, IncidentMatchesState
<1> QED
  BY <1>1, Invariance, PTL

\* A stop() that returns has stopped, detached and closed everything (runtime.py 534-555).
THEOREM StopsAreComplete == Spec => StopIsComplete
<1>1. ASSUME IInv, [Next]_vars
      PROVE  pc = "close" /\ pc' # "close" /\ answer' # "cancelled" =>
               /\ stopped' /\ state' = "stopped" /\ ~connected' /\ ~attached'
               /\ \A s \in Subs : sub'[s] = "stopped" /\ Quiet(s)'
  <2> SUFFICES ASSUME pc = "close", pc' # "close", answer' # "cancelled"
               PROVE  /\ stopped' /\ state' = "stopped" /\ ~connected' /\ ~attached'
                      /\ \A s \in Subs : sub'[s] = "stopped" /\ Quiet(s)'
    BY <1>1
  <2>1. Quiet(Main) /\ state = "stopped" /\ ~attached /\ \A s \in Subs : sub[s] = "stopped" /\ Quiet(s)
    BY <1>1 DEF IInv, CallInv, SubsInv
  <2>2. Close
    BY <1>1, <2>1 DEF Next, StartStep, StopStep, Start, Stop, Connect, ConnectFails, MigrateFails,
       Boot, StartSub, SubStarted, InitFails, InitDone, Cleanup, SaveStarted, SaveFails, StopSub,
       SubsStopped, SaveStopped, SaveStoppedFails, Aborted, At, MainHandlerRaises, Cancel,
       HandlerReturns, SubHandlerRaises, Escalate, Adjust, vars
  <2> QED
    BY <2>1, <2>2 DEF Close, Quiet
<1> QED
  BY <1>1, Invariance, PTL DEF Spec, StopIsComplete

\* From STOPPING the state only moves on to STOPPED, and stays there, for any
\* number of subsystems that escalate or adjust (lifecycle.py 93-105).
THEOREM ShutdownsAreFinal == Spec => ShutdownIsFinal
<1>1. ASSUME IInv, [Next]_vars
      PROVE  state \in UnsafeToEscalate => state' \in {state, "stopped"}
  <2> SUFFICES ASSUME state \in UnsafeToEscalate PROVE state' \in {state, "stopped"}
    OBVIOUS
  <2> USE <1>1
  <2>1. state \in States
    BY DEF IInv, TypeOK
  <2>2. \A target : CanTransition(state, target) => target = "stopped"
    BY <2>1, Graph DEF UnsafeToEscalate
  <2>3. \A target, next, recover, result :
          SetState(target, next, recover, result) => state' \in {state, "stopped"}
    BY <2>2 DEF SetState, Transition
  <2>4. CASE Start \/ StartStep
    BY <2>3, <2>4, CalmTold DEF StartStep, Calm, Boot, InitFails, InitDone, UnsafeToEscalate
  <2>5. CASE Stop \/ StopStep
    BY <2>3, <2>5, CalmTold DEF StopStep, Calm, Stop, StopSub, SubsStopped
  <2>6. CASE MainHandlerRaises \/ Cancel
    BY <2>6 DEF MainHandlerRaises, Cancel, Transition
  <2>7. CASE \E a \in Actors : HandlerReturns(a)
    BY <2>7 DEF HandlerReturns
  <2>8. CASE \E s \in Subs : SubHandlerRaises(s) \/ Escalate(s) \/ \E target \in Managed : Adjust(s, target)
    BY <2>8 DEF SubHandlerRaises, Escalate, Adjust, UnsafeToEscalate, Managed
  <2>9. CASE UNCHANGED vars
    BY <2>9 DEF vars
  <2> QED
    BY <2>4, <2>5, <2>6, <2>7, <2>8, <2>9 DEF Next
<1> QED
  BY <1>1, Invariance, PTL DEF Spec, ShutdownIsFinal
====
