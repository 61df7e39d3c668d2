---- MODULE Diagnostics ----
(***************************************************************************)
(* The event bus (core/events.py) with its two subscribers: the timeline,  *)
(* which writes every event to the database, and the incident tracker      *)
(* (diagnostics/timeline.py, incidents.py); and the command line, which    *)
(* rebuilds the incidents from the stored timeline (cli/main.py).          *)
(*                                                                         *)
(* The inserts go through the database's lock, first come first served, so *)
(* they form one queue whose head is in a thread. An insert whose          *)
(* publisher is cancelled there may still happen later, beside the queue.  *)
(***************************************************************************)
EXTENDS Naturals, Sequences, SequencesExt

CONSTANTS
  Publishers,   \* tasks that publish, one event at a time
  MaxEvents,    \* bound on the events ever published, over all processes
  MaxFaults,    \* bound on cancelled publishes and refused inserts
  IncidentStates, \* _INCIDENT_STATES, or some of them
  MaxHistory,   \* IncidentTracker's max_history
  ReplayLimit   \* _INCIDENT_REPLAY_LIMIT

ASSUME DiagnosticsAssumption ==
  /\ MaxEvents \in Nat /\ MaxFaults \in Nat
  /\ MaxHistory \in Nat \ {0}
  /\ ReplayLimit \in Nat
  /\ "runtime" \notin Publishers
  /\ IncidentStates \cap {"calm", "plain"} = {}

\* What an event says: a change to a state, or anything else ("plain"). The
\* state "calm" stands for all that are no incident.
Kinds == IncidentStates \cup {"calm", "plain"}

VARIABLES
  up,        \* the process: "down", "serving", "detached" from the bus, or "closed"
  published, \* events published so far; an event's number is its place in that order
  inserts,   \* the insert_event calls that wait for the database, the first one at work
  strays,    \* inserts in a thread whose publisher was cancelled
  log,       \* the events table
  tracker,   \* the tracker's _IncidentBuilder
  faults,    \* faults so far
  \* Observations, which no guard reads.
  boot,      \* the first event of this process
  lost,      \* events whose insert was refused, cancelled or cut short
  disowned,  \* events whose publisher was cancelled in the insert
  cut        \* events up to this number were pruned

ghost == <<boot, lost, disowned, cut>>
vars  == <<up, published, inserts, strays, log, tracker, faults, ghost>>

-----------------------------------------------------------------------------
\* _IncidentBuilder.feed and build_incidents.

NoIncident == [events |-> <<>>, states |-> <<>>]
NoBuilder  == [closed |-> <<>>, open |-> NoIncident]

IsOpen(b) == b.open # NoIncident

Feed(b, e) ==
  LET heard == [b.open EXCEPT !.events = Append(@, e.id)] IN
  CASE e.kind \in IncidentStates ->
         [b EXCEPT !.open = [heard EXCEPT !.states = Append(@, e.kind)]]
    [] e.kind = "calm" /\ IsOpen(b) ->
         [closed |-> Append(b.closed, heard), open |-> NoIncident]
    [] e.kind = "plain" /\ IsOpen(b) -> [b EXCEPT !.open = heard]
    [] OTHER -> b

\* build_incidents feeds the events one by one.
Build(events) ==
  LET built[n \in Nat] == IF n = 0 THEN NoBuilder ELSE Feed(built[n - 1], events[n])
  IN  built[Len(events)]

Newest(s, n) == IF Len(s) > n THEN SubSeq(s, Len(s) - n + 1, Len(s)) ELSE s

\* Mutant: the oldest incidents are kept.
TrackOldest(e) ==
  tracker' = LET b == Feed(tracker, e) IN
    [b EXCEPT !.closed = SubSeq(@, 1, IF Len(@) > MaxHistory THEN MaxHistory ELSE Len(@))]

\* The tracker keeps the newest incidents only.
Track(e) ==
  tracker' = LET b == Feed(tracker, e) IN [b EXCEPT !.closed = Newest(@, MaxHistory)]

-----------------------------------------------------------------------------
\* The bus.

Init ==
  /\ up = "down"
  /\ published = 0
  /\ inserts = <<>> /\ strays = {}
  /\ log = <<>>
  /\ tracker = NoBuilder
  /\ faults = 0
  /\ boot = 0 /\ lost = {} /\ disowned = {} /\ cut = 0

Event(kind, by) == [id |-> published + 1, kind |-> kind, by |-> by]

Waits(t) == \E i \in 1..Len(inserts) : inserts[i].by = t

\* publish() starts the handlers in the order they subscribed; the tracker's has
\* no await, the timeline's asks for the database's lock.
Publish(t, kind) ==
  /\ up = "serving"
  /\ published < MaxEvents
  /\ ~Waits(t)
  /\ published' = published + 1
  /\ Track(Event(kind, t))
  /\ inserts' = Append(inserts, Event(kind, t))
  /\ UNCHANGED <<up, strays, log, faults, ghost>>

\* start() attaches a new tracker and the timeline, and the boot's first
\* transition, to INITIALIZING, is the first event.
Boot ==
  /\ up = "down"
  /\ published < MaxEvents
  /\ up' = "serving"
  /\ published' = published + 1
  /\ boot' = published + 1
  /\ tracker' = NoBuilder
  /\ inserts' = <<Event("calm", "runtime")>>
  /\ UNCHANGED <<strays, log, faults, lost, disowned, cut>>

\* Mutant: the newest insert is served first.
InsertNewest ==
  /\ inserts # <<>>
  /\ up \in {"serving", "detached"}
  /\ log' = Append(log, Last(inserts))
  /\ inserts' = Front(inserts)
  /\ UNCHANGED <<up, published, strays, tracker, faults, ghost>>

Insert ==
  /\ inserts # <<>>
  /\ up \in {"serving", "detached"}
  /\ log' = Append(log, Head(inserts))
  /\ inserts' = Tail(inserts)
  /\ UNCHANGED <<up, published, strays, tracker, faults, ghost>>

\* The database is closed, or refuses: the exception is logged by publish().
InsertFails ==
  /\ inserts # <<>>
  /\ \/ up = "closed" /\ UNCHANGED faults
     \/ up \in {"serving", "detached"} /\ faults < MaxFaults /\ faults' = faults + 1
  /\ inserts' = Tail(inserts)
  /\ lost' = lost \cup {Head(inserts).id}
  /\ UNCHANGED <<up, published, strays, log, tracker, boot, disowned, cut>>

\* The publisher is cancelled, and its handlers with it.
CancelPublish(i) ==
  /\ faults < MaxFaults
  /\ faults' = faults + 1
  /\ inserts' = RemoveAt(inserts, i)
  /\ lost' = lost \cup {inserts[i].id}
  /\ IF i = 1
       THEN strays' = strays \cup {inserts[1]} /\ disowned' = disowned \cup {inserts[1].id}
       ELSE UNCHANGED <<strays, disowned>>
  /\ UNCHANGED <<up, published, log, tracker, boot, cut>>

\* The thread of a cancelled insert gets to the database, if it is open still.
StrayRuns(e) ==
  /\ strays' = strays \ {e}
  /\ log' = IF up \in {"serving", "detached"} THEN Append(log, e) ELSE log
  /\ UNCHANGED <<up, published, inserts, tracker, faults, ghost>>

\* stop(), and a boot that fails: detach, then close.
Detach ==
  /\ up = "serving"
  /\ up' = "detached"
  /\ UNCHANGED <<published, inserts, strays, log, tracker, faults, ghost>>

Close ==
  /\ up = "detached"
  /\ up' = "closed"
  /\ UNCHANGED <<published, inserts, strays, log, tracker, faults, ghost>>

Ids(events) == {events[i].id : i \in 1..Len(events)}

\* The process ends, in good order or not.
Exit ==
  /\ up # "down"
  /\ up' = "down"
  /\ lost' = lost \cup Ids(inserts)
  /\ inserts' = <<>> /\ strays' = {}
  /\ UNCHANGED <<published, log, tracker, faults, boot, disowned, cut>>

\* The events that a DELETE of those up to n leaves.
Kept(events, n) ==
  LET kept[i \in Nat] ==
        IF i = 0 THEN <<>>
        ELSE IF events[i].id > n THEN Append(kept[i - 1], events[i]) ELSE kept[i - 1]
  IN  kept[Len(events)]

\* Mutant: the event of that very time goes too.
PruneAtTime(n) ==
  /\ up \in {"serving", "detached"}
  /\ n > cut
  /\ log' = Kept(log, n + 1)
  /\ cut' = n
  /\ UNCHANGED <<up, published, inserts, strays, tracker, faults, boot, lost, disowned>>

\* prune_older_than, with the time of the event after n.
Prune(n) ==
  /\ up \in {"serving", "detached"}
  /\ n > cut
  /\ log' = Kept(log, n)
  /\ cut' = n
  /\ UNCHANGED <<up, published, inserts, strays, tracker, faults, boot, lost, disowned>>

Next ==
  \/ Boot \/ Insert \/ InsertFails \/ Detach \/ Close \/ Exit
  \/ \E t \in Publishers, kind \in Kinds : Publish(t, kind)
  \/ \E i \in 1..Len(inserts) : CancelPublish(i)
  \/ \E e \in strays : StrayRuns(e)
  \/ \E n \in 1..published : Prune(n)

Spec == Init /\ [][Next]_vars

-----------------------------------------------------------------------------
\* Properties.

TypeOK ==
  /\ up \in {"down", "serving", "detached", "closed"}
  /\ published \in 0..MaxEvents /\ boot \in 0..published /\ cut \in 0..published
  /\ lost \cup disowned \cup Ids(log) \cup Ids(inserts) \subseteq 1..published
  /\ Len(tracker.closed) <= MaxHistory
  /\ faults \in 0..MaxFaults

\* "Insertion order is always the true order they were published in"
\* (database.py 310-313): so it is for every event but those whose publisher was
\* cancelled while they were being inserted; and no event is stored twice.
LogKeepsOrder ==
  \A i, j \in 1..Len(log) : i < j =>
    /\ log[i].id # log[j].id
    /\ log[i].id \notin disowned /\ log[j].id \notin disowned => log[i].id < log[j].id

\* Every event published while the timeline is attached is stored, still to be
\* stored, pruned, or lost to a fault: detaching, closing and slow inserts that
\* pile up drop none silently.
NothingVanishes ==
  \A id \in 1..published : id > cut => id \in Ids(log) \cup Ids(inserts) \cup lost

\* Incidents are compared from the first event on that says this process is calm.
Calms(events) == {events[i].id : i \in {j \in 1..Len(events) :
                                          events[j].kind = "calm" /\ events[j].id >= boot}}

Nth(incidents, k) == incidents[Len(incidents) + 1 - k]   \* the k-th newest

BeganAfter(n, incidents, k) == k <= Len(incidents) /\ Nth(incidents, k).events[1] > n

\* build_incidents() "reconstructs the same incidents offline from a persisted
\* timeline" (README 181-182): replaying the timeline, with the inserts still
\* under way, gives the open incident and the newest closed ones the tracker
\* holds, with all their events and states, though earlier processes have left
\* incidents open in the table and events were pruned.
RebuildAgrees ==
  LET events  == log \o inserts
      rebuilt == Build(events) IN
  up # "down" /\ (\A id \in lost : id < boot) =>
    \A n \in Calms(events) :
      /\ rebuilt.open = tracker.open
      /\ \A k \in 1..MaxHistory :
           BeganAfter(n, tracker.closed, k) \/ BeganAfter(n, rebuilt.closed, k) =>
             /\ k <= Len(tracker.closed) /\ k <= Len(rebuilt.closed)
             /\ Nth(tracker.closed, k) = Nth(rebuilt.closed, k)

\* The command line replays the oldest events only, and may look at any moment,
\* also after a power loss: every closed incident of the last process it shows is
\* one the tracker closed, though the newest may be missing.
Shown == Build(SubSeq(log, 1, IF Len(log) < ReplayLimit THEN Len(log) ELSE ReplayLimit))

Gapless == \A id \in lost : id < boot \/ \A i \in 1..Len(log) : log[i].id < id

CliIsTrue == Gapless =>
  \A n \in Calms(log) : \A i \in 1..Len(Shown.closed) :
    Shown.closed[i].events[1] > n =>
      \/ \E j \in 1..Len(tracker.closed) : tracker.closed[j] = Shown.closed[i]
      \/ tracker.closed # <<>> /\ tracker.closed[1].events[1] > Shown.closed[i].events[1]
====
