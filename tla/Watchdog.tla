---- MODULE Watchdog ----
(***************************************************************************)
(* process/watchdog.py: targets that must send heartbeats, the poll that   *)
(* finds the silent ones, and its escalation of the runtime.               *)
(*                                                                         *)
(* The poll iterates over the live dict of targets and awaits a publish    *)
(* in the middle of it; heartbeats, registrations and unregistrations are  *)
(* synchronous calls of other tasks, made during such an await.            *)
(***************************************************************************)
EXTENDS Naturals, SequencesExt, RuntimeStates

CONSTANTS
  Names,    \* the targets an application may register
  MayStop   \* whether the watchdog may be stopped, and started again

ASSUME WatchdogAssumption == MayStop \in BOOLEAN

VARIABLES
  state,     \* the runtime's state
  watches,   \* the keys of _watches, in the order of the dict
  silent,    \* targets whose last heartbeat is longer ago than their timeout
  stale,     \* targets whose watch.stale is set
  pc,        \* where the polling task stands
  task,      \* _task is not None
  todo,      \* entries of the dict the iterator has still before it
  started,   \* how many entries the dict had when the iteration started
  visits,    \* how many of them the iterator has yielded
  asOf,      \* targets silent at the "now" of this poll, and since
  newly,     \* newly_stale is not empty
  \* Observations, which no guard reads.
  told,      \* the last event published about each target since its registration
  missed     \* targets found stale by a poll that was left before it escalated

dict == <<watches, silent>>
iter == <<todo, started, visits, asOf, newly>>
vars == <<state, dict, stale, pc, task, iter, told, missed>>

Registered == Range(watches)

\* "off": nothing runs; "idle": the task sleeps; "publishing": an event is being
\* published; "telling": the handlers are told of FAILED.
Points == {"off", "idle", "publishing", "telling"}

Init ==
  /\ state = "initializing"
  /\ watches = <<>>
  /\ silent = {}
  /\ stale = {}
  /\ pc = "off"
  /\ task = FALSE
  /\ todo = <<>> /\ started = 0 /\ visits = 0
  /\ asOf = {}
  /\ newly = FALSE
  /\ told = [n \in Names |-> "nothing"]
  /\ missed = {}

Polling == pc = "publishing"

-----------------------------------------------------------------------------
\* What other tasks call.

\* A new key is appended to the dict, and an iterator under way will reach it;
\* a known one gets a new watch in its place.
Register(n) ==
  /\ watches' = IF n \in Registered THEN watches ELSE Append(watches, n)
  /\ todo' = IF Polling /\ n \notin Registered THEN Append(todo, n) ELSE todo
  /\ silent' = silent \ {n}
  /\ stale' = stale \ {n}
  /\ asOf' = asOf \ {n}
  /\ told' = [told EXCEPT ![n] = "nothing"]
  /\ missed' = missed \ {n}
  /\ UNCHANGED <<state, pc, task, started, visits, newly>>

Unregister(n) ==
  /\ n \in Registered
  /\ watches' = Remove(watches, n)
  /\ todo' = Remove(todo, n)
  /\ silent' = silent \ {n}
  /\ stale' = stale \ {n}
  /\ asOf' = asOf \ {n}
  /\ told' = [told EXCEPT ![n] = "nothing"]
  /\ missed' = missed \ {n}
  /\ UNCHANGED <<state, pc, task, started, visits, newly>>

\* Mutant: a heartbeat clears the flag.
HeartbeatClears(n) ==
  /\ n \in Registered
  /\ silent' = silent \ {n}
  /\ asOf' = asOf \ {n}
  /\ stale' = stale \ {n}
  /\ UNCHANGED <<state, watches, pc, task, todo, started, visits, newly, told, missed>>

\* heartbeat() leaves the flag alone: only a poll turns it, and says so.
Heartbeat(n) ==
  /\ n \in Registered
  /\ silent' = silent \ {n}
  /\ asOf' = asOf \ {n}
  /\ UNCHANGED <<state, watches, stale, pc, task, todo, started, visits, newly, told, missed>>

\* Time passes without a heartbeat.
GoesSilent(n) ==
  /\ n \in Registered \ silent
  /\ silent' = silent \cup {n}
  /\ UNCHANGED <<state, watches, stale, pc, task, iter, told, missed>>

-----------------------------------------------------------------------------
\* check_once().

\* Mutant: only recoveries are noticed.
TurnsBack(n, late) == n \in stale /\ n \notin late

\* Whether a watch visited now changes its flag.
Turns(n, late) == (n \in late) # (n \in stale)

IteratorIs(entries, size, visited, late, found) ==
  /\ todo' = entries
  /\ started' = size
  /\ visits' = visited
  /\ asOf' = late
  /\ newly' = found

NoIterator == IteratorIs(<<>>, 0, 0, {}, FALSE)

\* Mutant: only a HEALTHY runtime is escalated.
FinishHealthy(found) ==
  /\ IF found /\ state = "healthy"
       THEN state' = "failed" /\ pc' = "telling" /\ UNCHANGED task
       ELSE UNCHANGED state /\ pc' = "idle" /\ task' = TRUE
  /\ NoIterator
  /\ UNCHANGED <<stale, told, missed>>

\* The poll ends without an exception; it escalates if it found anything.
Finish(found) ==
  /\ IF found /\ state \notin UnsafeToEscalate /\ CanTransition(state, "failed")
       THEN state' = "failed" /\ pc' = "telling" /\ UNCHANGED task
       ELSE UNCHANGED state /\ pc' = "idle" /\ task' = TRUE
  /\ NoIterator
  /\ UNCHANGED <<stale, told, missed>>

\* The iterator finds the dict changed: check_once raises. The polling task logs
\* it and sleeps; start() passes it on and has no task.
Raise(found) ==
  /\ pc' = IF task THEN "idle" ELSE "off"
  /\ missed' = IF found THEN stale ELSE missed
  /\ NoIterator
  /\ UNCHANGED <<state, task, stale, told>>

\* The next entry whose flag turns: turn it, and await the publish of that.
Turn(n, entries, size, visited, late, found) ==
  /\ stale' = IF n \in late THEN stale \cup {n} ELSE stale \ {n}
  /\ told' = [told EXCEPT ![n] = IF n \in late THEN "stale" ELSE "recovered"]
  /\ IteratorIs(entries, size, visited, late, found \/ n \in late)
  /\ missed' = missed \ {n}
  /\ pc' = "publishing"
  /\ UNCHANGED <<state, task>>

\* Go on with the iteration up to the next await. It raises if the dict has not
\* the size it had at the start, or has entries left after as many visits.
Iterate(entries, size, visited, late, found) ==
  LET k == SelectInSeq(entries, LAMBDA n : Turns(n, late))
  IN  \/ Len(watches) # size /\ Raise(found)
      \/ /\ Len(watches) = size
         /\ k # 0 /\ visited + k <= size
         /\ Turn(entries[k], SubSeq(entries, k + 1, Len(entries)), size, visited + k, late, found)
      \/ /\ Len(watches) = size
         /\ k = 0 \/ visited + k > size
         /\ IF visited + Len(entries) > size THEN Raise(found) ELSE Finish(found)

\* start() polls before it creates the task; each wake-up polls.
Poll ==
  /\ pc \in {"off", "idle"}
  /\ Iterate(watches, Len(watches), 0, silent, FALSE)
  /\ UNCHANGED dict

Published ==
  /\ pc = "publishing"
  /\ Iterate(todo, started, visits, asOf, newly)
  /\ UNCHANGED dict

\* The handlers are done; one that raises is logged.
Told ==
  /\ pc = "telling"
  /\ pc' = "idle"
  /\ task' = TRUE
  /\ UNCHANGED <<state, dict, stale, iter, told, missed>>

\* stop() cancels the task and awaits its end; or the first poll is cancelled
\* with the task that awaits start().
Stop ==
  /\ MayStop
  /\ pc # "off"
  /\ pc' = "off"
  /\ task' = FALSE
  /\ missed' = IF newly THEN stale ELSE missed
  /\ NoIterator
  /\ UNCHANGED <<state, dict, stale, told>>

\* The rest of the runtime: the end of the boot, shutdown.
Elsewhere ==
  /\ \/ state = "initializing" /\ state' = "healthy"
     \/ CanTransition(state, "stopping") /\ state' = "stopping"
     \/ CanTransition(state, "stopped") /\ state' = "stopped"
  /\ UNCHANGED <<dict, stale, pc, task, iter, told, missed>>

Next ==
  \/ Poll \/ Published \/ Told \/ Stop \/ Elsewhere
  \/ \E n \in Names : Register(n) \/ Unregister(n) \/ Heartbeat(n) \/ GoesSilent(n)

Spec == Init /\ [][Next]_vars

\* The task wakes up and what it awaits ends.
FairSpec == Spec /\ WF_vars(Poll) /\ WF_vars(Published) /\ WF_vars(Told)

-----------------------------------------------------------------------------
\* Properties.

TypeOK ==
  /\ state \in States
  /\ Registered \subseteq Names /\ Len(watches) <= Cardinality(Names)
  /\ silent \subseteq Registered /\ stale \subseteq Registered /\ asOf \subseteq silent
  /\ pc \in Points /\ task \in BOOLEAN
  /\ Range(todo) \subseteq Names
  /\ visits <= started
  /\ newly \in BOOLEAN /\ missed \subseteq stale
  /\ told \in [Names -> {"nothing", "stale", "recovered"}]

\* A target found stale is never left at that: once the poll is over the runtime
\* is FAILED or shutting down, unless the poll was cancelled or raised.
StaleIsEscalated ==
  pc = "idle" /\ ~(stale \subseteq missed) => state \in {"failed", "stopping", "stopped"}

\* "publish 'recovered' exactly once" (watchdog.py 117-121): between two stale
\* events of a target lies a recovered one, however its heartbeats fall between
\* the polls.
StaleThenRecovered ==
  [][\A n \in Names :
       n \in stale' \ stale => told[n] # "stale"]_vars

\* "anything that stops checking in within its timeout is reported stale": once
\* names have ceased to come and go and the task is left running, a target that
\* stays silent is found.
SilenceIsFound ==
  <>[]task /\ <>[][watches' = watches]_vars =>
    \A n \in Names : n \in silent ~> (n \notin silent \/ n \in stale)
====
