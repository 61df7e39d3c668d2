---- MODULE DurableOps ----
(***************************************************************************)
(* guard.durable(): the intent journal, the decorator that writes it, and  *)
(* the replay of unfinished intents at start(), across power loss, failed  *)
(* boots, shutdown with calls in flight, and cancellation.                 *)
(*                                                                         *)
(* The code is asyncio: a step is what runs from one await to the next.    *)
(* Each journal write is one SQLite statement in autocommit mode with      *)
(* synchronous=FULL, so it is on disk or it did not happen.                *)
(***************************************************************************)
EXTENDS Naturals

CONSTANTS
  Intents,      \* the durable calls of the run, one journal row each (a UUID4 in the code)
  Operations,   \* operation names
  OpOf,         \* the operation each intent is a call of
  Declared,     \* operations decorated before guard.start() in every process
  Recovery,     \* EdgeSentinel(recovery=...)
  MaxAttempts,  \* durable(max_attempts=...); 0 stands for None
  MaxFaults     \* bound: how many faults (Fault) the environment may inject

ASSUME ConstantsAssumption ==
  /\ OpOf \in [Intents -> Operations]
  /\ Declared \subseteq Operations
  /\ Recovery \in BOOLEAN
  /\ MaxAttempts \in Nat
  /\ MaxFaults \in Nat

VARIABLES
  \* On disk: the intents table.
  status,      \* the row's status; "unrequested" and "pruned" when there is no row
  attempts,    \* the row's attempts column
  older,       \* the rows with a smaller rowid, fixed when the row is inserted
  \* In the process.
  phase,       \* how far the runtime of the current process has got
  registered,  \* keys of the registry of replay handlers
  toReplay,    \* intents replay_pending has read and not reached yet
  exec,        \* where each execution of execute(intent) stands
  \* Observations, which no guard reads.
  tried,       \* intents an execution has begun for in this process
  runs,        \* how often the body of the operation was entered
  executed,    \* intents whose body has returned
  reply,       \* what the caller of the decorated function was told
  cut,         \* how many attempts of the intent ended with its row in_progress
  faults

disk  == <<status, attempts, older>>
ghost == <<tried, runs, executed, reply, cut, faults>>
vars  == <<disk, phase, registered, toReplay, exec, ghost>>

Runners    == {"call", "replay"}   \* wrapper() and replay() both await execute()
Unfinished == {"pending", "in_progress"}
Finished   == {"completed", "failed"}
Statuses   == Unfinished \cup Finished \cup {"unrequested", "pruned"}

\* "booting": start() before journal.pending(); "replaying": in replay_pending
\* or starting the subsystems; "up": _started and not _stopped;
\* "closed": the process lives, its connection is closed or start() was aborted.
Phases == {"off", "booting", "replaying", "up", "closed"}

Underway  == {"marked", "running", "returned", "raised"}  \* the row says in_progress
Settled   == {"completed", "retry", "exhausted"}  \* last journal write done, event being published
Positions == {"idle", "loaded"} \cup Underway \cup Settled
Replies   == {"none", "ok", "error", "exhausted"}

Present      == {i \in Intents : status[i] \in Unfinished \cup Finished}
Connected    == phase \in {"booting", "replaying", "up"}
IsStarted    == phase = "up"
InFlight(r)  == {i \in Intents : exec[r][i] # "idle"}
\* Mutant: compares with > instead of >=.
ExhaustedLate(n) == MaxAttempts # 0 /\ n > MaxAttempts

Exhausted(n) == MaxAttempts # 0 /\ n >= MaxAttempts

Fault == faults < MaxFaults /\ faults' = faults + 1

Init ==
  /\ status = [i \in Intents |-> "unrequested"]
  /\ attempts = [i \in Intents |-> 0]
  /\ older = [i \in Intents |-> {}]
  /\ phase = "off"
  /\ registered = {}
  /\ toReplay = {}
  /\ exec = [r \in Runners |-> [i \in Intents |-> "idle"]]
  /\ tried = {}
  /\ runs = [i \in Intents |-> 0]
  /\ executed = {}
  /\ reply = [i \in Intents |-> "none"]
  /\ cut = [i \in Intents |-> 0]
  /\ faults = 0

Goto(r, i, pc) == exec' = [exec EXCEPT ![r][i] = pc]

Answer(r, i, what) ==
  reply' = IF r = "call" THEN [reply EXCEPT ![i] = what] ELSE reply

\* The executions of these runners are gone; those under way leave their rows as
\* they are.
CutShort(runners) ==
  cut' = [i \in Intents |-> IF \E r \in runners : exec[r][i] \in Underway THEN cut[i] + 1 ELSE cut[i]]

-----------------------------------------------------------------------------
\* The process and its runtime.

Boot ==
  /\ phase = "off"
  /\ phase' = "booting"
  /\ registered' = Declared
  /\ UNCHANGED <<disk, toReplay, exec, ghost>>

\* @guard.durable(op) evaluated late, after start() was called.
Register(op) ==
  /\ phase # "off"
  /\ op \notin registered
  /\ registered' = registered \cup {op}
  /\ UNCHANGED <<disk, phase, toReplay, exec, ghost>>

\* Mutants: only PENDING rows are read; FAILED rows are read too.
ReplaySetPendingOnly == {i \in Intents : status[i] = "pending"}
ReplaySetWithFailed  == {i \in Intents : status[i] \in Unfinished \cup {"failed"}}

\* journal.pending(): every row still to be finished, read once.
ReplaySet == {i \in Intents : status[i] \in Unfinished}

LoadPending ==
  /\ phase = "booting"
  /\ phase' = "replaying"
  /\ toReplay' = IF Recovery THEN ReplaySet ELSE {}
  /\ UNCHANGED <<disk, registered, exec, ghost>>

\* Mutant: ORDER BY rowid DESC.
NewestInOrder(i) == i \in toReplay /\ \A j \in toReplay : i \notin older[j]

\* ORDER BY rowid ASC.
NextInOrder(i) == i \in toReplay /\ older[i] \cap toReplay = {}

\* The replay loop awaits one handler at a time; an intent of an operation
\* that is not registered is left as it is.
ReplayNext(i) ==
  /\ phase = "replaying"
  /\ InFlight("replay") = {}
  /\ NextInOrder(i)
  /\ toReplay' = toReplay \ {i}
  /\ IF OpOf[i] \in registered
       THEN Goto("replay", i, "loaded") /\ tried' = tried \cup {i}
       ELSE UNCHANGED <<exec, tried>>
  /\ UNCHANGED <<disk, phase, registered, runs, executed, reply, cut, faults>>

BootDone ==
  /\ phase = "replaying"
  /\ toReplay = {} /\ InFlight("replay") = {}
  /\ phase' = "up"
  /\ UNCHANGED <<disk, registered, toReplay, exec, ghost>>

\* A migration, a read of the journal or a subsystem fails: start() closes
\* the database and raises. There is no way back to booting in this process.
BootFails ==
  /\ \/ phase = "booting"
     \/ phase = "replaying" /\ toReplay = {} /\ InFlight("replay") = {}
  /\ Fault
  /\ phase' = "closed"
  /\ UNCHANGED <<disk, registered, toReplay, exec, tried, runs, executed, reply, cut>>

\* The task awaiting start() is cancelled; CancelledError passes every
\* "except Exception" on its way out, the one of replay_pending included.
CancelStart ==
  /\ phase \in {"booting", "replaying"}
  /\ Fault
  /\ phase' = "closed"
  /\ toReplay' = {}
  /\ exec' = [exec EXCEPT !["replay"] = [i \in Intents |-> "idle"]]
  /\ UNCHANGED <<disk, registered, tried, runs, executed, reply>>
  /\ CutShort({"replay"})

\* stop() closes the connection without waiting for calls in flight. Closing
\* under a call counts as a fault, so that attempts stay bounded.
Close ==
  /\ phase = "up"
  /\ IF InFlight("call") = {} THEN UNCHANGED faults ELSE Fault
  /\ phase' = "closed"
  /\ UNCHANGED <<disk, registered, toReplay, exec, tried, runs, executed, reply, cut>>

ProcessEnds ==
  /\ phase' = "off"
  /\ registered' = {}
  /\ toReplay' = {}
  /\ exec' = [r \in Runners |-> [i \in Intents |-> "idle"]]
  /\ tried' = {}
  /\ UNCHANGED <<disk, runs, executed, reply>>
  /\ CutShort(Runners)

Exit  == phase = "closed" /\ ProcessEnds /\ UNCHANGED faults
Crash == phase # "off" /\ Fault /\ ProcessEnds

-----------------------------------------------------------------------------
\* One call of a durable function: wrapper() and execute().

\* Mutant: calls are accepted as soon as the database is open.
CallAllowedEarly(i) == OpOf[i] \in registered

\* wrapper(): the is_started check, then journal.record(). The check and the
\* insert are one step because a connection still open at the insert means the
\* check still holds.
CallAllowed(i) == IsStarted /\ OpOf[i] \in registered

Record(i) ==
  /\ CallAllowed(i)
  /\ Connected
  /\ status[i] = "unrequested"
  /\ status' = [status EXCEPT ![i] = "pending"]
  /\ older' = [older EXCEPT ![i] = Present]
  /\ Goto("call", i, "loaded")
  /\ tried' = tried \cup {i}
  /\ UNCHANGED <<attempts, phase, registered, toReplay, runs, executed, reply, cut, faults>>

\* Mutant: a replay starts counting again.
MarkInProgressAfresh(r, i) ==
  /\ exec[r][i] = "loaded"
  /\ Connected
  /\ status' = [status EXCEPT ![i] = "in_progress"]
  /\ attempts' = [attempts EXCEPT ![i] = IF r = "replay" THEN 1 ELSE @ + 1]
  /\ Goto(r, i, "marked")
  /\ UNCHANGED <<older, phase, registered, toReplay, ghost>>

\* mark_in_progress reads the row and rewrites it; no other execution of the
\* intent exists in the process (OncePerRestart), so the pair is one step.
MarkInProgress(r, i) ==
  /\ exec[r][i] = "loaded"
  /\ Connected
  /\ status' = [status EXCEPT ![i] = "in_progress"]
  /\ attempts' = [attempts EXCEPT ![i] = @ + 1]
  /\ Goto(r, i, "marked")
  /\ UNCHANGED <<older, phase, registered, toReplay, ghost>>

\* The "started" event is published, then the body is entered -- whether or
\* not the database was closed meanwhile.
EnterBody(r, i) ==
  /\ exec[r][i] = "marked"
  /\ runs' = [runs EXCEPT ![i] = @ + 1]
  /\ Goto(r, i, "running")
  /\ UNCHANGED <<disk, phase, registered, toReplay, tried, executed, reply, cut, faults>>

BodyReturns(r, i) ==
  /\ exec[r][i] = "running"
  /\ executed' = executed \cup {i}
  /\ Goto(r, i, "returned")
  /\ UNCHANGED <<disk, phase, registered, toReplay, tried, runs, reply, cut, faults>>

BodyRaises(r, i) ==
  /\ exec[r][i] = "running"
  /\ Fault
  /\ Goto(r, i, "raised")
  /\ UNCHANGED <<disk, phase, registered, toReplay, tried, runs, executed, reply, cut>>

\* Mutants: completed in a finally block; a failed journal write swallowed.
MarkCompletedFinally(r, i) ==
  /\ exec[r][i] \in {"returned", "raised"}
  /\ Connected
  /\ status' = [status EXCEPT ![i] = "completed"]
  /\ Goto(r, i, "completed")
  /\ UNCHANGED <<attempts, older, phase, registered, toReplay, ghost>>

MarkCompletedOrNot(r, i) ==
  /\ exec[r][i] = "returned"
  /\ status' = IF Connected THEN [status EXCEPT ![i] = "completed"] ELSE status
  /\ Goto(r, i, "completed")
  /\ UNCHANGED <<attempts, older, phase, registered, toReplay, ghost>>

MarkCompleted(r, i) ==
  /\ exec[r][i] = "returned"
  /\ Connected
  /\ status' = [status EXCEPT ![i] = "completed"]
  /\ Goto(r, i, "completed")
  /\ UNCHANGED <<attempts, older, phase, registered, toReplay, ghost>>

MarkRaised(r, i) ==
  /\ exec[r][i] = "raised"
  /\ Connected
  /\ IF Exhausted(attempts[i])
       THEN status' = [status EXCEPT ![i] = "failed"] /\ Goto(r, i, "exhausted")
       ELSE status' = [status EXCEPT ![i] = "pending"] /\ Goto(r, i, "retry")
  /\ UNCHANGED <<attempts, older, phase, registered, toReplay, ghost>>

\* The outcome event has been published: return the result, re-raise, or
\* raise DurableOperationExhaustedError; a replay swallows all three.
Told(pc) == [completed |-> "ok", retry |-> "error", exhausted |-> "exhausted"][pc]

Return(r, i) ==
  /\ exec[r][i] \in Settled
  /\ Answer(r, i, Told(exec[r][i]))
  /\ Goto(r, i, "idle")
  /\ UNCHANGED <<disk, phase, registered, toReplay, tried, runs, executed, cut, faults>>

\* execute() is left early. A journal write on a closed connection raises, and
\* so may one that SQLite refuses; a live call may also be cancelled at any of
\* its awaits. Nothing more is written for the intent.
Abandon(r, i) ==
  /\ \/ exec[r][i] \in {"loaded", "returned", "raised"} /\ ~Connected /\ UNCHANGED faults
     \/ exec[r][i] \in {"loaded", "returned", "raised"} /\ Connected /\ Fault
     \/ r = "call" /\ exec[r][i] \in {"marked", "running"} \cup Settled /\ Fault
  /\ Answer(r, i, "error")
  /\ Goto(r, i, "idle")
  /\ cut' = IF exec[r][i] \in Underway THEN [cut EXCEPT ![i] = @ + 1] ELSE cut
  /\ UNCHANGED <<disk, phase, registered, toReplay, tried, runs, executed>>

\* journal.prune_completed(older_than). Rows are stamped by the wall clock,
\* which may be set back between two writes: any completed rows may qualify.
Prunable == {i \in Intents : status[i] = "completed"}

Prune(S) ==
  /\ Connected
  /\ S # {}
  /\ S \subseteq Prunable
  /\ status' = [i \in Intents |-> IF i \in S THEN "pruned" ELSE status[i]]
  /\ UNCHANGED <<attempts, older, phase, registered, toReplay, exec, ghost>>

Execute(r, i) ==
  \/ MarkInProgress(r, i) \/ EnterBody(r, i)
  \/ BodyReturns(r, i) \/ BodyRaises(r, i)
  \/ MarkCompleted(r, i) \/ MarkRaised(r, i)
  \/ Return(r, i) \/ Abandon(r, i)

Next ==
  \/ Boot \/ LoadPending \/ BootDone \/ BootFails \/ CancelStart
  \/ Close \/ Exit \/ Crash
  \/ \E op \in Operations : Register(op)
  \/ \E i \in Intents : ReplayNext(i) \/ Record(i)
  \/ \E r \in Runners, i \in Intents : Execute(r, i)
  \/ \E S \in SUBSET Intents : Prune(S)

Spec == Init /\ [][Next]_vars

\* The event loop runs every ready task, a body that is entered ends, and the
\* device is restarted again and again. No fairness for the application's
\* calls, late decorations, pruning or any fault.
Fairness ==
  /\ WF_vars(Boot) /\ WF_vars(LoadPending) /\ WF_vars(BootDone)
  /\ WF_vars(Close) /\ WF_vars(Exit)
  /\ \A i \in Intents :
       /\ WF_vars(ReplayNext(i))
       /\ \A r \in Runners :
            /\ WF_vars(MarkInProgress(r, i)) /\ WF_vars(EnterBody(r, i))
            /\ WF_vars(BodyReturns(r, i))
            /\ WF_vars(MarkCompleted(r, i)) /\ WF_vars(MarkRaised(r, i))
            /\ WF_vars(Return(r, i))
            /\ WF_vars(Abandon(r, i) /\ ~Connected)

FairSpec == Spec /\ Fairness

-----------------------------------------------------------------------------
\* Properties.

TypeOK ==
  /\ status \in [Intents -> Statuses]
  /\ attempts \in [Intents -> Nat]
  /\ older \in [Intents -> SUBSET Intents]
  /\ phase \in Phases
  /\ registered \subseteq Operations
  /\ toReplay \subseteq Intents
  /\ exec \in [Runners -> [Intents -> Positions]]
  /\ tried \subseteq Intents
  /\ runs \in [Intents -> Nat]
  /\ executed \subseteq Intents
  /\ reply \in [Intents -> Replies]
  /\ cut \in [Intents -> Nat]
  /\ faults \in Nat

\* Every entry into the body was counted on disk before it happened, so no
\* crash makes an intent look less tried than it was (mark_in_progress runs
\* before the function, journal.py 139-153).
RunsAreCounted == \A i \in Intents : runs[i] <= attempts[i]

\* A row says completed, or was pruned, only if the body really returned in
\* this process or an earlier one (write-ahead journal, journal.py 12-18).
CompletedWasExecuted ==
  \A i \in Intents : status[i] \in {"completed", "pruned"} => i \in executed

\* What the caller was told agrees with the disk from then on, over every
\* later crash and replay: a returned result means completed (or pruned since),
\* DurableOperationExhaustedError means failed.
AnswersAreJournaled ==
  \A i \in Intents :
    /\ reply[i] = "ok" => status[i] \in {"completed", "pruned"}
    /\ reply[i] = "exhausted" => status[i] = "failed"

\* "Total attempts, counted across the original call and every replay, after
\* which the intent is marked failed and left alone" (runtime.py 304-309): what
\* holds of it. An intent waits for another attempt only while there is one left,
\* and goes beyond the limit by no more than the attempts that were cut short --
\* power loss, a cancelled call, a closed or refusing database -- for execute()
\* looks at the limit only when the function raises.
LimitHolds ==
  \A i \in Intents : MaxAttempts # 0 =>
    /\ attempts[i] <= MaxAttempts + cut[i]
    /\ status[i] = "pending" => attempts[i] < MaxAttempts

\* Once the runtime is up, every unfinished intent of an operation decorated
\* before start() has been given its attempt in this process -- those found
\* in_progress after a crash included (replay_pending, operations.py 158-203).
RecoveryIsComplete ==
  Recovery /\ phase = "up" =>
    \A i \in Intents :
      status[i] \in Unfinished /\ OpOf[i] \in Declared => i \in tried

Begins(i) == \E r \in Runners : exec[r][i] = "idle" /\ exec'[r][i] = "loaded"

\* "once per restart" (runtime.py 308): within one process an intent is
\* executed at most once, so a live call and a replay of it never overlap.
OncePerRestart == [][\A i \in Intents : Begins(i) => i \notin tried]_vars

\* Intents are replayed in the order they were requested (database.py
\* 249-256): when one begins, every earlier unfinished one of a declared
\* operation has had its attempt.
ReplayOldestFirst ==
  [][\A i \in Intents :
       Begins(i) /\ phase = "replaying" =>
         \A j \in older[i] :
           status[j] \in Unfinished /\ OpOf[j] \in Declared => j \in tried]_vars

\* A finished intent is never run again and never leaves its status, except
\* that a completed row may be pruned ("It will never be replayed again").
FinishedIsFinal ==
  [][\A i \in Intents :
       status[i] \in Finished \cup {"pruned"} =>
         /\ runs'[i] = runs[i]
         /\ status'[i] # status[i] => status[i] = "completed" /\ status'[i] = "pruned"]_vars

\* With restarts and finitely many faults, an intent of a declared operation
\* is finished sooner or later.
EventuallyFinished ==
  \A i \in Intents :
    status[i] \in Unfinished /\ OpOf[i] \in Declared ~> status[i] \in Finished \cup {"pruned"}

\* The promise of guard.durable(), refined by the journal.
OutcomeOf == [unrequested |-> "unrequested", pending |-> "owed", in_progress |-> "owed",
              failed |-> "given_up", completed |-> "done", pruned |-> "done"]

Promise == INSTANCE AtLeastOnce
             WITH outcome <- [i \in Intents |-> OutcomeOf[status[i]]], ran <- executed

AtLeastOnceSpec == Promise!ASpec
====
