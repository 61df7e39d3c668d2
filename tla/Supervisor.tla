---- MODULE Supervisor ----
(***************************************************************************)
(* process/supervisor.py: one Supervisor, the runs of its loop (_run),     *)
(* the start() and stop() calls that create and cancel them, and its       *)
(* escalation of the runtime.                                              *)
(*                                                                         *)
(* stop() forgets the task before it has ended, so a start() may create    *)
(* the next run while a cancelled one is still about to end.               *)
(***************************************************************************)
EXTENDS Naturals, FiniteSets, Sequences, RuntimeStates

CONSTANTS
  MaxCrashes,   \* max_crashes
  Window,       \* window, in ticks
  LastDelay,    \* the last attempt whose delay is still a float (1024 when it doubles)
  Swallows,     \* whether the supervised function may return when it is cancelled
  MaxRuns       \* bound: runs that exist at the same time

ASSUME SupervisorAssumption ==
  /\ MaxCrashes \in Nat \ {0}
  /\ Window \in Nat \ {0}
  /\ LastDelay \in Nat \ {0}
  /\ Swallows \in BOOLEAN
  /\ MaxRuns \in Nat \ {0}

VARIABLES
  state,      \* the runtime's state
  task,       \* _task: a run, or NoRun
  pc,         \* where each run stands
  attempt,    \* the attempt each run is at, 0 for none
  cancelled,  \* runs that will find CancelledError at their next step
  awaited,    \* runs whose end a stop() awaits
  failures,   \* _failure_times, as the time gone by since each, up to Window + 1
  crashed,    \* _crashed
  \* Observations, which no guard reads.
  recent,     \* how many crashes there were at most a ticks ago, since the last start()
  swallowed   \* a run went on after it had been cancelled

ghost == <<recent, swallowed>>
vars  == <<state, task, pc, attempt, cancelled, awaited, failures, crashed, ghost>>

Runs  == 1..MaxRuns
NoRun == 0

\* "working": func() is awaited; "reporting": task_crashed or task_exited is being
\* published; "restarting": task_restarting, then the delay; "giving_up":
\* task_crash_loop_detected; "telling": the handlers told of FAILED.
Points == {"none", "working", "reporting", "restarting", "giving_up", "telling"}

Ages == 0..Window
NoCrashes == [a \in Ages |-> 0]

Live(r) == pc[r] # "none"

Init ==
  /\ state = "initializing"
  /\ task = NoRun
  /\ pc = [r \in Runs |-> "none"]
  /\ attempt = [r \in Runs |-> 0]
  /\ cancelled = {} /\ awaited = {}
  /\ failures = <<>>
  /\ crashed = FALSE
  /\ recent = NoCrashes
  /\ swallowed = FALSE

Goto(r, point) == pc' = [pc EXCEPT ![r] = point]

-----------------------------------------------------------------------------
\* start() and stop().

\* Mutant: no check for a run that exists.
StartAgain(r) ==
  /\ ~Live(r)
  /\ task' = r
  /\ Goto(r, "working")
  /\ attempt' = [attempt EXCEPT ![r] = 1]
  /\ crashed' = FALSE
  /\ failures' = <<>>
  /\ recent' = NoCrashes
  /\ UNCHANGED <<state, cancelled, awaited, swallowed>>

\* A second start() is a no-op; any free run will do for a new task.
Start(r) ==
  /\ task = NoRun
  /\ ~Live(r)
  /\ task' = r
  /\ Goto(r, "working")
  /\ attempt' = [attempt EXCEPT ![r] = 1]
  /\ crashed' = FALSE
  /\ failures' = <<>>
  /\ recent' = NoCrashes
  /\ UNCHANGED <<state, cancelled, awaited, swallowed>>

\* Mutant: the task is awaited but not cancelled.
StopWaits ==
  /\ task # NoRun /\ Live(task)
  /\ task' = NoRun
  /\ awaited' = awaited \cup {task}
  /\ UNCHANGED <<state, pc, attempt, cancelled, failures, crashed, ghost>>

Stop ==
  /\ task # NoRun /\ Live(task)
  /\ task' = NoRun
  /\ cancelled' = cancelled \cup {task}
  /\ awaited' = awaited \cup {task}
  /\ UNCHANGED <<state, pc, attempt, failures, crashed, ghost>>

\* The task ended with an exception: stop() forgets it, and raises it.
StopRaises ==
  /\ task # NoRun /\ ~Live(task)
  /\ task' = NoRun
  /\ attempt' = [attempt EXCEPT ![task] = 0]
  /\ UNCHANGED <<state, pc, cancelled, awaited, failures, crashed, ghost>>

-----------------------------------------------------------------------------
\* _run().

Ends(r) ==
  /\ Goto(r, "none")
  /\ attempt' = [attempt EXCEPT ![r] = 0]
  /\ awaited' = awaited \ {r}

\* CancelledError leaves _run from whatever it awaits.
Unwind(r) ==
  /\ r \in cancelled
  /\ Ends(r)
  /\ cancelled' = cancelled \ {r}
  /\ UNCHANGED <<state, task, failures, crashed, ghost>>

\* The supervised function catches it, tidies up and returns: to _run that is an
\* exit like any other.
Swallow(r) ==
  /\ Swallows
  /\ r \in cancelled /\ pc[r] = "working"
  /\ Goto(r, "reporting")
  /\ cancelled' = cancelled \ {r}
  /\ swallowed' = TRUE
  /\ UNCHANGED <<state, task, attempt, awaited, failures, crashed, recent>>

At(r, point) == pc[r] = point /\ r \notin cancelled

\* The function raises or returns.
FuncEnds(r) ==
  /\ At(r, "working")
  /\ Goto(r, "reporting")
  /\ UNCHANGED <<state, task, attempt, cancelled, awaited, failures, crashed, ghost>>

\* _failure_times with the crash of now.
WithThis == Append(failures, 0)

\* Mutant: a crash just as old as the window is dropped.
CountedStrictly ==
  LET first == CHOOSE k \in 1..Len(WithThis) :
                 WithThis[k] < Window /\ \A j \in 1..k - 1 : WithThis[j] >= Window
  IN  SubSeq(WithThis, first, Len(WithThis))

\* popleft() while the first one has left the window.
Counted ==
  LET first == CHOOSE k \in 1..Len(WithThis) :
                 WithThis[k] <= Window /\ \A j \in 1..k - 1 : WithThis[j] > Window
  IN  SubSeq(WithThis, first, Len(WithThis))

\* As many crashes in the window as are allowed.
Loops == Len(Counted) >= MaxCrashes

\* compute_delay raises OverflowError, and the task ends with it: _task is still
\* this run, and nothing is reported.
DelayOverflows(r) ==
  /\ Goto(r, "none")
  /\ attempt' = [attempt EXCEPT ![r] = IF task = r THEN @ ELSE 0]
  /\ awaited' = awaited \ {r}

\* _register_failure, up to its first await, and the delay of the next restart.
RegisterFailure(r) ==
  /\ At(r, "reporting")
  /\ failures' = Counted
  /\ recent' = [a \in Ages |-> recent[a] + 1]
  /\ IF ~Loops /\ attempt[r] > LastDelay
       THEN DelayOverflows(r)
       ELSE Goto(r, IF Loops THEN "giving_up" ELSE "restarting") /\ UNCHANGED <<attempt, awaited>>
  /\ UNCHANGED <<state, task, cancelled, crashed, swallowed>>

Restart(r) ==
  /\ At(r, "restarting")
  /\ Goto(r, "working")
  /\ attempt' = [attempt EXCEPT ![r] = @ + 1]
  /\ UNCHANGED <<state, task, cancelled, awaited, failures, crashed, ghost>>

\* The last lines of _register_failure, and the return of _run.
GiveUp(r) ==
  /\ crashed' = TRUE
  /\ task' = NoRun
  /\ Ends(r)

\* Mutant: reports itself crashed before it escalates.
EscalateLast(r) ==
  /\ At(r, "giving_up")
  /\ crashed' = TRUE
  /\ IF state \notin UnsafeToEscalate /\ CanTransition(state, "failed")
       THEN Goto(r, "telling") /\ UNCHANGED <<state, task, attempt, awaited>>
       ELSE GiveUp(r) /\ UNCHANGED state
  /\ UNCHANGED <<cancelled, failures, ghost>>

\* _escalate, and the rest unless there are handlers to await.
Escalate(r) ==
  /\ At(r, "giving_up")
  /\ IF state \notin UnsafeToEscalate /\ CanTransition(state, "failed")
       THEN state' = "failed" /\ Goto(r, "telling") /\ UNCHANGED <<task, attempt, awaited, crashed>>
       ELSE GiveUp(r) /\ UNCHANGED state
  /\ UNCHANGED <<cancelled, failures, ghost>>

\* A handler that raises is logged.
Told(r) ==
  /\ At(r, "telling")
  /\ GiveUp(r)
  /\ UNCHANGED <<state, cancelled, failures, ghost>>

-----------------------------------------------------------------------------
\* Time, and the rest of the runtime.

Older(age) == IF age > Window THEN age ELSE age + 1

Tick ==
  /\ failures # <<>>
  /\ failures' = [k \in 1..Len(failures) |-> Older(failures[k])]
  /\ recent' = [a \in Ages |-> IF a = 0 THEN 0 ELSE recent[a - 1]]
  /\ UNCHANGED <<state, task, pc, attempt, cancelled, awaited, crashed, swallowed>>

Elsewhere ==
  /\ \/ state = "initializing" /\ state' = "healthy"
     \/ CanTransition(state, "stopping") /\ state' = "stopping"
     \/ CanTransition(state, "stopped") /\ state' = "stopped"
  /\ UNCHANGED <<task, pc, attempt, cancelled, awaited, failures, crashed, ghost>>

Loop(r) ==
  \/ Unwind(r) \/ Swallow(r)
  \/ FuncEnds(r) \/ RegisterFailure(r) \/ Restart(r) \/ Escalate(r) \/ Told(r)

Next == Stop \/ StopRaises \/ Tick \/ Elsewhere \/ \E r \in Runs : Start(r) \/ Loop(r)

Spec == Init /\ [][Next]_vars

\* The event loop resumes every run whose await is over: a cancelled one, and one
\* that publishes or waits. The supervised function need not end.
Fairness ==
  \A r \in Runs :
    /\ WF_vars(Unwind(r) \/ Swallow(r))
    /\ WF_vars(RegisterFailure(r) \/ Restart(r) \/ Escalate(r) \/ Told(r))

FairSpec == Spec /\ Fairness

-----------------------------------------------------------------------------
\* Properties.

\* What the code's fields can hold; how failures grows is GivesUpInTime's matter.
TypeOK ==
  /\ state \in States
  /\ task \in Runs \cup {NoRun}
  /\ pc \in [Runs -> Points]
  /\ attempt \in [Runs -> 0..LastDelay + 1]
  /\ cancelled \subseteq Runs /\ awaited \subseteq Runs
  /\ crashed \in BOOLEAN /\ swallowed \in BOOLEAN
  /\ recent \in [Ages -> Nat]

\* is_running tells the truth: the task is a live run that is not on its way out,
\* or the one whose delay overflowed. At most one run works: every other one is on
\* its way out, unless the function swallowed a cancellation (_task, supervisor.py
\* 132-149, 224-229).
OneRun ==
  /\ task # NoRun => (Live(task) \/ attempt[task] > LastDelay) /\ task \notin cancelled
  /\ ~swallowed => \A r \in Runs : Live(r) /\ r \notin cancelled => task = r

\* "Number of crashes allowed within window seconds before the supervisor gives
\* up" (supervisor.py 57-59): it gives up at a crash exactly when that many lie
\* within the window since start(), however they are spread over time.
GivesUpInTime ==
  [][\A r \in Runs :
       At(r, "reporting") /\ ~At(r, "reporting")' /\ r \notin cancelled' =>
         (pc'[r] = "giving_up" <=> recent'[Window] >= MaxCrashes)]_vars

\* "escalation has already run by the time either is visible" (supervisor.py
\* 225-227): a supervisor seen crashed has failed the runtime, or it was shutting down.
CrashedIsEscalated == crashed => state \in {"failed", "stopping", "stopped"}

\* "Restarts func with backoff whenever it exits or raises" (supervisor.py 42), or
\* gives up: a supervisor that says it is running has a run. A finding: the delay
\* is computed from a count that is never reset.
RunningIsTrue == task # NoRun => Live(task)

\* A stop() returns -- unless the function swallowed a cancellation.
StopReturns == \A r \in Runs : r \in awaited ~> (r \notin awaited \/ swallowed)
====
