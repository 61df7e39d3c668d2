# EdgeSentinel in TLA+

TLA+ modules of EdgeSentinel (`src/src/edgesentinel`), the TLC instances that model-check them, and
TLAPS proofs of the properties that matter most. EdgeSentinel is an asyncio library for programs on
edge devices: a runtime object with a lifecycle, monitors and supervisors that drive the state of
that runtime, a circuit breaker with retries, and a journal of durable operations that survives
power loss.

All of it runs in one event loop, so control changes hands only at an `await`. Every module follows
that rule: **one action runs from one await to the next**, and two tasks interleave between actions.
A process that dies loses every variable but those said to be on disk.

## The system

| component | state | operations | interacts with |
|---|---|---|---|
| `durability/` operations, journal | rows of `durable_intents`; registered wrappers | decorate, call, `replay_pending`, prune | database; called by `EdgeSentinel.start` |
| `core/runtime.py` | `_started`, `_stopped`, lists of subsystems | `start`, `stop` under one lock | everything |
| `core/lifecycle.py`, `core/state.py` | `_state` | `set_state`, `boot`, `shutdown` | handlers, event bus |
| `core/events.py` | subscriptions | `publish`, `subscribe` | timeline, incident tracker |
| `resilience/circuit_breaker.py` | `_state`, `_failure_count`, `_half_open_in_flight`, saved record | `call`, `restore` | database |
| `resilience/` retry, backoff, timeout, policy | none across calls | `execute` | breaker |
| `network/monitor.py` | last status | poll, `start`, `stop` | `set_state`, bus |
| `storage/monitor.py`, `metrics/monitor.py` | `_low` / `_high` | poll, remedies, escalate, `start`, `stop` | `set_state`, bus |
| `process/supervisor.py` | `_task`, `_failure_times`, `_crashed` | `start`, `stop`, restart loop | `set_state`, bus |
| `process/watchdog.py` | dict of watches, `stale` flags | `register`, `unregister`, `heartbeat`, poll | `set_state`, bus |
| `persistence/` | connection, lock | statements, migrations | all that save |
| `diagnostics/`, `cli/` | incidents, stored timeline | feed, query, print | bus, database |
| `integrations/` | HTTP and MQTT clients | request, publish, connect | none (a caller may wrap them) |

What is hard about it, and what makes each part correct:

* **durable operations**: power can fail between any two statements, and calls can be cut off by
  `stop()` or a cancellation. Nothing that was requested may be lost, nothing finished repeated, a
  caller must not have been told what the journal contradicts, and attempts must be counted so that
  no crash hides one.
* **runtime**: `start()` and `stop()` await handlers, subsystems and saves, each of which may
  raise or be cancelled, while subsystems already started change the state. Success must mean
  complete, a failed boot must release what it opened, and shutdown must be final.
* **breaker**: outcomes of concurrent calls arrive in any order, in any state, and a restart
  brings an older record back. Count and state must agree in memory and on disk, and the in-flight flag
  must have an owner.
* **retries**: a policy nests breaker, retry, timeout and function. Attempts must not overlap, and the
  breaker must see one outcome per call, whenever the timeout, a cancellation or a restart falls.
* **database**: every statement runs in a thread that a cancellation does not stop, `close()` takes no lock,
  and SQLite has one transaction per connection. Blocks must be stored whole, the lock must be left, the
  schema table must tell the truth.
* **diagnostics**: the tracker hears an event at once, the timeline stores it when its turn comes. What is
  stored must be in order and complete, and rebuilding incidents from it must give what the tracker saw.
* **monitors, supervisor, watchdog**: they share one runtime state, and their awaits leave room for
  anything. Each may only touch states it owns, must announce what it does, and must escalate when
  it should; `stop()` must come back.

`PROJECT.json` lists every hazard with its source line and the properties that cover it.

## Modules

The modules fall in three layers. Below, `Database` (which implements `AtomicStore`) and `CircuitBreaker`; on them
`DurableOps` (which implements `AtLeastOnce`), `Diagnostics` and `Reliable` (which implements `CircuitBreaker`);
above, what drives the runtime's state: `Runtime`, `HealthMonitors`, `Supervisor`, `Watchdog`, all over `RuntimeStates`.

### `AtLeastOnce`, `DurableOps`, `DurableOps_proofs`
`AtLeastOnce` is the promise of `guard.durable()` with no journal or process: a requested call is
owed until it is confirmed, is confirmed only after its function returned at least once, and once
confirmed or given up is left alone. `DurableOps` is the code. On disk are each row's `status`,
`attempts` and its place in the order (`older`, since `rowid`s are reused after pruning); `pruned`
stands for a row that was deleted. In memory are the phase of the process (off, booting, replaying,
up, closed), the registered wrappers, the list loaded for replay, and for each intent where `execute()` stands,
separately for a live call and for the replay (`exec`). Operations in `Declared` are decorated before
`start()`, the others later. `Crash` is power loss in any state; `Close` is `stop()` under
calls in flight; `Abandon` is a journal write that fails, or a cancellation; `BootFails` and
`CancelStart` end a `start()`. Payloads and JSON are abstracted to the intent's identity. `tried`,
`cut`, `runs`, `executed` and `reply` are observations that no guard reads. The refinement maps pending and in progress to
owed, failed to given up, completed and pruned to done.

### `RuntimeStates`, `Runtime`, `Runtime_proofs`
`RuntimeStates` is the transition graph of `core/state.py`, shared by all modules that touch the state.
`Runtime` has one program counter for the call that holds the lock, one counter of subsystems reached
by `_on_init` and not yet undone by `_on_stop`, and per actor the notification under way (`note`): the transition
and the handlers still to be awaited, after which the event reaches the incident tracker.
Subsystems transition to a state at any time they are alive (`Adjust`, `Escalate`). Every call of
`start()` can fail at each await: opening, migrating, the replay, a subsystem, a handler, a save.
A handler that raises fails `start()` or `stop()` itself; the docstring in `runtime.py` 186-188 says it is logged.
`astray` observes that the tracker did not hear of the last transition, or not of it last.

### `CircuitBreaker`
Callers move from idle through `_before_call`, the awaited function, the outcome that waits for
the lock, and the save under the lock. A cancelled caller runs neither `_on_success` nor
`_on_failure`. `Restart` brings the saved record back. Failure count and elapsed time saturate at
`Threshold` and `RecoveryTimeout`, beyond which the code cannot tell them apart. The clock does not jump.

### `Reliable`, `Reliable_proofs`
`guard.reliable()`: breaker around retry around timeout around the function. `Reliable` extends
`CircuitBreaker` and uses its actions for the breaker's part of each step, so that the two cannot drift apart; its own variables
are the phase of each call, the number of its attempt, the attempts whose function has not ended, and the answer.
The function may return, raise something that is retried or not, never end, and, once cancelled, unwind, raise or
return all the same; in each case `asyncio.timeout` waits for it. The sleep of the backoff has no length.

### `AtomicStore`, `Database`, `Database_proofs`
`AtomicStore` is what callers may count on: the rows of a call are stored together or not at all, stay, and are
stored when the call returns. `Database` is the code: one `Database` object, its lock, a connection bound to each call before
the lock is awaited, and a job in a thread per call. A cancelled call gives up the lock at once, and its job is dropped if
it is still queued or goes on (`pc` ended, `job` not none). `connect()` opens a handle named after its caller, so two
overlapping calls leave two handles and one `_conn`. SQLite (external to the code) has for each handle at most one
transaction with pending rows, autocommit otherwise, one writer at a time, and refuses what `Refused` lists. Jobs are atomic but for the statements of a
migration, between which power may fail. A `COMMIT` or `ROLLBACK` fails only on a closed handle. Calls are writers
(a single `execute`: journal, breaker, events), blocks (`transaction()`), pruners (which commit), openers (connect and
migrate) and closers. The promise ends (`void`) when a block, or a call that commits, is cancelled under way: that is the subject of `database_torn`.

### `Diagnostics`, `Diagnostics_proofs`
Event bus, stored timeline, incident tracker and the command line's reader. An event is a number and whether it is a change
to a state of `_INCIDENT_STATES`, to another, or none. Inserts wait in one queue for the database's lock; the insert of a cancelled
publisher, whose thread goes on, happens later or never (`strays`). `Feed` and `Build` are `_IncidentBuilder.feed` and
`build_incidents`, and `Kept` what a `DELETE` by time leaves, both as recursive functions over the events. `Exit` is the end of a process, in good order or not; the table stays, a new tracker begins.
`RebuildAgrees` compares the rebuilt incidents with the tracker's one by one, from the newest back (`Nth`), since both may have lost the oldest:
the tracker to its bounded history, the table to pruning.

### `HealthMonitors`, `HealthMonitors_proofs`
One network monitor and any set of storage and hardware monitors, which have the same shape, on one
runtime state. A reading is a Boolean (past its mark or not) or the highest layer reached. Each monitor has a point for
every await: the event, the handlers, a remedy, exhaustion, recovery. `ReadingFails` is a reading that raises
during remedies, which leaves the flag up and ends the reaction. `Elsewhere` is the rest of the runtime.

### `Watchdog`, `Watchdog_proofs`
The dict of watches is the sequence of its keys; the iterator of `check_once` is what it has still before it, the
size it started with and the visits so far, which is how CPython decides that a dict was changed
during the iteration. A publish is awaited in the loop, and registrations and heartbeats fall into it. `missed` observes
the flags turned by a poll that raised, or was cancelled, before it escalated.

### `Supervisor`, `Supervisor_proofs`
Runs of `_run`, as `stop()` forgets its task before it has ended and a `start()` may make the next.
`failures` is the deque as ages in ticks; `WithThis` is the deque after `append`, `Counted` what `popleft` leaves of it. `recent` observes
how many crashes there were up to each age, independently of the deque.
With `Swallows` the supervised function may catch its cancellation and return. `attempt` counts the attempts
of a run up to `LastDelay`, the last one whose delay a float can hold.

The `MC*` modules give the constants small values.

## Runs

| run | what is checked | instance and why it suffices |
|---|---|---|
| `durable_ops` | counted attempts, true answers, the limit, complete and ordered recovery, at most one execution per process, finality, refinement of `AtLeastOnce`, and that declared intents are finished | two calls of two operations, one declared late; two attempts; any three faults, enough for a crash in a live call, a crash in its replay and a fault of something else |
| `runtime` | complete service, released boots, tracker and state, complete stops, final shutdown, calls that return | two subsystems (one started while the other acts), two handlers that may raise, cancellation anywhere |
| `breaker` | count, disk and flag agree; callers get through | three callers, so that a trial, an older call and a new one coexist; threshold 2; timeout 2; saves may fail |
| `breaker_stuck` | violation: no call is let through again | two callers, a cancelled trial |
| `reliable` | attempts run alone; refinement of `CircuitBreaker`; calls end; hangs do not shut callers out | two callers, two attempts (one that is retried, one that is the last), threshold 2, cancellations, restarts, refused saves |
| `database` | true schema table, lock never left behind, refinement of `AtomicStore` | one writer, one block, one pruner, two openers and one closer, so that every kind meets every other on one or two handles; two migrations; any two faults, enough for a cancelled call whose thread runs on into another fault |
| `database_torn` | violation: half a transaction is stored | the same |
| `diagnostics` | stored order, nothing lost silently, rebuilt incidents and the command line agree with the tracker | two publishers and the runtime, five events (an incident left open by a dead process, a boot and one more incident), one fault, history of one incident, replay limit of three rows |
| `health` | ownership, answered pressure, OFFLINE only when offline | two layers; storage with two remedies, hardware with none |
| `watchdog` | stale is escalated; stale and recovered alternate; silence is found | two names, which is what it takes to add or remove one during the other's publish |
| `supervisor` | one run; gives up in time; crashed means escalated; `stop()` returns | three crashes in a window of two ticks (a fourth may leave it), two coexisting runs, a fourth delay that overflows |
| `supervisor_overflow` | violation: the task is dead and said to be running | the same, without swallowing |

Deadlock is checked but for `database`, `database_torn` and `diagnostics`: there each call is made once and events are numbered, so the system
may really be done. The bounds are `MaxFaults` (faults in `DurableOps`, `Database`, `Diagnostics`), `MaxEvents`
(events ever published in `Diagnostics`), `MaxRuns` (runs alive at once in `Supervisor`), `LastDelay` (1024 in the code), saturation of count and age in
`CircuitBreaker`, and of ages in `Supervisor`; `MaxHistory` and `ReplayLimit` are the code's own limits, made small enough to be exceeded.
In `Database` each of the callers calls once. `asyncio.Lock` is first come first served; `Database` hands it to any waiter,
which allows more. `diagnostics` has publishers as a symmetric set; its properties are invariants. Everything else is bounded by the code.

## Fairness

The event loop resumes every task whose await is over; opening, saving, publishing and cancelled
tasks come to an end one way or the other. Hence weak fairness of the steps of a call, poll or
run that has begun. Further:

* `DurableOps`: the device is switched on again after each crash and a body that was entered ends. Nothing
  obliges the application to call, decorate, prune or fail. Faults are finite, by `MaxFaults`.
* `CircuitBreaker`: callers keep calling, time passes, and `asyncio.Lock` is fair: waiters get it in order
  (strong fairness of what needs the lock).
* `Reliable`: as in `CircuitBreaker`; the timer of a timeout fires, and a function that was cancelled ends in some way. A function that was not
  cancelled need never end.
* `Supervisor`: the supervised function need not end.
* `Watchdog`: the task wakes up. `SilenceIsFound` is for executions in which the task is left running and
  names cease to come and go; otherwise the iterator may raise in each poll.
* `Runtime`: nothing obliges anyone to call `start()` or `stop()`, nor a subsystem to act.
* `HealthMonitors`, `Database` and `Diagnostics` have safety properties only.

## Proofs

Eight modules, checked by TLAPS for all values of the constants, under the named assumptions on them only.
Each has an inductive invariant (`IInv`, or the layers named below), lemmas that it holds initially and is preserved, one step per action, and the theorems.
Every invariant, action property and refinement that a passing run checks is proved, and so is the type
correctness of all components but `Watchdog`, where it would need facts about `SelectSeq` that its two properties do not.

* `DurableOps_proofs`: all safety properties of the run, and the refinement of `AtLeastOnce`, for any number of intents, any limit (0 for none) and
  any number of faults. `CompletedWasExecuted` alone is not inductive: `IInv` adds that the position of each execution agrees
  with its row, that replays run only while replaying and live calls only when up or closed, that what is left to replay is unfinished
  and untried, and that an execution between its mark and its body has been counted and not yet run.
* `Runtime_proofs`: all safety properties of the run, for any number of subsystems and handlers. What a call finds when it gets the lock is
  what the last call left, so the invariant goes point by point: `CallInv` says in which state and with what connected and attached the call stands
  at each point, `SubsInv` which subsystems run there, `TrackerInv` that the tracker agrees once nothing is under way.
* `Reliable_proofs`, first half: all safety properties of `CircuitBreaker`, for any number of callers. `IInv` adds the lock: one caller
  saves at a time and the state is not HALF_OPEN meanwhile, so HALF_OPEN is never written.
* `Reliable_proofs`, second half: `AttemptsRunAlone` and the refinement of `CircuitBreaker`, for any number of callers and attempts. `CallsInv` adds that the breaker's point of each
  call follows its phase, and that a call in its backoff has an attempt left. `BreakerKeepsItsWord` draws the conclusion: with the refinement, the breaker's
  theorems hold of it under retries and timeouts.
* `Database_proofs`: all properties of the run, the refinement of `AtomicStore` among them, for any number of tasks, connections, migrations and faults.
  `ControlInv` says who holds the lock and what is at work for whom; `SqliteInv` and `RecordedInv` that rows are pending only in
  transactions of open handles, and versions recorded only after their tables; `PromiseInv`, until the promise ends, that only single rows and `close()` run on after their task, that a
  transaction belongs to the block that holds the lock and holds what that block wrote, and that a migration has on disk what it has not before it.
  The refinement maps a commit to the storing of its block together with the rows of cancelled writers that fell into it.
* `HealthMonitors_proofs`: all properties of the run, for any monitors, remedies and layers. `IInv` adds what has been announced
  at each await, that only the network monitor enters OFFLINE, and that it has left OFFLINE before its second hop.
* `Watchdog_proofs`: `StaleIsEscalated` and `StaleThenRecovered`, for any targets. `IInv` adds that a flag was found up by this poll, or by one that
  was left, or the runtime was escalated, and that the last event about a target says what its flag says. What the iterator finds is left open, so no fact about sequences is needed.
* `Supervisor_proofs`: `OneRun`, `CrashedIsEscalated` and `GivesUpInTime`. `IInv` adds that cancelled runs have not ended and that a run
  that awaits the handlers of FAILED does so in FAILED or later. For the counting, `CountInv` says of every age that the crashes no older are
  the last ones of the deque, as many as `recent` counts: so `popleft` drops none that is still in the window.
* `Diagnostics_proofs`: all properties of the run, for any number of publishers, events, faults and processes, any history and any replay limit.
  `OrderInv` says that what left the queue is older than what is in it, that the thread of a cancelled insert is of this process and its event lost, and
  that an event is newer than all before it in the table unless its publisher was cancelled; the order and the completeness of the table follow.
  For the incidents, a builder is *sound* (`Sound`) if its incidents begin with events it was fed and those from some event on are in order, and two builders
  *agree* from an event on (`Agree`) if they have the same open incident and the same newest closed ones. A calm event makes any two builders agree from there on, since it closes
  what is open and nothing has begun after it; further events preserve that, and so does the tracker's bound (`CalmBase`, `AgreeOn`, `AgreeTrack`). `AgreeInv` is
  `RebuildAgrees` for every calm event of the process; it survives pruning because the table is cut in a part
  up to a calm event and a part after it, which is untouched (`PruneSplit`). `CliIsTrue` is about a table that is cut off at the replay limit, at any moment: `ShownInv` states it
  for every beginning of the timeline, is kept as the timeline grows because the tracker never forgets but its oldest incidents (`TellMonotone`), and
  as it shrinks because what remains was such a beginning before (`ShownShrinks`, `ShownPruned`).

  The incidents and the pruned table are computed event by event, and the provers have no induction. The module gets it from the
  well-foundedness of `<` on numbers, which the library proves: a set of sequences that lacks one lacks a shortest one (`LeastExists`), so a set that has the
  empty sequence, and with each sequence all that are longer by one, has all (`SeqInduct`). That the recursive functions exist and are unique
  (`BuiltExists`, `BuiltUnique`, `KeptExists`, `KeptUnique`) is proved in the same way, and gives their equations (`BuildAppend`, `KeptAppend`).

Only model-checked: liveness (`EventuallyFinished`, `CallsReturn`, `CallsGetThrough`, `CallsEnd`, `HangsAreNoTrap`, `SilenceIsFound`,
`StopReturns`), which is beyond the prover.

## Where code and documents disagree

Three runs end in a counterexample, each against a quoted sentence (`findings` in `PROJECT.json`):

1. A cancelled trial call leaves the breaker closed to everybody for good (`breaker_stuck`).
2. A transaction that is cancelled is neither rolled back nor committed; the next commit stores half of it (`database_torn`).
3. The delay before restart number 1025 overflows a float and ends the supervisor, which still counts as running (`supervisor_overflow`).

The modules also show, and the properties name the exception:

* attempts exceed `max_attempts` if the process dies, or the call is cancelled, during the last one (`LimitHolds`, by `cut`);
* transitions are published in the order in which their handlers finish, and one whose handler raises is not published, so the tracker may keep an incident open
  while HEALTHY until the next transition (`IncidentMatchesState`, by `astray`);
* a target registered while the watchdog publishes makes the poll raise after the flag was set, and FAILED never comes (`StaleIsEscalated`, by `missed`);
* the command line replays the oldest rows up to its limit, so the newest incidents may be missing, and the last one shown may look open (`CliIsTrue` is about closed ones).

And no property is about: STOPPED does not mean released, as a handler that raises on STOPPED leaves the connection open and `stop()` cannot be repeated;
a monitor that recovers sets HEALTHY while another still has a reason for DEGRADED (`CHANGELOG.md` 109-113); a reading taken during
INITIALIZING is never applied; a reading that raises between remedies ends the escalation; a late success of an older call closes a breaker that tripped since;
a failed boot may leave the state at INITIALIZING or HEALTHY; a subsystem already started is not stopped when a later one fails to start;
a supervised function that swallows its cancellation is restarted and hangs `stop()`; of two overlapping `connect()` calls one leaks its connection.

## Not modelled, and the plan

* Probes (`*/checks.py`) are pure I/O: their results are inputs of the monitors.
* `integrations/`: the HTTP client makes a single request in a thread; the MQTT publisher forwards each event to its client and logs what fails. Neither keeps
  a promise to the rest of the runtime.
* The command line's parsing and printing, the formatting of reports, the severity filter of the timeline, the length of a backoff.
* A handler of `on_state_change` that calls `start()` or `stop()`: it waits for the lock its caller holds, with certainty.
* `check_once()` called by hand beside the polling task of a monitor or of the watchdog.

What is left of the plan:

1. `DurableOps` and the breaker's record over `AtomicStore` instead of over atomic statements of their own, with what a broken promise would mean for them.
2. `Process`: `Supervisor` and `Watchdog` on one runtime, with the target re-registered at each restart.
3. `check_once()` by hand as a second caller in `HealthMonitors` and `Watchdog`.
4. `Mqtt`: overlapping `connect()` and `disconnect()`, and the order in which threads publish.
5. Proofs: type correctness of `Watchdog`; what the modules above add.

## Running

    tlc -config DurableOps.cfg MCDurableOps.tla
    tlapm DurableOps_proofs.tla

and likewise for the other modules: `X.cfg` belongs to `MCX.tla`, as do the configurations whose name continues with a hazard
(`DatabaseTorn.cfg` belongs to `MCDatabase.tla`).
