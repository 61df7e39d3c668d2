---- MODULE CircuitBreaker ----
(***************************************************************************)
(* resilience/circuit_breaker.py: concurrent callers of one CircuitBreaker,*)
(* its persisted record, and restarts of the process.                      *)
(*                                                                         *)
(* The breaker's lock is held across the save, so the outcome of one call  *)
(* is on disk before the next outcome or admission is decided.             *)
(***************************************************************************)
EXTENDS Naturals, FiniteSets

CONSTANTS
  Callers,          \* tasks that call through the breaker
  Threshold,        \* failure_threshold
  RecoveryTimeout,  \* recovery_timeout, in ticks
  MayCancel,        \* whether a calling task may be cancelled
  StoreMayFail      \* whether the store may refuse a save

ASSUME BreakerAssumption ==
  /\ Threshold \in Nat \ {0}
  /\ RecoveryTimeout \in Nat
  /\ MayCancel \in BOOLEAN
  /\ StoreMayFail \in BOOLEAN

VARIABLES
  state,     \* _state
  failures,  \* _failure_count, which stops counting at Threshold (see Count)
  age,       \* time since the breaker last opened, which stops at RecoveryTimeout
  inFlight,  \* _half_open_in_flight
  saving,    \* the callers in _persist: the one that holds the lock, or none
  pc,        \* where each caller stands
  trials,    \* callers whose call was let through as a trial
  disk,      \* the saved record: state, failures and the age of its opened_at
  \* Observations, which no guard reads.
  deserted,  \* a trial was cancelled, and no outcome was reported since
  unsaved    \* the last outcome did not reach the disk

ghost == <<deserted, unsaved>>
vars  == <<state, failures, age, inFlight, saving, pc, trials, disk, ghost>>

BreakerStates == {"closed", "open", "half_open"}

\* "calling": func() is awaited; "succeeded", "failed": the outcome waits for
\* the lock; "saving": the outcome is applied and being saved.
Points == {"idle", "calling", "succeeded", "failed", "saving"}

\* The count is only ever compared with Threshold and reset, so it need not
\* go beyond; the same holds for elapsed time and RecoveryTimeout.
Count(n) == IF n < Threshold THEN n + 1 ELSE Threshold
Older(t) == IF t < RecoveryTimeout THEN t + 1 ELSE RecoveryTimeout

Elapsed(t) == t >= RecoveryTimeout

Unlocked == saving = {}

Fresh == [state |-> "closed", failures |-> 0, age |-> RecoveryTimeout]

Init ==
  /\ state = "closed"
  /\ failures = 0
  /\ age = RecoveryTimeout
  /\ inFlight = FALSE
  /\ saving = {}
  /\ pc = [c \in Callers |-> "idle"]
  /\ trials = {}
  /\ disk = Fresh
  /\ deserted = FALSE
  /\ unsaved = FALSE

Goto(c, point) == pc' = [pc EXCEPT ![c] = point]

-----------------------------------------------------------------------------
\* _before_call. A call that is rejected raises and changes nothing.

AdmitClosed(c) ==
  /\ state = "closed"
  /\ UNCHANGED <<state, inFlight, trials>>

AdmitTrial(c) ==
  /\ \/ state = "open" /\ Elapsed(age)
     \/ state = "half_open" /\ ~inFlight
  /\ state' = "half_open"
  /\ inFlight' = TRUE
  /\ trials' = trials \cup {c}

Admit(c) ==
  /\ pc[c] = "idle"
  /\ Unlocked
  /\ AdmitClosed(c) \/ AdmitTrial(c)
  /\ Goto(c, "calling")
  /\ UNCHANGED <<failures, age, saving, disk, ghost>>

FuncEnds(c, outcome) ==
  /\ pc[c] = "calling"
  /\ Goto(c, outcome)
  /\ UNCHANGED <<state, failures, age, inFlight, saving, trials, disk, ghost>>

\* Mutant: a failure leaves the in-flight flag up.
SettleKeepsFlag(c, outcome) ==
  /\ pc[c] = outcome
  /\ Unlocked
  /\ saving' = {c}
  /\ trials' = trials \ {c}
  /\ inFlight' = (outcome = "failed" /\ inFlight)
  /\ Goto(c, "saving")
  /\ deserted' = FALSE
  /\ UNCHANGED <<disk, unsaved>>

\* Apply the outcome under the lock and begin to save it.
Settle(c, outcome) ==
  /\ pc[c] = outcome
  /\ Unlocked
  /\ saving' = {c}
  /\ trials' = trials \ {c}
  /\ inFlight' = FALSE
  /\ Goto(c, "saving")
  /\ deserted' = FALSE
  /\ UNCHANGED <<disk, unsaved>>

OnSuccess(c) ==
  /\ Settle(c, "succeeded")
  /\ failures' = 0
  /\ state' = "closed"
  /\ UNCHANGED age

\* Mutant: compares with > instead of >=.
TripsLate == state = "half_open" \/ Count(failures) > Threshold

Trips == state = "half_open" \/ Count(failures) >= Threshold

OnFailure(c) ==
  /\ Settle(c, "failed")
  /\ failures' = Count(failures)
  /\ IF Trips THEN state' = "open" /\ age' = 0
              ELSE UNCHANGED <<state, age>>

\* opened_at is None, and is not looked at on restore, unless the state is OPEN.
Record == [state |-> state, failures |-> failures,
           age |-> IF state = "open" THEN age ELSE RecoveryTimeout]

Saved(c) ==
  /\ c \in saving
  /\ disk' = Record
  /\ saving' = {}
  /\ unsaved' = FALSE
  /\ Goto(c, "idle")
  /\ UNCHANGED <<state, failures, age, inFlight, trials, deserted>>

SaveFails(c) ==
  /\ StoreMayFail
  /\ c \in saving
  /\ saving' = {}
  /\ unsaved' = TRUE
  /\ Goto(c, "idle")
  /\ UNCHANGED <<state, failures, age, inFlight, trials, disk, deserted>>

\* CancelledError is no Exception: neither _on_success nor _on_failure runs. A
\* save that is under way may still reach the disk.
Cancel(c) ==
  /\ MayCancel
  /\ pc[c] # "idle"
  /\ \/ c \in saving /\ disk' = Record /\ unsaved' = FALSE
     \/ c \in saving /\ unsaved' = TRUE /\ UNCHANGED disk
     \/ c \notin saving /\ UNCHANGED <<disk, unsaved>>
  /\ deserted' = (deserted \/ c \in trials)
  /\ saving' = saving \ {c}
  /\ trials' = trials \ {c}
  /\ Goto(c, "idle")
  /\ UNCHANGED <<state, failures, age, inFlight>>

-----------------------------------------------------------------------------
\* Time, and restarts of the process.

Tick ==
  /\ ~Elapsed(age) \/ ~Elapsed(disk.age)
  /\ age' = Older(age)
  /\ disk' = [disk EXCEPT !.age = Older(@)]
  /\ UNCHANGED <<state, failures, inFlight, saving, pc, trials, ghost>>

\* Mutant: the count is not restored.
RestartForgetsCount ==
  /\ failures' = 0
  /\ IF disk.state = "open"
       THEN /\ state' = IF Elapsed(disk.age) THEN "half_open" ELSE "open"
            /\ age' = disk.age
       ELSE state' = "closed" /\ age' = RecoveryTimeout
  /\ inFlight' = FALSE
  /\ saving' = {}
  /\ pc' = [c \in Callers |-> "idle"]
  /\ trials' = {}
  /\ deserted' = FALSE
  /\ unsaved' = FALSE
  /\ UNCHANGED disk

\* Mutant: the in-flight flag is restored as it was.
RestartKeepsFlag ==
  /\ failures' = disk.failures
  /\ IF disk.state = "open"
       THEN /\ state' = IF Elapsed(disk.age) THEN "half_open" ELSE "open"
            /\ age' = disk.age
       ELSE state' = "closed" /\ age' = RecoveryTimeout
  /\ saving' = {}
  /\ pc' = [c \in Callers |-> "idle"]
  /\ trials' = {}
  /\ deserted' = FALSE
  /\ unsaved' = FALSE
  /\ UNCHANGED <<inFlight, disk>>

\* The process dies and a new one restores the saved record before any call.
\* The wall clock of the record is taken to have run on without a jump.
Restart ==
  /\ failures' = disk.failures
  /\ IF disk.state = "open"
       THEN /\ state' = IF Elapsed(disk.age) THEN "half_open" ELSE "open"
            /\ age' = disk.age
       ELSE state' = "closed" /\ age' = RecoveryTimeout
  /\ inFlight' = FALSE
  /\ saving' = {}
  /\ pc' = [c \in Callers |-> "idle"]
  /\ trials' = {}
  /\ deserted' = FALSE
  /\ unsaved' = FALSE
  /\ UNCHANGED disk

Step(c) ==
  \/ Admit(c)
  \/ FuncEnds(c, "succeeded") \/ FuncEnds(c, "failed")
  \/ OnSuccess(c) \/ OnFailure(c)
  \/ Saved(c) \/ SaveFails(c) \/ Cancel(c)

Next == Tick \/ Restart \/ \E c \in Callers : Step(c)

Spec == Init /\ [][Next]_vars

\* Time passes, every awaited call and save ends, and the callers keep calling.
Fairness ==
  /\ WF_vars(Tick)
  /\ \A c \in Callers :
       /\ SF_vars(Admit(c))
       /\ WF_vars(FuncEnds(c, "succeeded") \/ FuncEnds(c, "failed"))
       /\ SF_vars(OnSuccess(c)) /\ SF_vars(OnFailure(c))
       /\ WF_vars(Saved(c) \/ SaveFails(c))

FairSpec == Spec /\ Fairness

-----------------------------------------------------------------------------
\* Properties.

TypeOK ==
  /\ state \in BreakerStates
  /\ failures \in 0..Threshold
  /\ age \in 0..RecoveryTimeout
  /\ inFlight \in BOOLEAN
  /\ saving \subseteq Callers
  /\ pc \in [Callers -> Points]
  /\ trials \subseteq Callers
  /\ deserted \in BOOLEAN /\ unsaved \in BOOLEAN
  /\ disk \in [state : {"closed", "open"}, failures : 0..Threshold, age : 0..RecoveryTimeout]

\* The breaker is closed exactly while it has counted fewer failures than the
\* threshold -- in memory and on disk, whatever the order in which concurrent
\* calls end and whichever record a restart brings back.
CountMatchesState ==
  /\ state = "closed" <=> failures < Threshold
  /\ disk.state = "closed" <=> disk.failures < Threshold

\* Unless a save failed, a restart would bring back what the process knows: the
\* same count, the same recovery window, and OPEN or HALF_OPEN for a breaker that
\* is not closed ("state survives process restarts", circuit_breaker.py 76-77).
DiskIsCurrent ==
  Unlocked /\ ~unsaved =>
    /\ disk.failures = failures
    /\ disk.state = "closed" <=> state = "closed"
    /\ state = "open" => disk.age = age

\* The in-flight flag is up only while a trial is in flight, or one was
\* cancelled: it belongs to somebody who will take it down.
FlagHasTrial == inFlight => state = "half_open" /\ (trials # {} \/ deserted)

\* Callers that keep calling are let through again and again, unless a trial was
\* cancelled and nobody reported an outcome after it.
CallsGetThrough == []<>(\E c \in Callers : pc[c] = "calling") \/ <>[]deserted

\* recovery_timeout: "Seconds to wait after tripping before allowing a single
\* trial call through" (circuit_breaker.py 71-72) -- so that one is allowed.
NeverShutOut == []<>(\E c \in Callers : pc[c] = "calling")
====
