---- MODULE Reliable_proofs ----
(***************************************************************************)
(* Proofs about CircuitBreaker and about Reliable, which extends it: for   *)
(* any number of concurrent callers, any threshold and recovery timeout,   *)
(* any number of attempts, with or without a timeout.                      *)
(*                                                                         *)
(* The breaker's properties lack one fact to be inductive: the lock. At    *)
(* most one caller saves at a time, and nobody begins a trial meanwhile,   *)
(* so that HALF_OPEN is never written to disk.                             *)
(***************************************************************************)
EXTENDS Reliable, TLAPS

-----------------------------------------------------------------------------
\* The breaker alone.

\* The holder of the lock is the caller that saves, and holds the state still.
LockInv ==
  /\ \A c \in Callers : c \in saving <=> pc[c] = "saving"
  /\ \A c, d \in saving : c = d
  /\ saving # {} => state # "half_open"

IInv ==
  /\ TypeOK
  /\ LockInv
  /\ CountMatchesState
  /\ DiskIsCurrent
  /\ FlagHasTrial

-----------------------------------------------------------------------------
\* The invariant.

LEMMA InitInv == Init => IInv
<1> SUFFICES ASSUME Init PROVE IInv
  OBVIOUS
<1> USE BreakerAssumption DEF Init
<1>1. TypeOK
  <2>1. disk \in [state : {"closed", "open"}, failures : 0..Threshold, age : 0..RecoveryTimeout]
    BY DEF Fresh
  <2>2. pc \in [Callers -> Points]
    BY DEF Points
  <2>3. inFlight \in BOOLEAN /\ deserted \in BOOLEAN /\ unsaved \in BOOLEAN
    OBVIOUS
  <2>4. failures \in 0..Threshold /\ age \in 0..RecoveryTimeout
    OBVIOUS
  <2>5. state \in BreakerStates /\ saving \subseteq Callers /\ trials \subseteq Callers
    BY DEF BreakerStates
  <2> QED
    BY <2>1, <2>2, <2>3, <2>4, <2>5 DEF TypeOK
<1>2. LockInv
  BY DEF LockInv
<1>3. CountMatchesState
  BY DEF CountMatchesState, Fresh
<1>4. DiskIsCurrent
  BY DEF DiskIsCurrent, Fresh
<1>5. FlagHasTrial
  BY DEF FlagHasTrial
<1> QED
  BY <1>1, <1>2, <1>3, <1>4, <1>5 DEF IInv

\* Counting stops at the threshold and time at the recovery timeout.
LEMMA Saturation ==
  /\ \A n \in 0..Threshold : /\ Count(n) \in 0..Threshold
                             /\ n >= Threshold => Count(n) = Threshold
  /\ \A t \in 0..RecoveryTimeout : Older(t) \in 0..RecoveryTimeout
  BY BreakerAssumption DEF Count, Older

\* What is saved is well typed unless the breaker is HALF_OPEN.
LEMMA RecordType ==
  ASSUME TypeOK, state # "half_open"
  PROVE  /\ Record \in [state : {"closed", "open"}, failures : 0..Threshold, age : 0..RecoveryTimeout]
         /\ Record.state = state /\ Record.failures = failures
         /\ state = "open" => Record.age = age
  BY BreakerAssumption DEF TypeOK, Record, BreakerStates

\* An outcome is applied: the count and the state agree, the flag is down, and the
\* disk has yet to follow.
LEMMA OutcomeInv ==
  ASSUME IInv, NEW c \in Callers, OnSuccess(c) \/ OnFailure(c)
  PROVE  IInv'
<1> USE BreakerAssumption DEF IInv
<1>1. /\ saving = {} /\ saving' = {c}
      /\ inFlight' = FALSE /\ deserted' = FALSE
      /\ trials' = trials \ {c}
      /\ pc' = [pc EXCEPT ![c] = "saving"]
      /\ UNCHANGED <<disk, unsaved>>
  BY DEF OnSuccess, OnFailure, Settle, Unlocked, Goto
<1>2. /\ state' \in {"closed", "open"}
      /\ failures' \in 0..Threshold
      /\ age' \in 0..RecoveryTimeout
      /\ state' = "closed" <=> failures' < Threshold
  <2>1. CASE OnSuccess(c)
    BY <2>1 DEF OnSuccess, TypeOK
  <2>2. CASE OnFailure(c)
    BY <2>2, Saturation DEF OnFailure, Trips, TypeOK, BreakerStates, CountMatchesState
  <2> QED
    BY <2>1, <2>2
<1>3. TypeOK'
  <2>1. pc' \in [Callers -> Points]
    BY <1>1 DEF TypeOK, Points
  <2>2. inFlight' \in BOOLEAN /\ deserted' \in BOOLEAN /\ unsaved' \in BOOLEAN
    BY <1>1 DEF TypeOK
  <2> QED
    BY <1>1, <1>2, <2>1, <2>2 DEF TypeOK, BreakerStates
<1>4. LockInv'
  BY <1>1, <1>2 DEF TypeOK, LockInv
<1>5. CountMatchesState'
  BY <1>1, <1>2 DEF CountMatchesState
<1>6. DiskIsCurrent' /\ FlagHasTrial'
  BY <1>1 DEF DiskIsCurrent, FlagHasTrial, Unlocked
<1> QED
  BY <1>3, <1>4, <1>5, <1>6

\* A save ends, or is cut off with the call that made it.
LEMMA SaveInv ==
  ASSUME IInv, NEW c \in Callers, Saved(c) \/ SaveFails(c) \/ Cancel(c)
  PROVE  IInv'
<1> USE BreakerAssumption
<1> USE DEF IInv, TypeOK, LockInv, CountMatchesState, DiskIsCurrent, FlagHasTrial,
            BreakerStates, Points, Unlocked, Goto, ghost
<1>1. CASE Saved(c)
  BY <1>1, RecordType DEF Saved
<1>2. CASE SaveFails(c)
  BY <1>2 DEF SaveFails
<1>3. CASE Cancel(c) /\ c \in saving
  BY <1>3, RecordType DEF Cancel
<1>4. CASE Cancel(c) /\ c \notin saving
  BY <1>4 DEF Cancel
<1> QED
  BY <1>1, <1>2, <1>3, <1>4

LEMMA NextInv == IInv /\ [Next]_vars => IInv'
<1> SUFFICES ASSUME IInv, [Next]_vars PROVE IInv'
  OBVIOUS
<1> USE BreakerAssumption
<1>1. CASE Tick
  BY <1>1, Saturation
  DEF Tick, IInv, TypeOK, LockInv, CountMatchesState, DiskIsCurrent, FlagHasTrial, Unlocked, ghost
<1>2. CASE Restart
  <2> USE <1>2 DEF Restart, IInv
  <2>1. /\ state' \in BreakerStates
        /\ age' \in 0..RecoveryTimeout
        /\ state' = "closed" <=> disk.state = "closed"
        /\ state' = "open" => age' = disk.age
    BY DEF TypeOK, BreakerStates
  <2>2. TypeOK'
    <3>1. pc' \in [Callers -> Points]
      BY DEF Points
    <3>2. inFlight' \in BOOLEAN /\ deserted' \in BOOLEAN /\ unsaved' \in BOOLEAN
      OBVIOUS
    <3> QED
      BY <2>1, <3>1, <3>2 DEF TypeOK
  <2>3. LockInv' /\ FlagHasTrial'
    BY DEF LockInv, FlagHasTrial
  <2>4. CountMatchesState' /\ DiskIsCurrent'
    BY <2>1 DEF TypeOK, CountMatchesState, DiskIsCurrent
  <2> QED
    BY <2>2, <2>3, <2>4
<1>3. ASSUME NEW c \in Callers, Admit(c) PROVE IInv'
  <2> USE <1>3 DEF Admit, IInv
  <2>1. TypeOK'
    <3>1. pc' \in [Callers -> Points]
      BY DEF TypeOK, Points, Goto
    <3>2. inFlight' \in BOOLEAN /\ deserted' \in BOOLEAN /\ unsaved' \in BOOLEAN
      BY DEF AdmitClosed, AdmitTrial, TypeOK, ghost
    <3> QED
      BY <3>1, <3>2 DEF AdmitClosed, AdmitTrial, TypeOK, BreakerStates, ghost
  <2>2. LockInv'
    BY DEF TypeOK, LockInv, Goto, Unlocked
  <2>3. CountMatchesState' /\ DiskIsCurrent'
    BY DEF AdmitClosed, AdmitTrial, CountMatchesState, DiskIsCurrent, Unlocked, ghost
  <2>4. FlagHasTrial'
    BY DEF AdmitClosed, AdmitTrial, FlagHasTrial, ghost
  <2> QED
    BY <2>1, <2>2, <2>3, <2>4
<1>4. ASSUME NEW c \in Callers, NEW outcome \in {"succeeded", "failed"}, FuncEnds(c, outcome)
      PROVE  IInv'
  BY <1>4
  DEF FuncEnds, Goto, IInv, TypeOK, LockInv, CountMatchesState, DiskIsCurrent, FlagHasTrial,
      BreakerStates, Points, Unlocked, ghost
<1>5. CASE UNCHANGED vars
  BY <1>5
  DEF vars, ghost, IInv, TypeOK, LockInv, CountMatchesState, DiskIsCurrent, FlagHasTrial, Unlocked
<1> QED
  BY <1>1, <1>2, <1>3, <1>4, <1>5, OutcomeInv, SaveInv, [Next]_vars DEF Next, Step

THEOREM Invariance == Spec => []IInv
  BY InitInv, NextInv, PTL DEF Spec

-----------------------------------------------------------------------------
\* The properties.

\* The breaker's state, its saved record and its callers are well typed; above
\* all, HALF_OPEN is never saved.
THEOREM TypeCorrect == Spec => []TypeOK
<1>1. IInv => TypeOK
  BY DEF IInv
<1> QED
  BY Invariance, <1>1, PTL

\* CLOSED means fewer failures than failure_threshold, in memory and on disk,
\* in whatever order concurrent calls end (_on_success, _on_failure, restore).
THEOREM CountAgreesWithState == Spec => []CountMatchesState
<1>1. IInv => CountMatchesState
  BY DEF IInv
<1> QED
  BY Invariance, <1>1, PTL

\* Between saves a restart would bring back what the process knows (_persist, restore).
THEOREM DiskAgrees == Spec => []DiskIsCurrent
<1>1. IInv => DiskIsCurrent
  BY DEF IInv
<1> QED
  BY Invariance, <1>1, PTL

\* The in-flight flag is never up without a trial that will take it down, or one
\* that was cancelled (_before_call).
THEOREM FlagHasOwner == Spec => []FlagHasTrial
<1>1. IInv => FlagHasTrial
  BY DEF IInv
<1> QED
  BY Invariance, <1>1, PTL

-----------------------------------------------------------------------------
\* The calls.

\* How far the breaker is with a call at each of its phases.
PointOf(p) == IF p \in Working \cup {"backoff"} THEN {"calling"}
              ELSE IF p = "settling" THEN {"succeeded", "failed", "saving"}
              ELSE {"idle"}

BreakerFollows ==
  /\ pc \in [Callers -> Points]
  /\ \A c \in Callers : pc[c] \in PointOf(phase[c])

\* A call that sleeps before a retry has one more attempt.
RetryIsLeft ==
  \A c \in Callers :
    /\ phase[c] \in Working => attempt[c] # 0
    /\ phase[c] = "backoff" => attempt[c] < MaxAttempts

CallsInv ==
  /\ CallsTypeOK
  /\ BreakerFollows
  /\ RetryIsLeft
  /\ AttemptsRunAlone

-----------------------------------------------------------------------------
LEMMA CallsInitInv == CallsInit => CallsInv
<1> SUFFICES ASSUME CallsInit PROVE CallsInv
  OBVIOUS
<1> USE ReliableAssumption
<1>1. CallsTypeOK
  BY DEF CallsInit, CallsTypeOK, Phases, Answers
<1>2. BreakerFollows
  BY DEF CallsInit, Init, BreakerFollows, Points, PointOf, Phases, Working
<1>3. RetryIsLeft /\ AttemptsRunAlone
  BY DEF CallsInit, RetryIsLeft, AttemptsRunAlone, Working
<1> QED
  BY <1>1, <1>2, <1>3 DEF CallsInv

\* What the breaker's part of a step does to the point of one caller.
LEMMA BreakerMoves ==
  ASSUME BreakerFollows, NEW c \in Callers
  PROVE  /\ Admit(c) => pc' = [pc EXCEPT ![c] = "calling"]
         /\ \A o \in {"succeeded", "failed"} : FuncEnds(c, o) => pc' = [pc EXCEPT ![c] = o]
         /\ OnSuccess(c) \/ OnFailure(c) => pc' = [pc EXCEPT ![c] = "saving"]
         /\ Saved(c) \/ SaveFails(c) \/ Cancel(c) => pc' = [pc EXCEPT ![c] = "idle"]
  BY DEF Admit, FuncEnds, OnSuccess, OnFailure, Settle, Saved, SaveFails, Cancel, Goto

\* A step of one caller moves nothing of the others, and leads it from a
\* consistent place to a consistent place.
LocalStep(c) ==
  \E ph \in Phases, pt \in Points, at \in 0..MaxAttempts, ans \in Answers,
     left \in SUBSET (1..MaxAttempts) :
    /\ phase' = [phase EXCEPT ![c] = ph]
    /\ pc' = [pc EXCEPT ![c] = pt]
    /\ attempt' = [attempt EXCEPT ![c] = at]
    /\ answer' = [answer EXCEPT ![c] = ans]
    /\ live' = [live EXCEPT ![c] = left]
    /\ pt \in PointOf(ph)
    /\ ph \in Working => at # 0
    /\ ph = "backoff" => at < MaxAttempts
    /\ left = IF ph \in Working THEN {at} ELSE {}

LEMMA LocalInv ==
  ASSUME CallsInv, NEW c \in Callers, LocalStep(c)
  PROVE  CallsInv'
<1> PICK ph \in Phases, pt \in Points, at \in 0..MaxAttempts, ans \in Answers,
         left \in SUBSET (1..MaxAttempts) :
    /\ phase' = [phase EXCEPT ![c] = ph]
    /\ pc' = [pc EXCEPT ![c] = pt]
    /\ attempt' = [attempt EXCEPT ![c] = at]
    /\ answer' = [answer EXCEPT ![c] = ans]
    /\ live' = [live EXCEPT ![c] = left]
    /\ pt \in PointOf(ph)
    /\ ph \in Working => at # 0
    /\ ph = "backoff" => at < MaxAttempts
    /\ left = IF ph \in Working THEN {at} ELSE {}
  BY DEF LocalStep
<1>1. CallsTypeOK'
  BY DEF CallsInv, CallsTypeOK
<1>2. BreakerFollows'
  BY DEF CallsInv, CallsTypeOK, BreakerFollows
<1>3. RetryIsLeft'
  BY DEF CallsInv, CallsTypeOK, RetryIsLeft
<1>4. AttemptsRunAlone'
  BY DEF CallsInv, CallsTypeOK, AttemptsRunAlone
<1> QED
  BY <1>1, <1>2, <1>3, <1>4 DEF CallsInv

LEMMA CallsNextInv == CallsInv /\ [CallsNext]_callVars => CallsInv'
<1> SUFFICES ASSUME CallsInv, [CallsNext]_callVars PROVE CallsInv'
  OBVIOUS
<1> USE ReliableAssumption
<1> USE DEF CallsInv, CallsTypeOK, BreakerFollows
<1>1. ASSUME NEW c \in Callers, Begin(c) PROVE LocalStep(c)
  <2> DEFINE n == 1
  <2>1. phase' = [phase EXCEPT ![c] = "attempt"] /\ attempt' = [attempt EXCEPT ![c] = n]
        /\ live' = [live EXCEPT ![c] = {n}] /\ answer' = [answer EXCEPT ![c] = "none"]
        /\ pc' = [pc EXCEPT ![c] = "calling"]
    BY <1>1, BreakerMoves DEF Begin, Attempt, Turn, AttemptsRunAlone, Working
  <2>2. n \in 0..MaxAttempts /\ {n} \in SUBSET (1..MaxAttempts) /\ n # 0
    OBVIOUS
  <2>3. "attempt" \in Phases \cap Working /\ "calling" \in Points \cap PointOf("attempt")
        /\ "none" \in Answers
    BY DEF Phases, Working, Points, PointOf, Answers
  <2> HIDE DEF n
  <2> QED
    BY <2>1, <2>2, <2>3 DEF LocalStep
<1>2. ASSUME NEW c \in Callers, Reject(c) \/ Report(c) PROVE LocalStep(c)
  <2> DEFINE ph == IF phase[c] = "idle" THEN "reporting" ELSE "idle"
             at == IF phase[c] = "idle" THEN attempt[c] ELSE 0
             ans == IF phase[c] = "idle" THEN "rejected" ELSE answer[c]
  <2>1. pc[c] = "idle" /\ live[c] = {}
    BY <1>2 DEF Reject, Report, AttemptsRunAlone, Working, PointOf, Phases
  <2>2. phase' = [phase EXCEPT ![c] = ph] /\ attempt' = [attempt EXCEPT ![c] = at]
        /\ live' = [live EXCEPT ![c] = {}] /\ answer' = [answer EXCEPT ![c] = ans]
        /\ pc' = [pc EXCEPT ![c] = "idle"]
    BY <1>2, <2>1 DEF Reject, Report, Turn, vars
  <2>3. ph \in Phases /\ at \in 0..MaxAttempts /\ ans \in Answers /\ "idle" \in PointOf(ph)
        /\ ph \notin Working \cup {"backoff"}
    BY DEF Phases, Answers, PointOf, Working
  <2> HIDE DEF ph, at, ans
  <2> QED
    BY <2>2, <2>3 DEF LocalStep, Points
<1>3. ASSUME NEW c \in Callers, TimesOut(c) \/ CancelFunc(c) PROVE LocalStep(c)
  <2> DEFINE ph == IF TimesOut(c) THEN "unwinding" ELSE "cancelling"
  <2>1. phase[c] \in Working /\ phase' = [phase EXCEPT ![c] = ph]
        /\ UNCHANGED <<attempt, live, answer, pc>>
    BY <1>3 DEF TimesOut, CancelFunc, Turn, Working, vars
  <2>2. pc[c] = "calling" /\ attempt[c] # 0 /\ live[c] = {attempt[c]}
    BY <2>1 DEF AttemptsRunAlone, RetryIsLeft, PointOf, Phases, Working
  <2>3. ph \in Working /\ ph \in Phases /\ "calling" \in PointOf(ph) /\ ph # "backoff"
    BY DEF Phases, Working, PointOf
  <2>4. /\ attempt' = [attempt EXCEPT ![c] = attempt[c]]
        /\ live' = [live EXCEPT ![c] = {attempt[c]}]
        /\ answer' = [answer EXCEPT ![c] = answer[c]]
        /\ pc' = [pc EXCEPT ![c] = "calling"]
    BY <2>1, <2>2
  <2> HIDE DEF ph
  <2> QED
    BY <2>1, <2>2, <2>3, <2>4 DEF LocalStep, Points
<1>4. ASSUME NEW c \in Callers, Returns(c) PROVE LocalStep(c)
  <2>1. phase' = [phase EXCEPT ![c] = "settling"] /\ attempt' = [attempt EXCEPT ![c] = attempt[c]]
        /\ live' = [live EXCEPT ![c] = {}] /\ answer' = [answer EXCEPT ![c] = "returned"]
        /\ pc' = [pc EXCEPT ![c] = "succeeded"]
    BY <1>4, BreakerMoves DEF Returns, FuncStops, Turn, AttemptsRunAlone
  <2> QED
    BY <2>1 DEF LocalStep, Phases, Working, Answers, PointOf, Points
<1>5. ASSUME NEW c \in Callers, NEW retryable \in BOOLEAN, Raises(c, retryable) PROVE LocalStep(c)
  <2>1. live' = [live EXCEPT ![c] = {}] /\ attempt' = [attempt EXCEPT ![c] = attempt[c]]
    BY <1>5 DEF Raises, FuncStops, AttemptsRunAlone
  <2>2. CASE retryable /\ attempt[c] < MaxAttempts
    <3>1. pc[c] = "calling"
      BY <1>5 DEF Raises, PointOf, Phases, Working
    <3>2. phase' = [phase EXCEPT ![c] = "backoff"] /\ answer' = [answer EXCEPT ![c] = answer[c]]
          /\ pc' = [pc EXCEPT ![c] = "calling"]
      BY <1>5, <2>2, <3>1 DEF Raises, Turn, vars
    <3> QED
      BY <2>1, <2>2, <3>2 DEF LocalStep, Phases, Working, PointOf, Points
  <2>3. CASE ~(retryable /\ attempt[c] < MaxAttempts)
    <3>1. phase' = [phase EXCEPT ![c] = "settling"] /\ answer' = [answer EXCEPT ![c] = "raised"]
          /\ pc' = [pc EXCEPT ![c] = "failed"]
      BY <1>5, <2>3, BreakerMoves DEF Raises, Turn
    <3> QED
      BY <2>1, <3>1 DEF LocalStep, Phases, Working, Answers, PointOf, Points
  <2> QED
    BY <2>2, <2>3
<1>6. ASSUME NEW c \in Callers, Retry(c) PROVE LocalStep(c)
  <2> DEFINE n == attempt[c] + 1
  <2>1. n \in 1..MaxAttempts /\ live[c] = {} /\ pc[c] = "calling"
    BY <1>6 DEF Retry, RetryIsLeft, AttemptsRunAlone, Working, PointOf, Phases
  <2>2. phase' = [phase EXCEPT ![c] = "attempt"] /\ attempt' = [attempt EXCEPT ![c] = n]
        /\ live' = [live EXCEPT ![c] = {n}] /\ answer' = [answer EXCEPT ![c] = answer[c]]
        /\ pc' = [pc EXCEPT ![c] = "calling"]
    BY <1>6, <2>1 DEF Retry, Attempt, Turn, vars
  <2> HIDE DEF n
  <2>3. n \in 0..MaxAttempts /\ {n} \in SUBSET (1..MaxAttempts) /\ n # 0
    BY <2>1
  <2> QED
    BY <2>2, <2>3 DEF LocalStep, Phases, Working, PointOf, Points
<1>7. ASSUME NEW c \in Callers, SettleCall(c) PROVE LocalStep(c)
  <2>1. phase[c] = "settling" /\ live[c] = {}
    BY <1>7 DEF SettleCall, AttemptsRunAlone, Working
  <2>2. pc' = [pc EXCEPT ![c] = "saving"] /\ UNCHANGED <<phase, attempt, live, answer>>
    BY <1>7, BreakerMoves DEF SettleCall, policy
  <2>3. /\ phase' = [phase EXCEPT ![c] = "settling"]
        /\ attempt' = [attempt EXCEPT ![c] = attempt[c]]
        /\ live' = [live EXCEPT ![c] = {}]
        /\ answer' = [answer EXCEPT ![c] = answer[c]]
    BY <2>1, <2>2
  <2> QED
    BY <2>2, <2>3 DEF LocalStep, Phases, Working, PointOf, Points
<1>8. ASSUME NEW c \in Callers, CallSaved(c) \/ CallNotSaved(c) PROVE LocalStep(c)
  <2> DEFINE ans == answer'[c]
  <2>1. phase[c] = "settling" /\ live[c] = {}
    BY <1>8 DEF CallSaved, CallNotSaved, AttemptsRunAlone, Working
  <2>2. /\ phase' = [phase EXCEPT ![c] = "reporting"] /\ pc' = [pc EXCEPT ![c] = "idle"]
        /\ attempt' = [attempt EXCEPT ![c] = attempt[c]]
        /\ live' = [live EXCEPT ![c] = {}]
    BY <1>8, <2>1, BreakerMoves DEF CallSaved, CallNotSaved, Turn
  <2>3. answer' = [answer EXCEPT ![c] = ans] /\ ans \in Answers
    BY <1>8 DEF CallSaved, CallNotSaved, Answers
  <2> HIDE DEF ans
  <2> QED
    BY <2>2, <2>3 DEF LocalStep, Phases, Working, PointOf, Points
<1>9. ASSUME NEW c \in Callers, Unwinds(c) \/ CancelCall(c) \/ CancelReport(c) PROVE LocalStep(c)
  <2>1. live' = [live EXCEPT ![c] = {}]
    BY <1>9 DEF Unwinds, CancelCall, CancelReport, FuncStops, AttemptsRunAlone, Working
  <2>2. phase' = [phase EXCEPT ![c] = "idle"] /\ attempt' = [attempt EXCEPT ![c] = 0]
        /\ answer' = [answer EXCEPT ![c] = "cancelled"]
    BY <1>9 DEF Unwinds, CancelCall, CancelReport, EndCancelled, Turn
  <2>3. pc' = [pc EXCEPT ![c] = "idle"]
    <3>1. CASE Unwinds(c) \/ CancelCall(c)
      BY <3>1, BreakerMoves DEF Unwinds, CancelCall
    <3>2. CASE CancelReport(c)
      BY <3>2 DEF CancelReport, vars, PointOf, Phases, Working
    <3> QED
      BY <1>9, <3>1, <3>2
  <2>4. {} \in SUBSET (1..MaxAttempts) /\ 0 \in 0..MaxAttempts
    OBVIOUS
  <2> QED
    BY <2>1, <2>2, <2>3, <2>4 DEF LocalStep, Phases, Working, Answers, PointOf, Points
<1>10. CASE RestartCalls
  BY <1>10 DEF RestartCalls, Restart, RetryIsLeft, AttemptsRunAlone, Phases, Working, Answers,
     PointOf, Points
<1>11. CASE TimePasses \/ UNCHANGED callVars
  BY <1>11 DEF TimePasses, Tick, callVars, vars, policy, RetryIsLeft, AttemptsRunAlone
<1>12. (\E c \in Callers : LocalStep(c)) => CallsInv'
  BY LocalInv
<1> HIDE DEF CallsInv, CallsTypeOK, BreakerFollows
<1> QED
  BY <1>1, <1>2, <1>3, <1>4, <1>5, <1>6, <1>7, <1>8, <1>9, <1>10, <1>11, <1>12 DEF CallsNext, AttemptEnds

THEOREM CallsInvariance == CallsSpec => []CallsInv
  BY CallsInitInv, CallsNextInv, PTL DEF CallsSpec

-----------------------------------------------------------------------------
\* The properties.

\* Type correctness: among others, no call ever makes more than MaxAttempts
\* attempts (retry_async).
THEOREM CallsTypeCorrect == CallsSpec => []CallsTypeOK
<1>1. CallsInv => CallsTypeOK
  BY DEF CallsInv
<1> QED
  BY CallsInvariance, <1>1, PTL

\* No attempt runs beside another one of its call, nor after the call's answer
\* (with_timeout cancels the function and awaits its end).
THEOREM AttemptsAlone == CallsSpec => []AttemptsRunAlone
<1>1. CallsInv => AttemptsRunAlone
  BY DEF CallsInv
<1> QED
  BY CallsInvariance, <1>1, PTL

\* To its breaker a call with retries and a timeout is one call: every step is a
\* step of CircuitBreaker or leaves it alone (policy.execute wraps the breaker
\* around the retries).
THEOREM RefinesBreaker == CallsSpec => BreakerSpec
<1>1. CallsInit => Init
  BY DEF CallsInit
<1>2. [CallsNext]_callVars => [Next]_vars
  <2> SUFFICES ASSUME [CallsNext]_callVars PROVE Next \/ UNCHANGED vars
    OBVIOUS
  <2>1. CASE \E c \in Callers : Step(c)
    BY <2>1 DEF Next
  <2>2. CASE TimePasses \/ RestartCalls
    BY <2>2 DEF TimePasses, RestartCalls, Next
  <2>3. ASSUME NEW c \in Callers,
               \/ Begin(c) \/ Reject(c) \/ TimesOut(c) \/ AttemptEnds(c) \/ Retry(c)
               \/ SettleCall(c) \/ CallSaved(c) \/ CallNotSaved(c) \/ Report(c)
               \/ CancelFunc(c) \/ CancelCall(c) \/ CancelReport(c)
        PROVE  Step(c) \/ UNCHANGED vars
    BY <2>3 DEF Begin, Reject, TimesOut, AttemptEnds, Returns, Raises, Unwinds, Retry, SettleCall,
       CallSaved, CallNotSaved, Report, CancelFunc, CancelCall, CancelReport, Step
  <2>4. CASE UNCHANGED callVars
    BY <2>4 DEF callVars
  <2> QED
    BY <2>1, <2>2, <2>3, <2>4 DEF CallsNext
<1> QED
  BY <1>1, <1>2, PTL DEF CallsSpec, BreakerSpec, Spec

\* Hence what a breaker keeps it keeps under retries, timeouts and functions that
\* hang or swallow their cancellation: its count, its record and its flag are true.
THEOREM BreakerKeepsItsWord == CallsSpec => [](CountMatchesState /\ DiskIsCurrent /\ FlagHasTrial)
  BY RefinesBreaker, CountAgreesWithState, DiskAgrees, FlagHasOwner, PTL DEF BreakerSpec
====
