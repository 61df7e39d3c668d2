---- MODULE Reliable ----
(***************************************************************************)
(* guard.reliable(): circuit breaker around retry around timeout around    *)
(* the function (resilience/policy.py, retry.py, timeout.py). It extends   *)
(* CircuitBreaker, whose actions are the breaker's part of each step and   *)
(* whose variables are vars.                                               *)
(*                                                                         *)
(* The function is the application's. It may return, raise, never end,     *)
(* and, when its task is cancelled, unwind, raise something else or return *)
(* all the same.                                                           *)
(***************************************************************************)
EXTENDS CircuitBreaker

CONSTANTS
  MaxAttempts,  \* RetryPolicy.max_attempts
  Timed         \* whether a timeout is set

ASSUME ReliableAssumption ==
  /\ MaxAttempts \in Nat \ {0}
  /\ Timed \in BOOLEAN

VARIABLES
  phase,    \* where each call stands
  attempt,  \* the number of its current attempt
  live,     \* the attempts whose function has not ended
  answer    \* how its last call ended: as told to the bus and to the caller

policy   == <<phase, attempt, live, answer>>
callVars == <<vars, policy>>

\* "unwinding": the timeout has cancelled the function; "cancelling": the
\* caller's own cancellation has; "backoff": on_retry and the sleep; "settling":
\* the breaker takes the outcome; "reporting": the event is published.
Phases  == {"idle", "attempt", "unwinding", "cancelling", "backoff", "settling", "reporting"}
Working == {"attempt", "unwinding", "cancelling"}
Answers == {"none", "returned", "raised", "rejected", "cancelled"}

CallsInit ==
  /\ Init
  /\ phase = [c \in Callers |-> "idle"]
  /\ attempt = [c \in Callers |-> 0]
  /\ live = [c \in Callers |-> {}]
  /\ answer = [c \in Callers |-> "none"]

Turn(c, p) == phase' = [phase EXCEPT ![c] = p]

-----------------------------------------------------------------------------
\* wrapper().

Attempt(c, n) ==
  /\ Turn(c, "attempt")
  /\ attempt' = [attempt EXCEPT ![c] = n]
  /\ live' = [live EXCEPT ![c] = @ \cup {n}]

Begin(c) ==
  /\ phase[c] = "idle"
  /\ Admit(c)
  /\ Attempt(c, 1)
  /\ answer' = [answer EXCEPT ![c] = "none"]

\* CircuitOpenError: the retry loop is not entered.
Reject(c) ==
  /\ phase[c] = "idle"
  /\ Unlocked
  /\ \/ state = "open" /\ ~Elapsed(age)
     \/ state = "half_open" /\ inFlight
  /\ Turn(c, "reporting")
  /\ answer' = [answer EXCEPT ![c] = "rejected"]
  /\ UNCHANGED <<vars, attempt, live>>

-----------------------------------------------------------------------------
\* with_timeout() and the function.

\* Mutant: the function is left running when its time is up.
TimesOutAtOnce(c) ==
  /\ Timed
  /\ phase[c] = "attempt"
  /\ Turn(c, "backoff")
  /\ UNCHANGED <<vars, attempt, live, answer>>

\* Mutant: only the first attempt is timed.
TimesOutFirst(c) ==
  /\ Timed
  /\ phase[c] = "attempt"
  /\ attempt[c] = 1
  /\ Turn(c, "unwinding")
  /\ UNCHANGED <<vars, attempt, live, answer>>

\* asyncio.timeout cancels the function and waits for it to end.
TimesOut(c) ==
  /\ Timed
  /\ phase[c] = "attempt"
  /\ Turn(c, "unwinding")
  /\ UNCHANGED <<vars, attempt, live, answer>>

FuncStops(c) == live' = [live EXCEPT ![c] = @ \ {attempt[c]}]

\* A value that comes after the timeout, or after the cancellation, is the
\* result all the same.
Returns(c) ==
  /\ phase[c] \in Working
  /\ FuncStops(c)
  /\ Turn(c, "settling")
  /\ FuncEnds(c, "succeeded")
  /\ answer' = [answer EXCEPT ![c] = "returned"]
  /\ UNCHANGED attempt

\* Mutant: the breaker is inside the retry loop and counts every attempt.
RaisesInside(c, retryable) ==
  /\ phase[c] \in Working
  /\ FuncStops(c)
  /\ IF retryable /\ attempt[c] < MaxAttempts
       THEN /\ Turn(c, "backoff")
            /\ failures' = Count(failures)
            /\ UNCHANGED <<state, age, inFlight, saving, pc, trials, disk, deserted, unsaved, answer>>
       ELSE /\ Turn(c, "settling")
            /\ FuncEnds(c, "failed")
            /\ answer' = [answer EXCEPT ![c] = "raised"]
  /\ UNCHANGED attempt

\* The attempt raises, after a timeout OperationTimeoutError. Retried, unless it
\* was the last attempt or retry_on does not name the exception.
Raises(c, retryable) ==
  /\ phase[c] \in Working
  /\ FuncStops(c)
  /\ IF retryable /\ attempt[c] < MaxAttempts
       THEN Turn(c, "backoff") /\ UNCHANGED <<vars, answer>>
       ELSE /\ Turn(c, "settling")
            /\ FuncEnds(c, "failed")
            /\ answer' = [answer EXCEPT ![c] = "raised"]
  /\ UNCHANGED attempt

Retry(c) ==
  /\ phase[c] = "backoff"
  /\ Attempt(c, attempt[c] + 1)
  /\ UNCHANGED <<vars, answer>>

-----------------------------------------------------------------------------
\* The outcome reaches the breaker, its record the disk, and the event the bus.

SettleCall(c) ==
  /\ phase[c] = "settling"
  /\ OnSuccess(c) \/ OnFailure(c)
  /\ UNCHANGED policy

CallSaved(c) ==
  /\ phase[c] = "settling"
  /\ Saved(c)
  /\ Turn(c, "reporting")
  /\ UNCHANGED <<attempt, live, answer>>

\* The store's exception replaces whatever the function returned or raised.
CallNotSaved(c) ==
  /\ phase[c] = "settling"
  /\ SaveFails(c)
  /\ Turn(c, "reporting")
  /\ answer' = [answer EXCEPT ![c] = "raised"]
  /\ UNCHANGED <<attempt, live>>

\* operation_succeeded or operation_failed is published, then the call ends.
Report(c) ==
  /\ phase[c] = "reporting"
  /\ Turn(c, "idle")
  /\ attempt' = [attempt EXCEPT ![c] = 0]
  /\ UNCHANGED <<vars, live, answer>>

-----------------------------------------------------------------------------
\* Cancellation of the calling task. A function at work gets to see it first;
\* the timeout, if it fired before or fires now, gives way to it.

CancelFunc(c) ==
  /\ MayCancel
  /\ phase[c] \in {"attempt", "unwinding"}
  /\ Turn(c, "cancelling")
  /\ UNCHANGED <<vars, attempt, live, answer>>

EndCancelled(c) ==
  /\ Turn(c, "idle")
  /\ attempt' = [attempt EXCEPT ![c] = 0]
  /\ answer' = [answer EXCEPT ![c] = "cancelled"]

Unwinds(c) ==
  /\ phase[c] = "cancelling"
  /\ FuncStops(c)
  /\ Cancel(c)
  /\ EndCancelled(c)

CancelCall(c) ==
  /\ phase[c] \in {"backoff", "settling"}
  /\ Cancel(c)
  /\ EndCancelled(c)
  /\ UNCHANGED live

CancelReport(c) ==
  /\ MayCancel
  /\ phase[c] = "reporting"
  /\ EndCancelled(c)
  /\ UNCHANGED <<vars, live>>

-----------------------------------------------------------------------------
TimePasses == Tick /\ UNCHANGED policy

RestartCalls ==
  /\ Restart
  /\ phase' = [c \in Callers |-> "idle"]
  /\ attempt' = [c \in Callers |-> 0]
  /\ live' = [c \in Callers |-> {}]
  /\ answer' = [c \in Callers |-> "none"]

AttemptEnds(c) == Returns(c) \/ Raises(c, TRUE) \/ Raises(c, FALSE) \/ Unwinds(c)

CallsNext ==
  \/ TimePasses \/ RestartCalls
  \/ \E c \in Callers :
       \/ Begin(c) \/ Reject(c) \/ TimesOut(c) \/ AttemptEnds(c) \/ Retry(c)
       \/ SettleCall(c) \/ CallSaved(c) \/ CallNotSaved(c) \/ Report(c)
       \/ CancelFunc(c) \/ CancelCall(c) \/ CancelReport(c)

CallsSpec == CallsInit /\ [][CallsNext]_callVars

\* The timer fires, a cancelled function ends in some way, and the callers keep
\* calling. A function that was not cancelled need never end.
CallsFairness ==
  /\ WF_callVars(TimePasses)
  /\ \A c \in Callers :
       /\ SF_callVars(Begin(c))
       /\ WF_callVars(TimesOut(c))
       /\ WF_callVars(phase[c] \in {"unwinding", "cancelling"} /\ AttemptEnds(c))
       /\ WF_callVars(Retry(c))
       /\ SF_callVars(SettleCall(c))
       /\ WF_callVars(CallSaved(c) \/ CallNotSaved(c))
       /\ WF_callVars(Report(c))

FairCallsSpec == CallsSpec /\ CallsFairness

-----------------------------------------------------------------------------
\* Properties.

CallsTypeOK ==
  /\ phase \in [Callers -> Phases]
  /\ attempt \in [Callers -> 0..MaxAttempts]
  /\ live \in [Callers -> SUBSET (1..MaxAttempts)]
  /\ answer \in [Callers -> Answers]

\* The attempts of a call never overlap: no function of an earlier attempt still
\* runs while the next one does, while its backoff is slept, or after the caller
\* has its answer, whether it was timed out, cancelled or raised.
AttemptsRunAlone == \A c \in Callers :
  live[c] = IF phase[c] \in Working THEN {attempt[c]} ELSE {}

\* The breaker sees one outcome per call, however many attempts it took ("a
\* breaker trip means this operation, even after retrying, isn't succeeding",
\* policy.py 16-18): a policy with a breaker implements CircuitBreaker.
BreakerSpec == Spec

\* With a timeout every call ends, though the function never would.
CallsEnd == \A c \in Callers : phase[c] # "idle" ~> phase[c] = "idle"

\* With a timeout a function that hangs does not keep the breaker half-open:
\* callers are let through again and again, unless a trial was cancelled.
HangsAreNoTrap == []<><<\E c \in Callers : Begin(c)>>_callVars \/ <>[]deserted
====
