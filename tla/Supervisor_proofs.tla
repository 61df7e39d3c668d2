---- MODULE Supervisor_proofs ----
(***************************************************************************)
(* Proofs about Supervisor, for any limits, any window and any number of   *)
(* runs that are on their way out.                                         *)
(*                                                                         *)
(* OneRun needs to know that a cancelled run has not ended, for else its   *)
(* place could be taken by the next run, cancelled from birth; and that a  *)
(* supervisor seen crashed has escalated needs to know it of a run that    *)
(* still awaits the handlers.                                              *)
(***************************************************************************)
EXTENDS Supervisor, TLAPS

\* TypeOK in two parts: the runs, and what is only observed or reported.
RunsTyped ==
  /\ state \in States
  /\ task \in Runs \cup {NoRun}
  /\ pc \in [Runs -> Points]
  /\ attempt \in [Runs -> 0..LastDelay + 1]
  /\ cancelled \subseteq Runs

RestTyped ==
  /\ awaited \subseteq Runs
  /\ crashed \in BOOLEAN /\ swallowed \in BOOLEAN
  /\ recent \in [Ages -> Nat]

\* A delay is awaited only when it could be computed.
DelayIsFloat == \A r \in Runs : pc[r] = "restarting" => attempt[r] <= LastDelay

CancelledAreLive == \A r \in cancelled : Live(r)

\* The escalation is over once its handlers are awaited, and is not taken back.
Escalated == {"failed", "stopping", "stopped"}

ToldIsEscalated ==
  /\ \A r \in Runs : pc[r] = "telling" => state \in Escalated
  /\ state # "recovering"

IInv ==
  /\ RunsTyped
  /\ DelayIsFloat
  /\ CancelledAreLive
  /\ ToldIsEscalated
  /\ OneRun
  /\ CrashedIsEscalated

-----------------------------------------------------------------------------
\* The invariant.

LEMMA InitInv == Init => IInv
  BY SupervisorAssumption
  DEF Init, IInv, RunsTyped, DelayIsFloat, CancelledAreLive, ToldIsEscalated, OneRun, CrashedIsEscalated,
      Live, Runs, NoRun, Points, States

\* A runtime that cannot be escalated has failed or is shutting down.
LEMMA NoEscalation ==
  ASSUME state \in States, state # "recovering",
         ~(state \notin UnsafeToEscalate /\ CanTransition(state, "failed"))
  PROVE  state \in Escalated
  BY DEF States, UnsafeToEscalate, CanTransition, Allowed, Escalated

\* What comes after FAILED and during a shutdown.
LEMMA StaysEscalated ==
  ASSUME state \in States, state # "recovering", Elsewhere
  PROVE  /\ state' \in States /\ state' # "recovering"
         /\ state \in Escalated => state' \in Escalated
  BY DEF Elsewhere, States, CanTransition, Allowed, Escalated

\* start() creates a run where there is none, and stop() leaves none that is not
\* cancelled.
LEMMA StartStopInv ==
  ASSUME IInv, Stop \/ StopRaises \/ \E r \in Runs : Start(r)
  PROVE  IInv'
<1> USE SupervisorAssumption
<1> USE DEF IInv, RunsTyped, DelayIsFloat, CancelledAreLive, ToldIsEscalated, OneRun, CrashedIsEscalated,
            Live, Runs, NoRun, Points, ghost
<1>1. CASE Stop
  <2> USE <1>1 DEF Stop
  <2>1. RunsTyped' /\ DelayIsFloat' /\ CancelledAreLive' /\ ToldIsEscalated'
    OBVIOUS
  <2>2. OneRun'
    OBVIOUS
  <2>3. CrashedIsEscalated'
    OBVIOUS
  <2> QED
    BY <2>1, <2>2, <2>3
<1>2. ASSUME NEW r \in Runs, Start(r) PROVE IInv'
  <2> USE <1>2 DEF Start, Goto
  <2>1. pc' = [pc EXCEPT ![r] = "working"] /\ task' = r /\ r \notin cancelled
    OBVIOUS
  <2>2. RunsTyped' /\ DelayIsFloat' /\ CancelledAreLive' /\ ToldIsEscalated'
    BY <2>1
  <2>3. OneRun'
    BY <2>1
  <2>4. CrashedIsEscalated'
    OBVIOUS
  <2> QED
    BY <2>2, <2>3, <2>4
<1>3. CASE StopRaises
  BY <1>3 DEF StopRaises
<1> QED
  BY <1>1, <1>2, <1>3

\* No step of a run breaks the invariant.
LEMMA LoopInv ==
  ASSUME IInv, NEW r \in Runs, Loop(r)
  PROVE  IInv'
<1> USE SupervisorAssumption
<1> USE DEF IInv, RunsTyped, DelayIsFloat, CancelledAreLive, ToldIsEscalated, OneRun, CrashedIsEscalated,
            Live, Runs, NoRun, Points, ghost, Goto, At
<1>1. CASE Unwind(r)
  BY <1>1 DEF Unwind, Ends
<1>2. CASE Swallow(r)
  BY <1>2 DEF Swallow
<1>3. CASE FuncEnds(r)
  BY <1>3 DEF FuncEnds
<1>4. CASE RegisterFailure(r)
  <2>1. At(r, "reporting") /\ UNCHANGED <<state, task, cancelled, crashed, swallowed>>
    BY <1>4 DEF RegisterFailure
  <2>2. CASE DelayOverflows(r) /\ attempt[r] > LastDelay
    <3>1. /\ pc' = [pc EXCEPT ![r] = "none"]
          /\ attempt' = [attempt EXCEPT ![r] = IF task = r THEN @ ELSE 0]
      BY <2>2 DEF DelayOverflows
    <3>2. RunsTyped' /\ DelayIsFloat' /\ CancelledAreLive' /\ ToldIsEscalated' /\ CrashedIsEscalated'
      BY <2>1, <3>1
    <3>3. OneRun'
      BY <2>1, <2>2, <3>1
    <3> QED
      BY <3>2, <3>3
  <2>3. ASSUME NEW point \in {"giving_up", "restarting"}, Goto(r, point), UNCHANGED <<attempt, awaited>>,
               point = "restarting" => ~(attempt[r] > LastDelay)
        PROVE  IInv'
    <3>1. pc' = [pc EXCEPT ![r] = point] /\ attempt' = attempt
      BY <2>3
    <3>2. RunsTyped' /\ CancelledAreLive' /\ ToldIsEscalated' /\ CrashedIsEscalated'
      BY <2>1, <3>1
    <3>3. OneRun'
      BY <2>1, <3>1
    <3>4. DelayIsFloat'
      BY <2>3, <3>1
    <3> QED
      BY <3>2, <3>3, <3>4
  <2> QED
    BY <1>4, <2>2, <2>3 DEF RegisterFailure
<1>5. CASE Restart(r)
  BY <1>5 DEF Restart
<1>6. CASE Escalate(r)
  <2>1. At(r, "giving_up") /\ cancelled' = cancelled /\ swallowed' = swallowed
    BY <1>6 DEF Escalate
  <2>2. CASE /\ state' = "failed" /\ Goto(r, "telling")
             /\ UNCHANGED <<task, attempt, awaited, crashed>>
    <3>1. pc' = [pc EXCEPT ![r] = "telling"] /\ attempt' = attempt
      BY <2>2
    <3>2. RunsTyped' /\ DelayIsFloat' /\ CancelledAreLive' /\ ToldIsEscalated' /\ CrashedIsEscalated'
      BY <2>1, <2>2, <3>1 DEF States, Escalated
    <3>3. OneRun'
      BY <2>1, <2>2, <3>1
    <3> QED
      BY <3>2, <3>3
  <2>3. CASE GiveUp(r) /\ UNCHANGED state /\ state \in Escalated
    <3>1. pc' = [pc EXCEPT ![r] = "none"] /\ attempt' = [attempt EXCEPT ![r] = 0]
      BY <2>3 DEF GiveUp, Ends
    <3>2. RunsTyped' /\ DelayIsFloat' /\ CancelledAreLive' /\ ToldIsEscalated' /\ CrashedIsEscalated'
      BY <2>1, <2>3, <3>1 DEF GiveUp, Escalated
    <3>3. OneRun'
      BY <2>1, <2>3, <3>1 DEF GiveUp
    <3> QED
      BY <3>2, <3>3
  <2> QED
    BY <1>6, <2>2, <2>3, NoEscalation DEF Escalate
<1>7. CASE Told(r)
  BY <1>7 DEF Told, GiveUp, Ends, Escalated
<1> QED
  BY <1>1, <1>2, <1>3, <1>4, <1>5, <1>6, <1>7, Loop(r) DEF Loop

LEMMA NextInv == IInv /\ [Next]_vars => IInv'
<1> SUFFICES ASSUME IInv, [Next]_vars PROVE IInv'
  OBVIOUS
<1> USE DEF IInv, RunsTyped, DelayIsFloat, CancelledAreLive, ToldIsEscalated, OneRun, CrashedIsEscalated,
            Live, ghost
<1>1. CASE Tick
  BY <1>1 DEF Tick
<1>2. CASE Elsewhere
  BY <1>2, StaysEscalated DEF Elsewhere, Escalated
<1>3. CASE UNCHANGED vars
  BY <1>3 DEF vars
<1> QED
  BY <1>1, <1>2, <1>3, StartStopInv, LoopInv, [Next]_vars DEF Next

THEOREM Invariance == Spec => []IInv
  BY InitInv, NextInv, PTL DEF Spec

LEMMA RestInit == Init => RestTyped
<1> SUFFICES ASSUME Init PROVE RestTyped
  OBVIOUS
<1>1. NoCrashes \in [Ages -> Nat]
  BY DEF NoCrashes
<1>2. crashed \in BOOLEAN /\ swallowed \in BOOLEAN
  BY DEF Init
<1> QED
  BY <1>1, <1>2 DEF Init, RestTyped

LEMMA RestNext == IInv /\ RestTyped /\ [Next]_vars => RestTyped'
<1> SUFFICES ASSUME IInv, RestTyped, [Next]_vars PROVE RestTyped'
  OBVIOUS
<1> USE SupervisorAssumption
<1>1. (awaited \subseteq Runs)'
  <2> USE DEF RestTyped, IInv, RunsTyped, Runs, NoRun
  <2>1. CASE \E r \in Runs : Loop(r)
    BY <2>1 DEF Loop, Unwind, Swallow, FuncEnds, RegisterFailure, DelayOverflows, Restart,
       Escalate, Told, GiveUp, Ends
  <2>2. CASE Stop \/ StopRaises \/ Tick \/ Elsewhere \/ UNCHANGED vars \/ \E r \in Runs : Start(r)
    BY <2>2 DEF Stop, StopRaises, Tick, Elsewhere, vars, Start
  <2> QED
    BY <2>1, <2>2 DEF Next
<1>2. crashed' \in BOOLEAN
  <2>1. crashed' = crashed \/ crashed' = TRUE \/ crashed' = FALSE
    BY DEF Next, Loop, Stop, StopRaises, Tick, Elsewhere, vars, Start, Unwind, Swallow, FuncEnds,
       RegisterFailure, Restart, Escalate, Told, GiveUp
  <2> QED
    BY <2>1, crashed \in BOOLEAN, Zenon DEF RestTyped
<1>3. swallowed' \in BOOLEAN
  <2>1. swallowed' = swallowed \/ swallowed' = TRUE
    BY DEF Next, Loop, Stop, StopRaises, Tick, Elsewhere, vars, ghost, Start, Unwind, Swallow,
       FuncEnds, RegisterFailure, Restart, Escalate, Told
  <2> QED
    BY <2>1, swallowed \in BOOLEAN, Zenon DEF RestTyped
<1>4. recent' \in [Ages -> Nat]
  <2> USE DEF RestTyped, Ages
  <2>1. CASE \/ recent' = recent
             \/ recent' = [a \in Ages |-> recent[a] + 1]
             \/ recent' = [a \in Ages |-> IF a = 0 THEN 0 ELSE recent[a - 1]]
             \/ recent' = NoCrashes
    BY <2>1 DEF NoCrashes
  <2> QED
    BY <2>1 DEF Next, Loop, Stop, StopRaises, Tick, Elsewhere, vars, ghost, Start, Unwind, Swallow,
       FuncEnds, RegisterFailure, Restart, Escalate, Told
<1> QED
  BY <1>1, <1>2, <1>3, <1>4 DEF RestTyped

LEMMA RestInvariance == Spec => []RestTyped
  BY RestInit, RestNext, Invariance, PTL DEF Spec

-----------------------------------------------------------------------------
\* The count of crashes.

\* The deque is in the order of the crashes, and those of the last a ticks are its
\* newest recent[a] ones: whatever was dropped was older than the window.
CountInv ==
  /\ failures \in Seq(Nat)
  /\ \A a \in Ages :
       /\ recent[a] \in 0..Len(failures)
       /\ \A k \in 1..Len(failures) : failures[k] <= a <=> k > Len(failures) - recent[a]

\* With the crash of now there is one more of any age.
LEMMA WithThisCounts ==
  ASSUME CountInv, recent \in [Ages -> Nat]
  PROVE  /\ WithThis \in Seq(Nat) /\ Len(WithThis) = Len(failures) + 1
         /\ \A a \in Ages :
              /\ recent[a] + 1 \in 1..Len(WithThis)
              /\ \A k \in 1..Len(WithThis) : WithThis[k] <= a <=> k > Len(WithThis) - (recent[a] + 1)
<1> USE SupervisorAssumption
<1>1. WithThis \in Seq(Nat) /\ Len(WithThis) = Len(failures) + 1
  BY DEF CountInv, WithThis
<1>2. \A k \in 1..Len(failures) : WithThis[k] = failures[k]
  BY DEF CountInv, WithThis
<1>3. WithThis[Len(WithThis)] = 0
  BY DEF CountInv, WithThis
<1> HIDE DEF WithThis
<1>4. ASSUME NEW a \in Ages
      PROVE  /\ recent[a] + 1 \in 1..Len(WithThis)
             /\ \A k \in 1..Len(WithThis) : WithThis[k] <= a <=> k > Len(WithThis) - (recent[a] + 1)
  <2>1. a \in Nat /\ recent[a] \in Nat /\ Len(failures) \in Nat /\ recent[a] <= Len(failures)
    BY DEF CountInv, Ages
  <2>2. \A k \in 1..Len(failures) : WithThis[k] <= a <=> k > Len(failures) - recent[a]
    BY <1>2 DEF CountInv
  <2>3. ASSUME NEW k \in 1..Len(failures) + 1 PROVE WithThis[k] <= a <=> k > Len(failures) + 1 - (recent[a] + 1)
    <3>1. CASE k = Len(failures) + 1
      BY <1>1, <1>3, <2>1, <3>1
    <3>2. CASE k # Len(failures) + 1
      BY <2>1, <2>2, <3>2
    <3> QED
      BY <3>1, <3>2
  <2> QED
    BY <1>1, <2>1, <2>3
<1> QED
  BY <1>1, <1>4

\* popleft() keeps exactly the crashes within the window.
LEMMA CountedIsRecent ==
  ASSUME CountInv, recent \in [Ages -> Nat]
  PROVE  /\ Counted \in Seq(Nat) /\ Len(Counted) = recent[Window] + 1
         /\ \A a \in Ages :
              /\ recent[a] + 1 \in 0..Len(Counted)
              /\ \A k \in 1..Len(Counted) : Counted[k] <= a <=> k > Len(Counted) - (recent[a] + 1)
<1> USE SupervisorAssumption
<1> DEFINE n == Len(WithThis)
           IsFirst(k) == WithThis[k] <= Window /\ \A j \in 1..k - 1 : WithThis[j] > Window
           first == CHOOSE k \in 1..n : IsFirst(k)
           left == n - (recent[Window] + 1)
<1>0. /\ WithThis \in Seq(Nat)
      /\ \A a \in Ages :
           /\ recent[a] \in Nat
           /\ recent[a] + 1 \in 1..n
           /\ \A k \in 1..n : WithThis[k] <= a <=> k > n - (recent[a] + 1)
  BY WithThisCounts
<1>1. Window \in Ages /\ n \in Nat /\ left + 1 \in 1..n /\ left \in Nat
  <2>1. Window \in Ages
    BY DEF Ages
  <2>2. n \in Nat
    BY <1>0
  <2> HIDE DEF n
  <2> QED
    BY <1>0, <2>1, <2>2
<1>2. \A k \in 1..n : WithThis[k] \in Nat /\ (WithThis[k] <= Window <=> k > left)
  <2>1. \A k \in 1..n : WithThis[k] \in Nat
    BY <1>0
  <2> HIDE DEF n
  <2>2. \A k \in 1..n : WithThis[k] <= Window <=> k > left
    BY <1>0, <1>1
  <2> QED
    BY <2>1, <2>2
<1>3. WithThis \in Seq(Nat) /\ Len(WithThis) = n
  BY <1>0
<1>4. ASSUME NEW k \in 1..n, IsFirst(k) PROVE k = left + 1
  <2> HIDE DEF n, left
  <2>1. k > left
    BY <1>2, <1>4
  <2>2. CASE k > left + 1
    <3>1. left + 1 \in 1..k - 1 /\ left + 1 > left
      BY <1>1, <2>2
    <3>2. WithThis[left + 1] > Window
      BY <1>4, <3>1
    <3> QED
      BY <1>1, <1>2, <3>1, <3>2, SupervisorAssumption
  <2> QED
    BY <1>1, <2>1, <2>2
<1>5. IsFirst(left + 1)
  <2> HIDE DEF n, left
  <2>1. WithThis[left + 1] <= Window
    BY <1>1, <1>2
  <2>2. ASSUME NEW j \in 1..(left + 1) - 1 PROVE WithThis[j] > Window
    BY <1>1, <1>2
  <2> QED
    BY <2>1, <2>2
<1>6. first = left + 1
  BY <1>1, <1>4, <1>5
<1>7. Counted = SubSeq(WithThis, left + 1, n)
  BY <1>6 DEF Counted
<1> HIDE DEF first, IsFirst
<1>8. left + (recent[Window] + 1) = n /\ recent[Window] \in Nat
  <2> HIDE DEF n
  <2> QED
    BY <1>0, <1>1
<1> HIDE DEF left, n
<1>9. /\ Counted \in Seq(Nat) /\ Len(Counted) = n - left
      /\ \A k \in 1..n - left : Counted[k] = WithThis[k + left]
  <2>1. left + 1 \in Nat /\ n <= Len(WithThis)
    BY <1>1, <1>3
  <2>2. Len(Counted) = n - left
    BY <1>1, <1>3, <1>7
  <2>3. \A k \in 1..n - left : Counted[k] = WithThis[k + left]
    BY <1>1, <1>3, <1>7
  <2>4. Counted \in Seq(Nat)
    BY <1>1, <1>3, <1>7
  <2> QED
    BY <2>2, <2>3, <2>4
<1>10. ASSUME NEW a \in Ages
       PROVE  /\ recent[a] + 1 \in 0..Len(Counted)
              /\ \A k \in 1..Len(Counted) : Counted[k] <= a <=> k > Len(Counted) - (recent[a] + 1)
  <2> DEFINE b == n - (recent[a] + 1)
  <2>1. recent[a] \in Nat /\ recent[a] + 1 \in 1..n
    BY <1>0
  <2>2. a \in Nat /\ a <= Window
    BY DEF Ages
  <2>3. b \in Nat /\ b + 1 \in 1..n /\ recent[a] + 1 = n - b
    BY <1>1, <2>1
  <2>4. \A k \in 1..n : WithThis[k] <= a <=> k > b
    BY <1>0
  <2> HIDE DEF b
  <2>5. WithThis[b + 1] <= Window
    <3>1. WithThis[b + 1] <= a
      BY <2>3, <2>4
    <3> QED
      BY <1>2, <2>2, <2>3, <3>1, SupervisorAssumption
  <2>6. left <= b
    BY <1>1, <1>2, <2>3, <2>5
  <2>7. \A k \in 1..n - left : k + left \in 1..n
    BY <1>1
  <2>8. \A k \in 1..n - left : Counted[k] <= a <=> k + left > b
    BY <1>9, <2>4, <2>7
  <2>9. recent[a] + 1 \in 0..n - left
    BY <1>1, <2>1, <2>3, <2>6
  <2>10. \A k \in 1..n - left : k + left > b <=> k > (n - left) - (recent[a] + 1)
    BY <1>1, <2>3
  <2> QED
    BY <1>9, <2>8, <2>9, <2>10
<1>11. n - left = recent[Window] + 1
  BY <1>1, <1>8
<1> QED
  BY <1>9, <1>10, <1>11

LEMMA CountInit == Init => CountInv
  BY SupervisorAssumption DEF Init, CountInv, NoCrashes, Ages

LEMMA CountNext == RestTyped /\ CountInv /\ [Next]_vars => CountInv'
<1> SUFFICES ASSUME RestTyped, CountInv, [Next]_vars PROVE CountInv'
  OBVIOUS
<1> USE SupervisorAssumption
<1>1. ASSUME NEW r \in Runs, RegisterFailure(r) PROVE CountInv'
  <2>1. failures' = Counted /\ recent' = [a \in Ages |-> recent[a] + 1]
    BY <1>1 DEF RegisterFailure
  <2> QED
    BY <2>1, CountedIsRecent DEF CountInv, RestTyped
<1>2. ASSUME NEW r \in Runs, Start(r) PROVE CountInv'
  BY <1>2 DEF Start, NoCrashes, CountInv, Ages
<1>3. CASE Tick
  <2>1. /\ failures' = [k \in 1..Len(failures) |-> Older(failures[k])]
        /\ recent' = [a \in Ages |-> IF a = 0 THEN 0 ELSE recent[a - 1]]
    BY <1>3 DEF Tick
  <2>2. failures' \in Seq(Nat) /\ Len(failures') = Len(failures)
        /\ \A k \in 1..Len(failures) : failures'[k] = Older(failures[k]) /\ failures[k] \in Nat
    BY <2>1 DEF CountInv, Older
  <2>3. ASSUME NEW a \in Ages
        PROVE  /\ recent'[a] \in 0..Len(failures)
               /\ \A k \in 1..Len(failures) : Older(failures[k]) <= a <=> k > Len(failures) - recent'[a]
    <3>1. CASE a = 0
      BY <2>1, <2>2, <3>1 DEF Older, Ages, CountInv
    <3>2. CASE a # 0
      <4>1. a - 1 \in Ages /\ recent'[a] = recent[a - 1] /\ a \in Nat /\ a <= Window
        BY <2>1, <3>2 DEF Ages
      <4>2. \A k \in 1..Len(failures) : Older(failures[k]) <= a <=> failures[k] <= a - 1
        BY <2>2, <4>1 DEF Older
      <4> QED
        BY <4>1, <4>2 DEF CountInv
    <3> QED
      BY <3>1, <3>2
  <2> QED
    BY <2>2, <2>3 DEF CountInv
<1>4. CASE UNCHANGED <<failures, recent>>
  BY <1>4 DEF CountInv
<1>5. ASSUME NEW r \in Runs, Loop(r) PROVE RegisterFailure(r) \/ UNCHANGED <<failures, recent>>
  BY <1>5 DEF Loop, Unwind, Swallow, FuncEnds, Restart, Escalate, Told, ghost
<1>6. Stop \/ StopRaises \/ Elsewhere \/ UNCHANGED vars => UNCHANGED <<failures, recent>>
  BY DEF Stop, StopRaises, Elsewhere, vars, ghost
<1> QED
  BY <1>1, <1>2, <1>3, <1>4, <1>5, <1>6 DEF Next

LEMMA CountInvariance == Spec => []CountInv
  BY CountInit, CountNext, RestInvariance, PTL DEF Spec

-----------------------------------------------------------------------------
\* The properties.

\* Type correctness; no attempt goes beyond the first whose delay overflows.
THEOREM TypeCorrect == Spec => []TypeOK
<1>1. IInv /\ RestTyped => TypeOK
  BY DEF IInv, RunsTyped, RestTyped, TypeOK
<1> QED
  BY Invariance, RestInvariance, <1>1, PTL

\* However start() and stop() follow each other, _task is a run that works, and
\* no other run does, unless the function swallowed its cancellation.
THEOREM AtMostOneRun == Spec => []OneRun
<1>1. IInv => OneRun
  BY DEF IInv
<1> QED
  BY Invariance, <1>1, PTL

\* is_crashed is seen only after the runtime was taken to FAILED, or was found
\* shutting down (_register_failure, _escalate).
THEOREM CrashIsEscalated == Spec => []CrashedIsEscalated
<1>1. IInv => CrashedIsEscalated
  BY DEF IInv
<1> QED
  BY Invariance, <1>1, PTL

\* Only the registration of a crash takes a run from where it reports, unless it is
\* cancelled there.
LEMMA LeavesReporting ==
  ASSUME IInv, [Next]_vars, NEW r \in Runs, At(r, "reporting"), ~At(r, "reporting")', r \notin cancelled'
  PROVE  RegisterFailure(r)
<1>1. pc[r] = "reporting" /\ r \notin cancelled /\ pc'[r] # "reporting"
  BY DEF At
<1>2. pc \in [Runs -> Points] /\ Live(r)
  BY <1>1 DEF IInv, RunsTyped, Live
<1>3. ASSUME NEW q \in Runs, Start(q) \/ Loop(q), ~RegisterFailure(q) PROVE pc'[r] = pc[r]
  BY <1>1, <1>2, <1>3 DEF Start, Loop, Unwind, Swallow, FuncEnds, Restart, Escalate, Told, GiveUp, Ends, Goto, At, Live
<1>4. ASSUME NEW q \in Runs, RegisterFailure(q), q # r PROVE pc'[r] = pc[r]
  BY <1>2, <1>4 DEF RegisterFailure, DelayOverflows, Goto
<1>5. Stop \/ StopRaises \/ Tick \/ Elsewhere \/ UNCHANGED vars => pc' = pc
  BY DEF Stop, StopRaises, Tick, Elsewhere, vars
<1> QED
  BY <1>1, <1>3, <1>4, <1>5 DEF Next

\* The supervisor gives up at a crash exactly when max_crashes of them, this one
\* counted, lie within the window since start(), in whatever rhythm they came and
\* whichever were dropped from the deque before (_register_failure).
THEOREM GivesUpAtTheLimit == Spec => GivesUpInTime
<1>1. ASSUME IInv, RestTyped, CountInv, [Next]_vars,
             NEW r \in Runs, At(r, "reporting"), ~At(r, "reporting")', r \notin cancelled'
      PROVE  pc'[r] = "giving_up" <=> recent'[Window] >= MaxCrashes
  <2>1. RegisterFailure(r)
    BY <1>1, LeavesReporting
  <2>2. recent'[Window] = Len(Counted)
    BY <1>1, <2>1, CountedIsRecent, SupervisorAssumption DEF RegisterFailure, Ages, RestTyped
  <2>3. pc'[r] = "giving_up" <=> Loops
    BY <1>1, <2>1 DEF RegisterFailure, DelayOverflows, Goto, IInv, RunsTyped
  <2> QED
    BY <2>2, <2>3 DEF Loops
<1>2. IInv /\ RestTyped /\ CountInv /\ [Next]_vars =>
        \A r \in Runs : At(r, "reporting") /\ ~At(r, "reporting")' /\ r \notin cancelled' =>
          (pc'[r] = "giving_up" <=> recent'[Window] >= MaxCrashes)
  BY <1>1
<1> QED
  BY Invariance, RestInvariance, CountInvariance, <1>2, PTL DEF Spec, GivesUpInTime
====
