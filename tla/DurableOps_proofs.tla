---- MODULE DurableOps_proofs ----
(***************************************************************************)
(* Proofs about DurableOps, for every number of intents, every limit of    *)
(* attempts and every number of faults.                                    *)
(*                                                                         *)
(* The properties are not inductive by themselves: that a completed row    *)
(* was executed needs to know where each execution stands when it writes   *)
(* the row, and that a finished intent is never run again needs to know    *)
(* that no execution is under way for it. IInv adds these facts.           *)
(***************************************************************************)
EXTENDS DurableOps, TLAPS

\* Where an execution stands agrees with the row of its intent.
ExecMatchesRow ==
  \A r \in Runners, i \in Intents :
    /\ exec[r][i] = "loaded" => status[i] \in Unfinished
    /\ exec[r][i] \in Underway => status[i] = "in_progress"
    /\ exec[r][i] = "completed" => status[i] \in {"completed", "pruned"}
    /\ exec[r][i] = "retry" => status[i] = "pending"
    /\ exec[r][i] = "exhausted" => status[i] = "failed"

\* Replays happen before the runtime is up, live calls after.
ExecMatchesPhase ==
  \A i \in Intents :
    /\ exec["replay"][i] # "idle" => phase = "replaying"
    /\ exec["call"][i] # "idle" => phase \in {"up", "closed"}

\* What is left to replay is unfinished and has not been begun in this process.
ReplayMatchesRow ==
  /\ phase # "replaying" => toReplay = {}
  /\ phase \in {"off", "booting"} => tried = {}
  /\ \A i \in toReplay : status[i] \in Unfinished /\ i \notin tried
  /\ \A i \in Intents : exec["replay"][i] # "idle" => i \in tried
  /\ \A i \in Intents : status[i] = "unrequested" => i \notin tried

CountsMatchExec ==
  \A i \in Intents :
    /\ status[i] = "unrequested" => attempts[i] = 0
    /\ runs[i] <= attempts[i]
    /\ \A r \in Runners : exec[r][i] = "marked" => runs[i] < attempts[i]

\* An unfinished intent has an attempt left, not counting those cut short, unless
\* its last one is under way.
LimitIsNear ==
  \A i \in Intents :
    MaxAttempts # 0 /\ status[i] \in Unfinished \cup {"unrequested"} =>
      \/ attempts[i] < MaxAttempts + cut[i]
      \/ \E r \in Runners : exec[r][i] \in Underway

\* Every unfinished intent of a declared operation is still to be replayed, or had
\* its attempt.
ReplayIsComplete ==
  /\ phase # "off" => Declared \subseteq registered
  /\ toReplay # {} => Recovery
  /\ Recovery /\ phase \in {"replaying", "up"} =>
       \A i \in Intents :
         status[i] \in Unfinished /\ OpOf[i] \in Declared => i \in tried \cup toReplay

ReturnedWasExecuted ==
  \A r \in Runners, i \in Intents : exec[r][i] = "returned" => i \in executed

IInv ==
  /\ TypeOK
  /\ ExecMatchesRow
  /\ ExecMatchesPhase
  /\ ReplayMatchesRow
  /\ CountsMatchExec
  /\ ReturnedWasExecuted
  /\ CompletedWasExecuted
  /\ AnswersAreJournaled
  /\ LimitHolds
  /\ LimitIsNear
  /\ ReplayIsComplete

-----------------------------------------------------------------------------
\* The invariant.

\* No journal, no process: nothing to contradict the invariant.
LEMMA InitInv == Init => IInv
  BY ConstantsAssumption
  DEF Init, IInv, TypeOK, ExecMatchesRow, ExecMatchesPhase, ReplayMatchesRow, CountsMatchExec,
             ReturnedWasExecuted, CompletedWasExecuted, AnswersAreJournaled,
             LimitHolds, LimitIsNear, ReplayIsComplete,
      Runners, Underway, Settled, Unfinished, Finished, Statuses, Positions, Replies,
             Phases, Exhausted

\* Every step of the process, of a call or of a replay keeps the invariant.
LEMMA NextInv == IInv /\ [Next]_vars => IInv'
<1> SUFFICES ASSUME IInv, [Next]_vars PROVE IInv'
  OBVIOUS
<1> USE ConstantsAssumption
<1> USE DEF IInv, TypeOK, ExecMatchesRow, ExecMatchesPhase, ReplayMatchesRow, CountsMatchExec,
             ReturnedWasExecuted, CompletedWasExecuted, AnswersAreJournaled,
             LimitHolds, LimitIsNear, ReplayIsComplete
<1> USE DEF Runners, Underway, Settled, Unfinished, Finished, Statuses, Positions, Replies,
             Phases
<1> USE DEF disk, ghost
<1>1. CASE Boot
  BY <1>1 DEF Boot
<1>2. CASE LoadPending
  BY <1>2 DEF LoadPending, ReplaySet
<1>3. CASE BootDone
  BY <1>3 DEF BootDone, InFlight
<1>4. CASE BootFails
  BY <1>4 DEF BootFails, Fault, InFlight
<1>5. CASE CancelStart
  BY <1>5 DEF CancelStart, Fault, CutShort
<1>6. CASE Close
  BY <1>6 DEF Close, Fault, InFlight
<1>7. CASE Exit
  BY <1>7 DEF Exit, ProcessEnds, CutShort
<1>8. CASE Crash
  BY <1>8 DEF Crash, ProcessEnds, Fault, CutShort
<1>9. CASE \E op \in Operations : Register(op)
  BY <1>9 DEF Register
<1>10. ASSUME NEW i \in Intents, ReplayNext(i) PROVE IInv'
  BY <1>10 DEF ReplayNext, InFlight, NextInOrder, Goto
<1>11. ASSUME NEW i \in Intents, Record(i) PROVE IInv'
  BY <1>11 DEF Record, CallAllowed, IsStarted, Goto, Present, Exhausted
<1>12. ASSUME NEW r \in Runners, NEW i \in Intents, MarkInProgress(r, i) PROVE IInv'
  BY <1>12 DEF MarkInProgress, Goto, Connected
<1>13. ASSUME NEW r \in Runners, NEW i \in Intents, EnterBody(r, i) PROVE IInv'
  BY <1>13 DEF EnterBody, Goto
<1>14. ASSUME NEW r \in Runners, NEW i \in Intents, BodyReturns(r, i) PROVE IInv'
  BY <1>14 DEF BodyReturns, Goto
<1>15. ASSUME NEW r \in Runners, NEW i \in Intents, BodyRaises(r, i) PROVE IInv'
  BY <1>15 DEF BodyRaises, Goto, Fault
<1>16. ASSUME NEW r \in Runners, NEW i \in Intents, MarkCompleted(r, i) PROVE IInv'
  BY <1>16 DEF MarkCompleted, Goto
<1>17. ASSUME NEW r \in Runners, NEW i \in Intents, MarkRaised(r, i) PROVE IInv'
  BY <1>17 DEF MarkRaised, Goto, Exhausted
<1>18. ASSUME NEW r \in Runners, NEW i \in Intents, Return(r, i) PROVE IInv'
  BY <1>18 DEF Return, Goto, Answer, Told
<1>19. ASSUME NEW r \in Runners, NEW i \in Intents, Abandon(r, i) PROVE IInv'
  BY <1>19 DEF Abandon, Goto, Answer, Fault, Connected
<1>20. ASSUME NEW S \in SUBSET Intents, Prune(S) PROVE IInv'
  BY <1>20 DEF Prune, Prunable
<1>21. CASE UNCHANGED vars
  BY <1>21 DEF vars
<1> HIDE DEF IInv, TypeOK, ExecMatchesRow, ExecMatchesPhase, ReplayMatchesRow, CountsMatchExec,
             ReturnedWasExecuted, CompletedWasExecuted, AnswersAreJournaled,
             LimitHolds, LimitIsNear, ReplayIsComplete
<1> HIDE DEF Runners, Underway, Settled, Unfinished, Finished, Statuses, Positions, Replies,
             Phases, disk, ghost
<1> QED
  BY <1>1, <1>2, <1>3, <1>4, <1>5, <1>6, <1>7, <1>8, <1>9, <1>10, <1>11,
     <1>12, <1>13, <1>14, <1>15, <1>16, <1>17, <1>18, <1>19, <1>20, <1>21 DEF Next, Execute

\* The invariant holds throughout every behaviour.
THEOREM Invariance == Spec => []IInv
  BY InitInv, NextInv, PTL DEF Spec

\* Type correctness of the journal, the process and the observations.
THEOREM TypeCorrect == Spec => []TypeOK
<1>1. IInv => TypeOK
  BY DEF IInv
<1> QED
  BY <1>1, Invariance, PTL

\* The write-ahead discipline: every entry into an operation's body was counted
\* on disk before, and a row says completed only if the body returned
\* (mark_in_progress and mark_completed around the call in execute()).
THEOREM WriteAhead == Spec => [](RunsAreCounted /\ CompletedWasExecuted)
<1>1. IInv => RunsAreCounted /\ CompletedWasExecuted
  BY DEF IInv, CountsMatchExec, RunsAreCounted
<1> QED
  BY <1>1, Invariance, PTL

\* What a caller was told stays true of the journal, whatever crashes follow
\* (execute() returns only after the row is written).
THEOREM AnswersHold == Spec => []AnswersAreJournaled
<1>1. IInv => AnswersAreJournaled
  BY DEF IInv
<1> QED
  BY <1>1, Invariance, PTL

\* An intent goes back to PENDING only with an attempt left under max_attempts, and
\* passes the limit only by attempts that were cut short (the exhausted test in
\* execute()).
THEOREM RetriesAreLimited == Spec => []LimitHolds
<1>1. IInv => LimitHolds
  BY DEF IInv
<1> QED
  BY <1>1, Invariance, PTL

\* An unfinished intent of an operation decorated before start() has had its attempt
\* when the runtime is up, also one found in_progress after a power loss
\* (replay_pending).
THEOREM RecoveryCompletes == Spec => []RecoveryIsComplete
<1>1. IInv => RecoveryIsComplete
  BY DEF IInv, ReplayIsComplete, ReplayMatchesRow, RecoveryIsComplete
<1> QED
  BY <1>1, Invariance, PTL

-----------------------------------------------------------------------------
\* Properties of steps.

FinalStep ==
  \A i \in Intents :
    status[i] \in Finished \cup {"pruned"} =>
      /\ runs'[i] = runs[i]
      /\ status'[i] # status[i] => status[i] = "completed" /\ status'[i] = "pruned"

\* A body is entered, and a status rewritten, only for an unfinished row.
LEMMA FinalStepHolds == IInv /\ [Next]_vars => FinalStep
<1> SUFFICES ASSUME IInv, [Next]_vars PROVE FinalStep
  OBVIOUS
<1> USE DEF IInv, TypeOK, ExecMatchesRow, FinalStep, disk, ghost
<1> USE DEF Underway, Unfinished, Finished, Statuses
<1>1. CASE Boot
  BY <1>1 DEF Boot
<1>2. CASE LoadPending
  BY <1>2 DEF LoadPending
<1>3. CASE BootDone
  BY <1>3 DEF BootDone
<1>4. CASE BootFails
  BY <1>4 DEF BootFails
<1>5. CASE CancelStart
  BY <1>5 DEF CancelStart
<1>6. CASE Close
  BY <1>6 DEF Close
<1>7. CASE Exit
  BY <1>7 DEF Exit, ProcessEnds
<1>8. CASE Crash
  BY <1>8 DEF Crash, ProcessEnds
<1>9. CASE \E op \in Operations : Register(op)
  BY <1>9 DEF Register
<1>10. ASSUME NEW i \in Intents, ReplayNext(i) PROVE FinalStep
  BY <1>10 DEF ReplayNext
<1>11. ASSUME NEW i \in Intents, Record(i) PROVE FinalStep
  BY <1>11 DEF Record
<1>12. ASSUME NEW r \in Runners, NEW i \in Intents, MarkInProgress(r, i) PROVE FinalStep
  BY <1>12 DEF MarkInProgress
<1>13. ASSUME NEW r \in Runners, NEW i \in Intents, EnterBody(r, i) PROVE FinalStep
  BY <1>13 DEF EnterBody
<1>14. ASSUME NEW r \in Runners, NEW i \in Intents, BodyReturns(r, i) PROVE FinalStep
  BY <1>14 DEF BodyReturns
<1>15. ASSUME NEW r \in Runners, NEW i \in Intents, BodyRaises(r, i) PROVE FinalStep
  BY <1>15 DEF BodyRaises
<1>16. ASSUME NEW r \in Runners, NEW i \in Intents, MarkCompleted(r, i) PROVE FinalStep
  BY <1>16 DEF MarkCompleted
<1>17. ASSUME NEW r \in Runners, NEW i \in Intents, MarkRaised(r, i) PROVE FinalStep
  BY <1>17 DEF MarkRaised
<1>18. ASSUME NEW r \in Runners, NEW i \in Intents, Return(r, i) PROVE FinalStep
  BY <1>18 DEF Return
<1>19. ASSUME NEW r \in Runners, NEW i \in Intents, Abandon(r, i) PROVE FinalStep
  BY <1>19 DEF Abandon
<1>20. ASSUME NEW S \in SUBSET Intents, Prune(S) PROVE FinalStep
  BY <1>20 DEF Prune, Prunable
<1>21. CASE UNCHANGED vars
  BY <1>21 DEF vars
<1> QED
  BY <1>1, <1>2, <1>3, <1>4, <1>5, <1>6, <1>7, <1>8, <1>9, <1>10, <1>11,
     <1>12, <1>13, <1>14, <1>15, <1>16, <1>17, <1>18, <1>19, <1>20, <1>21 DEF Next, Execute

\* "It will never be replayed again": a finished intent is final, across every
\* restart and replay (mark_completed, mark_failed, pending).
THEOREM FinishedStaysFinal == Spec => FinishedIsFinal
<1>1. IInv /\ [Next]_vars => [FinalStep]_vars
  BY FinalStepHolds
<1> QED
  BY <1>1, Invariance, PTL DEF Spec, FinishedIsFinal, FinalStep

OnceStep == \A i \in Intents : Begins(i) => i \notin tried

\* Only a new call and the replay loop begin an execution; the first is of an
\* intent that has no row yet, the second of one read before any call was
\* allowed.
LEMMA OnceStepHolds == IInv /\ [Next]_vars => OnceStep
<1> SUFFICES ASSUME IInv, [Next]_vars PROVE OnceStep
  OBVIOUS
<1> USE DEF IInv, TypeOK, ReplayMatchesRow, OnceStep, Begins, disk, ghost
<1> USE DEF Runners, Settled
<1>1. CASE Boot
  BY <1>1 DEF Boot
<1>2. CASE LoadPending
  BY <1>2 DEF LoadPending
<1>3. CASE BootDone
  BY <1>3 DEF BootDone
<1>4. CASE BootFails
  BY <1>4 DEF BootFails
<1>5. CASE CancelStart
  BY <1>5 DEF CancelStart
<1>6. CASE Close
  BY <1>6 DEF Close
<1>7. CASE Exit
  BY <1>7 DEF Exit, ProcessEnds
<1>8. CASE Crash
  BY <1>8 DEF Crash, ProcessEnds
<1>9. CASE \E op \in Operations : Register(op)
  BY <1>9 DEF Register
<1>10. ASSUME NEW i \in Intents, ReplayNext(i) PROVE OnceStep
  BY <1>10 DEF ReplayNext, NextInOrder, Goto
<1>11. ASSUME NEW i \in Intents, Record(i) PROVE OnceStep
  BY <1>11 DEF Record, Goto
<1>12. ASSUME NEW r \in Runners, NEW i \in Intents, MarkInProgress(r, i) PROVE OnceStep
  BY <1>12 DEF MarkInProgress, Goto
<1>13. ASSUME NEW r \in Runners, NEW i \in Intents, EnterBody(r, i) PROVE OnceStep
  BY <1>13 DEF EnterBody, Goto
<1>14. ASSUME NEW r \in Runners, NEW i \in Intents, BodyReturns(r, i) PROVE OnceStep
  BY <1>14 DEF BodyReturns, Goto
<1>15. ASSUME NEW r \in Runners, NEW i \in Intents, BodyRaises(r, i) PROVE OnceStep
  BY <1>15 DEF BodyRaises, Goto
<1>16. ASSUME NEW r \in Runners, NEW i \in Intents, MarkCompleted(r, i) PROVE OnceStep
  BY <1>16 DEF MarkCompleted, Goto
<1>17. ASSUME NEW r \in Runners, NEW i \in Intents, MarkRaised(r, i) PROVE OnceStep
  BY <1>17 DEF MarkRaised, Goto
<1>18. ASSUME NEW r \in Runners, NEW i \in Intents, Return(r, i) PROVE OnceStep
  BY <1>18 DEF Return, Goto
<1>19. ASSUME NEW r \in Runners, NEW i \in Intents, Abandon(r, i) PROVE OnceStep
  BY <1>19 DEF Abandon, Goto
<1>20. ASSUME NEW S \in SUBSET Intents, Prune(S) PROVE OnceStep
  BY <1>20 DEF Prune
<1>21. CASE UNCHANGED vars
  BY <1>21 DEF vars
<1> QED
  BY <1>1, <1>2, <1>3, <1>4, <1>5, <1>6, <1>7, <1>8, <1>9, <1>10, <1>11,
     <1>12, <1>13, <1>14, <1>15, <1>16, <1>17, <1>18, <1>19, <1>20, <1>21 DEF Next, Execute

\* "once per restart": within one process no intent is executed twice, so a
\* live call and a replay never overlap (is_started in wrapper(), and
\* replay_pending inside start()).
THEOREM OncePerProcess == Spec => OncePerRestart
<1>1. IInv /\ [Next]_vars => [OnceStep]_vars
  BY OnceStepHolds
<1> QED
  BY <1>1, Invariance, PTL DEF Spec, OncePerRestart, OnceStep

OrderStep ==
  \A i \in Intents :
    Begins(i) /\ phase = "replaying" =>
      \A j \in older[i] : status[j] \in Unfinished /\ OpOf[j] \in Declared => j \in tried

\* While start() replays, only its loop begins an execution, and of an intent before
\* which none is left to replay.
LEMMA OrderStepHolds == IInv /\ [Next]_vars => OrderStep
<1> SUFFICES ASSUME IInv, [Next]_vars PROVE OrderStep
  OBVIOUS
<1> USE DEF IInv, TypeOK, ReplayMatchesRow, ReplayIsComplete, ExecMatchesPhase, OrderStep, Begins, disk, ghost
<1> USE DEF Runners, Settled
<1>1. CASE Boot
  BY <1>1 DEF Boot
<1>2. CASE LoadPending
  BY <1>2 DEF LoadPending
<1>3. CASE BootDone
  BY <1>3 DEF BootDone
<1>4. CASE BootFails
  BY <1>4 DEF BootFails
<1>5. CASE CancelStart
  BY <1>5 DEF CancelStart
<1>6. CASE Close
  BY <1>6 DEF Close
<1>7. CASE Exit
  BY <1>7 DEF Exit, ProcessEnds
<1>8. CASE Crash
  BY <1>8 DEF Crash, ProcessEnds
<1>9. CASE \E op \in Operations : Register(op)
  BY <1>9 DEF Register
<1>10. ASSUME NEW i \in Intents, ReplayNext(i) PROVE OrderStep
  BY <1>10 DEF ReplayNext, NextInOrder, Goto
<1>11. ASSUME NEW i \in Intents, Record(i) PROVE OrderStep
  BY <1>11 DEF Record, CallAllowed, IsStarted, Goto
<1>12. ASSUME NEW r \in Runners, NEW i \in Intents, MarkInProgress(r, i) PROVE OrderStep
  BY <1>12 DEF MarkInProgress, Goto
<1>13. ASSUME NEW r \in Runners, NEW i \in Intents, EnterBody(r, i) PROVE OrderStep
  BY <1>13 DEF EnterBody, Goto
<1>14. ASSUME NEW r \in Runners, NEW i \in Intents, BodyReturns(r, i) PROVE OrderStep
  BY <1>14 DEF BodyReturns, Goto
<1>15. ASSUME NEW r \in Runners, NEW i \in Intents, BodyRaises(r, i) PROVE OrderStep
  BY <1>15 DEF BodyRaises, Goto
<1>16. ASSUME NEW r \in Runners, NEW i \in Intents, MarkCompleted(r, i) PROVE OrderStep
  BY <1>16 DEF MarkCompleted, Goto
<1>17. ASSUME NEW r \in Runners, NEW i \in Intents, MarkRaised(r, i) PROVE OrderStep
  BY <1>17 DEF MarkRaised, Goto
<1>18. ASSUME NEW r \in Runners, NEW i \in Intents, Return(r, i) PROVE OrderStep
  BY <1>18 DEF Return, Goto
<1>19. ASSUME NEW r \in Runners, NEW i \in Intents, Abandon(r, i) PROVE OrderStep
  BY <1>19 DEF Abandon, Goto
<1>20. ASSUME NEW S \in SUBSET Intents, Prune(S) PROVE OrderStep
  BY <1>20 DEF Prune
<1>21. CASE UNCHANGED vars
  BY <1>21 DEF vars
<1> QED
  BY <1>1, <1>2, <1>3, <1>4, <1>5, <1>6, <1>7, <1>8, <1>9, <1>10, <1>11,
     <1>12, <1>13, <1>14, <1>15, <1>16, <1>17, <1>18, <1>19, <1>20, <1>21 DEF Next, Execute

\* Intents are replayed in the order they were requested (load_intents_by_status,
\* replay_pending).
THEOREM OldestFirst == Spec => ReplayOldestFirst
<1>1. IInv /\ [Next]_vars => [OrderStep]_vars
  BY OrderStepHolds
<1> QED
  BY <1>1, Invariance, PTL DEF Spec, ReplayOldestFirst, OrderStep

-----------------------------------------------------------------------------
\* DurableOps implements AtLeastOnce.

\* The abstract outcome of every intent.
Outcomes == [i \in Intents |-> OutcomeOf[status[i]]]

\* Rewriting one row changes the outcome of that intent and of no other.
LEMMA RowUpdate ==
  ASSUME NEW i \in Intents, NEW s \in Statuses,
         status \in [Intents -> Statuses],
         status' = [status EXCEPT ![i] = s]
  PROVE  Outcomes' = [Outcomes EXCEPT ![i] = OutcomeOf[s]] /\ Outcomes[i] = OutcomeOf[status[i]]
  BY DEF Outcomes

LEMMA InitRefines == Init => Promise!AInit
  BY DEF Init, Promise!AInit, OutcomeOf

\* Inserting a row is Request, a body that returns is Perform, the completed row
\* is Confirm, the failed row GiveUp; everything else changes no outcome.
LEMMA StepRefines == IInv /\ [Next]_vars => [Promise!ANext]_(Promise!avars)
<1> SUFFICES ASSUME IInv, [Next]_vars PROVE [Promise!ANext]_(Promise!avars)
  OBVIOUS
<1> USE DEF IInv, TypeOK, ExecMatchesRow, disk, ghost, Promise!ANext, Promise!avars
<1> USE DEF OutcomeOf, Underway, Unfinished, Finished, Statuses
<1>1. CASE Boot
  BY <1>1 DEF Boot
<1>2. CASE LoadPending
  BY <1>2 DEF LoadPending
<1>3. CASE BootDone
  BY <1>3 DEF BootDone
<1>4. CASE BootFails
  BY <1>4 DEF BootFails
<1>5. CASE CancelStart
  BY <1>5 DEF CancelStart
<1>6. CASE Close
  BY <1>6 DEF Close
<1>7. CASE Exit
  BY <1>7 DEF Exit, ProcessEnds
<1>8. CASE Crash
  BY <1>8 DEF Crash, ProcessEnds
<1>9. CASE \E op \in Operations : Register(op)
  BY <1>9 DEF Register
<1>10. ASSUME NEW i \in Intents, ReplayNext(i) PROVE [Promise!ANext]_(Promise!avars)
  BY <1>10 DEF ReplayNext
<1>11. ASSUME NEW i \in Intents, Record(i) PROVE [Promise!ANext]_(Promise!avars)
  <2>1. status' = [status EXCEPT ![i] = "pending"] /\ status[i] = "unrequested" /\ executed' = executed
    BY <1>11 DEF Record
  <2>2. Outcomes[i] = "unrequested" /\ Outcomes' = [Outcomes EXCEPT ![i] = "owed"]
    <3>1. OutcomeOf["pending"] = "owed" /\ OutcomeOf[status[i]] = "unrequested"
      BY <2>1
    <3> HIDE DEF OutcomeOf
    <3>2. "pending" \in Statuses /\ status \in [Intents -> Statuses]
      OBVIOUS
    <3>3. Outcomes' = [Outcomes EXCEPT ![i] = OutcomeOf["pending"]] /\ Outcomes[i] = OutcomeOf[status[i]]
      BY <2>1, <3>2, RowUpdate
    <3> QED
      BY <3>1, <3>3
  <2>3. Promise!Request(i)
    <3> HIDE DEF OutcomeOf
    <3> QED
      BY <2>1, <2>2 DEF Promise!Request, Outcomes
  <2> QED
    BY <2>3
<1>12. ASSUME NEW r \in Runners, NEW i \in Intents, MarkInProgress(r, i) PROVE [Promise!ANext]_(Promise!avars)
  BY <1>12 DEF MarkInProgress
<1>13. ASSUME NEW r \in Runners, NEW i \in Intents, EnterBody(r, i) PROVE [Promise!ANext]_(Promise!avars)
  BY <1>13 DEF EnterBody
<1>14. ASSUME NEW r \in Runners, NEW i \in Intents, BodyReturns(r, i) PROVE [Promise!ANext]_(Promise!avars)
  <2>1. status[i] = "in_progress" /\ status' = status /\ executed' = executed \cup {i}
    BY <1>14 DEF BodyReturns
  <2>2. Promise!Perform(i)
    BY <2>1 DEF Promise!Perform
  <2> QED
    BY <2>2
<1>15. ASSUME NEW r \in Runners, NEW i \in Intents, BodyRaises(r, i) PROVE [Promise!ANext]_(Promise!avars)
  BY <1>15 DEF BodyRaises
<1>16. ASSUME NEW r \in Runners, NEW i \in Intents, MarkCompleted(r, i) PROVE [Promise!ANext]_(Promise!avars)
  <2>1. /\ status[i] = "in_progress" /\ i \in executed
        /\ status' = [status EXCEPT ![i] = "completed"] /\ executed' = executed
    BY <1>16 DEF MarkCompleted, ReturnedWasExecuted, ghost
  <2>2. Outcomes[i] = "owed" /\ Outcomes' = [Outcomes EXCEPT ![i] = "done"]
    <3>1. OutcomeOf["completed"] = "done" /\ OutcomeOf[status[i]] = "owed"
      BY <2>1
    <3> HIDE DEF OutcomeOf
    <3>2. "completed" \in Statuses /\ status \in [Intents -> Statuses]
      OBVIOUS
    <3>3. Outcomes' = [Outcomes EXCEPT ![i] = OutcomeOf["completed"]] /\ Outcomes[i] = OutcomeOf[status[i]]
      BY <2>1, <3>2, RowUpdate
    <3> QED
      BY <3>1, <3>3
  <2>3. Promise!Confirm(i)
    <3> HIDE DEF OutcomeOf
    <3> QED
      BY <2>1, <2>2 DEF Promise!Confirm, Outcomes
  <2> QED
    BY <2>3
<1>17. ASSUME NEW r \in Runners, NEW i \in Intents, MarkRaised(r, i) PROVE [Promise!ANext]_(Promise!avars)
  <2>1. status[i] = "in_progress" /\ executed' = executed
    BY <1>17 DEF MarkRaised
  <2>2. CASE status' = [status EXCEPT ![i] = "failed"]
    <3>1. OutcomeOf["failed"] = "given_up" /\ OutcomeOf[status[i]] = "owed"
      BY <2>1
    <3> HIDE DEF OutcomeOf
    <3>2. "failed" \in Statuses /\ status \in [Intents -> Statuses]
      OBVIOUS
    <3>3. Outcomes' = [Outcomes EXCEPT ![i] = OutcomeOf["failed"]] /\ Outcomes[i] = OutcomeOf[status[i]]
      BY <2>2, <3>2, RowUpdate
    <3>4. Outcomes[i] = "owed" /\ Outcomes' = [Outcomes EXCEPT ![i] = "given_up"]
      BY <3>1, <3>3
    <3>5. Promise!GiveUp(i)
      BY <2>1, <3>4 DEF Promise!GiveUp, Outcomes
    <3> QED
      BY <3>5
  <2>3. CASE status' = [status EXCEPT ![i] = "pending"]
    BY <2>1, <2>3
  <2> QED
    BY <1>17, <2>2, <2>3 DEF MarkRaised
<1>18. ASSUME NEW r \in Runners, NEW i \in Intents, Return(r, i) PROVE [Promise!ANext]_(Promise!avars)
  BY <1>18 DEF Return
<1>19. ASSUME NEW r \in Runners, NEW i \in Intents, Abandon(r, i) PROVE [Promise!ANext]_(Promise!avars)
  BY <1>19 DEF Abandon
<1>20. ASSUME NEW S \in SUBSET Intents, Prune(S) PROVE [Promise!ANext]_(Promise!avars)
  BY <1>20 DEF Prune, Prunable
<1>21. CASE UNCHANGED vars
  BY <1>21 DEF vars
<1> QED
  BY <1>1, <1>2, <1>3, <1>4, <1>5, <1>6, <1>7, <1>8, <1>9, <1>10, <1>11,
     <1>12, <1>13, <1>14, <1>15, <1>16, <1>17, <1>18, <1>19, <1>20, <1>21 DEF Next, Execute

\* The journal keeps the promise of guard.durable(): an operation stays owed
\* until it is confirmed after a run or given up, across crashes and replays
\* (build_durable_decorator and replay_pending).
THEOREM KeepsThePromise == Spec => AtLeastOnceSpec
  BY InitRefines, StepRefines, Invariance, PTL DEF Spec, AtLeastOnceSpec, Promise!ASpec
====
