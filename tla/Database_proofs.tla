---- MODULE Database_proofs ----
(***************************************************************************)
(* Proofs about Database, for any number of tasks and connections, any     *)
(* number of migrations and of faults.                                     *)
(*                                                                         *)
(* The invariant has four layers: the tasks and the lock (ControlInv), the *)
(* handles and what is pending in them (SqliteInv, RecordedInv), and, for  *)
(* as long as no block and no committing call was cancelled under way, who *)
(* owns a transaction and what a migration has done (PromiseInv).          *)
(***************************************************************************)
EXTENDS Database, FiniteSetTheorems, TLAPS

InBlock == {"body1", "body2", "commit", "rollback"}

JobsOf(c) ==
  {"none"} \cup
  (IF c \in Writers THEN {"write"}
   ELSE IF c \in Blocks THEN {"begin"} \cup InBlock
   ELSE IF c \in Pruners THEN {"prune"}
   ELSE IF c \in Openers THEN Migration
   ELSE {"close"})

\* A connection that somebody holds was opened by a call that is past that point.
Known(h) == h # None => pc[h] \notin {"idle", "opening"}

\* The tasks: who holds the lock, what each has at work, and where it stands then.
ControlInv ==
  /\ conn \in Handles \cup {None}
  /\ lock = {} \/ \E c \in Callers : lock = {c}
  /\ pc \in [Callers -> {"idle", "waiting", "opening", "running", "ended"}]
  /\ job \in [Callers -> Jobs]
  /\ held \in [Callers -> Handles \cup {None}]
  /\ todo \in [Callers -> SUBSET Versions]
  /\ opened \subseteq Handles
  /\ Known(conn)
  /\ \A h \in opened : Known(h)
  /\ \A c \in Callers :
       /\ job[c] \in JobsOf(c)
       /\ Known(held[c])
       /\ c \in lock => pc[c] = "running" /\ job[c] \notin {"none", "close"}
       /\ pc[c] = "running" => c \in lock \/ job[c] = "close"
       /\ pc[c] \in {"idle", "waiting", "opening"} => job[c] = "none"
       /\ pc[c] = "opening" => c \in Openers
       /\ pc[c] = "waiting" => c \notin Closers

-----------------------------------------------------------------------------
LEMMA ControlInit == Init => ControlInv
  BY DatabaseAssumption DEF Init, ControlInv, Jobs, JobsOf, Known

\* What a statement does to its caller: it ends, or goes on with another one of
\* its kind.
Moves(c) ==
  /\ job[c] # "none"
  /\ opened' \subseteq opened
  /\ \/ \E normally \in BOOLEAN : End(c, normally)
     \/ \E next \in JobsOf(c) \ {"none", "close"}, left \in SUBSET Versions : GoOn(c, next, left)

LEMMA StatementMoves ==
  ASSUME ControlInv, NEW c \in Callers, Statement(c) \/ Fail(c)
  PROVE  Moves(c)
<1> USE DatabaseAssumption DEF ControlInv
<1>1. CASE Write(c) \/ Commit(c) \/ RollBack(c) \/ Prune(c) \/ FinishMigration(c) \/ Closed(c)
  BY <1>1 DEF Write, Commit, RollBack, Prune, FinishMigration, Closed, Runs, Put, CommitWith,
     Rollback, Moves
<1>2. CASE Begin(c) \/ Body(c, 1) \/ Body(c, 2)
  <2>1. c \in Blocks
    BY <1>2 DEF Begin, Body, Runs, JobsOf, InBlock, Migration
  <2>2. {} \in SUBSET Versions
    OBVIOUS
  <2> QED
    BY <1>2, <2>1, <2>2 DEF Begin, Body, Runs, Put, Moves, JobsOf, InBlock, Migration, Callers
<1>3. CASE ReadVersions(c) \/ RunScript(c) \/ RecordVersion(c)
  <2>1. c \in Openers
    BY <1>3 DEF ReadVersions, RunScript, RecordVersion, Runs, JobsOf, InBlock, Migration
  <2>2. \A next \in {"script", "record", "finish"} : next \in JobsOf(c) \ {"none", "close"}
    BY <2>1 DEF JobsOf, Migration
  <2> DEFINE found == {v \in Versions : Version(v) \notin Sees(held[c])}
             left == todo[c] \ {Oldest(todo[c])}
  <2>3. found \in SUBSET Versions /\ todo[c] \in SUBSET Versions /\ left \in SUBSET Versions
    OBVIOUS
  <2>4. job[c] # "none" /\ opened' \subseteq opened
    BY <1>3 DEF ReadVersions, RunScript, RecordVersion, Runs, Put, CommitWith, sqlite
  <2>5. \/ NextMigration(c, found) \/ NextMigration(c, left) \/ GoOn(c, "record", todo[c])
    BY <1>3 DEF ReadVersions, RunScript, RecordVersion
  <2> HIDE DEF found, left, ControlInv
  <2>6. ASSUME NEW s \in SUBSET Versions, NextMigration(c, s)
        PROVE  \E next \in JobsOf(c) \ {"none", "close"}, l \in SUBSET Versions : GoOn(c, next, l)
    BY <2>2, <2>6 DEF NextMigration
  <2> QED
    BY <2>2, <2>3, <2>4, <2>5, <2>6 DEF Moves
<1>4. ASSUME Raise(c), job[c] # "none" PROVE Moves(c)
  <2>1. CASE job[c] \in {"body1", "body2"} /\ pc[c] = "running"
    <3>1. c \in Blocks
      BY <2>1 DEF JobsOf, InBlock, Migration
    <3>2. {} \in SUBSET Versions
      OBVIOUS
    <3> QED
      BY <1>4, <2>1, <3>1, <3>2 DEF Raise, sqlite, Moves, JobsOf, InBlock, Callers
  <2>2. CASE ~(job[c] \in {"body1", "body2"} /\ pc[c] = "running")
    BY <1>4, <2>2 DEF Raise, sqlite, Moves
  <2> QED
    BY <2>1, <2>2
<1> QED
  BY <1>1, <1>2, <1>3, <1>4 DEF Statement, Fail, Refuse, MayRaise

LEMMA MovesInv ==
  ASSUME ControlInv, NEW c \in Callers, Moves(c)
  PROVE  ControlInv'
<1> USE DatabaseAssumption DEF ControlInv
<1>1. ASSUME NEW normally \in BOOLEAN, End(c, normally) PROVE ControlInv'
  <2>1. "none" \in Jobs /\ None \in Handles \cup {None} /\ {} \in SUBSET Versions /\ "none" \in JobsOf(c)
    BY DEF Jobs, JobsOf
  <2> QED
    BY <1>1, <2>1 DEF End, Moves, Known, Handles, Callers
<1>2. ASSUME NEW next \in JobsOf(c) \ {"none", "close"}, NEW left \in SUBSET Versions,
             GoOn(c, next, left)
      PROVE  ControlInv'
  <2>1. next \in Jobs
    BY DEF Jobs, JobsOf, InBlock
  <2>2. CASE pc[c] = "running" \/ next \in Migration
    <3>1. c \notin Closers
      BY DEF JobsOf, Callers
    <3>2. pc[c] \in {"running", "ended"}
      BY DEF Moves
    <3>3. UNCHANGED <<conn, lock, pc, held>> /\ opened' \subseteq opened
          /\ job' = [job EXCEPT ![c] = next] /\ todo' = [todo EXCEPT ![c] = left]
      BY <1>2, <2>2 DEF GoOn, Moves
    <3>4. job' \in [Callers -> Jobs] /\ todo' \in [Callers -> SUBSET Versions]
      BY <2>1, <3>3
    <3>5. ASSUME NEW d \in Callers
          PROVE  /\ job'[d] \in JobsOf(d)
                 /\ d \in lock => job'[d] \notin {"none", "close"}
                 /\ pc[d] = "running" => d \in lock \/ job'[d] = "close"
                 /\ pc[d] \in {"idle", "waiting", "opening"} => job'[d] = "none"
      <4>1. CASE d = c
        BY <3>1, <3>2, <3>3, <4>1 DEF JobsOf, Callers, Migration, InBlock
      <4>2. CASE d # c
        BY <3>3, <4>2
      <4> QED
        BY <4>1, <4>2
    <3> QED
      BY <3>3, <3>4, <3>5 DEF Known
  <2>3. CASE ~(pc[c] = "running" \/ next \in Migration)
    BY <1>1, <1>2, <2>3 DEF GoOn
  <2> QED
    BY <2>2, <2>3
<1> QED
  BY <1>1, <1>2 DEF Moves

LEMMA ControlNext == ControlInv /\ [Next]_vars => ControlInv'
<1> SUFFICES ASSUME ControlInv, [Next]_vars PROVE ControlInv'
  OBVIOUS
<1> USE DatabaseAssumption DEF ControlInv
<1>1. ASSUME NEW c \in Callers, Statement(c) \/ Fail(c) PROVE ControlInv'
  BY <1>1, StatementMoves, MovesInv
<1>2. ASSUME NEW c \in Callers, Call(c) PROVE ControlInv'
  BY <1>2 DEF Call, sqlite, Known, Handles, Callers
<1>3. ASSUME NEW c \in Callers, Acquire(c) PROVE ControlInv'
  <2> DEFINE first == FirstJob(c)
  <2>1. first \in Jobs /\ first \in JobsOf(c) \ {"none", "close"}
    BY <1>3 DEF Acquire, FirstJob, Jobs, JobsOf, Migration, Callers
  <2>2. UNCHANGED <<conn, held, todo, opened>> /\ lock = {} /\ lock' = {c}
        /\ pc' = [pc EXCEPT ![c] = "running"] /\ job' = [job EXCEPT ![c] = first]
    BY <1>3 DEF Acquire, sqlite
  <2>3. pc[c] = "waiting"
    BY <1>3 DEF Acquire
  <2> HIDE DEF first
  <2>4. job' \in [Callers -> Jobs]
    BY <2>1, <2>2
  <2>5. ASSUME NEW d \in Callers
        PROVE  /\ job'[d] \in JobsOf(d)
               /\ Known(held[d])'
               /\ d \in lock' => pc'[d] = "running" /\ job'[d] \notin {"none", "close"}
               /\ pc'[d] = "running" => d \in lock' \/ job'[d] = "close"
               /\ pc'[d] \in {"idle", "waiting", "opening"} => job'[d] = "none"
               /\ pc'[d] = "opening" => d \in Openers
               /\ pc'[d] = "waiting" => d \notin Closers
    BY <2>1, <2>2, <2>3 DEF Known, Handles, Callers
  <2> QED
    BY <2>2, <2>3, <2>4, <2>5 DEF Known, Handles, Callers
<1>4. ASSUME NEW c \in Callers, Connect(c) PROVE ControlInv'
  BY <1>4 DEF Connect, sqlite, Known, Handles, Callers
<1>5. ASSUME NEW c \in Callers, Opened(c) PROVE ControlInv'
  BY <1>5 DEF Opened, Known, Handles, Callers
<1>6. ASSUME NEW c \in Callers, OpenFails(c) PROVE ControlInv'
  BY <1>6 DEF OpenFails, sqlite, Known, Handles, Callers
<1>7. ASSUME NEW c \in Callers, Close(c) PROVE ControlInv'
  BY <1>7 DEF Close, sqlite, Known, Handles, Callers, Jobs, JobsOf
<1>8. ASSUME NEW c \in Callers, Cancel(c) PROVE ControlInv'
  BY <1>8 DEF Cancel, sqlite, Known, Handles, Callers, Jobs, JobsOf
<1>9. CASE Crash
  BY <1>9 DEF Crash, Known, Handles, Callers, Jobs, JobsOf
<1>10. CASE UNCHANGED vars
  BY <1>10 DEF vars, sqlite, Known
<1> HIDE DEF ControlInv
<1> QED
  BY <1>1, <1>2, <1>3, <1>4, <1>5, <1>6, <1>7, <1>8, <1>9, <1>10 DEF Next

LEMMA ControlInvariance == Spec => []ControlInv
  BY ControlInit, ControlNext, PTL DEF Spec

\* Every path that takes the lock leaves it, and only a call that has a thread at
\* work holds it (the async with self._lock of execute, transaction, migrate).
THEOREM LockIsWorked == Spec => []LockHasWorker
<1>1. ControlInv => LockHasWorker
  <2> SUFFICES ASSUME ControlInv PROVE LockHasWorker
    OBVIOUS
  <2>1. Cardinality(lock) <= 1
    <3>1. CASE lock = {}
      BY <3>1, FS_EmptySet
    <3>2. ASSUME NEW c \in Callers, lock = {c} PROVE Cardinality(lock) <= 1
      <4>1. Cardinality({c}) = 1
        BY FS_Singleton, Zenon
      <4> QED
        BY <3>2, <4>1
    <3> QED
      BY <3>1, <3>2 DEF ControlInv
  <2>2. lock \subseteq Callers
    BY DEF ControlInv
  <2> QED
    BY <2>1, <2>2 DEF ControlInv, LockHasWorker
<1> QED
  BY ControlInvariance, <1>1, PTL

-----------------------------------------------------------------------------
\* What is written where: rows are pending in open transactions of open handles.
SqliteInv ==
  /\ pending = [h \in Handles |-> pending[h]]
  /\ inTxn \subseteq opened
  /\ \A h \in Handles \ inTxn : pending[h] = {}

\* A version is recorded, on disk or in a transaction, only after its tables are
\* on disk: executescript() commits before the next statement.
RecordedInv ==
  /\ \A v \in Versions :
       /\ Version(v) \in disk => Table(v) \in disk
       /\ \A h \in Handles : Version(v) \in pending[h] => Table(v) \in disk
  /\ \A c \in Callers : job[c] = "record" => Table(Oldest(todo[c])) \in disk

\* What a statement may do to the store through one handle.
Effect(h, rows) ==
  \/ Put(h, rows) \/ CommitWith(h, rows) \/ Rollback(h)
  \/ inTxn' = inTxn \cup {h} /\ UNCHANGED <<opened, pending, disk>>
  \/ /\ opened' = opened \ {h} /\ inTxn' = inTxn \ {h}
     /\ pending' = [pending EXCEPT ![h] = {}] /\ UNCHANGED disk
  \/ UNCHANGED sqlite

\* The rows a statement of a caller writes.
Written(c) ==
  CASE job[c] = "write" -> RowsOf(c)
    [] job[c] = "body1" -> {Row(c, 1)}
    [] job[c] = "body2" -> {Row(c, 2)}
    [] job[c] = "script" -> {Table(Oldest(todo[c]))}
    [] job[c] = "record" -> {Version(Oldest(todo[c]))}
    [] OTHER -> {}

LEMMA StatementEffect ==
  ASSUME NEW c \in Callers, Statement(c) \/ Fail(c)
  PROVE  /\ Effect(held[c], Written(c))
         /\ held[c] \in opened \/ UNCHANGED sqlite \/ job[c] = "close"
<1>1. CASE Write(c) \/ Commit(c) \/ RollBack(c) \/ Prune(c) \/ FinishMigration(c)
  BY <1>1 DEF Write, Commit, RollBack, Prune, FinishMigration, Runs, Refused, Effect, Written
<1>2. CASE Begin(c) \/ Body(c, 1) \/ Body(c, 2)
  BY <1>2 DEF Begin, Body, Runs, Refused, Effect, Written
<1>3. CASE ReadVersions(c) \/ RunScript(c) \/ RecordVersion(c)
  BY <1>3 DEF ReadVersions, RunScript, RecordVersion, Runs, Refused, Effect, Written
<1>4. CASE Closed(c)
  BY <1>4 DEF Closed, Effect
<1>5. CASE Refuse(c) \/ Fail(c)
  BY <1>5 DEF Refuse, Fail, Raise, Effect
<1> QED
  BY <1>1, <1>2, <1>3, <1>4, <1>5 DEF Statement

LEMMA EffectInv ==
  ASSUME SqliteInv, opened \subseteq Handles, NEW h \in opened, NEW rows, Effect(h, rows)
  PROVE  /\ SqliteInv'
         /\ disk \subseteq disk'
         /\ disk' \subseteq disk \cup pending[h] \cup rows
         /\ \A g \in Handles : pending'[g] \subseteq pending[g] \cup rows
  BY DEF SqliteInv, Effect, Put, CommitWith, Rollback, sqlite

StoreInv == ControlInv /\ SqliteInv /\ RecordedInv

LEMMA StoreInit == Init => StoreInv
  BY ControlInit DEF Init, StoreInv, SqliteInv, RecordedInv

\* Steps that touch no row.
LEMMA StillInv ==
  ASSUME StoreInv, ControlInv', UNCHANGED <<pending, disk, inTxn>>, opened \subseteq opened',
         \A c \in Callers : job'[c] = "record" => job[c] = "record" /\ todo'[c] = todo[c]
  PROVE  StoreInv'
  BY DEF StoreInv, SqliteInv, RecordedInv

LEMMA StatementStores ==
  ASSUME StoreInv, ControlInv', NEW c \in Callers, Statement(c) \/ Fail(c)
  PROVE  StoreInv'
<1> USE DEF StoreInv
<1> DEFINE h == held[c]
<1>1. \/ h \in opened
      \/ UNCHANGED sqlite
      \/ h \in Handles \cup {None} /\ Closed(c)
  BY StatementEffect DEF ControlInv, Statement, Fail, MayRaise, Refuse, Write, Begin, Body, Commit,
     RollBack, Prune, ReadVersions, RunScript, RecordVersion, FinishMigration, Runs
<1>2. /\ SqliteInv' /\ disk \subseteq disk'
      /\ \A v \in Versions : Version(v) \in disk' =>
           Version(v) \in disk \/ (\E g \in Handles : Version(v) \in pending[g]) \/ Version(v) \in Written(c)
      /\ \A g \in Handles, v \in Versions : Version(v) \in pending'[g] =>
           Version(v) \in pending[g] \/ Version(v) \in Written(c)
  <2>1. CASE h \in opened
    <3>1. opened \subseteq Handles
      BY DEF ControlInv
    <3> QED
      BY <2>1, <3>1, StatementEffect, EffectInv
  <2>2. CASE UNCHANGED sqlite
    BY <2>2 DEF sqlite, SqliteInv
  <2>3. CASE Closed(c)
    BY <2>3 DEF Closed, SqliteInv, ControlInv
  <2> QED
    BY <1>1, <2>1, <2>2, <2>3
<1>3. \A v \in Versions : Version(v) \in Written(c) => Table(v) \in disk
  BY DEF Written, RowsOf, Row, Table, Version, RecordedInv
<1>4. \A d \in Callers : job'[d] = "record" => Table(Oldest(todo'[d])) \in disk'
  <2>1. CASE RunScript(c)
    BY <1>2, <2>1 DEF RunScript, GoOn, CommitWith, RecordedInv, Runs, ControlInv, Migration
  <2>2. ASSUME ~RunScript(c), NEW d \in Callers, job'[d] = "record"
        PROVE  job[d] = "record" /\ todo'[d] = todo[d]
    BY <2>2 DEF Statement, Fail, MayRaise, Refuse, Raise, Write, Begin, Body, Commit, Closed,
       RollBack, Prune, ReadVersions, RecordVersion, FinishMigration, NextMigration, GoOn, End, ControlInv
  <2> QED
    BY <1>2, <2>1, <2>2 DEF RecordedInv
<1>5. RecordedInv'
  BY <1>2, <1>3, <1>4 DEF RecordedInv
<1> QED
  BY <1>2, <1>5

LEMMA StoreNext == StoreInv /\ [Next]_vars => StoreInv'
<1> SUFFICES ASSUME StoreInv, [Next]_vars PROVE StoreInv'
  OBVIOUS
<1>1. ControlInv'
  BY ControlNext DEF StoreInv
<1>2. ASSUME NEW c \in Callers, Statement(c) \/ Fail(c) PROVE StoreInv'
  BY <1>1, <1>2, StatementStores
<1>3. CASE Crash
  BY <1>1, <1>3 DEF Crash, StoreInv, SqliteInv, RecordedInv
<1>4. CASE UNCHANGED vars \/ \E c \in Callers : \/ Call(c) \/ Acquire(c) \/ Cancel(c)
                                            \/ Connect(c) \/ Opened(c) \/ OpenFails(c) \/ Close(c)
  <2>1. UNCHANGED <<pending, disk, inTxn>> /\ opened \subseteq opened'
    BY <1>4 DEF vars, sqlite, Call, Acquire, Cancel, Connect, Opened, OpenFails, Close
  <2>2. ASSUME NEW d \in Callers, job'[d] = "record" PROVE job[d] = "record" /\ todo'[d] = todo[d]
    BY <1>4, <2>2 DEF vars, Call, Acquire, Cancel, Connect, Opened, OpenFails, Close, FirstJob,
       StoreInv, ControlInv
  <2> QED
    BY <1>1, <2>1, <2>2, StillInv
<1> QED
  BY <1>2, <1>3, <1>4 DEF Next

LEMMA StoreInvariance == Spec => []StoreInv
  BY StoreInit, StoreNext, PTL DEF Spec

-----------------------------------------------------------------------------
\* What holds until a block or a committing call is cancelled under way. Only single
\* rows and close() run on after their task; a transaction belongs to the block that
\* holds the lock, which has written what its statements before wrote; a migration
\* has recorded on disk whatever it has not before it.
RunsOn(c) == job[c] \in {"none", "write", "close"}

TasksInv == \A c \in Callers : pc[c] # "running" => RunsOn(c)

BlocksInv ==
  /\ \A h \in inTxn : \E b \in lock : b \in Blocks /\ job[b] \in InBlock /\ held[b] = h
  /\ \A b \in Blocks :
       /\ job[b] \in InBlock /\ held[b] \in opened => held[b] \in inTxn
       /\ held[b] \in inTxn /\ job[b] \in {"body2", "commit"} => Row(b, 1) \in pending[held[b]]
       /\ held[b] \in inTxn /\ job[b] = "commit" => Row(b, 2) \in pending[held[b]]
       /\ \A h \in Handles, n \in {1, 2} : Row(b, n) \in pending[h] => b \in lock

SchemaInv ==
  /\ \A c \in Openers :
       /\ job[c] \in {"script", "record", "finish"} =>
            \A v \in Versions \ todo[c] : Version(v) \in disk
       /\ job[c] = "finish" => todo[c] = {}
  /\ returned \cap Openers # {} => \A v \in Versions : Version(v) \in disk

PromiseInv == ~void => TasksInv /\ BlocksInv /\ SchemaInv

LEMMA PromiseInit == Init => PromiseInv
  BY DEF Init, PromiseInv, TasksInv, RunsOn, BlocksInv, SchemaInv, InBlock, Callers

\* A statement other than these has the lock, and the only transaction is its own.
LEMMA Exclusion ==
  ASSUME StoreInv, TasksInv, BlocksInv, NEW c \in Callers, ~RunsOn(c)
  PROVE  /\ pc[c] = "running" /\ lock = {c}
         /\ \A d \in Callers : d # c => RunsOn(d)
         /\ \A h \in inTxn : c \in Blocks /\ job[c] \in InBlock /\ held[c] = h
<1>1. pc[c] = "running" /\ lock = {c}
  BY DEF StoreInv, ControlInv, TasksInv, RunsOn
<1>2. ASSUME NEW d \in Callers, d # c PROVE RunsOn(d)
  BY <1>1, <1>2 DEF StoreInv, ControlInv, TasksInv, RunsOn
<1> QED
  BY <1>1, <1>2 DEF BlocksInv

\* Rows tell their callers.
LEMMA RowsDiffer == \A b, c, m, n : Row(b, m) = Row(c, n) => b = c
  BY DEF Row

\* A block's statements.
LEMMA BlockKeepsPromise ==
  ASSUME StoreInv, StoreInv', TasksInv, BlocksInv, SchemaInv, NEW c \in Blocks,
         Begin(c) \/ Body(c, 1) \/ Body(c, 2) \/ Commit(c) \/ RollBack(c)
         \/ ((MayRaise(c) \/ Refused(c)) /\ job[c] # "none" /\ Raise(c))
  PROVE  TasksInv' /\ BlocksInv' /\ SchemaInv'
<1> USE DatabaseAssumption
<1> DEFINE h == held[c]
<1>1. c \in Callers /\ c \notin Openers
  BY DEF Callers
<1>2. job[c] \in {"begin"} \cup InBlock /\ ~RunsOn(c)
  BY <1>1 DEF StoreInv, ControlInv, JobsOf, RunsOn, InBlock, Begin, Body, Commit, RollBack, Runs
<1>3. /\ pc[c] = "running" /\ lock = {c}
      /\ \A d \in Callers : d # c => RunsOn(d)
      /\ \A g \in inTxn : job[c] \in InBlock /\ held[c] = g
  BY <1>1, <1>2, Exclusion
<1>4. /\ \A d \in Callers : d # c => pc'[d] = pc[d] /\ job'[d] = job[d] /\ todo'[d] = todo[d]
      /\ disk \subseteq disk' /\ returned' \subseteq returned \cup {c}
      /\ pc'[c] \in {"running", "ended"}
      /\ pc'[c] = "ended" => job'[c] = "none"
  BY <1>1, <1>3 DEF Begin, Body, Commit, RollBack, Raise, GoOn, End, Runs, StoreInv, ControlInv,
     sqlite, Put, CommitWith, Rollback, ghost
<1>5. TasksInv'
  BY <1>1, <1>4 DEF TasksInv, RunsOn
<1>6. SchemaInv'
  BY <1>1, <1>4 DEF SchemaInv, Callers
<1>7. CASE pc'[c] = "ended"
  <2>1. inTxn' = {}
    <3>1. CASE Commit(c) \/ RollBack(c)
      BY <1>3, <3>1 DEF Commit, RollBack, CommitWith, Rollback
    <3>2. CASE Begin(c) \/ Body(c, 1) \/ Body(c, 2)
      BY <1>3, <1>7, <3>2 DEF Begin, Body, GoOn
    <3>3. CASE (MayRaise(c) \/ Refused(c)) /\ job[c] # "none" /\ Raise(c)
      <4>1. inTxn' = inTxn /\ job[c] \notin {"body1", "body2"}
        BY <1>1, <1>3, <1>7, <3>3 DEF Raise, GoOn, sqlite, StoreInv, ControlInv
      <4>2. job[c] \in InBlock => h \notin opened
        BY <3>3, <4>1 DEF MayRaise, Refused, InBlock, Writing
      <4> QED
        BY <1>3, <4>1, <4>2 DEF StoreInv, SqliteInv
    <3> QED
      BY <3>1, <3>2, <3>3
  <2>2. \A b \in Callers : job'[b] \notin InBlock
    BY <1>3, <1>4, <1>7 DEF RunsOn, InBlock
  <2>3. \A g \in Handles : pending'[g] = {}
    BY <2>1 DEF StoreInv, SqliteInv
  <2>4. BlocksInv'
    BY <2>1, <2>2, <2>3 DEF BlocksInv, Callers
  <2> QED
    BY <1>5, <1>6, <2>4
<1>8. CASE pc'[c] = "running"
  <2>1. /\ lock' = {c} /\ held' = held /\ job'[c] \in InBlock
        /\ opened' = opened
    BY <1>1, <1>3, <1>4, <1>8 DEF Begin, Body, Commit, RollBack, Raise, GoOn, End, Runs,
       StoreInv, ControlInv, InBlock, sqlite, Put, CommitWith, Rollback
  <2>2. ASSUME h \in opened
        PROVE  /\ inTxn' = {h}
               /\ job'[c] \in {"body2", "commit"} => Row(c, 1) \in pending'[h]
               /\ job'[c] = "commit" => Row(c, 2) \in pending'[h]
    <3>1. CASE Begin(c)
      BY <1>1, <1>3, <3>1 DEF Begin, Runs, GoOn, InBlock, StoreInv, ControlInv
    <3>2. CASE Body(c, 1) \/ Body(c, 2)
      <4>1. h \in inTxn /\ inTxn = {h} /\ h \in Handles
        BY <1>3, <2>2, <3>2 DEF Body, Runs, BlocksInv, InBlock, StoreInv, ControlInv
      <4>2. CASE Body(c, 1)
        BY <1>1, <1>3, <4>1, <4>2 DEF Body, Runs, GoOn, Put, StoreInv, ControlInv, SqliteInv
      <4>3. CASE Body(c, 2)
        BY <1>1, <1>3, <4>1, <4>3 DEF Body, Runs, GoOn, Put, StoreInv, ControlInv, SqliteInv, BlocksInv
      <4> QED
        BY <3>2, <4>2, <4>3
    <3>3. CASE Raise(c)
      <4>1. job[c] \in {"body1", "body2"} /\ job'[c] = "rollback" /\ inTxn' = inTxn
        BY <1>1, <1>3, <1>8, <3>3 DEF Raise, GoOn, End, sqlite, StoreInv, ControlInv
      <4> QED
        BY <1>3, <2>2, <4>1 DEF BlocksInv, InBlock
    <3>4. CASE Commit(c) \/ RollBack(c)
      BY <1>1, <1>8, <3>4 DEF Commit, RollBack, End, StoreInv, ControlInv
    <3> QED
      BY <3>1, <3>2, <3>3, <3>4
  <2>3. \A g \in inTxn' : g = h
    BY <1>1, <1>3, <1>8 DEF Begin, Body, Commit, RollBack, Raise, sqlite, Put, CommitWith, Rollback
  <2>4. \A b \in Blocks, g \in Handles, n \in {1, 2} : Row(b, n) \in pending'[g] => b = c
    <3>1. \A g \in Handles : pending'[g] \subseteq pending[g] \cup {Row(c, 1), Row(c, 2)}
      <4>1. CASE Begin(c) \/ Raise(c)
        BY <4>1 DEF Begin, Raise, sqlite
      <4>2. CASE Body(c, 1) \/ Body(c, 2)
        BY <4>2 DEF Body, Put, StoreInv, SqliteInv
      <4>3. CASE Commit(c) \/ RollBack(c)
        BY <4>3 DEF Commit, RollBack, CommitWith, Rollback, StoreInv, SqliteInv
      <4> QED
        BY <4>1, <4>2, <4>3
    <3>2. ASSUME NEW b \in Blocks, NEW g \in Handles, NEW n \in {1, 2}, Row(b, n) \in pending'[g]
          PROVE  b = c
      <4>1. Row(b, n) \in pending[g] \/ Row(b, n) = Row(c, 1) \/ Row(b, n) = Row(c, 2)
        BY <3>1, <3>2
      <4> QED
        BY <1>3, <4>1, RowsDiffer DEF BlocksInv
    <3> QED
      BY <3>2
  <2>5. \A b \in Blocks : b # c => job'[b] \notin InBlock /\ job'[b] \notin {"body2", "commit"}
    BY <1>3, <1>4 DEF RunsOn, InBlock, Callers
  <2>6. ASSUME NEW g \in inTxn' PROVE c \in lock' /\ c \in Blocks /\ job'[c] \in InBlock /\ held'[c] = g
    BY <2>1, <2>3
  <2>7. h \in inTxn' => h \in opened
    BY <2>1 DEF StoreInv, SqliteInv
  <2>8. BlocksInv'
    BY <2>1, <2>2, <2>4, <2>5, <2>6, <2>7 DEF BlocksInv
  <2> QED
    BY <1>5, <1>6, <2>8
<1> QED
  BY <1>4, <1>7, <1>8

\* A single row: of a task that has the lock, or of one that was cancelled.
LEMMA WriterKeepsPromise ==
  ASSUME StoreInv, StoreInv', TasksInv, BlocksInv, SchemaInv, NEW c \in Writers,
         Write(c) \/ (job[c] # "none" /\ Raise(c))
  PROVE  TasksInv' /\ BlocksInv' /\ SchemaInv'
<1> USE DatabaseAssumption
<1>1. c \in Callers /\ c \notin Openers \cup Blocks /\ job[c] \in {"none", "write"}
  BY DEF Callers, StoreInv, ControlInv, JobsOf
<1>2. /\ \A d \in Callers : d # c => pc'[d] = pc[d] /\ job'[d] = job[d] /\ todo'[d] = todo[d]
                                  /\ held'[d] = held[d]
      /\ disk \subseteq disk' /\ returned' \subseteq returned \cup {c}
      /\ job'[c] = "none" /\ lock' = lock \ {c}
      /\ inTxn' = inTxn /\ opened' = opened
      /\ \A g \in Handles : pending[g] \subseteq pending'[g] /\ pending'[g] \subseteq pending[g] \cup RowsOf(c)
  <2>1. End(c, TRUE) \/ End(c, FALSE)
    BY <1>1 DEF Write, Raise
  <2>2. disk \subseteq disk' /\ inTxn' = inTxn /\ opened' = opened
    BY DEF Write, Raise, Put, sqlite
  <2>3. \A g \in Handles : pending[g] \subseteq pending'[g] /\ pending'[g] \subseteq pending[g] \cup RowsOf(c)
    <3>1. CASE Write(c)
      BY <3>1 DEF Write, Put, StoreInv, SqliteInv
    <3>2. CASE Raise(c)
      BY <3>2 DEF Raise, sqlite
    <3> QED
      BY <3>1, <3>2
  <2> QED
    BY <1>1, <2>1, <2>2, <2>3 DEF End, StoreInv, ControlInv
<1>3. TasksInv' /\ SchemaInv'
  BY <1>1, <1>2 DEF TasksInv, RunsOn, SchemaInv, Callers
<1>4. \A b \in Blocks, g \in Handles, n \in {1, 2} : Row(b, n) \in pending'[g] => b \in lock'
  <2> SUFFICES ASSUME NEW b \in Blocks, NEW g \in Handles, NEW n \in {1, 2}, Row(b, n) \in pending'[g]
               PROVE  b \in lock'
    OBVIOUS
  <2>1. b # c
    BY <1>1
  <2>2. Row(b, n) \in pending[g]
    <3>1. Row(b, n) # Row(c, 1)
      BY <2>1, RowsDiffer
    <3> QED
      BY <1>1, <1>2, <3>1 DEF RowsOf
  <2> QED
    BY <1>2, <2>1, <2>2 DEF BlocksInv
<1>5. \A b \in Blocks : held[b] \in inTxn => held[b] \in Handles
  BY DEF StoreInv, SqliteInv, ControlInv
<1>6. ASSUME NEW h \in inTxn' PROVE \E b \in lock' : b \in Blocks /\ job'[b] \in InBlock /\ held'[b] = h
  <2>1. PICK b \in lock : b \in Blocks /\ job[b] \in InBlock /\ held[b] = h
    BY <1>2, <1>6 DEF BlocksInv
  <2>2. b # c /\ b \in Callers
    BY <1>1, <2>1 DEF Callers
  <2> QED
    BY <1>2, <2>1, <2>2
<1>7. ASSUME NEW b \in Blocks
      PROVE  job'[b] = job[b] /\ held'[b] = held[b]
  BY <1>1, <1>2 DEF Callers
<1>8. BlocksInv'
  BY <1>2, <1>4, <1>5, <1>6, <1>7 DEF BlocksInv
<1> QED
  BY <1>3, <1>8

\* Pruning and migrating: no transaction is open.
LEMMA OwnerKeepsPromise ==
  ASSUME StoreInv, StoreInv', TasksInv, BlocksInv, SchemaInv, NEW c \in Pruners \cup Openers,
         \/ Prune(c) \/ ReadVersions(c) \/ RunScript(c) \/ RecordVersion(c) \/ FinishMigration(c)
         \/ job[c] # "none" /\ Raise(c)
  PROVE  TasksInv' /\ BlocksInv' /\ SchemaInv'
<1> USE DatabaseAssumption
<1>1. c \in Callers /\ c \notin Blocks /\ job[c] \in {"prune"} \cup Migration
  BY DEF Callers, StoreInv, ControlInv, JobsOf, Migration, Prune, ReadVersions, RunScript,
     RecordVersion, FinishMigration, Runs
<1>2. /\ pc[c] = "running" /\ lock = {c} /\ inTxn = {}
      /\ \A d \in Callers : d # c => RunsOn(d)
  BY <1>1, Exclusion DEF RunsOn, Migration
<1>3. /\ \A d \in Callers : d # c => pc'[d] = pc[d] /\ job'[d] = job[d] /\ todo'[d] = todo[d]
      /\ disk \subseteq disk' /\ returned' \subseteq returned \cup {c}
      /\ inTxn' = {}
      /\ pc'[c] \in {"running", "ended"} /\ job'[c] \in {"none"} \cup Migration
      /\ pc'[c] = "ended" => job'[c] = "none"
  <2>1. \/ End(c, TRUE) \/ End(c, FALSE)
        \/ \E next \in Migration : \E left : GoOn(c, next, left)
    BY <1>1 DEF Prune, ReadVersions, RunScript, RecordVersion, FinishMigration, NextMigration,
       Raise, Migration
  <2>2. disk \subseteq disk' /\ inTxn' = {}
    BY <1>2 DEF Prune, ReadVersions, RunScript, RecordVersion, FinishMigration, Raise, Put,
       CommitWith, sqlite
  <2> QED
    BY <1>1, <1>2, <2>1, <2>2 DEF GoOn, End, StoreInv, ControlInv, ghost, Migration
<1>4. TasksInv'
  BY <1>3 DEF TasksInv, RunsOn
<1>5. BlocksInv'
  <2>1. \A b \in Blocks : job'[b] \notin InBlock
    BY <1>1, <1>2, <1>3 DEF RunsOn, InBlock, Callers
  <2>2. \A g \in Handles : pending'[g] = {}
    BY <1>3 DEF StoreInv, SqliteInv
  <2> QED
    BY <1>3, <2>1, <2>2 DEF BlocksInv
<1>6. SchemaInv'
  <2> USE DEF SchemaInv
  <2>1. \A d \in Openers : d # c => job'[d] = job[d] /\ todo'[d] = todo[d]
    BY <1>3 DEF Callers
  <2>2. CASE c \in Pruners
    BY <1>3, <2>1, <2>2
  <2>3. CASE job[c] # "none" /\ Raise(c)
    <3>1. End(c, FALSE)
      BY <1>1, <2>3 DEF Raise, Migration
    <3>2. job'[c] = "none" /\ returned' = returned
      BY <1>1, <3>1 DEF End, StoreInv, ControlInv
    <3> QED
      BY <1>3, <2>1, <3>2
  <2>4. CASE ReadVersions(c)
    <3>1. held[c] \in Handles /\ Sees(held[c]) = disk
      BY <1>2, <2>4 DEF ReadVersions, Runs, Refused, Sees, StoreInv, ControlInv, SqliteInv
    <3> DEFINE found == {v \in Versions : Version(v) \notin disk}
    <3>2. NextMigration(c, found)
      BY <2>4, <3>1 DEF ReadVersions
    <3>3. /\ todo'[c] = found /\ job'[c] = (IF found = {} THEN "finish" ELSE "script")
          /\ returned' = returned
      BY <1>1, <1>2, <3>2 DEF NextMigration, GoOn, StoreInv, ControlInv, ghost
    <3> QED
      BY <1>3, <2>1, <3>3
  <2>5. CASE RunScript(c)
    <3>1. job[c] = "script" /\ todo'[c] = todo[c] /\ job'[c] = "record" /\ returned' = returned
      BY <1>1, <1>2, <2>5 DEF RunScript, Runs, GoOn, StoreInv, ControlInv, ghost
    <3> QED
      BY <1>1, <1>3, <2>1, <3>1 DEF StoreInv, ControlInv, JobsOf
  <2>6. CASE RecordVersion(c)
    <3> DEFINE o == Oldest(todo[c])
               left == todo[c] \ {o}
    <3>1. disk' = disk \cup {Version(o)} /\ job[c] = "record" /\ NextMigration(c, left)
      BY <1>2, <2>6 DEF RecordVersion, Runs, Put
    <3>2. /\ todo'[c] = left /\ job'[c] = (IF left = {} THEN "finish" ELSE "script")
          /\ returned' = returned
      BY <1>1, <1>2, <3>1 DEF NextMigration, GoOn, StoreInv, ControlInv, ghost
    <3>3. \A v \in Versions \ left : Version(v) \in disk'
      <4>1. c \in Openers
        BY <1>1, <3>1 DEF StoreInv, ControlInv, JobsOf
      <4> QED
        BY <3>1, <4>1
    <3> HIDE DEF left, o
    <3> QED
      BY <1>3, <2>1, <3>2, <3>3
  <2>7. CASE FinishMigration(c)
    <3>1. job[c] = "finish" /\ job'[c] = "none"
      BY <1>1, <2>7 DEF FinishMigration, Runs, End, StoreInv, ControlInv
    <3>2. c \in Openers
      BY <1>1, <3>1 DEF StoreInv, ControlInv, JobsOf
    <3>3. \A v \in Versions : Version(v) \in disk'
      BY <1>3, <3>1, <3>2
    <3> QED
      BY <1>3, <2>1, <3>1, <3>3
  <2>8. CASE Prune(c)
    <3>1. c \in Pruners
      BY <1>1, <2>8 DEF Prune, Runs, StoreInv, ControlInv, JobsOf, Migration
    <3> QED
      BY <2>2, <3>1
  <2> QED
    BY <2>2, <2>3, <2>4, <2>5, <2>6, <2>7, <2>8
<1> QED
  BY <1>4, <1>5, <1>6

LEMMA StatementKeepsPromise ==
  ASSUME StoreInv, StoreInv', TasksInv, BlocksInv, SchemaInv, NEW c \in Callers, Statement(c) \/ Fail(c)
  PROVE  TasksInv' /\ BlocksInv' /\ SchemaInv'
<1> USE DatabaseAssumption
<1>1. job[c] \in JobsOf(c)
  BY DEF StoreInv, ControlInv
<1>2. CASE Closed(c)
  <2> DEFINE h == held[c]
  <2>1. c \in Closers /\ c \notin lock
    BY <1>1, <1>2 DEF Closed, JobsOf, InBlock, Migration, Callers, StoreInv, ControlInv
  <2>2. /\ \A d \in Callers : d # c => job'[d] = job[d] /\ pc'[d] = pc[d] /\ held'[d] = held[d]
        /\ job'[c] = "none" /\ lock' = lock /\ returned' = returned /\ disk' = disk
        /\ todo' = [todo EXCEPT ![c] = {}]
        /\ opened' = opened \ {h} /\ inTxn' = inTxn \ {h}
        /\ \A g \in Handles : pending'[g] = IF g = h THEN {} ELSE pending[g]
    BY <1>2, <2>1 DEF Closed, End, StoreInv, ControlInv, SqliteInv
  <2>3. TasksInv' /\ SchemaInv'
    BY <2>1, <2>2 DEF TasksInv, RunsOn, SchemaInv, Callers, StoreInv, ControlInv
  <2>4. \A b \in Blocks : held'[b] = held[b] /\ job'[b] = job[b]
    BY <2>1, <2>2 DEF Callers
  <2>5. inTxn \subseteq Handles
    BY DEF StoreInv, ControlInv, SqliteInv
  <2>6. BlocksInv'
    BY <2>2, <2>4, <2>5 DEF BlocksInv
  <2> QED
    BY <2>3, <2>6
<1>3. CASE c \in Blocks /\ ~Closed(c)
  <2>1. job[c] \in {"none", "begin"} \cup InBlock
    BY <1>1, <1>3 DEF JobsOf
  <2>2. \/ Begin(c) \/ Body(c, 1) \/ Body(c, 2) \/ Commit(c) \/ RollBack(c)
        \/ (MayRaise(c) \/ Refused(c)) /\ job[c] # "none" /\ Raise(c)
    BY <1>3, <2>1 DEF InBlock, Statement, Fail, Refuse, MayRaise, Write, Prune, ReadVersions,
       RunScript, RecordVersion, FinishMigration, Runs
  <2> QED
    BY <1>3, <2>2, BlockKeepsPromise
<1>4. CASE c \in Writers /\ ~Closed(c)
  <2>1. job[c] \in {"none", "write"}
    BY <1>1, <1>4 DEF JobsOf
  <2>2. Write(c) \/ (job[c] # "none" /\ Raise(c))
    BY <1>4, <2>1 DEF Statement, Fail, Refuse, MayRaise, Begin, Body, Commit, RollBack, Prune,
       ReadVersions, RunScript, RecordVersion, FinishMigration, Runs
  <2> QED
    BY <1>4, <2>2, WriterKeepsPromise
<1>5. CASE c \in Pruners \cup Openers /\ ~Closed(c)
  BY <1>1, <1>5, OwnerKeepsPromise DEF JobsOf, Migration, Statement, Fail, Refuse, MayRaise, Begin,
     Body, Commit, RollBack, Write, Runs
<1>6. CASE c \in Closers /\ ~Closed(c)
  BY <1>1, <1>6 DEF JobsOf, Statement, Fail, Refuse, MayRaise, Begin,
     Body, Commit, RollBack, Write, Prune, ReadVersions, RunScript, RecordVersion, FinishMigration, Runs
<1> QED
  BY <1>2, <1>3, <1>4, <1>5, <1>6 DEF Callers

LEMMA CancelKeepsPromise ==
  ASSUME StoreInv, StoreInv', TasksInv, BlocksInv, SchemaInv, NEW c \in Callers, Cancel(c), ~void'
  PROVE  TasksInv' /\ BlocksInv' /\ SchemaInv'
<1> USE DatabaseAssumption
<1>1. /\ \A d \in Callers : d # c => job'[d] = job[d] /\ pc'[d] = pc[d] /\ held'[d] = held[d] /\ todo'[d] = todo[d]
      /\ lock' = lock \ {c} /\ UNCHANGED <<sqlite, returned>>
      /\ job'[c] \in {job[c], "none"}
      /\ job'[c] = job[c] => todo'[c] = todo[c] \/ job'[c] = "none"
  <2>1. /\ \A d \in Callers : d # c => job'[d] = job[d] /\ pc'[d] = pc[d] /\ held'[d] = held[d]
        /\ lock' = lock \ {c} /\ UNCHANGED <<sqlite, returned>>
    BY DEF Cancel, StoreInv, ControlInv
  <2>2. \A d \in Callers : d # c => todo'[d] = todo[d]
    BY DEF Cancel, StoreInv, ControlInv
  <2>3. job'[c] \in {job[c], "none"} /\ (job'[c] = job[c] => todo'[c] = todo[c] \/ job'[c] = "none")
    BY DEF Cancel, StoreInv, ControlInv
  <2> QED
    BY <2>1, <2>2, <2>3
<1>2. job'[c] # "none" => c \in Writers \cup Closers /\ RunsOn(c)'
  <2> SUFFICES ASSUME job'[c] # "none" PROVE c \in Writers \cup Closers /\ RunsOn(c)'
    OBVIOUS
  <2>1. job'[c] = job[c] /\ job[c] \in JobsOf(c)
    BY <1>1 DEF StoreInv, ControlInv
  <2>2. job' # [job EXCEPT ![c] = "none"]
    BY DEF StoreInv, ControlInv
  <2>3. c \notin Blocks \cup Pruners \cup Openers
    BY <2>2 DEF Cancel
  <2>4. job[c] \in {"none", "write", "close"}
    BY <2>1, <2>3 DEF JobsOf
  <2> QED
    BY <2>1, <2>3, <2>4 DEF RunsOn, Callers
<1>3. TasksInv'
  BY <1>1, <1>2 DEF TasksInv, RunsOn
<1>4. SchemaInv'
  BY <1>1, <1>2 DEF SchemaInv, Callers, RunsOn, sqlite
<1>5. c \in Blocks => held[c] \notin inTxn \/ c \notin lock
  BY DEF Cancel, StoreInv, ControlInv
<1>6. c \in Blocks /\ c \in lock => inTxn = {}
  <2> SUFFICES ASSUME c \in Blocks, c \in lock, NEW h \in inTxn PROVE FALSE
    OBVIOUS
  <2>1. lock = {c}
    BY DEF StoreInv, ControlInv
  <2> QED
    BY <1>5, <2>1 DEF BlocksInv
<1>7. ASSUME NEW h \in inTxn' PROVE \E b \in lock' : b \in Blocks /\ job'[b] \in InBlock /\ held'[b] = h
  <2>1. PICK b \in lock : b \in Blocks /\ job[b] \in InBlock /\ held[b] = h
    BY <1>1, <1>7 DEF BlocksInv, sqlite
  <2>2. b # c
    BY <1>1, <1>6, <1>7, <2>1 DEF sqlite
  <2> QED
    BY <1>1, <2>1, <2>2 DEF Callers
<1>8. ASSUME NEW b \in Blocks
      PROVE  /\ job'[b] = "none" \/ (job'[b] = job[b] /\ held'[b] = held[b])
             /\ \A h \in Handles, n \in {1, 2} : Row(b, n) \in pending'[h] => b \in lock'
  <2>1. job'[b] = "none" \/ (job'[b] = job[b] /\ held'[b] = held[b])
    <3>1. CASE b = c
      BY <1>2, <3>1 DEF Callers
    <3>2. CASE b # c
      BY <1>1, <3>2 DEF Callers
    <3> QED
      BY <3>1, <3>2
  <2>2. ASSUME NEW h \in Handles, NEW n \in {1, 2}, Row(b, n) \in pending'[h] PROVE b \in lock'
    <3>1. b \in lock /\ h \in inTxn
      BY <1>1, <2>2 DEF BlocksInv, StoreInv, SqliteInv, sqlite
    <3>2. b # c
      BY <1>6, <3>1
    <3> QED
      BY <1>1, <3>1, <3>2
  <2> QED
    BY <2>1, <2>2
<1>9. BlocksInv'
  BY <1>1, <1>7, <1>8 DEF BlocksInv, InBlock, sqlite
<1> QED
  BY <1>3, <1>4, <1>9

\* A call on its way to its first statement.
LEMMA EntryKeepsPromise ==
  ASSUME StoreInv, TasksInv, BlocksInv, SchemaInv, NEW c \in Callers,
         UNCHANGED <<pending, disk, inTxn, returned>>, lock \subseteq lock',
         \A d \in Callers : d # c => /\ pc'[d] = pc[d] /\ job'[d] = job[d]
                                   /\ held'[d] = held[d] /\ todo'[d] = todo[d],
         job[c] = "none", job'[c] \in {"none", "write", "begin", "prune", "read", "close"},
         pc'[c] = "running" \/ RunsOn(c)',
         \A b \in Blocks : job[b] \in InBlock /\ held[b] \in opened' => held[b] \in opened
  PROVE  TasksInv' /\ BlocksInv' /\ SchemaInv'
<1>1. TasksInv'
  BY DEF TasksInv, RunsOn
<1>2. SchemaInv'
  BY DEF SchemaInv, Callers
<1>3. ASSUME NEW h \in inTxn' PROVE \E b \in lock' : b \in Blocks /\ job'[b] \in InBlock /\ held'[b] = h
  <2>1. PICK b \in lock : b \in Blocks /\ job[b] \in InBlock /\ held[b] = h
    BY <1>3 DEF BlocksInv
  <2>2. b # c /\ b \in Callers
    BY <2>1 DEF InBlock, Callers
  <2> QED
    BY <2>1, <2>2
<1>4. ASSUME NEW b \in Blocks
      PROVE  /\ job'[b] \in InBlock /\ held'[b] \in opened' => held'[b] \in inTxn'
             /\ held'[b] \in inTxn' /\ job'[b] \in {"body2", "commit"} => Row(b, 1) \in pending'[held'[b]]
             /\ held'[b] \in inTxn' /\ job'[b] = "commit" => Row(b, 2) \in pending'[held'[b]]
             /\ \A h \in Handles, n \in {1, 2} : Row(b, n) \in pending'[h] => b \in lock'
  <2>1. CASE b = c
    BY <2>1 DEF BlocksInv, InBlock
  <2>2. CASE b # c
    BY <2>2 DEF BlocksInv, InBlock, Callers
  <2> QED
    BY <2>1, <2>2
<1>5. BlocksInv'
  BY <1>3, <1>4 DEF BlocksInv
<1> QED
  BY <1>1, <1>2, <1>5

\* What a cancelled call made void stays void.
LEMMA VoidStays == [Next]_vars /\ void => void'
<1> SUFFICES ASSUME [Next]_vars, void PROVE void'
  OBVIOUS
<1>1. ASSUME NEW c \in Callers, Cancel(c) PROVE void'
  BY <1>1 DEF Cancel
<1>2. ASSUME NEW c \in Callers, Fail(c) PROVE void'
  BY <1>2 DEF Fail, Raise, GoOn, End, ghost
<1>3. ASSUME NEW c \in Callers, Statement(c) PROVE void'
  <2>1. ASSUME NEW next, NEW left, GoOn(c, next, left) PROVE void'
    BY <2>1 DEF GoOn, End, ghost
  <2>2. CASE Write(c) \/ Commit(c) \/ RollBack(c) \/ Prune(c) \/ FinishMigration(c) \/ Closed(c)
    BY <2>2 DEF Write, Commit, RollBack, Prune, FinishMigration, Closed, End
  <2>3. CASE Begin(c) \/ Body(c, 1) \/ Body(c, 2) \/ ReadVersions(c) \/ RunScript(c) \/ RecordVersion(c)
    BY <2>1, <2>3 DEF Begin, Body, ReadVersions, RunScript, RecordVersion, NextMigration
  <2>4. CASE Refuse(c)
    BY <2>1, <2>4 DEF Refuse, Raise, End
  <2> QED
    BY <1>3, <2>2, <2>3, <2>4 DEF Statement
<1>4. ASSUME NEW c \in Callers,
             Call(c) \/ Acquire(c) \/ Connect(c) \/ Opened(c) \/ OpenFails(c) \/ Close(c)
      PROVE  void'
  BY <1>4 DEF Call, Acquire, Connect, Opened, OpenFails, Close, ghost
<1>5. CASE Crash \/ UNCHANGED vars
  BY <1>5 DEF Crash, vars, ghost
<1> QED
  BY <1>1, <1>2, <1>3, <1>4, <1>5 DEF Next

LEMMA PromiseNext == StoreInv /\ StoreInv' /\ PromiseInv /\ [Next]_vars => PromiseInv'
<1> SUFFICES ASSUME StoreInv, StoreInv', PromiseInv, [Next]_vars, ~void'
             PROVE  TasksInv' /\ BlocksInv' /\ SchemaInv'
  BY DEF PromiseInv
<1> USE DatabaseAssumption
<1>1. ~void
  BY VoidStays
<1>2. TasksInv /\ BlocksInv /\ SchemaInv
  BY <1>1 DEF PromiseInv
<1>3. ASSUME NEW c \in Callers, Statement(c) \/ Fail(c) PROVE TasksInv' /\ BlocksInv' /\ SchemaInv'
  BY <1>2, <1>3, StatementKeepsPromise
<1>4. ASSUME NEW c \in Callers, Cancel(c) PROVE TasksInv' /\ BlocksInv' /\ SchemaInv'
  BY <1>2, <1>4, CancelKeepsPromise
<1>5. ASSUME NEW c \in Callers,
             Call(c) \/ Acquire(c) \/ Connect(c) \/ Opened(c) \/ OpenFails(c) \/ Close(c)
      PROVE  TasksInv' /\ BlocksInv' /\ SchemaInv'
  <2>1. /\ UNCHANGED <<pending, disk, inTxn, returned>> /\ lock \subseteq lock'
        /\ \A d \in Callers : d # c => /\ pc'[d] = pc[d] /\ job'[d] = job[d]
                                     /\ held'[d] = held[d] /\ todo'[d] = todo[d]
    BY <1>5 DEF Call, Acquire, Connect, Opened, OpenFails, Close, sqlite, ghost, StoreInv, ControlInv
  <2>2. job[c] = "none"
    BY <1>5 DEF Call, Acquire, Connect, Opened, OpenFails, Close, StoreInv, ControlInv
  <2>3. /\ job'[c] \in {"none", "write", "begin", "prune", "read", "close"}
        /\ pc'[c] = "running" \/ RunsOn(c)'
    BY <1>5, <2>2 DEF Call, Acquire, Connect, Opened, OpenFails, Close, FirstJob, RunsOn, StoreInv, ControlInv
  <2>4. ASSUME NEW b \in Blocks, job[b] \in InBlock, held[b] \in opened' PROVE held[b] \in opened
    <3>1. CASE Opened(c)
      <4>1. held[b] # c
        BY <3>1 DEF Opened, StoreInv, ControlInv, Known, Callers, Handles
      <4> QED
        BY <2>4, <3>1, <4>1 DEF Opened
    <3>2. CASE ~Opened(c)
      BY <1>5, <2>4, <3>2 DEF Call, Acquire, Connect, OpenFails, Close, sqlite
    <3> QED
      BY <3>1, <3>2
  <2> QED
    BY <1>2, <2>1, <2>2, <2>3, <2>4, EntryKeepsPromise
<1>6. CASE Crash
  <2>1. \A c \in Callers : job'[c] = "none"
    BY <1>6 DEF Crash
  <2>2. inTxn' = {} /\ disk' = disk /\ returned' = returned /\ \A h \in Handles : pending'[h] = {}
    BY <1>6 DEF Crash, ghost
  <2>3. TasksInv'
    BY <2>1 DEF TasksInv, RunsOn
  <2>4. BlocksInv'
    BY <2>1, <2>2 DEF BlocksInv, InBlock, Callers
  <2>5. SchemaInv'
    BY <1>2, <2>1, <2>2 DEF SchemaInv, Callers
  <2> QED
    BY <2>3, <2>4, <2>5
<1>7. CASE UNCHANGED vars
  BY <1>2, <1>7 DEF vars, sqlite, ghost, TasksInv, RunsOn, BlocksInv, SchemaInv
<1> QED
  BY <1>3, <1>4, <1>5, <1>6, <1>7 DEF Next

LEMMA PromiseInvariance == Spec => [](StoreInv /\ PromiseInv)
<1>1. Init => StoreInv /\ PromiseInv
  BY StoreInit, PromiseInit
<1>2. StoreInv /\ PromiseInv /\ [Next]_vars => (StoreInv /\ PromiseInv)'
  BY StoreNext, PromiseNext
<1> QED
  BY <1>1, <1>2, PTL DEF Spec

-----------------------------------------------------------------------------
\* The properties.

\* No version is recorded without its tables, and migrate() returns only when all
\* versions are recorded (migrations.py, database.py _migrate).
THEOREM SchemaTrue == Spec => []SchemaIsTrue
<1>1. StoreInv /\ PromiseInv => SchemaIsTrue
  BY DEF StoreInv, RecordedInv, PromiseInv, SchemaInv, SchemaIsTrue
<1> QED
  BY PromiseInvariance, <1>1, PTL

\* Faults and observations.
GhostInv ==
  /\ faults \in 0..MaxFaults
  /\ returned \subseteq Callers
  /\ void \in BOOLEAN

LEMMA GhostInvariance == Spec => []GhostInv
<1>1. Init => GhostInv
  <2>1. Init => faults \in 0..MaxFaults /\ returned \subseteq Callers
    BY DatabaseAssumption DEF Init
  <2>2. Init => void \in BOOLEAN
    BY Zenon DEF Init
  <2> QED
    BY <2>1, <2>2 DEF GhostInv
<1>2. GhostInv /\ [Next]_vars => GhostInv'
  <2> SUFFICES ASSUME GhostInv, [Next]_vars PROVE GhostInv'
    OBVIOUS
  <2>1. faults' \in 0..MaxFaults
    <3>1. faults' = faults \/ (faults < MaxFaults /\ faults' = faults + 1)
      BY DEF Next, vars, Call, Acquire, Statement, Fail, Cancel, Connect, Opened, OpenFails, Close, Crash
    <3> QED
      BY <3>1, DatabaseAssumption DEF GhostInv
  <2>2. ASSUME NEW c \in Callers, Statement(c) \/ Fail(c)
        PROVE  returned' \subseteq Callers /\ void' = void
    BY <2>2 DEF Statement, Fail, Write, Begin, Body, Commit, RollBack, Prune, ReadVersions, RunScript,
       RecordVersion, FinishMigration, NextMigration, Refuse, Raise, Closed, GoOn, End, ghost, GhostInv
  <2>3. ASSUME NEW c \in Callers, Cancel(c) PROVE returned' = returned /\ void' \in BOOLEAN
    <3>1. \/ void' = (void \/ (c \in Blocks /\ held[c] \in inTxn /\ pc[c] = "running"))
          \/ void' = (void \/ c \in Blocks \cup Pruners \cup Openers)
      BY <2>3, Zenon DEF Cancel
    <3>2. \A A, B : (A \/ B) \in BOOLEAN
      OBVIOUS
    <3>3. void' \in BOOLEAN
      BY <3>1, <3>2, Zenon
    <3> QED
      BY <2>3, <3>3 DEF Cancel
  <2>4. ASSUME \/ Crash \/ UNCHANGED vars
               \/ \E c \in Callers : \/ Call(c) \/ Acquire(c) \/ Connect(c)
                                   \/ Opened(c) \/ OpenFails(c) \/ Close(c)
        PROVE  UNCHANGED ghost
    BY <2>4 DEF Call, Acquire, Connect, Opened, OpenFails, Close, Crash, vars, ghost
  <2>5. returned' \subseteq Callers
    BY <2>2, <2>3, <2>4 DEF Next, GhostInv, ghost
  <2>6. void' = void \/ void' \in BOOLEAN
    <3>1. CASE \E c \in Callers : Cancel(c)
      BY <2>3, <3>1, Zenon
    <3>2. CASE \E c \in Callers : Statement(c) \/ Fail(c)
      BY <2>2, <3>2, Zenon
    <3>3. CASE UNCHANGED ghost
      BY <3>3, Zenon DEF ghost
    <3> QED
      BY <2>4, <3>1, <3>2, <3>3, Zenon DEF Next
  <2>7. void' \in BOOLEAN
    BY <2>6, void \in BOOLEAN, Zenon DEF GhostInv
  <2> QED
    BY <2>1, <2>5, <2>7 DEF GhostInv
<1> QED
  BY <1>1, <1>2, PTL DEF Spec

\* Type correctness; a transaction belongs to an open handle, and what is pending to
\* a transaction.
THEOREM TypeCorrect == Spec => []TypeOK
<1>1. StoreInv /\ GhostInv => TypeOK
  BY DEF StoreInv, ControlInv, SqliteInv, GhostInv, TypeOK
<1> QED
  BY StoreInvariance, GhostInvariance, <1>1, PTL

\* What is no row of a caller.
LEMMA NoRows == \A v : Table(v) \notin Rows /\ Version(v) \notin Rows
<1>1. \A r \in Rows : r[1] = "row"
  BY DEF Rows, RowsOf, Row
<1>2. \A v : Table(v)[1] # "row" /\ Version(v)[1] # "row"
  BY DEF Table, Version
<1> QED
  BY <1>1, <1>2

\* A commit stores whole calls: its own block, and rows of cancelled writers.
LEMMA CommitStores ==
  ASSUME StoreInv, TasksInv, BlocksInv, NEW c \in Callers, Commit(c)
  PROVE  \E some \in SUBSET (Writers \cup Blocks) : Store!StoreAndReturn(some, c) \/ void
<1> USE DatabaseAssumption
<1> DEFINE h == held[c]
           some == {d \in Writers \cup Blocks : RowsOf(d) \cap pending[h] # {}}
<1>1. c \in Blocks /\ job[c] = "commit" /\ h \in opened /\ ~RunsOn(c)
  BY DEF Commit, Runs, Refused, StoreInv, ControlInv, JobsOf, Migration, RunsOn
<1>2. pc[c] = "running" /\ lock = {c} /\ h \in inTxn /\ h \in Handles
  BY <1>1, Exclusion DEF BlocksInv, InBlock, StoreInv, ControlInv
<1>3. RowsOf(c) \subseteq pending[h]
  BY <1>1, <1>2 DEF BlocksInv, RowsOf
<1>4. ASSUME NEW d \in some PROVE RowsOf(d) \subseteq pending[h] \cap Rows
  <2>1. CASE d \in Writers
    BY <2>1 DEF RowsOf, Rows
  <2>2. CASE d \in Blocks
    <3>1. d \in lock
      BY <1>2, <2>2 DEF RowsOf, BlocksInv
    <3> QED
      BY <1>2, <1>3, <2>2, <3>1 DEF Rows
  <2> QED
    BY <2>1, <2>2
<1>5. pending[h] \cap Rows = UNION {RowsOf(d) : d \in some}
  <2>1. ASSUME NEW r \in pending[h] \cap Rows PROVE \E d \in some : r \in RowsOf(d)
    BY DEF Rows
  <2> QED
    BY <1>4, <2>1
<1>6. /\ disk' = disk \cup pending[h]
      /\ returned' = returned \cup {c} /\ void' = void
  BY <1>1, <1>2 DEF Commit, CommitWith, End
<1>7. RowsOf(c) \subseteq Rows
  BY <1>1 DEF Rows
<1>8. some \in SUBSET (Writers \cup Blocks)
  OBVIOUS
<1> HIDE DEF some, h
<1>9. /\ (disk \cap Rows)' = (disk \cap Rows) \cup UNION {RowsOf(d) : d \in some}
      /\ RowsOf(c) \subseteq (disk \cap Rows)'
      /\ (returned \cap (Writers \cup Blocks))' = (returned \cap (Writers \cup Blocks)) \cup {c}
  BY <1>1, <1>3, <1>5, <1>6, <1>7
<1> QED
  BY <1>6, <1>8, <1>9 DEF Store!StoreAndReturn

\* Any other statement but a single row stores no rows.
LEMMA OthersStoreNothing ==
  ASSUME StoreInv, TasksInv, BlocksInv, NEW c \in Callers, Statement(c) \/ Fail(c),
         ~Write(c), ~Commit(c)
  PROVE  UNCHANGED Store!svars
<1> USE DatabaseAssumption
<1>1. job[c] \in JobsOf(c)
  BY DEF StoreInv, ControlInv
<1>2. ASSUME Begin(c) \/ Refuse(c) \/ Fail(c) \/ RollBack(c) \/ Closed(c) \/ ReadVersions(c)
      PROVE  disk' = disk
  BY <1>2 DEF Begin, Refuse, Fail, Raise, RollBack, Rollback, Closed, ReadVersions, sqlite
<1>3. ASSUME NEW n \in {1, 2}, Body(c, n) PROVE disk' = disk
  <2>1. c \in Blocks /\ job[c] \in InBlock /\ held[c] \in opened
    BY <1>1, <1>3 DEF Body, Runs, Refused, JobsOf, InBlock, Migration
  <2> QED
    BY <1>3, <2>1 DEF Body, Put, BlocksInv
<1>4. ASSUME Prune(c) \/ RunScript(c) \/ RecordVersion(c) \/ FinishMigration(c)
      PROVE  (disk \cap Rows)' = disk \cap Rows
  <2>1. ~RunsOn(c) /\ job[c] \notin InBlock /\ held[c] \in opened
    BY <1>4 DEF Prune, RunScript, RecordVersion, FinishMigration, Runs, Refused, RunsOn, InBlock
  <2>2. pending[held[c]] = {}
    BY <2>1, Exclusion DEF StoreInv, ControlInv, SqliteInv
  <2> DEFINE o == Oldest(todo[c])
  <2>3. disk' \in {disk, disk \cup {Table(o)}, disk \cup {Version(o)}}
    BY <1>4, <2>2 DEF Prune, RunScript, RecordVersion, FinishMigration, CommitWith, Put
  <2> HIDE DEF o
  <2> QED
    BY <2>3, NoRows
<1>5. (disk \cap Rows)' = disk \cap Rows
  BY <1>2, <1>3, <1>4 DEF Statement
<1>6. void' = void /\ \A d \in Writers \cup Blocks : d \in returned' <=> d \in returned
  <2>1. \/ End(c, FALSE)
        \/ End(c, TRUE) /\ c \in Pruners \cup Closers \cup Openers
        \/ UNCHANGED ghost
    <3>1. CASE Begin(c) \/ Refuse(c) \/ Fail(c) \/ RollBack(c) \/ ReadVersions(c) \/ Body(c, 1) \/ Body(c, 2)
               \/ RunScript(c) \/ RecordVersion(c)
      BY <3>1 DEF Begin, Refuse, Fail, Raise, RollBack, ReadVersions, Body, RunScript, RecordVersion,
         NextMigration, GoOn
    <3>2. CASE Prune(c) \/ FinishMigration(c) \/ Closed(c)
      BY <1>1, <3>2 DEF Prune, FinishMigration, Closed, Runs, JobsOf, InBlock, Migration, Callers
    <3> QED
      BY <3>1, <3>2 DEF Statement
  <2> QED
    BY <2>1 DEF End, ghost
<1> QED
  BY <1>5, <1>6 DEF Store!svars

LEMMA StatementStep ==
  ASSUME StoreInv, TasksInv, BlocksInv, NEW c \in Callers, Statement(c) \/ Fail(c), ~void
  PROVE  Store!SNext \/ UNCHANGED Store!svars
<1> USE DatabaseAssumption
<1>1. CASE Write(c)
  <2>1. c \in Writers /\ c \notin Pruners \cup Closers
    BY <1>1 DEF Write, Runs, StoreInv, ControlInv, JobsOf, InBlock, Migration
  <2>2. RowsOf(c) \subseteq Rows
    BY <2>1 DEF Rows
  <2>3. CASE held[c] \in inTxn
    <3>1. c \notin lock
      BY <2>1, <2>3 DEF BlocksInv, StoreInv, ControlInv
    <3>2. pc[c] # "running"
      BY <1>1, <3>1 DEF StoreInv, ControlInv, Write, Runs
    <3>3. disk' = disk /\ returned' = returned /\ void' = void
      BY <1>1, <2>3, <3>2 DEF Write, Put, End
    <3> QED
      BY <3>3 DEF Store!svars
  <2>4. CASE held[c] \notin inTxn
    <3>1. disk' = disk \cup RowsOf(c) /\ returned' \in {returned, returned \cup {c}} /\ void' = void
      BY <1>1, <2>1, <2>4 DEF Write, Put, End
    <3>2. UNION {RowsOf(d) : d \in {c}} = RowsOf(c)
      OBVIOUS
    <3>3. CASE returned' = returned
      <4>1. Store!Store({c})
        BY <2>2, <3>1, <3>2, <3>3 DEF Store!Store
      <4> QED
        BY <2>1, <4>1 DEF Store!SNext
    <3>4. CASE returned' = returned \cup {c}
      <4>1. Store!StoreAndReturn({c}, c)
        BY <2>1, <2>2, <3>1, <3>2, <3>4 DEF Store!StoreAndReturn
      <4> QED
        BY <2>1, <4>1 DEF Store!SNext
    <3> QED
      BY <3>1, <3>3, <3>4
  <2> QED
    BY <2>3, <2>4
<1>2. CASE Commit(c)
  <2>1. c \in Blocks
    BY <1>2 DEF Commit, Runs, StoreInv, ControlInv, JobsOf, Migration
  <2> QED
    BY <1>2, <2>1, CommitStores DEF Store!SNext
<1>3. CASE ~Write(c) /\ ~Commit(c)
  BY <1>3, OthersStoreNothing
<1> QED
  BY <1>1, <1>2, <1>3

\* Database keeps the promise of AtomicStore: the rows of a call are stored together,
\* stay, and are stored when the call returns (execute, transaction).
THEOREM RefinesAtomicStore == Spec => AtomicStoreSpec
<1>1. Init => Store!SInit
  BY DEF Init, Store!SInit
<1>2. StoreInv /\ PromiseInv /\ GhostInv /\ GhostInv' /\ [Next]_vars => [Store!SNext]_Store!svars
  <2> SUFFICES ASSUME StoreInv, PromiseInv, GhostInv, GhostInv', [Next]_vars
               PROVE  Store!SNext \/ UNCHANGED Store!svars
    OBVIOUS
  <2>1. CASE void'
    BY <2>1 DEF Store!SNext
  <2>2. CASE void /\ ~void'
    BY <2>2, VoidStays
  <2>3. ASSUME ~void, NEW c \in Callers, Statement(c) \/ Fail(c)
        PROVE  Store!SNext \/ UNCHANGED Store!svars
    BY <2>3, StatementStep DEF PromiseInv
  <2>4. ASSUME ~void, ~void', NEW c \in Callers,
               Call(c) \/ Acquire(c) \/ Cancel(c) \/ Connect(c) \/ Opened(c) \/ OpenFails(c) \/ Close(c)
        PROVE  UNCHANGED Store!svars
    <3>1. UNCHANGED <<disk, returned>>
      BY <2>4 DEF Call, Acquire, Cancel, Connect, Opened, OpenFails, Close, sqlite, ghost
    <3>2. void' = void
      BY <2>4 DEF GhostInv
    <3> QED
      BY <3>1, <3>2 DEF Store!svars
  <2>5. CASE Crash \/ UNCHANGED vars
    BY <2>5 DEF Crash, vars, sqlite, ghost, Store!svars
  <2> QED
    BY <2>1, <2>2, <2>3, <2>4, <2>5 DEF Next
<1> QED
  BY <1>1, <1>2, PromiseInvariance, GhostInvariance, PTL DEF Spec, AtomicStoreSpec, Store!SSpec
====
