---- MODULE Database ----
(***************************************************************************)
(* persistence/database.py: tasks that share one Database object, the      *)
(* asyncio lock around every statement, the threads the statements run in, *)
(* transactions, migrations, connect(), close(), cancellation and power    *)
(* loss.                                                                   *)
(*                                                                         *)
(* A task that awaits asyncio.to_thread and is cancelled gives up the lock *)
(* at once; the thread goes on. So a caller may be "ended" while its job   *)
(* is not. SQLite itself is modelled from how the code uses it: a handle   *)
(* has at most one open transaction, whose rows are pending until it is    *)
(* committed, and an open transaction of one handle locks out the writes   *)
(* of the others.                                                          *)
(***************************************************************************)
EXTENDS Naturals, FiniteSets

CONSTANTS
  Writers,     \* calls of execute() that store one row, and everything built on it
  Blocks,      \* uses of transaction() whose block stores two rows
  Pruners,     \* prune_completed_intents() and prune_events_older_than()
  Openers,     \* calls of connect() followed by migrate(), as start() does
  Closers,     \* calls of close()
  Cancellable, \* the callers that may be cancelled
  LastVersion, \* CURRENT_SCHEMA_VERSION
  MaxFaults,   \* bound on cancellations, power losses and statements that fail of themselves
  None         \* no handle

Callers  == Writers \cup Blocks \cup Pruners \cup Openers \cup Closers
Versions == 1..LastVersion

\* Each opener opens at most one connection, and the connection bears its name.
Handles == Openers

ASSUME DatabaseAssumption ==
  /\ LastVersion \in Nat \ {0}
  /\ MaxFaults \in Nat
  /\ None \notin Handles
  /\ Blocks \cap (Writers \cup Pruners \cup Openers \cup Closers) = {}
  /\ Writers \cap (Pruners \cup Openers \cup Closers) = {}
  /\ Pruners \cap (Openers \cup Closers) = {}
  /\ Openers \cap Closers = {}

VARIABLES
  conn,     \* Database._conn
  lock,     \* the caller that holds Database._lock, or none
  pc,       \* where each caller stands
  job,      \* the statement a thread runs for each caller
  held,     \* the connection each caller took before it asked for the lock
  todo,     \* the migrations each opener found not applied
  opened,   \* the handles that are open
  inTxn,    \* the handles with an open transaction
  pending,  \* per handle: what its open transaction has written
  disk,     \* what is committed
  faults,   \* faults so far
  \* Observations, which no guard reads.
  returned, \* the calls that promise something and returned normally
  void      \* a block or a committing call was cancelled under way

sqlite == <<opened, inTxn, pending, disk>>
ghost  == <<returned, void>>
vars   == <<conn, lock, pc, job, held, todo, sqlite, faults, ghost>>

Row(c, n)  == <<"row", c, n>>
Table(v)   == <<"table", v>>
Version(v) == <<"version", v>>
RowsOf(c)  == IF c \in Blocks THEN {Row(c, 1), Row(c, 2)} ELSE {Row(c, 1)}

\* The statements of a migration run one after the other in one thread.
Migration == {"read", "script", "record", "finish"}
Jobs == {"none", "write", "begin", "body1", "body2", "commit", "rollback", "prune", "close"}
        \cup Migration

Init ==
  /\ conn = None
  /\ lock = {}
  /\ pc = [c \in Callers |-> "idle"]
  /\ job = [c \in Callers |-> "none"]
  /\ held = [c \in Callers |-> None]
  /\ todo = [c \in Callers |-> {}]
  /\ opened = {} /\ inTxn = {} /\ pending = [h \in Handles |-> {}]
  /\ disk = {}
  /\ faults = 0
  /\ returned = {} /\ void = FALSE

-----------------------------------------------------------------------------
\* SQLite.

Sees(h) == disk \cup pending[h]

Oldest(vs) == CHOOSE v \in vs : \A w \in vs : v <= w

\* What SQLite refuses: any statement on a closed handle, a statement that
\* writes while another handle is in a transaction (after busy_timeout), BEGIN
\* within a transaction, a row without its table, a version recorded twice.
Writing == {"write", "begin", "body1", "body2", "prune", "script", "record"}

Refused(c) == LET h == held[c] IN
  \/ h \notin opened
  \/ job[c] \in Writing /\ ~(inTxn \subseteq {h})
  \/ job[c] = "begin" /\ h \in inTxn
  \/ job[c] \in {"write", "body1", "body2"} /\ Table(LastVersion) \notin Sees(h)
  \/ job[c] = "record" /\ Version(Oldest(todo[c])) \in Sees(h)

Runs(c, statement) == job[c] = statement /\ ~Refused(c)

Put(h, rows) ==
  /\ IF h \in inTxn
       THEN pending' = [pending EXCEPT ![h] = @ \cup rows] /\ UNCHANGED disk
       ELSE disk' = disk \cup rows /\ UNCHANGED pending
  /\ UNCHANGED <<opened, inTxn>>

\* Commit what the handle has written and more rows with it; without an open
\* transaction there is nothing pending.
CommitWith(h, rows) ==
  /\ disk' = disk \cup pending[h] \cup rows
  /\ pending' = [pending EXCEPT ![h] = {}]
  /\ inTxn' = inTxn \ {h}
  /\ UNCHANGED opened

Rollback(h) ==
  /\ pending' = [pending EXCEPT ![h] = {}]
  /\ inTxn' = inTxn \ {h}
  /\ UNCHANGED <<opened, disk>>

-----------------------------------------------------------------------------
\* How a caller goes on after its statement. asyncio.Lock is first come first
\* served; here any of the waiting callers may be next.

FirstJob(c) == IF c \in Writers THEN "write"
               ELSE IF c \in Blocks THEN "begin"
               ELSE IF c \in Pruners THEN "prune"
               ELSE "read"

\* _require_conn comes before the lock.
Call(c) ==
  /\ c \notin Openers \cup Closers
  /\ pc[c] = "idle"
  /\ conn # None
  /\ pc' = [pc EXCEPT ![c] = "waiting"]
  /\ held' = [held EXCEPT ![c] = conn]
  /\ UNCHANGED <<conn, lock, job, todo, sqlite, faults, ghost>>

Acquire(c) ==
  /\ pc[c] = "waiting"
  /\ lock = {}
  /\ lock' = {c}
  /\ pc' = [pc EXCEPT ![c] = "running"]
  /\ job' = [job EXCEPT ![c] = FirstJob(c)]
  /\ UNCHANGED <<conn, held, todo, sqlite, faults, ghost>>

\* Mutant: the lock is not left when the statement raises.
EndKeepsLock(c, normally) ==
  /\ job' = [job EXCEPT ![c] = "none"]
  /\ held' = [held EXCEPT ![c] = None]
  /\ pc' = [pc EXCEPT ![c] = "ended"]
  /\ todo' = [todo EXCEPT ![c] = {}]
  /\ lock' = IF normally THEN lock \ {c} ELSE lock
  /\ returned' = IF normally /\ pc[c] = "running"
                 THEN returned \cup ({c} \ (Pruners \cup Closers)) ELSE returned
  /\ UNCHANGED <<conn, void>>

\* The call, if it was not cancelled, ends and leaves the lock.
End(c, normally) ==
  /\ job' = [job EXCEPT ![c] = "none"]
  /\ held' = [held EXCEPT ![c] = None]
  /\ pc' = [pc EXCEPT ![c] = "ended"]
  /\ lock' = lock \ {c}
  /\ todo' = [todo EXCEPT ![c] = {}]
  /\ returned' = IF normally /\ pc[c] = "running"
                 THEN returned \cup ({c} \ (Pruners \cup Closers)) ELSE returned
  /\ UNCHANGED <<conn, void>>

\* The next statement, if any: of a task that still runs, or of a thread that migrates.
GoOn(c, next, left) ==
  IF pc[c] = "running" \/ next \in Migration
    THEN /\ job' = [job EXCEPT ![c] = next]
         /\ todo' = [todo EXCEPT ![c] = left]
         /\ UNCHANGED <<conn, lock, pc, held, ghost>>
    ELSE End(c, FALSE)

Write(c) ==
  /\ Runs(c, "write")
  /\ Put(held[c], RowsOf(c))
  /\ End(c, TRUE)

\* BEGIN IMMEDIATE fails within a transaction.
Begin(c) ==
  /\ Runs(c, "begin")
  /\ inTxn' = inTxn \cup {held[c]}
  /\ GoOn(c, "body1", {})
  /\ UNCHANGED <<opened, pending, disk>>

Body(c, n) ==
  /\ Runs(c, IF n = 1 THEN "body1" ELSE "body2")
  /\ Put(held[c], {Row(c, n)})
  /\ GoOn(c, IF n = 1 THEN "body2" ELSE "commit", {})

\* Mutant: a block that raises leaves its transaction open.
RaiseOnly(c) == End(c, FALSE) /\ UNCHANGED sqlite

\* Everything but the end of a transaction may fail of itself.
MayRaise(c) == job[c] \notin {"none", "close", "commit", "rollback"}

\* The statement, or the block itself, raises. The block of a transaction is
\* then rolled back; any other call just raises.
Raise(c) ==
  /\ IF job[c] \in {"body1", "body2"} /\ pc[c] = "running"
       THEN GoOn(c, "rollback", {})
       ELSE End(c, FALSE)
  /\ UNCHANGED sqlite

Refuse(c) ==
  /\ job[c] \notin {"none", "close"}
  /\ Refused(c)
  /\ Raise(c)

Fail(c) ==
  /\ faults < MaxFaults
  /\ MayRaise(c)
  /\ ~Refused(c)
  /\ Raise(c)
  /\ faults' = faults + 1

Commit(c) ==
  /\ Runs(c, "commit")
  /\ CommitWith(held[c], {})
  /\ End(c, TRUE)

RollBack(c) ==
  /\ Runs(c, "rollback")
  /\ Rollback(held[c])
  /\ End(c, FALSE)

\* Deletes rows that are none of those modelled here, then commits.
Prune(c) ==
  /\ Runs(c, "prune")
  /\ CommitWith(held[c], {})
  /\ End(c, TRUE)

-----------------------------------------------------------------------------
\* migrate().

NextMigration(c, left) == GoOn(c, IF left = {} THEN "finish" ELSE "script", left)

ReadVersions(c) ==
  /\ Runs(c, "read")
  /\ NextMigration(c, {v \in Versions : Version(v) \notin Sees(held[c])})
  /\ UNCHANGED sqlite

\* Mutant: the newest script runs for every version.
RunScriptNewest(c) ==
  /\ Runs(c, "script")
  /\ CommitWith(held[c], {Table(LastVersion)})
  /\ GoOn(c, "record", todo[c])

\* executescript() commits first. The script creates what is not there yet.
RunScript(c) ==
  /\ Runs(c, "script")
  /\ CommitWith(held[c], {Table(Oldest(todo[c]))})
  /\ GoOn(c, "record", todo[c])

\* The version is the primary key: a second INSERT of it raises.
RecordVersion(c) ==
  /\ Runs(c, "record")
  /\ Put(held[c], {Version(Oldest(todo[c]))})
  /\ NextMigration(c, todo[c] \ {Oldest(todo[c])})

FinishMigration(c) ==
  /\ Runs(c, "finish")
  /\ CommitWith(held[c], {})
  /\ End(c, TRUE)

-----------------------------------------------------------------------------
\* connect() and close(), which do not take the lock.

Connect(c) ==
  /\ c \in Openers
  /\ pc[c] = "idle"
  /\ pc' = [pc EXCEPT ![c] = IF conn = None THEN "opening" ELSE "waiting"]
  /\ held' = [held EXCEPT ![c] = conn]
  /\ UNCHANGED <<conn, lock, job, todo, sqlite, faults, ghost>>

\* Of two overlapping calls both open a connection; the later one is kept.
Opened(c) ==
  /\ pc[c] = "opening"
  /\ opened' = opened \cup {c}
  /\ conn' = c
  /\ held' = [held EXCEPT ![c] = c]
  /\ pc' = [pc EXCEPT ![c] = "waiting"]
  /\ UNCHANGED <<lock, job, todo, inTxn, pending, disk, faults, ghost>>

OpenFails(c) ==
  /\ faults < MaxFaults
  /\ pc[c] = "opening"
  /\ faults' = faults + 1
  /\ pc' = [pc EXCEPT ![c] = "ended"]
  /\ UNCHANGED <<conn, lock, job, held, todo, sqlite, ghost>>

Close(c) ==
  /\ c \in Closers
  /\ pc[c] = "idle"
  /\ conn # None
  /\ conn' = None
  /\ held' = [held EXCEPT ![c] = conn]
  /\ job' = [job EXCEPT ![c] = "close"]
  /\ pc' = [pc EXCEPT ![c] = "running"]
  /\ UNCHANGED <<lock, todo, sqlite, faults, ghost>>

\* An open transaction is rolled back with its connection.
Closed(c) ==
  /\ job[c] = "close"
  /\ opened' = opened \ {held[c]}
  /\ inTxn' = inTxn \ {held[c]}
  /\ pending' = [pending EXCEPT ![held[c]] = {}]
  /\ End(c, TRUE)
  /\ UNCHANGED disk

-----------------------------------------------------------------------------
\* Cancellation and power loss.

\* A job that is still queued in the thread pool goes with its task; one that
\* a thread has begun goes on.
MayGoOn(c) == job[c] # "none"
MayBeDropped(c) == job[c] \notin Migration \ {"read"}

\* CancelledError is no Exception: nothing is rolled back.
Cancel(c) ==
  /\ faults < MaxFaults
  /\ faults' = faults + 1
  /\ c \in Cancellable
  /\ pc[c] \in {"waiting", "opening", "running"}
  /\ pc' = [pc EXCEPT ![c] = "ended"]
  /\ lock' = lock \ {c}
  /\ \/ /\ MayBeDropped(c)
        /\ job' = [job EXCEPT ![c] = "none"]
        /\ held' = [held EXCEPT ![c] = None]
        /\ todo' = [todo EXCEPT ![c] = {}]
        /\ void' = (void \/ (c \in Blocks /\ held[c] \in inTxn /\ pc[c] = "running"))
     \/ /\ MayGoOn(c)
        /\ void' = (void \/ c \in Blocks \cup Pruners \cup Openers)
        /\ UNCHANGED <<job, held, todo>>
  /\ UNCHANGED <<conn, sqlite, returned>>

\* Power loss, or the end of the process. Calls not made yet are made of the
\* next process.
Crash ==
  /\ faults < MaxFaults
  /\ faults' = faults + 1
  /\ conn' = None
  /\ lock' = {}
  /\ pc' = [c \in Callers |-> IF pc[c] = "idle" THEN "idle" ELSE "ended"]
  /\ job' = [c \in Callers |-> "none"]
  /\ held' = [c \in Callers |-> None]
  /\ todo' = [c \in Callers |-> {}]
  /\ opened' = {} /\ inTxn' = {} /\ pending' = [h \in Handles |-> {}]
  /\ UNCHANGED <<disk, ghost>>

Statement(c) ==
  /\ \/ Write(c) \/ Begin(c) \/ Body(c, 1) \/ Body(c, 2) \/ Refuse(c)
     \/ Commit(c) \/ RollBack(c) \/ Prune(c)
     \/ ReadVersions(c) \/ RunScript(c) \/ RecordVersion(c) \/ FinishMigration(c)
     \/ Closed(c)
  /\ UNCHANGED faults

Next ==
  \/ Crash
  \/ \E c \in Callers :
       \/ Call(c) \/ Acquire(c) \/ Statement(c) \/ Fail(c) \/ Cancel(c)
       \/ Connect(c) \/ Opened(c) \/ OpenFails(c) \/ Close(c)

Spec == Init /\ [][Next]_vars

-----------------------------------------------------------------------------
\* Properties.

TypeOK ==
  /\ conn \in Handles \cup {None}
  /\ lock \subseteq Callers
  /\ pc \in [Callers -> {"idle", "waiting", "opening", "running", "ended"}]
  /\ job \in [Callers -> Jobs]
  /\ held \in [Callers -> Handles \cup {None}]
  /\ todo \in [Callers -> SUBSET Versions]
  /\ opened \subseteq Handles
  /\ inTxn \subseteq opened
  /\ \A h \in Handles : h \notin inTxn => pending[h] = {}
  /\ faults \in 0..MaxFaults
  /\ returned \subseteq Callers
  /\ void \in BOOLEAN

\* The schema_migrations table never lies about what ran (migrations.py 3-7):
\* a recorded version has its tables, in whatever order power loss, cancelled
\* migrations and second migrations fall; and migrate() returns only when every
\* version is recorded.
SchemaIsTrue ==
  /\ \A v \in Versions : Version(v) \in disk => Table(v) \in disk
  /\ ~void /\ returned \cap Openers # {} => \A v \in Versions : Version(v) \in disk

\* Whatever is cancelled, closed or raised, the lock is left on every path: it
\* is held by a call that has a thread at work for it, so nobody waits for it in
\* vain, and by one call at a time.
LockHasWorker ==
  /\ Cardinality(lock) <= 1
  /\ \A c \in lock : pc[c] = "running" /\ job[c] \notin {"none", "close"}

\* transaction() runs "a block of statements atomically" (database.py 122): its
\* two rows are stored together or not at all.
BlocksAreAtomic == \A c \in Blocks : RowsOf(c) \subseteq disk \/ RowsOf(c) \cap disk = {}

Rows == UNION {RowsOf(c) : c \in Writers \cup Blocks}

\* Database keeps the promise of AtomicStore.
Store == INSTANCE AtomicStore WITH
  Calls <- Writers \cup Blocks, stored <- disk \cap Rows,
  returned <- returned \cap (Writers \cup Blocks)

AtomicStoreSpec == Store!SSpec
====
