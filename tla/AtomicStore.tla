---- MODULE AtomicStore ----
(***************************************************************************)
(* What Database promises its callers, with no connection, no lock, no     *)
(* thread and no crash: the rows of a call are stored all together or not  *)
(* at all, what is stored stays, and a call that returns has stored its    *)
(* rows. The promise ends when the caller of a block of statements, or of  *)
(* a call that commits, is cancelled while its statement is under way.     *)
(* Database implements this specification.                                 *)
(***************************************************************************)

CONSTANTS
  Calls,     \* the calls that store rows
  RowsOf(_)  \* the rows each of them stores

VARIABLES
  stored,    \* the rows that survive a power loss
  returned,  \* the calls that returned normally
  void       \* the promise has ended

svars == <<stored, returned, void>>

SInit ==
  /\ stored = {}
  /\ returned = {}
  /\ void = FALSE

\* Several calls may reach the disk in one step: a statement whose caller was
\* cancelled may end up in the next block of statements.
Store(some) ==
  /\ ~void
  /\ stored' = stored \cup UNION {RowsOf(c) : c \in some}
  /\ UNCHANGED <<returned, void>>

Return(c) ==
  /\ ~void
  /\ RowsOf(c) \subseteq stored
  /\ returned' = returned \cup {c}
  /\ UNCHANGED <<stored, void>>

StoreAndReturn(some, c) ==
  /\ ~void
  /\ stored' = stored \cup UNION {RowsOf(d) : d \in some}
  /\ RowsOf(c) \subseteq stored'
  /\ returned' = returned \cup {c}
  /\ UNCHANGED void

SNext ==
  \/ \E some \in SUBSET Calls : Store(some)
  \/ \E c \in Calls : Return(c)
  \/ \E some \in SUBSET Calls, c \in Calls : StoreAndReturn(some, c)
  \/ void'

SSpec == SInit /\ [][SNext]_svars
====
