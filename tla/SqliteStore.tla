----------------------------- MODULE SqliteStore -----------------------------
(***************************************************************************)
(* The SQLite persistence layer, statement by statement: several           *)
(* connections (the orchestrator's, the CLI's, the recovery scan's) read a *)
(* Run, decide, and call apply_transition, which runs inside one BEGIN     *)
(* IMMEDIATE transaction.  Any statement may raise and any process may die *)
(* between two statements.                                                 *)
(***************************************************************************)
EXTENDS Lifecycle, Sequences

CONSTANTS Run,         \* run ids
          Conn,        \* database connections
          NoConn,      \* nobody holds the write lock
          NoRun,       \* a connection that is not working on a Run
          MaxVersion   \* bound: no transition is attempted from this version on

ASSUME StoreAssumption ==
    /\ NoConn \notin Conn
    /\ NoRun \notin Run
    /\ MaxVersion \in Nat

VARIABLES runs,      \* table runs: the committed row of each Run
          journal,   \* table journal_entries: the committed entries of each Run
          failures,  \* table failure_records: how many each Run has
          writer,    \* the connection inside a BEGIN IMMEDIATE transaction
          conn       \* what each connection is doing

vars == <<runs, journal, failures, writer, conn>>

-----------------------------------------------------------------------------
(* Journal entries.  entry_hash digests every other field of the entry; it *)
(* is modelled by the fields that tell two entries of one Run apart.       *)

NoHash == <<>>

Digest(entry) ==
    <<entry.sequence, entry.state_before, entry.state_after, entry.version>>

LastHash(entries) == IF entries = <<>> THEN NoHash ELSE Digest(entries[Len(entries)])

\* The entry apply_transition appends to entries when it moves row to target.
JournalEntry(entries, row, target) ==
    [sequence |-> Len(entries),
     state_before |-> row.state,
     state_after |-> target,
     version |-> row.version + 1,
     pending |-> target \in PENDING_ACTION_REQUIRED_STATES,
     failure |-> target = "FAILED",
     previous |-> LastHash(entries)]

-----------------------------------------------------------------------------
(* A connection.  held is the Run object its caller holds (what it last     *)
(* read, or what its own last transition returned) and decides from;       *)
(* expected is the version it passes to apply_transition; row, entries and *)
(* recorded are the transaction's own, uncommitted view of the tables.     *)

Idle == [pc |-> "idle", run |-> NoRun, held |-> NoRow, expected |-> 0,
         target |-> "FAILED", failure |-> FALSE, pending |-> FALSE,
         row |-> NoRow, entries |-> <<>>, recorded |-> 0]

InTransaction == {"begun", "checked", "journaled", "updated", "complete"}

Init ==
    /\ runs = [r \in Run |-> NoRow]
    /\ journal = [r \in Run |-> <<>>]
    /\ failures = [r \in Run |-> 0]
    /\ writer = NoConn
    /\ conn = [c \in Conn |-> Idle]

\* insert_run: one autocommitted INSERT; run_id is the primary key.
insert_run(r) ==
    /\ writer = NoConn
    /\ runs[r] = NoRow
    /\ runs' = [runs EXCEPT ![r] = NewRow]
    /\ UNCHANGED <<journal, failures, writer, conn>>

\* get_run, outside any transaction: sees the committed row even while
\* another connection holds the write lock.
get_run(c, r) ==
    /\ conn[c].pc = "idle"
    /\ runs[r] # NoRow
    /\ runs[r].version < MaxVersion
    /\ conn' = [conn EXCEPT ![c] = [Idle EXCEPT !.pc = "read", !.run = r,
                                                !.held = runs[r]]]
    /\ UNCHANGED <<runs, journal, failures, writer>>

\* apply_transition, first statement: the caller has chosen its arguments and
\* BEGIN IMMEDIATE takes the one write lock.
MutantBeginRereadsVersion(c, target, failure, pending) ==
    /\ conn[c].pc = "read"
    /\ writer = NoConn
    /\ writer' = c
    /\ conn' = [conn EXCEPT ![c].pc = "begun",
                            ![c].expected = runs[conn[c].run].version,
                            ![c].target = target,
                            ![c].failure = failure,
                            ![c].pending = pending,
                            ![c].row = runs[conn[c].run],
                            ![c].entries = journal[conn[c].run],
                            ![c].recorded = failures[conn[c].run]]
    /\ UNCHANGED <<runs, journal, failures>>

BeginImmediate(c, target, failure, pending) ==
    /\ conn[c].pc = "read"
    /\ writer = NoConn
    /\ writer' = c
    /\ conn' = [conn EXCEPT ![c].pc = "begun",
                            ![c].expected = conn[c].held.version,
                            ![c].target = target,
                            ![c].failure = failure,
                            ![c].pending = pending,
                            ![c].row = runs[conn[c].run],
                            ![c].entries = journal[conn[c].run],
                            ![c].recorded = failures[conn[c].run]]
    /\ UNCHANGED <<runs, journal, failures>>

\* busy_timeout runs out while another connection holds the lock: BEGIN raises
\* "database is locked" before the try block is entered.
BusyTimeout(c) ==
    /\ conn[c].pc = "read"
    /\ writer # NoConn
    /\ conn' = [conn EXCEPT ![c] = Idle]
    /\ UNCHANGED <<runs, journal, failures, writer>>

\* An exception inside the try block (RunNotFoundError, Concurrent-
\* ModificationError, IllegalTransition, any sqlite3 error) rolls back; so
\* does the death of the process.
MutantRollbackKeepsLock(c) ==
    /\ conn' = [conn EXCEPT ![c] = Idle]
    /\ UNCHANGED <<runs, journal, failures, writer>>

Rollback(c) ==
    /\ conn' = [conn EXCEPT ![c] = Idle]
    /\ writer' = IF writer = c THEN NoConn ELSE writer
    /\ UNCHANGED <<runs, journal, failures>>

\* The transaction reads the row again and re-validates: the caller's version
\* must still be the current one and the pure kernel must allow the move.
MutantSkipsKernel(c) ==
    /\ conn[c].row # NoRow
    /\ conn[c].row.version = conn[c].expected
    /\ ArgumentsLegal(conn[c].target, conn[c].failure, conn[c].pending)

Revalidates(c) ==
    /\ conn[c].row # NoRow
    /\ conn[c].row.version = conn[c].expected
    /\ TransitionLegal(conn[c].row.state, conn[c].target, conn[c].failure, conn[c].pending)

SelectRun(c) ==
    /\ conn[c].pc = "begun"
    /\ IF Revalidates(c)
       THEN /\ conn' = [conn EXCEPT ![c].pc = "checked"]
            /\ UNCHANGED <<runs, journal, failures, writer>>
       ELSE Rollback(c)

\* SELECT the last entry_hash and MAX(sequence) + 1, INSERT the new entry.
MutantAppendJournal(c) ==
    /\ conn[c].pc = "checked"
    /\ conn' = [conn EXCEPT ![c].pc = "journaled"]
    /\ journal' = [journal EXCEPT ![conn[c].run] =
                     Append(@, JournalEntry(@, conn[c].row, conn[c].target))]
    /\ UNCHANGED <<runs, failures, writer>>

AppendJournal(c) ==
    /\ conn[c].pc = "checked"
    /\ conn' = [conn EXCEPT ![c].pc = "journaled",
                            ![c].entries = Append(@, JournalEntry(@, conn[c].row, conn[c].target))]
    /\ UNCHANGED <<runs, journal, failures, writer>>

\* UPDATE runs ... WHERE run_id = ? AND state_version = expected; rowcount
\* other than 1 raises ConcurrentModificationError.
UpdateRun(c) ==
    /\ conn[c].pc = "journaled"
    /\ IF conn[c].row.version = conn[c].expected
       THEN /\ conn' = [conn EXCEPT ![c].pc = "updated",
                                    ![c].row = TransitionedRow(@, conn[c].target)]
            /\ UNCHANGED <<runs, journal, failures, writer>>
       ELSE Rollback(c)

\* INSERT INTO failure_records, only when the caller passed a FailureRecord.
InsertFailure(c) ==
    /\ conn[c].pc = "updated"
    /\ conn' = [conn EXCEPT ![c].pc = "complete",
                            ![c].recorded = IF conn[c].failure THEN @ + 1 ELSE @]
    /\ UNCHANGED <<runs, journal, failures, writer>>

\* COMMIT publishes all three tables at once.  The caller keeps the version of
\* the returned Run and may go on from it without reading again.
Commit(c) ==
    /\ conn[c].pc = "complete"
    /\ runs' = [runs EXCEPT ![conn[c].run] = conn[c].row]
    /\ journal' = [journal EXCEPT ![conn[c].run] = conn[c].entries]
    /\ failures' = [failures EXCEPT ![conn[c].run] = conn[c].recorded]
    /\ writer' = NoConn
    /\ conn' = [conn EXCEPT ![c] =
                  IF conn[c].row.version < MaxVersion
                  THEN [Idle EXCEPT !.pc = "read", !.run = conn[c].run,
                                    !.held = conn[c].row]
                  ELSE Idle]

\* A statement raises, or the process dies, at any point.
Abort(c) ==
    /\ conn[c].pc # "idle"
    /\ Rollback(c)

Statement(c) ==
    SelectRun(c) \/ AppendJournal(c) \/ UpdateRun(c) \/ InsertFailure(c) \/ Commit(c)

Begin(c) ==
    \E target \in LifecycleState, failure, pending \in BOOLEAN :
        BeginImmediate(c, target, failure, pending)

Next ==
    \/ \E r \in Run : insert_run(r)
    \/ \E c \in Conn :
        \/ \E r \in Run : get_run(c, r)
        \/ Begin(c)
        \/ BusyTimeout(c)
        \/ Statement(c)
        \/ Abort(c)

Spec == Init /\ [][Next]_vars

-----------------------------------------------------------------------------
(* Properties.                                                             *)

Hash == {NoHash} \union (Nat \X LifecycleState \X LifecycleState \X Nat)

Entry == [sequence : Nat, state_before : LifecycleState,
          state_after : LifecycleState, version : Nat,
          pending : BOOLEAN, failure : BOOLEAN, previous : Hash]

Connection ==
    [pc : {"idle", "read"} \union InTransaction, run : Run \union {NoRun},
     held : Row \union {NoRow}, expected : Nat, target : LifecycleState,
     failure : BOOLEAN, pending : BOOLEAN,
     row : Row \union {NoRow}, entries : Seq(Entry), recorded : Nat]

\* Type invariant of the tables, the lock and the connections.
TypeOK ==
    /\ runs \in [Run -> Row \union {NoRow}]
    /\ journal \in [Run -> Seq(Entry)]
    /\ failures \in [Run -> Nat]
    /\ writer \in Conn \union {NoConn}
    /\ conn \in [Conn -> Connection]

\* The journal entries are a gap-free, hash-linked account of how a new Run
\* became this row, every step of it a move the transition table allows.
Accounts(entries, row) ==
    /\ Len(entries) = row.version
    /\ \A i \in 1..Len(entries) :
          /\ entries[i].sequence = i - 1
          /\ entries[i].version = i
          /\ entries[i].state_before = IF i = 1 THEN "CREATED" ELSE entries[i - 1].state_after
          /\ entries[i].previous = IF i = 1 THEN NoHash ELSE Digest(entries[i - 1])
          /\ TransitionLegal(entries[i].state_before, entries[i].state_after,
                             entries[i].failure, entries[i].pending)
    /\ row.state = IF entries = <<>>
                    THEN IF row = NoRow THEN "ABSENT" ELSE "CREATED"
                    ELSE entries[Len(entries)].state_after

\* Whatever statement raises and whenever a process dies, the committed
\* journal of a Run accounts for its committed row: never an entry without
\* its update or an update without its entry (apply_transition's docstring).
JournalMatchesRun == \A r \in Run : Accounts(journal[r], runs[r])

\* A Run has a failure record exactly when it is FAILED, and then one: the
\* third table is published together with the other two.
FailureRecorded ==
    \A r \in Run : failures[r] = IF runs[r].state = "FAILED" THEN 1 ELSE 0

\* Optimistic concurrency: a committed move replaces the very row its caller
\* decided from.  Of several callers holding the same version, one wins; the
\* others can only roll back.
NoStaleCommit ==
    [][\A r \in Run :
          runs[r] # NoRow /\ runs'[r] # runs[r] =>
              \E c \in Conn : writer = c /\ conn[c].run = r /\ conn[c].held = runs[r]]_vars

\* Who holds which row: what a caller decides from until its call has returned.
Known == {<<c, <<conn[c].run, conn[c].held>>>> : c \in {x \in Conn : conn[x].pc # "idle"}}

Atomic == INSTANCE AtomicStore WITH Caller <- Conn, known <- Known

\* For its callers the transaction is one step that only replaces a row its
\* caller holds, whatever raises, dies or happens between its statements.
ImplementsAtomicStore == Atomic!AtomicSpec

\* In particular the store implements the abstract lifecycle: rows are only
\* inserted new, move along the table one version at a time and never leave a
\* terminal state.
ImplementsRunLifecycle == Atomic!Spec

\* The write lock is never held forever: every transaction commits or rolls
\* back, so no connection can block all others.
WriteLockReleased == \A c \in Conn : writer = c ~> writer # c
=============================================================================
