------------------------- MODULE SqliteStoreProofs -------------------------
(***************************************************************************)
(* For every set of Runs, every set of connections and every bound: what   *)
(* the committed tables always say, that no move is made from a stale row, *)
(* and that the store implements RunLifecycle.                             *)
(***************************************************************************)
EXTENDS Reporting, TLAPS

-----------------------------------------------------------------------------
(* The inductive invariant.  The properties of the committed tables are    *)
(* not inductive alone: Commit publishes what the connection accumulated,  *)
(* so the invariant says what that is at every point of the transaction.   *)

\* Exactly the connection that holds the write lock is inside a transaction.
LockInv == \A c \in Conn : writer = c <=> conn[c].pc \in InTransaction

\* A caller works on a Run that exists; what it holds is never newer than the
\* committed row and, at the same version, is that row.
Held(k) ==
    k.pc # "idle" =>
        /\ k.run \in Run
        /\ runs[k.run] # NoRow
        /\ k.held \in Row
        /\ k.held.version <= runs[k.run].version
        /\ k.held.version = runs[k.run].version => k.held = runs[k.run]

HeldInv == \A c \in Conn : Held(conn[c])

\* The connection's move of row is the one its caller may make.
Validated(k, row) ==
    /\ k.expected = k.held.version
    /\ row.version = k.expected
    /\ TransitionLegal(row.state, k.target, k.failure, k.pending)

\* What a connection has accumulated, by its place in the transaction.
Accumulated(k) ==
    LET r == k.run
        entered == Append(journal[r], JournalEntry(journal[r], runs[r], k.target))
        moved == TransitionedRow(runs[r], k.target)
        counted == IF k.failure THEN failures[r] + 1 ELSE failures[r]
    IN  /\ k.pc = "begun" =>
               /\ k.expected = k.held.version
               /\ k.row = runs[r] /\ k.entries = journal[r] /\ k.recorded = failures[r]
        /\ k.pc = "checked" =>
               /\ Validated(k, runs[r])
               /\ k.row = runs[r] /\ k.entries = journal[r] /\ k.recorded = failures[r]
        /\ k.pc = "journaled" =>
               /\ Validated(k, runs[r])
               /\ k.row = runs[r] /\ k.entries = entered /\ k.recorded = failures[r]
        /\ k.pc = "updated" =>
               /\ Validated(k, runs[r])
               /\ k.row = moved /\ k.entries = entered /\ k.recorded = failures[r]
        /\ k.pc = "complete" =>
               /\ Validated(k, runs[r])
               /\ k.row = moved /\ k.entries = entered /\ k.recorded = counted

TransactionInv == \A c \in Conn : Accumulated(conn[c])

IInv ==
    /\ TypeOK
    /\ LockInv
    /\ HeldInv
    /\ TransactionInv
    /\ JournalMatchesRun
    /\ FailureRecorded

-----------------------------------------------------------------------------
(* The kernel and the journal, away from any connection.                   *)

\* insert_run inserts a row.
LEMMA NewRowInRow == NewRow \in Row /\ NewRow # NoRow
  BY DEF NewRow, NoRow, Row, LifecycleState

\* A legal move starts from a row that is not terminal, and leads to a row.
LEMMA MovedRow ==
  ASSUME NEW row \in Row, NEW target \in LifecycleState
  PROVE  /\ TransitionedRow(row, target) \in Row
         /\ TransitionedRow(row, target).state = target
         /\ TransitionedRow(row, target).version = row.version + 1
         /\ TransitionedRow(row, target) # NoRow
<1>1. TransitionedRow(row, target) \in Row
  BY DEF TransitionedRow, Row
<1>2. NoRow.state = "ABSENT" /\ target # "ABSENT"
  BY DEF NoRow, LifecycleState
<1> QED  BY <1>1, <1>2 DEF TransitionedRow

\* The hash a new entry is linked to.
LEMMA LastHashTyped ==
  ASSUME NEW entries \in Seq(Entry)
  PROVE  LastHash(entries) \in Hash
<1>1. CASE entries = <<>>
  BY <1>1 DEF LastHash, Hash
<1>2. CASE entries # <<>>
  <2>1. entries[Len(entries)] \in Entry
    BY <1>2
  <2>2. Digest(entries[Len(entries)]) \in Nat \X LifecycleState \X LifecycleState \X Nat
    BY <2>1 DEF Entry, Digest
  <2> QED  BY <1>2, <2>2 DEF LastHash, Hash
<1> QED  BY <1>1, <1>2

\* The entry apply_transition appends is an entry, and the journal stays one.
LEMMA EntryTyped ==
  ASSUME NEW row \in Row, NEW target \in LifecycleState, NEW entries \in Seq(Entry)
  PROVE  /\ JournalEntry(entries, row, target) \in Entry
         /\ Append(entries, JournalEntry(entries, row, target)) \in Seq(Entry)
<1>1. LastHash(entries) \in Hash
  BY LastHashTyped
<1>2. JournalEntry(entries, row, target) \in Entry
  BY <1>1 DEF JournalEntry, Entry, Row
<1> QED  BY <1>2

\* Appending the entry of a legal move, and moving the row with it, keeps the
\* journal an account of the row.
LEMMA AccountsExtended ==
  ASSUME NEW row \in Row, NEW target \in LifecycleState,
         NEW failure \in BOOLEAN, NEW pending \in BOOLEAN,
         NEW entries \in Seq(Entry),
         Accounts(entries, row),
         TransitionLegal(row.state, target, failure, pending)
  PROVE  Accounts(Append(entries, JournalEntry(entries, row, target)),
                  TransitionedRow(row, target))
<1> DEFINE e == JournalEntry(entries, row, target)
           longer == Append(entries, e)
           n == Len(entries)
<1>1. /\ n \in Nat /\ n = row.version
      /\ longer \in Seq(Entry) /\ Len(longer) = n + 1 /\ longer # <<>>
      /\ \A i \in 1..n : longer[i] = entries[i]
      /\ longer[n + 1] = e
  <2>1. n \in Nat /\ n = row.version
    BY DEF Accounts
  <2>2. e \in Entry /\ longer \in Seq(Entry)
    BY EntryTyped
  <2> HIDE DEF e
  <2>3. Len(longer) = n + 1 /\ longer[n + 1] = e
    BY <2>1, <2>2
  <2>4. \A i \in 1..n : longer[i] = entries[i]
    BY <2>1, <2>2
  <2>5. longer # <<>>
    BY <2>1, <2>3
  <2> QED  BY <2>1, <2>2, <2>3, <2>4, <2>5
<1>2. row # NoRow
  BY DEF Row, NoRow, LifecycleState
<1>3. /\ e.sequence = n /\ e.version = n + 1 /\ e.state_before = row.state
      /\ e.state_after = target /\ e.previous = LastHash(entries)
      /\ e.failure = (target = "FAILED")
      /\ e.pending = (target \in PENDING_ACTION_REQUIRED_STATES)
  BY <1>1 DEF JournalEntry
<1>4. TransitionLegal(e.state_before, e.state_after, e.failure, e.pending)
  BY <1>3 DEF TransitionLegal, ArgumentsLegal
<1>5. e.state_before = IF n = 0 THEN "CREATED" ELSE longer[n].state_after
  BY <1>1, <1>2, <1>3 DEF Accounts
<1>6. e.previous = IF n = 0 THEN NoHash ELSE Digest(longer[n])
  BY <1>1, <1>3 DEF LastHash
<1>7. ASSUME NEW i \in 1..(n + 1)
      PROVE  /\ longer[i].sequence = i - 1
             /\ longer[i].version = i
             /\ longer[i].state_before =
                   IF i = 1 THEN "CREATED" ELSE longer[i - 1].state_after
             /\ longer[i].previous = IF i = 1 THEN NoHash ELSE Digest(longer[i - 1])
             /\ TransitionLegal(longer[i].state_before, longer[i].state_after,
                                longer[i].failure, longer[i].pending)
  <2>1. CASE i = n + 1
    BY <2>1, <1>1, <1>3, <1>4, <1>5, <1>6
  <2>2. CASE i # n + 1
    <3>1. i \in 1..n /\ (i # 1 => i - 1 \in 1..n)
      BY <2>2, <1>1
    <3> QED  BY <3>1, <1>1, SMTT(20) DEF Accounts
  <2> QED  BY <2>1, <2>2
<1>8. /\ TransitionedRow(row, target).version = n + 1
      /\ TransitionedRow(row, target).state = target
  BY <1>1, MovedRow
<1> HIDE DEF e, longer, n
<1>9. Accounts(longer, TransitionedRow(row, target))
  BY <1>1, <1>3, <1>7, <1>8 DEF Accounts
<1> QED  BY <1>9 DEF longer, e

-----------------------------------------------------------------------------
(* One step at a time.                                                     *)

\* A step that touches no table: connection c becomes k and takes, keeps or
\* gives back the write lock.
LEMMA LocalStep ==
  ASSUME IInv, NEW c \in Conn, NEW k \in Connection,
         UNCHANGED <<runs, journal, failures>>,
         conn' = [conn EXCEPT ![c] = k],
         Held(k), Accumulated(k),
         k.pc \in InTransaction => writer \in {NoConn, c},
         writer' = IF k.pc \in InTransaction THEN c
                   ELSE IF writer = c THEN NoConn ELSE writer
  PROVE  IInv'
<1> USE StoreAssumption DEF IInv
<1>1. /\ conn'[c] = k
      /\ \A d \in Conn \ {c} : conn'[d] = conn[d]
      /\ conn' \in [Conn -> Connection]
  BY DEF TypeOK
<1>2. TypeOK'
  BY <1>1 DEF TypeOK
<1>3. LockInv'
  BY <1>1 DEF LockInv
<1>4. HeldInv'
  <2>1. Held(conn[c])' = Held(k)
    BY <1>1 DEF Held
  <2>2. \A d \in Conn \ {c} : Held(conn[d])' = Held(conn[d])
    BY <1>1 DEF Held
  <2> QED  BY <2>1, <2>2 DEF HeldInv
<1>5. TransactionInv'
  <2>1. Accumulated(conn[c])' = Accumulated(k)
    BY <1>1 DEF Accumulated, Validated
  <2>2. \A d \in Conn \ {c} : Accumulated(conn[d])' = Accumulated(conn[d])
    BY <1>1 DEF Accumulated, Validated
  <2> QED  BY <2>1, <2>2 DEF TransactionInv
<1>6. JournalMatchesRun' /\ FailureRecorded'
  BY DEF JournalMatchesRun, FailureRecorded
<1> QED  BY <1>2, <1>3, <1>4, <1>5, <1>6

\* A connection that does nothing is a connection, outside any transaction.
LEMMA IdleTyped == Idle \in Connection /\ Idle.pc = "idle"
  BY DEF Idle, Connection, LifecycleState, InTransaction

\* ROLLBACK, whatever caused it, preserves the invariant.
LEMMA RollbackStep ==
  ASSUME IInv, NEW c \in Conn, Rollback(c)
  PROVE  IInv'
<1>1. Held(Idle) /\ Accumulated(Idle) /\ Idle.pc \notin InTransaction
  BY IdleTyped DEF Held, Accumulated, InTransaction
<1> QED  BY <1>1, IdleTyped, LocalStep DEF Rollback

\* A BEGIN IMMEDIATE that times out preserves the invariant.
LEMMA BusyTimeoutStep ==
  ASSUME IInv, NEW c \in Conn, BusyTimeout(c)
  PROVE  IInv'
<1>1. Held(Idle) /\ Accumulated(Idle) /\ Idle.pc \notin InTransaction
  BY IdleTyped DEF Held, Accumulated, InTransaction
<1>2. writer # c
  BY DEF BusyTimeout, IInv, LockInv, InTransaction
<1> QED  BY <1>1, <1>2, IdleTyped, LocalStep DEF BusyTimeout

\* Reading a Run preserves the invariant: what is held is the committed row.
LEMMA GetRunStep ==
  ASSUME IInv, NEW c \in Conn, NEW r \in Run, get_run(c, r)
  PROVE  IInv'
<1> DEFINE k == [Idle EXCEPT !.pc = "read", !.run = r, !.held = runs[r]]
<1>1. runs[r] \in Row
  BY DEF get_run, IInv, TypeOK
<1>2. k \in Connection /\ k.pc = "read" /\ k.run = r /\ k.held = runs[r]
  BY <1>1, IdleTyped DEF Connection
<1>3. Held(k) /\ Accumulated(k) /\ k.pc \notin InTransaction
  BY <1>1, <1>2 DEF Held, Accumulated, InTransaction, get_run, Row
<1>4. writer # c
  BY DEF get_run, IInv, LockInv, InTransaction
<1>5. /\ UNCHANGED <<runs, journal, failures, writer>>
      /\ conn' = [conn EXCEPT ![c] = k]
  BY DEF get_run
<1> HIDE DEF k
<1> QED  BY <1>2, <1>3, <1>4, <1>5, LocalStep

\* BEGIN IMMEDIATE preserves the invariant: the transaction sees the tables.
LEMMA BeginStep ==
  ASSUME IInv, NEW c \in Conn, NEW target \in LifecycleState,
         NEW failure \in BOOLEAN, NEW pending \in BOOLEAN,
         BeginImmediate(c, target, failure, pending)
  PROVE  IInv'
<1> DEFINE r == conn[c].run
           k == [conn[c] EXCEPT !.pc = "begun", !.expected = conn[c].held.version,
                   !.target = target, !.failure = failure, !.pending = pending,
                   !.row = runs[r], !.entries = journal[r], !.recorded = failures[r]]
<1>1. /\ conn[c] \in Connection /\ r \in Run /\ conn[c].held \in Row
      /\ runs[r] \in Row \union {NoRow} /\ journal[r] \in Seq(Entry)
      /\ failures[r] \in Nat
  BY DEF BeginImmediate, IInv, TypeOK, HeldInv, Held
<1>2. conn[c].held.version \in Nat
  BY <1>1 DEF Row
<1>3. k \in Connection
  BY <1>1, <1>2, ZenonT(30) DEF Connection, InTransaction
<1>4. /\ k.pc = "begun" /\ k.run = r /\ k.held = conn[c].held
      /\ k.expected = k.held.version /\ k.row = runs[r]
      /\ k.entries = journal[r] /\ k.recorded = failures[r]
  BY <1>1 DEF Connection
<1>5. Held(conn[c]) /\ conn[c].pc = "read"
  BY DEF BeginImmediate, IInv, HeldInv
<1>6. /\ UNCHANGED <<runs, journal, failures>>
      /\ writer = NoConn /\ writer' = c
      /\ conn' = [conn EXCEPT ![c] = k]
  BY <1>1 DEF BeginImmediate, TypeOK, IInv
<1> HIDE DEF k
<1>7. Held(k)
  BY <1>4, <1>5 DEF Held
<1>8. Accumulated(k) /\ k.pc \in InTransaction
  BY <1>4 DEF Accumulated, InTransaction
<1> QED  BY <1>3, <1>6, <1>7, <1>8, LocalStep

\* Re-validating preserves the invariant: past it, the move is a legal one.
LEMMA SelectRunStep ==
  ASSUME IInv, NEW c \in Conn, SelectRun(c)
  PROVE  IInv'
<1> DEFINE r == conn[c].run
           k == [conn[c] EXCEPT !.pc = "checked"]
<1>1. /\ conn[c] \in Connection /\ conn[c].pc = "begun" /\ writer = c
      /\ Held(conn[c]) /\ Accumulated(conn[c])
  BY DEF SelectRun, IInv, TypeOK, LockInv, HeldInv, TransactionInv, InTransaction
<1>2. CASE Rollback(c)
  BY <1>2, RollbackStep
<1>3. CASE ~Rollback(c)
  <2>1. /\ Revalidates(c) /\ UNCHANGED <<runs, journal, failures, writer>>
        /\ conn' = [conn EXCEPT ![c] = k]
    BY <1>3 DEF SelectRun
  <2>2. /\ k \in Connection /\ k.pc = "checked"
        /\ k = [conn[c] EXCEPT !.pc = "checked"]
    BY <1>1 DEF Connection, InTransaction
  <2>3. /\ k.run = r /\ k.held = conn[c].held /\ k.expected = conn[c].expected
        /\ k.target = conn[c].target /\ k.failure = conn[c].failure
        /\ k.pending = conn[c].pending /\ k.row = conn[c].row
        /\ k.entries = conn[c].entries /\ k.recorded = conn[c].recorded
    BY <1>1 DEF Connection
  <2> HIDE DEF k
  <2>4. Held(k)
    BY <1>1, <2>2, <2>3 DEF Held
  <2>5. Accumulated(k)
    BY <1>1, <2>1, <2>2, <2>3 DEF Accumulated, Validated, Revalidates
  <2>6. k.pc \in InTransaction
    BY <2>2 DEF InTransaction
  <2> QED  BY <1>1, <2>1, <2>2, <2>4, <2>5, <2>6, LocalStep
<1> QED  BY <1>2, <1>3

\* Inserting the entry, uncommitted, preserves the invariant.
LEMMA AppendJournalStep ==
  ASSUME IInv, NEW c \in Conn, AppendJournal(c)
  PROVE  IInv'
<1> DEFINE r == conn[c].run
           entered == Append(conn[c].entries,
                             JournalEntry(conn[c].entries, conn[c].row, conn[c].target))
           k == [conn[c] EXCEPT !.pc = "journaled", !.entries = entered]
<1>1. /\ conn[c] \in Connection /\ conn[c].pc = "checked" /\ writer = c
      /\ Held(conn[c]) /\ Accumulated(conn[c])
  BY DEF AppendJournal, IInv, TypeOK, LockInv, HeldInv, TransactionInv, InTransaction
<1>2. /\ r \in Run /\ runs[r] \in Row
      /\ conn[c].row = runs[r] /\ conn[c].entries = journal[r]
  BY <1>1 DEF Held, Accumulated, IInv, TypeOK
<1>3. entered \in Seq(Entry)
  BY <1>1, <1>2, EntryTyped DEF Connection
<1>4. /\ UNCHANGED <<runs, journal, failures, writer>>
      /\ conn' = [conn EXCEPT ![c] = k]
  BY <1>1 DEF AppendJournal, IInv, TypeOK
<1> HIDE DEF entered
<1>5. k \in Connection /\ k.pc = "journaled" /\ k.entries = entered
  BY <1>1, <1>3 DEF Connection, InTransaction
<1>6. /\ k.run = r /\ k.held = conn[c].held /\ k.expected = conn[c].expected
      /\ k.target = conn[c].target /\ k.failure = conn[c].failure
      /\ k.pending = conn[c].pending /\ k.row = conn[c].row
      /\ k.recorded = conn[c].recorded
  BY <1>1 DEF Connection
<1> HIDE DEF k
<1>7. Held(k)
  BY <1>1, <1>5, <1>6 DEF Held
<1>8. Accumulated(k)
  BY <1>1, <1>2, <1>5, <1>6 DEF Accumulated, Validated, entered
<1>9. k.pc \in InTransaction
  BY <1>5 DEF InTransaction
<1> QED  BY <1>1, <1>4, <1>5, <1>7, <1>8, <1>9, LocalStep

\* Updating the row, uncommitted, preserves the invariant.
LEMMA UpdateRunStep ==
  ASSUME IInv, NEW c \in Conn, UpdateRun(c)
  PROVE  IInv'
<1> DEFINE r == conn[c].run
           moved == TransitionedRow(conn[c].row, conn[c].target)
           k == [conn[c] EXCEPT !.pc = "updated", !.row = moved]
<1>1. /\ conn[c] \in Connection /\ conn[c].pc = "journaled" /\ writer = c
      /\ Held(conn[c]) /\ Accumulated(conn[c])
  BY DEF UpdateRun, IInv, TypeOK, LockInv, HeldInv, TransactionInv, InTransaction
<1>2. CASE Rollback(c)
  BY <1>2, RollbackStep
<1>3. CASE ~Rollback(c)
  <2>1. r \in Run /\ conn[c].row \in Row /\ conn[c].row = runs[r]
    BY <1>1 DEF Held, Accumulated, IInv, TypeOK
  <2>2. moved \in Row
    BY <1>1, <2>1, MovedRow DEF Connection
  <2>3. /\ UNCHANGED <<runs, journal, failures, writer>>
        /\ conn' = [conn EXCEPT ![c] = k]
    BY <1>1, <1>3 DEF UpdateRun, IInv, TypeOK
  <2> HIDE DEF moved
  <2>4. k \in Connection /\ k.pc = "updated" /\ k.row = moved
    BY <1>1, <2>2 DEF Connection, InTransaction
  <2>5. /\ k.run = r /\ k.held = conn[c].held /\ k.expected = conn[c].expected
        /\ k.target = conn[c].target /\ k.failure = conn[c].failure
        /\ k.pending = conn[c].pending /\ k.entries = conn[c].entries
        /\ k.recorded = conn[c].recorded
    BY <1>1 DEF Connection
  <2> HIDE DEF k
  <2>6. Held(k)
    BY <1>1, <2>4, <2>5 DEF Held
  <2>7. Accumulated(k)
    BY <1>1, <2>1, <2>4, <2>5 DEF Accumulated, Validated, moved
  <2>8. k.pc \in InTransaction
    BY <2>4 DEF InTransaction
  <2> QED  BY <1>1, <2>3, <2>4, <2>6, <2>7, <2>8, LocalStep
<1> QED  BY <1>2, <1>3

\* Inserting the failure record, uncommitted, preserves the invariant.
LEMMA InsertFailureStep ==
  ASSUME IInv, NEW c \in Conn, InsertFailure(c)
  PROVE  IInv'
<1> DEFINE r == conn[c].run
           counted == IF conn[c].failure THEN conn[c].recorded + 1 ELSE conn[c].recorded
           k == [conn[c] EXCEPT !.pc = "complete", !.recorded = counted]
<1>1. /\ conn[c] \in Connection /\ conn[c].pc = "updated" /\ writer = c
      /\ Held(conn[c]) /\ Accumulated(conn[c])
  BY DEF InsertFailure, IInv, TypeOK, LockInv, HeldInv, TransactionInv, InTransaction
<1>2. counted \in Nat
  BY <1>1 DEF Connection
<1>3. /\ UNCHANGED <<runs, journal, failures, writer>>
      /\ conn' = [conn EXCEPT ![c] = k]
  BY <1>1 DEF InsertFailure, IInv, TypeOK
<1> HIDE DEF counted
<1>4. k \in Connection /\ k.pc = "complete" /\ k.recorded = counted
  BY <1>1, <1>2 DEF Connection, InTransaction
<1>5. /\ k.run = r /\ k.held = conn[c].held /\ k.expected = conn[c].expected
      /\ k.target = conn[c].target /\ k.failure = conn[c].failure
      /\ k.pending = conn[c].pending /\ k.row = conn[c].row
      /\ k.entries = conn[c].entries
  BY <1>1 DEF Connection
<1> HIDE DEF k
<1>6. Held(k)
  BY <1>1, <1>4, <1>5 DEF Held
<1>7. Accumulated(k)
  BY <1>1, <1>4, <1>5 DEF Accumulated, Validated, counted
<1>8. k.pc \in InTransaction
  BY <1>4 DEF InTransaction
<1> QED  BY <1>1, <1>3, <1>4, <1>6, <1>7, <1>8, LocalStep

\* COMMIT preserves the invariant: the three tables change together.
LEMMA CommitStep ==
  ASSUME IInv, NEW c \in Conn, Commit(c)
  PROVE  IInv'
<1> DEFINE r == conn[c].run
           k == conn[c]
           next == IF k.row.version < MaxVersion
                   THEN [Idle EXCEPT !.pc = "read", !.run = r, !.held = k.row]
                   ELSE Idle
<1>1. /\ k \in Connection /\ k.pc = "complete" /\ writer = c
      /\ Held(k) /\ Accumulated(k)
  BY DEF Commit, IInv, TypeOK, LockInv, HeldInv, TransactionInv, InTransaction
<1>2. /\ r \in Run /\ runs[r] \in Row /\ journal[r] \in Seq(Entry)
      /\ failures[r] \in Nat /\ k.target \in LifecycleState
      /\ k.failure \in BOOLEAN /\ k.pending \in BOOLEAN
  BY <1>1 DEF Held, IInv, TypeOK, Connection
<1>3. /\ TransitionLegal(runs[r].state, k.target, k.failure, k.pending)
      /\ k.row = TransitionedRow(runs[r], k.target)
      /\ k.entries = Append(journal[r], JournalEntry(journal[r], runs[r], k.target))
      /\ k.recorded = IF k.failure THEN failures[r] + 1 ELSE failures[r]
  BY <1>1 DEF Accumulated, Validated
<1>4. /\ k.row \in Row /\ k.row # NoRow
      /\ k.row.version = runs[r].version + 1 /\ k.row.state = k.target
  BY <1>2, <1>3, MovedRow
<1>5. k.entries \in Seq(Entry) /\ Accounts(k.entries, k.row)
  <2>1. Accounts(journal[r], runs[r])
    BY <1>2 DEF IInv, JournalMatchesRun
  <2>2. Accounts(k.entries, k.row)
    <3> DEFINE row == runs[r]
               entries == journal[r]
    <3>1. /\ row \in Row /\ entries \in Seq(Entry) /\ Accounts(entries, row)
          /\ TransitionLegal(row.state, k.target, k.failure, k.pending)
      BY <1>2, <1>3, <2>1
    <3> HIDE DEF row, entries
    <3>2. Accounts(Append(entries, JournalEntry(entries, row, k.target)),
                   TransitionedRow(row, k.target))
      BY <1>2, <3>1, AccountsExtended
    <3> QED  BY <1>3, <3>2 DEF row, entries
  <2>3. JournalEntry(journal[r], runs[r], k.target) \in Entry
    BY <1>2, EntryTyped, SMTT(20)
  <2> QED  BY <1>2, <1>3, <2>2, <2>3
<1>6. /\ runs' \in [Run -> Row \union {NoRow}] /\ runs'[r] = k.row
      /\ journal' \in [Run -> Seq(Entry)] /\ journal'[r] = k.entries
      /\ failures' \in [Run -> Nat] /\ failures'[r] = k.recorded
      /\ \A q \in Run \ {r} : /\ runs'[q] = runs[q]
                              /\ journal'[q] = journal[q]
                              /\ failures'[q] = failures[q]
      /\ writer' = NoConn
  BY <1>2, <1>3, <1>4, <1>5 DEF Commit, IInv, TypeOK
<1>7. /\ next \in Connection /\ next.pc \in {"idle", "read"}
      /\ next.pc # "idle" => next.run = r /\ next.held = k.row
  BY <1>2, <1>4, IdleTyped DEF Connection
<1>8. conn' = [conn EXCEPT ![c] = next]
  BY DEF Commit
<1> HIDE DEF next
<1>9. /\ conn' \in [Conn -> Connection] /\ conn'[c] = next
      /\ \A d \in Conn \ {c} : conn'[d] = conn[d]
  BY <1>7, <1>8 DEF IInv, TypeOK
<1>10. TypeOK'
  BY <1>6, <1>9 DEF TypeOK
<1>11. \A d \in Conn : conn'[d].pc \notin InTransaction
  BY <1>1, <1>7, <1>9 DEF IInv, LockInv, InTransaction
<1>12. LockInv'
  BY <1>6, <1>11, StoreAssumption DEF LockInv
<1>13. TransactionInv'
  BY <1>11 DEF TransactionInv, Accumulated, InTransaction
<1>14. HeldInv'
  <2> SUFFICES ASSUME NEW d \in Conn PROVE Held(conn[d])'
    BY DEF HeldInv
  <2>1. CASE d = c
    <3>1. k.row.version \in Nat
      BY <1>4 DEF Row
    <3> QED  BY <2>1, <3>1, <1>2, <1>4, <1>6, <1>7, <1>9 DEF Held
  <2>2. CASE d # c
    <3>1. Held(conn[d]) /\ conn'[d] = conn[d]
      BY <2>2, <1>9 DEF IInv, HeldInv
    <3>2. CASE conn[d].run = r
      <4>1. conn[d].held \in Row => conn[d].held.version \in Nat
        BY DEF Row
      <4>2. runs[r].version \in Nat
        BY <1>2 DEF Row
      <4> QED  BY <3>1, <3>2, <4>1, <4>2, <1>4, <1>6 DEF Held
    <3>3. CASE conn[d].run # r
      BY <3>1, <3>3, <1>6 DEF Held
    <3> QED  BY <3>2, <3>3
  <2> QED  BY <2>1, <2>2
<1>15. JournalMatchesRun'
  <2> SUFFICES ASSUME NEW q \in Run PROVE Accounts(journal'[q], runs'[q])
    BY DEF JournalMatchesRun, Accounts
  <2> QED  BY <1>5, <1>6 DEF IInv, JournalMatchesRun
<1>16. FailureRecorded'
  <2>1. runs[r].state # "FAILED" /\ (k.failure <=> k.target = "FAILED")
    BY <1>3 DEF TransitionLegal, validate_transition, ArgumentsLegal,
                TERMINAL_LIFECYCLE_STATES
  <2>2. failures[r] = 0
    BY <2>1, <1>2 DEF IInv, FailureRecorded
  <2>3. failures'[r] = IF runs'[r].state = "FAILED" THEN 1 ELSE 0
    BY <2>1, <2>2, <1>3, <1>4, <1>6
  <2> QED  BY <2>3, <1>6, ZenonT(30) DEF IInv, FailureRecorded
<1> QED  BY <1>10, <1>12, <1>13, <1>14, <1>15, <1>16 DEF IInv

\* Inserting a Run preserves the invariant.
LEMMA InsertRunStep ==
  ASSUME IInv, NEW r \in Run, insert_run(r)
  PROVE  IInv'
<1>1. /\ runs[r] = NoRow /\ runs' = [runs EXCEPT ![r] = NewRow] /\ writer = NoConn
      /\ UNCHANGED <<journal, failures, writer, conn>>
  BY DEF insert_run
<1>2. /\ runs' \in [Run -> Row \union {NoRow}] /\ runs'[r] = NewRow
      /\ \A q \in Run \ {r} : runs'[q] = runs[q]
  BY <1>1, NewRowInRow DEF IInv, TypeOK
<1>3. TypeOK'
  BY <1>1, <1>2 DEF IInv, TypeOK
<1>4. LockInv'
  BY <1>1 DEF IInv, LockInv
<1>5. HeldInv'
  <2> SUFFICES ASSUME NEW d \in Conn PROVE Held(conn[d])'
    BY DEF HeldInv
  <2>1. Held(conn[d]) /\ (conn[d].pc # "idle" => conn[d].run # r)
    BY <1>1 DEF IInv, HeldInv, Held
  <2> QED  BY <2>1, <1>1, <1>2 DEF Held
<1>6. TransactionInv'
  <2>1. \A d \in Conn : conn[d].pc \notin InTransaction
    BY <1>1, StoreAssumption DEF IInv, LockInv
  <2> QED  BY <2>1, <1>1 DEF TransactionInv, Accumulated, InTransaction
<1>7. JournalMatchesRun'
  <2> SUFFICES ASSUME NEW q \in Run PROVE Accounts(journal'[q], runs'[q])
    BY DEF JournalMatchesRun, Accounts
  <2>1. CASE q # r
    BY <2>1, <1>1, <1>2 DEF IInv, JournalMatchesRun
  <2>2. CASE q = r
    <3>1. Accounts(journal[r], NoRow) /\ journal[r] \in Seq(Entry)
      BY <1>1 DEF IInv, TypeOK, JournalMatchesRun
    <3>2. Len(journal[r]) = 0
      BY <3>1 DEF Accounts, NoRow
    <3>3. journal[r] = <<>>
      BY <3>1, <3>2
    <3>4. NewRow.version = 0 /\ NewRow.state = "CREATED" /\ NewRow # NoRow
      BY NewRowInRow DEF NewRow
    <3>5. 1..Len(journal[r]) = {}
      BY <3>2
    <3>6. Accounts(journal[r], NewRow)
      BY <3>2, <3>3, <3>4, <3>5 DEF Accounts
    <3> QED  BY <2>2, <3>6, <1>1, <1>2
  <2> QED  BY <2>1, <2>2
<1>8. FailureRecorded'
  <2>1. failures[r] = 0 /\ NewRow.state # "FAILED"
    BY <1>1 DEF IInv, FailureRecorded, NoRow, NewRow
  <2> QED  BY <2>1, <1>1, <1>2 DEF IInv, FailureRecorded
<1> QED  BY <1>3, <1>4, <1>5, <1>6, <1>7, <1>8 DEF IInv

\* Empty tables and idle connections satisfy the invariant.
LEMMA InitIInv == Init => IInv
<1> SUFFICES ASSUME Init PROVE IInv
  OBVIOUS
<1>1. TypeOK
  BY IdleTyped DEF Init, TypeOK
<1>2. LockInv
  BY IdleTyped, StoreAssumption DEF Init, LockInv, InTransaction
<1>3. HeldInv
  BY IdleTyped DEF Init, HeldInv, Held
<1>4. TransactionInv
  BY IdleTyped DEF Init, TransactionInv, Accumulated
<1>5. Accounts(<<>>, NoRow)
  BY DEF Accounts, NoRow
<1>6. JournalMatchesRun
  BY <1>5 DEF Init, JournalMatchesRun
<1>7. FailureRecorded
  BY DEF Init, FailureRecorded, NoRow
<1> QED  BY <1>1, <1>2, <1>3, <1>4, <1>6, <1>7 DEF IInv

\* Every step preserves the invariant.
LEMMA NextIInv == IInv /\ [Next]_vars => IInv'
<1> SUFFICES ASSUME IInv, [Next]_vars PROVE IInv'
  OBVIOUS
<1>1. ASSUME NEW r \in Run, insert_run(r) PROVE IInv'
  BY <1>1, InsertRunStep
<1>2. ASSUME NEW c \in Conn, NEW r \in Run, get_run(c, r) PROVE IInv'
  BY <1>2, GetRunStep
<1>3. ASSUME NEW c \in Conn, Begin(c) PROVE IInv'
  BY <1>3, BeginStep DEF Begin
<1>4. ASSUME NEW c \in Conn, BusyTimeout(c) PROVE IInv'
  BY <1>4, BusyTimeoutStep
<1>5. ASSUME NEW c \in Conn, Statement(c) PROVE IInv'
  BY <1>5, SelectRunStep, AppendJournalStep, UpdateRunStep, InsertFailureStep,
     CommitStep DEF Statement
<1>6. ASSUME NEW c \in Conn, Abort(c) PROVE IInv'
  BY <1>6, RollbackStep DEF Abort
<1>7. CASE UNCHANGED vars
  BY <1>7 DEF vars, IInv, TypeOK, LockInv, HeldInv, Held, TransactionInv,
              Accumulated, Validated, JournalMatchesRun, FailureRecorded
<1> QED  BY <1>1, <1>2, <1>3, <1>4, <1>5, <1>6, <1>7 DEF Next

-----------------------------------------------------------------------------
(* The theorems.                                                           *)

\* The inductive invariant always holds: at every point of every transaction the
\* connection has accumulated exactly what apply_transition is to publish.
THEOREM Invariant == Spec => []IInv
  BY InitIInv, NextIInv, PTL DEF Spec

\* The tables, the lock and the connections stay well typed.
THEOREM TypeCorrect == Spec => []TypeOK
  BY Invariant, PTL DEF IInv

\* However the callers interleave and whichever statement raises or process
\* dies, the committed journal accounts for the committed row.
THEOREM JournalAlwaysMatches == Spec => []JournalMatchesRun
  BY Invariant, PTL DEF IInv

\* A Run has exactly one failure record when it is FAILED and none otherwise.
THEOREM FailureAlwaysRecorded == Spec => []FailureRecorded
  BY Invariant, PTL DEF IInv

\* Only an insert and a commit touch the tables.
LEMMA TablesChange ==
  ASSUME Next, ~\E r \in Run : insert_run(r), ~\E c \in Conn : Commit(c)
  PROVE  UNCHANGED <<runs, journal, failures>>
<1>1. ASSUME NEW c \in Conn, NEW r \in Run, get_run(c, r)
      PROVE  UNCHANGED <<runs, journal, failures>>
  BY <1>1, SMTT(20) DEF get_run
<1>2. ASSUME NEW c \in Conn, Begin(c) PROVE UNCHANGED <<runs, journal, failures>>
  BY <1>2 DEF Begin, BeginImmediate
<1>3. ASSUME NEW c \in Conn, BusyTimeout(c) PROVE UNCHANGED <<runs, journal, failures>>
  BY <1>3 DEF BusyTimeout
<1>4. ASSUME NEW c \in Conn, Statement(c) PROVE UNCHANGED <<runs, journal, failures>>
  BY <1>4 DEF Statement, SelectRun, AppendJournal, UpdateRun, InsertFailure, Rollback
<1>5. ASSUME NEW c \in Conn, Abort(c) PROVE UNCHANGED <<runs, journal, failures>>
  BY <1>5 DEF Abort, Rollback
<1> QED  BY <1>1, <1>2, <1>3, <1>4, <1>5 DEF Next

\* Which rows a step can change, and how.
LEMMA RowChanges ==
  ASSUME IInv, Next, NEW r \in Run, runs'[r] # runs[r]
  PROVE  \/ insert_run(r)
         \/ \E c \in Conn : Commit(c) /\ conn[c].run = r
<1>1. CASE \E q \in Run : insert_run(q)
  BY <1>1 DEF insert_run, IInv, TypeOK
<1>2. CASE \E c \in Conn : Commit(c)
  BY <1>2 DEF Commit, IInv, TypeOK
<1> QED  BY <1>1, <1>2, TablesChange

\* What a commit publishes: the legal move of the row its caller decided from.
LEMMA CommitMoves ==
  ASSUME IInv, NEW c \in Conn, Commit(c)
  PROVE  LET k == conn[c] IN
         /\ writer = c /\ k.run \in Run /\ runs[k.run] # NoRow
         /\ k.held = runs[k.run]
         /\ k.target \in LifecycleState
         /\ validate_transition(runs[k.run].state, k.target)
         /\ runs' = [runs EXCEPT ![k.run] = TransitionedRow(runs[k.run], k.target)]
         /\ failures' = [failures EXCEPT ![k.run] =
                            IF k.target = "FAILED" THEN @ + 1 ELSE @]
<1> DEFINE k == conn[c]
<1>1. /\ k \in Connection /\ k.pc = "complete" /\ writer = c
      /\ Held(k) /\ Accumulated(k)
  BY DEF Commit, IInv, TypeOK, LockInv, HeldInv, TransactionInv, InTransaction
<1>2. /\ k.run \in Run /\ runs[k.run] # NoRow /\ k.target \in LifecycleState
      /\ k.held = runs[k.run]
  BY <1>1 DEF Held, Accumulated, Validated, Connection
<1>3. /\ validate_transition(runs[k.run].state, k.target)
      /\ k.failure <=> k.target = "FAILED"
  BY <1>1 DEF Accumulated, Validated, TransitionLegal, ArgumentsLegal
<1>4. /\ k.row = TransitionedRow(runs[k.run], k.target)
      /\ k.recorded = IF k.failure THEN failures[k.run] + 1 ELSE failures[k.run]
  BY <1>1 DEF Accumulated
<1>5. failures' = [failures EXCEPT ![k.run] = IF k.target = "FAILED" THEN @ + 1 ELSE @]
  BY <1>2, <1>3, <1>4 DEF Commit
<1> QED  BY <1>1, <1>2, <1>3, <1>4, <1>5 DEF Commit

\* For any number of callers, no move is made from a row that is not the
\* committed one: a stale caller can only be refused.
THEOREM NeverStale == Spec => NoStaleCommit
<1>1. IInv /\ [Next]_vars =>
        [\A r \in Run :
            runs[r] # NoRow /\ runs'[r] # runs[r] =>
              \E c \in Conn : writer = c /\ conn[c].run = r /\ conn[c].held = runs[r]]_vars
  <2> SUFFICES ASSUME IInv, Next, NEW r \in Run, runs[r] # NoRow, runs'[r] # runs[r]
               PROVE  \E c \in Conn : /\ writer = c /\ conn[c].run = r
                                       /\ conn[c].held = runs[r]
    OBVIOUS
  <2>1. ~insert_run(r)
    BY DEF insert_run
  <2>2. PICK c \in Conn : Commit(c) /\ conn[c].run = r
    BY <2>1, RowChanges
  <2> QED  BY <2>2, CommitMoves
<1> QED  BY <1>1, Invariant, PTL DEF Spec, NoStaleCommit

\* The statements of a transaction, in the order apply_transition executes them.
Places == <<"begun", "checked", "journaled", "updated", "complete">>

\* c's transaction goes on to its next statement, or ends and gives up the lock.
GoesOn(c) ==
    /\ writer' = c
    /\ \E i \in 1..4 : conn[c].pc = Places[i] /\ conn'[c].pc = Places[i + 1]

Ends(c) == writer' = NoConn /\ conn'[c].pc \in {"idle", "read"}

\* Nobody takes the write lock from who holds it, and who holds it can do no
\* more than five things before it gives it up: each of its steps is the next
\* statement, or the end.
HolderAdvances ==
    [][\A c \in Conn :
          writer = c => GoesOn(c) \/ Ends(c) \/ (writer' = c /\ conn'[c] = conn[c])]_vars

\* For any number of connections.  This is what WriteLockReleased rests on, beside
\* the fairness by which the statements of a transaction go on.
THEOREM TransactionsAdvance == Spec => HolderAdvances
<1>1. ASSUME IInv, NEW c \in Conn, writer = c, Next
      PROVE  GoesOn(c) \/ Ends(c) \/ (writer' = c /\ conn'[c] = conn[c])
  <2> DEFINE Moves == GoesOn(c) \/ Ends(c) \/ (writer' = c /\ conn'[c] = conn[c])
  <2> SUFFICES Moves
    OBVIOUS
  <2>1. /\ conn \in [Conn -> Connection] /\ writer # NoConn
        /\ \A x \in Conn : conn[x].pc \in InTransaction <=> writer = x
    BY <1>1, StoreAssumption DEF IInv, TypeOK, LockInv
  <2>2. conn[c].pc \in InTransaction /\ \A x \in Conn \ {c} : conn[x].pc \notin InTransaction
    BY <1>1, <2>1
  <2>3. CASE \E r \in Run : insert_run(r)
    BY <1>1, <2>3 DEF insert_run
  <2>4. ASSUME NEW x \in Conn, NEW r \in Run, get_run(x, r)
        PROVE  Moves
    <3> DEFINE k == [Idle EXCEPT !.pc = "read", !.run = r, !.held = runs[r]]
    <3>1. conn[x].pc = "idle" /\ conn' = [conn EXCEPT ![x] = k] /\ writer' = writer
      BY <2>4 DEF get_run
    <3> HIDE DEF k
    <3> QED  BY <1>1, <2>1, <2>2, <3>1 DEF InTransaction
  <2>5. ASSUME NEW x \in Conn
        PROVE  ~Begin(x) /\ (BusyTimeout(x) => Moves) /\ (x # c => ~Statement(x))
    <3>1. ~Begin(x)
      <4>1. Begin(x) => writer = NoConn
        BY DEF Begin, BeginImmediate
      <4> QED  BY <2>1, <4>1, Zenon
    <3>2. ASSUME BusyTimeout(x) PROVE Moves
      <4> DEFINE k == Idle
      <4>1. conn[x].pc = "read" /\ conn' = [conn EXCEPT ![x] = k] /\ writer' = writer
        BY <3>2 DEF BusyTimeout
      <4> HIDE DEF k
      <4> QED  BY <1>1, <2>1, <2>2, <4>1 DEF InTransaction
    <3>3. Statement(x) => conn[x].pc \in InTransaction
      BY Zenon DEF Statement, SelectRun, AppendJournal, UpdateRun, InsertFailure, Commit,
                   InTransaction
    <3> QED  BY <2>2, <3>1, <3>2, <3>3
  <2>6. ASSUME NEW x \in Conn \ {c}, Abort(x)
        PROVE  Moves
    BY <1>1, <2>1, <2>6 DEF Abort, Rollback
  <2>7. CASE Rollback(c)
    BY <1>1, <2>1, <2>7 DEF Rollback, Ends, Idle
  <2>8. CASE Statement(c) /\ ~Rollback(c)
    <3>1. CASE Commit(c)
      BY <2>1, <3>1 DEF Commit, Ends, Idle
    <3>2. CASE SelectRun(c)
      <4>1. /\ conn[c].pc = "begun" /\ writer' = writer
            /\ conn' = [conn EXCEPT ![c].pc = "checked"]
        BY <2>8, <3>2, Zenon DEF SelectRun
      <4> QED  BY <1>1, <2>1, <4>1 DEF GoesOn, Places
    <3>3. CASE AppendJournal(c)
      BY <1>1, <2>1, <3>3 DEF AppendJournal, GoesOn, Places
    <3>4. CASE UpdateRun(c)
      <4> DEFINE moved == TransitionedRow(conn[c].row, conn[c].target)
      <4>1. /\ conn[c].pc = "journaled" /\ writer' = writer
            /\ conn' = [conn EXCEPT ![c].pc = "updated", ![c].row = moved]
        BY <2>1, <2>8, <3>4 DEF UpdateRun
      <4> HIDE DEF moved
      <4> QED  BY <1>1, <2>1, <4>1 DEF GoesOn, Places
    <3>5. CASE InsertFailure(c)
      BY <1>1, <2>1, <3>5 DEF InsertFailure, GoesOn, Places
    <3> QED  BY <2>8, <3>1, <3>2, <3>3, <3>4, <3>5 DEF Statement
  <2>9. Abort(c) => Rollback(c)
    BY DEF Abort
  <2> HIDE DEF Moves
  <2> QED  BY <1>1, <2>3, <2>4, <2>5, <2>6, <2>7, <2>8, <2>9, Zenon DEF Next
<1>2. IInv /\ [Next]_vars =>
        [\A c \in Conn :
            writer = c => GoesOn(c) \/ Ends(c) \/ (writer' = c /\ conn'[c] = conn[c])]_vars
  BY <1>1
<1> QED  BY <1>2, Invariant, PTL DEF Spec, HolderAdvances

\* The two copies of the transition table, the store's and the abstract
\* lifecycle's, are one.
LEMMA SameLifecycle ==
  /\ Atomic!NoRow = NoRow /\ Atomic!NewRow = NewRow
  /\ Atomic!LifecycleState = LifecycleState
  /\ \A current, target : Atomic!validate_transition(current, target)
                             <=> validate_transition(current, target)
  /\ \A row, target : Atomic!TransitionedRow(row, target) = TransitionedRow(row, target)
<1>1. Atomic!TRANSITIONS = TRANSITIONS
  BY DEF Atomic!TRANSITIONS, TRANSITIONS, Atomic!LifecycleState, LifecycleState,
         Atomic!Stop, Stop, Atomic!RECOVERY_RESTART_TARGETS, RECOVERY_RESTART_TARGETS
<1>2. /\ Atomic!NoRow = NoRow /\ Atomic!NewRow = NewRow
      /\ Atomic!LifecycleState = LifecycleState
      /\ Atomic!TERMINAL_LIFECYCLE_STATES = TERMINAL_LIFECYCLE_STATES
  BY DEF Atomic!NoRow, NoRow, Atomic!NewRow, NewRow, Atomic!LifecycleState,
         LifecycleState, Atomic!TERMINAL_LIFECYCLE_STATES, TERMINAL_LIFECYCLE_STATES
<1>3. \A current, target : Atomic!validate_transition(current, target)
                             <=> validate_transition(current, target)
  BY <1>1, <1>2 DEF Atomic!validate_transition, validate_transition,
                    Atomic!can_transition, can_transition
<1>4. \A row, target : Atomic!TransitionedRow(row, target) = TransitionedRow(row, target)
  BY <1>2 DEF Atomic!TransitionedRow, TransitionedRow
<1> QED  BY <1>2, <1>3, <1>4

\* Statement by statement, with any number of callers, failing statements and
\* dying processes, the store implements the abstract lifecycle of a Run.
THEOREM LifecycleRefinement == Spec => ImplementsRunLifecycle
<1>1. Init => Atomic!Init
  BY SameLifecycle DEF Init, Atomic!Init
<1>2. IInv /\ [Next]_vars => [Atomic!Next]_(Atomic!vars)
  <2> SUFFICES ASSUME IInv, Next, ~UNCHANGED <<runs, failures>>
               PROVE  Atomic!Next
    BY DEF Atomic!vars, vars
  <2>1. CASE \E r \in Run : insert_run(r)
    <3>1. PICK r \in Run : insert_run(r)
      BY <2>1
    <3>2. Atomic!Insert(r)
      BY <3>1, SameLifecycle DEF insert_run, Atomic!Insert
    <3> QED  BY <3>2 DEF Atomic!Next
  <2>2. CASE \E c \in Conn : Commit(c)
    <3>1. PICK c \in Conn : Commit(c)
      BY <2>2
    <3>2. Atomic!Transition(conn[c].run, conn[c].target)
      BY <3>1, CommitMoves, SameLifecycle DEF Atomic!Transition
    <3> QED  BY <3>1, <3>2, CommitMoves, SameLifecycle DEF Atomic!Next
  <2> QED  BY <2>1, <2>2, TablesChange
<1> QED  BY <1>1, <1>2, Invariant, PTL DEF Spec, ImplementsRunLifecycle, Atomic!Spec

-----------------------------------------------------------------------------
(* The same, with what each caller holds.                                  *)

\* A step in which one caller keeps what it holds, drops it, or holds a row that
\* is committed by now.
LEMMA LearnsRow ==
  ASSUME NEW c \in Conn,
         \A d \in Conn \ {c} : conn'[d] = conn[d],
         \/ conn'[c].pc = "idle"
         \/ conn[c].pc # "idle" /\ conn'[c].run = conn[c].run /\ conn'[c].held = conn[c].held
         \/ /\ conn'[c].run \in Run /\ runs'[conn'[c].run] # NoRow
            /\ conn'[c].held = runs'[conn'[c].run]
  PROVE  Atomic!Learns(c)
<1> DEFINE seen == Atomic!Committed'
<1>1. \A r \in Run : runs'[r] # NoRow => <<r, runs'[r]>> \in seen
  BY SameLifecycle DEF Atomic!Committed
<1> HIDE DEF seen
<1>2. ASSUME NEW d \in Conn, conn'[d].pc # "idle"
      PROVE  <<d, <<conn'[d].run, conn'[d].held>>>> \in Known \union ({c} \X seen)
  <2>1. CASE d # c \/ (conn[c].pc # "idle" /\ conn'[c].run = conn[c].run
                                          /\ conn'[c].held = conn[c].held)
    <3>1. conn[d].pc # "idle" /\ conn'[d].run = conn[d].run /\ conn'[d].held = conn[d].held
      BY <1>2, <2>1
    <3> QED  BY <3>1 DEF Known
  <2>2. CASE /\ d = c
             /\ conn'[c].run \in Run /\ runs'[conn'[c].run] # NoRow
             /\ conn'[c].held = runs'[conn'[c].run]
    BY <1>1, <2>2
  <2> QED  BY <1>2, <2>1, <2>2
<1>3. Known' \subseteq Known \union ({c} \X seen)
  BY <1>2 DEF Known
<1> QED  BY <1>3 DEF Atomic!Learns, seen

\* Whatever a caller does but commit, it holds on to its row or drops it.
LEMMA KeepsRow ==
  ASSUME IInv, NEW c \in Conn,
         \/ Begin(c) \/ BusyTimeout(c) \/ Abort(c)
         \/ SelectRun(c) \/ AppendJournal(c) \/ UpdateRun(c) \/ InsertFailure(c)
  PROVE  /\ \A d \in Conn \ {c} : conn'[d] = conn[d]
         /\ \/ conn'[c].pc = "idle"
            \/ conn[c].pc # "idle" /\ conn'[c].run = conn[c].run /\ conn'[c].held = conn[c].held
<1>1. conn \in [Conn -> Connection] /\ Idle.pc = "idle"
  BY DEF IInv, TypeOK, Idle
<1>2. CASE BusyTimeout(c) \/ Abort(c) \/ Rollback(c)
  BY <1>1, <1>2 DEF BusyTimeout, Abort, Rollback
<1>3. ASSUME NEW target \in LifecycleState, NEW failure \in BOOLEAN, NEW pending \in BOOLEAN,
             BeginImmediate(c, target, failure, pending)
      PROVE  /\ \A d \in Conn \ {c} : conn'[d] = conn[d]
             /\ conn[c].pc # "idle" /\ conn'[c].run = conn[c].run /\ conn'[c].held = conn[c].held
  <2> DEFINE r == conn[c].run
             new == [conn[c] EXCEPT !.pc = "begun", !.expected = conn[c].held.version,
                                    !.target = target, !.failure = failure,
                                    !.pending = pending, !.row = runs[r],
                                    !.entries = journal[r], !.recorded = failures[r]]
  <2>1. new.run = conn[c].run /\ new.held = conn[c].held
    BY <1>1 DEF Connection
  <2>2. conn' = [conn EXCEPT ![c] = new] /\ conn[c].pc = "read"
    BY <1>1, <1>3 DEF BeginImmediate
  <2> HIDE DEF new
  <2>3. conn'[c] = new /\ \A d \in Conn \ {c} : conn'[d] = conn[d]
    BY <1>1, <2>2
  <2> QED  BY <2>1, <2>2, <2>3
<1>4. CASE SelectRun(c) /\ ~Rollback(c)
  BY <1>1, <1>4 DEF SelectRun, Connection
<1>5. CASE AppendJournal(c)
  BY <1>1, <1>5 DEF AppendJournal, Connection
<1>6. CASE UpdateRun(c) /\ ~Rollback(c)
  BY <1>1, <1>6 DEF UpdateRun, Connection
<1>7. CASE InsertFailure(c)
  BY <1>1, <1>7 DEF InsertFailure, Connection
<1> QED  BY <1>2, <1>3, <1>4, <1>5, <1>6, <1>7 DEF Begin

\* For any number of callers, the statements of apply_transition are one step to
\* them, from a row its caller holds and nobody has replaced.
THEOREM Refinement == Spec => ImplementsAtomicStore
<1>1. Init => Atomic!AtomicInit
  BY SameLifecycle DEF Init, Idle, Known, Atomic!AtomicInit, Atomic!Init
<1>2. IInv /\ [Next]_vars => [Atomic!AtomicNext]_(Atomic!atomicVars)
  <2> SUFFICES ASSUME IInv, Next
               PROVE  Atomic!AtomicNext \/ UNCHANGED <<runs, failures, Known>>
    BY DEF Atomic!atomicVars, vars, Known
  <2>1. ASSUME NEW r \in Run, insert_run(r)
        PROVE  Atomic!AtomicNext
    <3>1. Atomic!Insert(r) /\ Known' = Known
      BY <2>1, SameLifecycle DEF insert_run, Atomic!Insert, Known
    <3> QED  BY <3>1 DEF Atomic!AtomicNext, Atomic!insert_run
  <2>2. ASSUME NEW c \in Conn, Commit(c)
        PROVE  Atomic!AtomicNext
    <3> DEFINE r == conn[c].run
               target == conn[c].target
    <3>1. /\ r \in Run /\ conn[c].held = runs[r] /\ target \in LifecycleState
          /\ runs' = [runs EXCEPT ![r] = TransitionedRow(runs[r], target)]
      BY <2>2, CommitMoves
    <3>2. <<c, <<r, runs[r]>>>> \in Known
      BY <2>2, <3>1 DEF Known, Commit
    <3>3. Atomic!Transition(r, target)
      BY <2>2, CommitMoves, SameLifecycle DEF Atomic!Transition
    <3>4. runs'[r] = conn[c].row /\ conn[c].row # NoRow
      <4>1. runs'[r] = conn[c].row
        BY <2>2, <3>1 DEF Commit, IInv, TypeOK
      <4>2. runs'[r] = TransitionedRow(runs[r], target) /\ runs[r] \in Row
        BY <2>2, <3>1, CommitMoves DEF IInv, TypeOK
      <4> QED  BY <3>1, <4>1, <4>2, MovedRow
    <3>5. \A d \in Conn \ {c} : conn'[d] = conn[d]
      BY <2>2 DEF Commit, IInv, TypeOK
    <3>6. \/ conn'[c].pc = "idle"
          \/ conn'[c].run = r /\ conn'[c].held = conn[c].row
      <4>1. conn'[c] = IF conn[c].row.version < MaxVersion
                       THEN [Idle EXCEPT !.pc = "read", !.run = r, !.held = conn[c].row]
                       ELSE Idle
        BY <2>2 DEF Commit, IInv, TypeOK
      <4> QED  BY <4>1 DEF Idle
    <3>7. Atomic!Learns(c)
      BY <3>1, <3>4, <3>5, <3>6, LearnsRow
    <3>8. Atomic!apply_transition(c, r, target)
      BY <3>2, <3>3, <3>7 DEF Atomic!apply_transition
    <3> QED  BY <3>1, <3>8, SameLifecycle DEF Atomic!AtomicNext
  <2>3. ASSUME NEW c \in Conn, NEW r \in Run, get_run(c, r)
        PROVE  Atomic!AtomicNext
    <3>1. conn'[c] = [Idle EXCEPT !.pc = "read", !.run = r, !.held = runs[r]]
          /\ \A d \in Conn \ {c} : conn'[d] = conn[d]
      BY <2>3 DEF get_run, IInv, TypeOK
    <3>2. conn'[c].run = r /\ conn'[c].held = runs[r]
      BY <3>1 DEF Idle
    <3>3. runs[r] # NoRow /\ UNCHANGED <<runs, failures>>
      BY <2>3 DEF get_run
    <3>4. Atomic!Learns(c)
      BY <3>1, <3>2, <3>3, LearnsRow
    <3> QED  BY <3>3, <3>4 DEF Atomic!AtomicNext, Atomic!get_run, Atomic!vars
  <2>4. ASSUME NEW c \in Conn,
               \/ Begin(c) \/ BusyTimeout(c) \/ Abort(c)
               \/ SelectRun(c) \/ AppendJournal(c) \/ UpdateRun(c) \/ InsertFailure(c)
        PROVE  Atomic!AtomicNext
    <3>1. Atomic!Learns(c)
      BY <2>4, KeepsRow, LearnsRow
    <3>2. UNCHANGED <<runs, failures>>
      <4>1. CASE Begin(c)
        BY <4>1 DEF Begin, BeginImmediate
      <4>2. CASE ~Begin(c)
        BY <2>4, <4>2 DEF BusyTimeout, Abort, Rollback, SelectRun, AppendJournal,
                          UpdateRun, InsertFailure
      <4> QED  BY <4>1, <4>2
    <3> QED  BY <3>1, <3>2 DEF Atomic!AtomicNext, Atomic!get_run, Atomic!vars
  <2> QED  BY <2>1, <2>2, <2>3, <2>4 DEF Next, Statement
<1> QED  BY <1>1, <1>2, Invariant, PTL DEF Spec, ImplementsAtomicStore, Atomic!AtomicSpec

-----------------------------------------------------------------------------
(* The report, which reads the tables with one statement each.             *)

\* A journal that reaches to a row: it contains the entry that led to it.
Reaches(entries, row) ==
    /\ row \in Row
    /\ row.version <= Len(entries)
    /\ row.version > 0 => entries[row.version].state_after = row.state
    /\ row.version = 0 => row.state = "CREATED"

\* What a report has read so far is still true of the tables it has yet to read.
ReportInv ==
    /\ ReportTypeOK
    /\ report.pc \in {"journal", "failures", "done"} =>
          /\ report.run \in Run
          /\ Reaches(journal[report.run], report.row)
          /\ report.row.state = "FAILED" => failures[report.run] = 1
    /\ report.pc \in {"failures", "done"} =>
          /\ report.count \in Nat
          /\ report.count >= report.row.version
          /\ (report.count = report.row.version /\ report.count > 0) =>
                report.head[3] = report.row.state
          /\ (report.count > 0 /\ report.head[3] = "FAILED") => failures[report.run] = 1
    /\ ReportReachesItsRun

\* Entries are only ever appended, and the failure record of a FAILED Run stays.
LEMMA TablesGrow ==
  ASSUME IInv, IInv', Next, NEW r \in Run
  PROVE  /\ Len(journal[r]) <= Len(journal'[r])
         /\ \A i \in 1..Len(journal[r]) : journal'[r][i] = journal[r][i]
         /\ failures[r] = 1 => failures'[r] = 1
<1>1. CASE \E c \in Conn : Commit(c)
  <2>1. PICK c \in Conn : Commit(c)
    BY <1>1
  <2> DEFINE k == conn[c]
             e == JournalEntry(journal[k.run], runs[k.run], k.target)
  <2>2. /\ k.run \in Run /\ k.entries = Append(journal[k.run], e)
        /\ journal' = [journal EXCEPT ![k.run] = k.entries]
    BY <2>1, CommitMoves, Zenon DEF Commit, IInv, TransactionInv, Accumulated
  <2>3. journal[r] \in Seq(Entry) /\ journal'[r] \in Seq(Entry)
    BY DEF IInv, TypeOK
  <2>4. journal'[r] = journal[r] \/ journal'[r] = Append(journal[r], e)
    BY <2>2 DEF IInv, TypeOK
  <2> HIDE DEF e
  <2>5. /\ Len(journal[r]) <= Len(journal'[r])
        /\ \A i \in 1..Len(journal[r]) : journal'[r][i] = journal[r][i]
    BY <2>3, <2>4
  <2>6. ASSUME failures[r] = 1 PROVE failures'[r] = 1
    <3>1. runs[r].state = "FAILED"
      BY <2>6 DEF IInv, FailureRecorded
    <3>2. ~validate_transition(runs[r].state, k.target)
      BY <3>1 DEF validate_transition, TERMINAL_LIFECYCLE_STATES
    <3>3. k.run # r
      BY <3>2, <2>1, CommitMoves
    <3> QED  BY <3>3, <2>1, <2>6, CommitMoves DEF IInv, TypeOK
  <2> QED  BY <2>5, <2>6
<1>2. CASE \E q \in Run : insert_run(q)
  <2>1. journal[r] \in Seq(Entry)
    BY DEF IInv, TypeOK
  <2> QED  BY <1>2, <2>1 DEF insert_run
<1>3. CASE UNCHANGED <<runs, journal, failures>>
  <2>1. journal[r] \in Seq(Entry)
    BY DEF IInv, TypeOK
  <2> QED  BY <1>3, <2>1
<1> QED  BY <1>1, <1>2, <1>3, TablesChange

\* A row the tables hold now is reached by the journal they hold now.
LEMMA CommittedReached ==
  ASSUME IInv, NEW r \in Run, runs[r] # NoRow
  PROVE  /\ Reaches(journal[r], runs[r])
         /\ runs[r].state = "FAILED" => failures[r] = 1
<1>1. /\ runs[r] \in Row /\ Accounts(journal[r], runs[r]) /\ journal[r] \in Seq(Entry)
      /\ Len(journal[r]) \in Nat
  BY DEF IInv, TypeOK, JournalMatchesRun
<1>2. /\ Len(journal[r]) = runs[r].version
      /\ journal[r] = <<>> => runs[r].state = "CREATED"
      /\ journal[r] # <<>> => runs[r].state = journal[r][Len(journal[r])].state_after
  BY <1>1 DEF Accounts
<1>3. journal[r] = <<>> <=> Len(journal[r]) = 0
  BY <1>1
<1>4. Reaches(journal[r], runs[r])
  BY <1>1, <1>2, <1>3 DEF Reaches
<1> QED  BY <1>4 DEF IInv, FailureRecorded

\* The journal's last entry, read behind the Run.
LEMMA HeadRead ==
  ASSUME IInv, ReportInv, list_journal_entries
  PROVE  LET r == report.run  n == Len(journal[r]) IN
         /\ n \in Nat /\ report.row.version <= n
         /\ n > 0 => LastHash(journal[r])[3] = journal[r][n].state_after
         /\ (n > 0 /\ journal[r][n].state_after = "FAILED") => failures[r] = 1
<1> DEFINE r == report.run
           n == Len(journal[r])
<1>1. r \in Run /\ Reaches(journal[r], report.row)
  BY DEF list_journal_entries, ReportInv
<1>2. journal[r] \in Seq(Entry) /\ n \in Nat /\ Accounts(journal[r], runs[r])
  BY <1>1 DEF IInv, TypeOK, JournalMatchesRun
<1>3. ASSUME n > 0 PROVE LastHash(journal[r])[3] = journal[r][n].state_after
  <2>1. journal[r] # <<>>
    BY <1>2, <1>3
  <2> QED  BY <2>1 DEF LastHash, Digest
<1>4. ASSUME n > 0, journal[r][n].state_after = "FAILED" PROVE failures[r] = 1
  <2>1. runs[r].state = "FAILED"
    BY <1>2, <1>4 DEF Accounts
  <2> QED  BY <2>1, <1>1 DEF IInv, FailureRecorded
<1> QED  BY <1>1, <1>2, <1>3, <1>4 DEF Reaches

\* Neither a step of the store nor one of the report makes a report run backwards.
LEMMA ReportStep ==
  ASSUME IInv, IInv', ReportInv, [ReportNext]_reportVars
  PROVE  ReportInv'
<1>1. CASE Next /\ UNCHANGED report
  <2>1. CASE report.pc \in {"journal", "failures", "done"}
    <3>1. report.run \in Run /\ Reaches(journal[report.run], report.row)
      BY <2>1 DEF ReportInv
    <3>2. Reaches(journal'[report.run], report.row)
      <4>1. journal[report.run] \in Seq(Entry) /\ journal'[report.run] \in Seq(Entry)
        BY <3>1 DEF IInv, TypeOK
      <4>2. report.row.version \in Nat
        BY <3>1 DEF Reaches, Row
      <4>3. report.row.version > 0 => report.row.version \in 1..Len(journal[report.run])
        BY <3>1, <4>1, <4>2 DEF Reaches
      <4> QED  BY <3>1, <4>1, <4>2, <4>3, <1>1, TablesGrow DEF Reaches
    <3> QED  BY <1>1, <3>1, <3>2, <2>1, TablesGrow DEF ReportInv, ReportReachesItsRun, ReportTypeOK
  <2>2. CASE report.pc \notin {"journal", "failures", "done"}
    BY <1>1, <2>2 DEF ReportInv, ReportReachesItsRun, ReportTypeOK
  <2> QED  BY <2>1, <2>2
<1>2. ASSUME NEW r \in Run, read_run(r), UNCHANGED vars PROVE ReportInv'
  <2>1. report' = [Nothing EXCEPT !.pc = "journal", !.run = r, !.row = runs[r]]
    BY <1>2 DEF read_run
  <2>2. /\ report'.pc = "journal" /\ report'.run = r /\ report'.row = runs[r]
        /\ ReportTypeOK'
    BY <2>1 DEF Nothing, ReportTypeOK, Hash, IInv, TypeOK
  <2>3. journal' = journal /\ failures' = failures
    BY <1>2 DEF vars
  <2>4. Reaches(journal[r], runs[r]) /\ (runs[r].state = "FAILED" => failures[r] = 1)
    BY <1>2, CommittedReached DEF read_run
  <2> QED  BY <2>2, <2>3, <2>4 DEF ReportInv, ReportReachesItsRun
<1>3. CASE list_journal_entries /\ UNCHANGED vars
  <2> DEFINE r == report.run
             n == Len(journal[r])
  <2>1. /\ r \in Run /\ Reaches(journal[r], report.row)
        /\ report.row.state = "FAILED" => failures[r] = 1
    BY <1>3 DEF list_journal_entries, ReportInv
  <2>2. /\ report' = [report EXCEPT !.pc = "failures", !.count = n, !.head = LastHash(journal[r])]
        /\ journal' = journal /\ failures' = failures
    BY <1>3 DEF list_journal_entries, vars
  <2>3. LastHash(journal[r]) \in Hash /\ n \in Nat
    BY <2>1, LastHashTyped DEF IInv, TypeOK
  <2>4. /\ report'.pc = "failures" /\ report'.run = r /\ report'.row = report.row
        /\ report'.count = n /\ report'.head = LastHash(journal[r])
        /\ ReportTypeOK'
    BY <2>2, <2>3 DEF ReportInv, ReportTypeOK
  <2>5. n = report.row.version /\ n > 0 => LastHash(journal[r])[3] = report.row.state
    BY <1>3, <2>1, HeadRead DEF Reaches
  <2>6. n >= report.row.version
    BY <2>1, <2>3 DEF Reaches, Row
  <2>7. n > 0 /\ LastHash(journal[r])[3] = "FAILED" => failures[r] = 1
    BY <1>3, HeadRead
  <2> QED  BY <2>1, <2>2, <2>3, <2>4, <2>5, <2>6, <2>7 DEF ReportInv, ReportReachesItsRun
<1>4. CASE get_failure_records /\ UNCHANGED vars
  <2> DEFINE r == report.run
  <2>1. /\ r \in Run /\ failures[r] \in Nat
        /\ report.pc = "failures"
        /\ report' = [report EXCEPT !.pc = "done", !.failures = failures[r]]
        /\ journal' = journal /\ failures' = failures
    BY <1>4 DEF get_failure_records, ReportInv, vars, IInv, TypeOK
  <2>2. /\ report'.pc = "done" /\ report'.run = r /\ report'.row = report.row
        /\ report'.count = report.count /\ report'.head = report.head
        /\ report'.failures = failures[r]
        /\ ReportTypeOK'
    BY <2>1 DEF ReportInv, ReportTypeOK
  <2>3. /\ Reaches(journal[r], report.row)
        /\ report.row.state = "FAILED" => failures[r] = 1
        /\ report.count \in Nat /\ report.count >= report.row.version
        /\ (report.count = report.row.version /\ report.count > 0) =>
              report.head[3] = report.row.state
        /\ (report.count > 0 /\ report.head[3] = "FAILED") => failures[r] = 1
    BY <2>1 DEF ReportInv
  <2> QED  BY <2>1, <2>2, <2>3 DEF ReportInv, ReportReachesItsRun
<1>5. CASE print_manifest /\ UNCHANGED vars
  <2>1. report'.pc = "none" /\ ReportTypeOK'
    BY <1>5 DEF print_manifest, Nothing, ReportTypeOK, Hash
  <2> QED  BY <2>1 DEF ReportInv, ReportReachesItsRun
<1>6. CASE UNCHANGED reportVars
  BY <1>6 DEF reportVars, vars, ReportInv, ReportReachesItsRun, ReportTypeOK, Reaches
<1> QED  BY <1>1, <1>2, <1>3, <1>4, <1>5, <1>6 DEF ReportNext, build_final_manifest

\* Building reports writes nothing: what is proved of the store holds with them.
THEOREM ReportsOnlyRead == ReportSpec => Spec
<1>1. ReportInit => Init
  BY DEF ReportInit
<1>2. [ReportNext]_reportVars => [Next]_vars
  BY DEF ReportNext, reportVars
<1> QED  BY <1>1, <1>2, PTL DEF ReportSpec, Spec

\* Both invariants hold while reports are built.
THEOREM ReportInvariant == ReportSpec => [](IInv /\ ReportInv)
<1>1. ReportInit => IInv /\ ReportInv
  BY InitIInv DEF ReportInit, ReportInv, ReportReachesItsRun, ReportTypeOK, Nothing, Hash
<1>2. IInv /\ ReportInv /\ [ReportNext]_reportVars => IInv' /\ ReportInv'
  <2> SUFFICES ASSUME IInv, ReportInv, [ReportNext]_reportVars PROVE IInv' /\ ReportInv'
    OBVIOUS
  <2>1. [Next]_vars
    BY DEF ReportNext, reportVars
  <2>2. IInv'
    BY <2>1, NextIInv
  <2> QED  BY <2>2, ReportStep
<1> QED  BY <1>1, <1>2, PTL DEF ReportSpec

\* Whatever is committed between its reads, a report never shows a Run its
\* journal does not reach, nor a failure without its record.
THEOREM ReportsReach == ReportSpec => []ReportReachesItsRun
  BY ReportInvariant, PTL DEF ReportInv

\* The report stays well typed.
THEOREM ReportTypeCorrect == ReportSpec => []ReportTypeOK
  BY ReportInvariant, PTL DEF ReportInv
=============================================================================
