------------------------------ MODULE Reporting ------------------------------
(***************************************************************************)
(* The final report of a Run, `harness report`: build_final_manifest reads *)
(* the Run, its journal and its failure records with one statement each    *)
(* and without a transaction around them, while the callers of SqliteStore *)
(* go on committing.  Every statement sees the tables as last committed,   *)
(* whoever holds the write lock.                                           *)
(***************************************************************************)
EXTENDS SqliteStore

VARIABLE report    \* the report being built: what it has read so far

reportVars == <<vars, report>>

Nothing == [pc |-> "none", run |-> NoRun, row |-> NoRow, count |-> 0,
            head |-> NoHash, failures |-> 0]

ReportInit == Init /\ report = Nothing

\* The first statement: get_run.  A Run that does not exist is refused.
read_run(r) ==
    /\ report.pc = "none"
    /\ runs[r] # NoRow
    /\ report' = [Nothing EXCEPT !.pc = "journal", !.run = r, !.row = runs[r]]

\* The draft keeps the number of journal entries and the hash of the last one.
list_journal_entries ==
    /\ report.pc = "journal"
    /\ report' = [report EXCEPT !.pc = "failures",
                                !.count = Len(journal[report.run]),
                                !.head = LastHash(journal[report.run])]

get_failure_records ==
    /\ report.pc = "failures"
    /\ report' = [report EXCEPT !.pc = "done", !.failures = failures[report.run]]

\* The same three statements with the Run read last.
MutantReadRunLast ==
    \/ /\ report.pc = "none"
       /\ \E r \in Run : /\ runs[r] # NoRow
                         /\ report' = [Nothing EXCEPT !.pc = "journal", !.run = r]
    \/ list_journal_entries
    \/ /\ report.pc = "failures"
       /\ report' = [report EXCEPT !.pc = "done", !.row = runs[report.run],
                                   !.failures = failures[report.run]]

\* build_final_manifest.
build_final_manifest ==
    \/ \E r \in Run : read_run(r)
    \/ list_journal_entries
    \/ get_failure_records

\* The manifest is printed and forgotten; another report may be asked for.
print_manifest == report.pc = "done" /\ report' = Nothing

ReportNext ==
    \/ Next /\ UNCHANGED report
    \/ (build_final_manifest \/ print_manifest) /\ UNCHANGED vars

\* A transaction that has begun runs its next statement: apply_transition is
\* straight-line synchronous code.  Nothing is assumed of who asks for reports.
ReportSpec ==
    /\ ReportInit
    /\ [][ReportNext]_reportVars
    /\ \A c \in Conn : WF_vars(Statement(c))

-----------------------------------------------------------------------------
(* Properties.                                                             *)

\* Type invariant of the report.
ReportTypeOK ==
    report \in [pc : {"none", "journal", "failures", "done"},
                run : Run \union {NoRun}, row : Row \union {NoRow},
                count : Nat, head : Hash, failures : Nat]

\* A report is torn between three reads, but never backwards: its journal
\* reaches at least to the version of the Run it shows and, when it ends
\* there, ends in that Run's state; and a failure that either the Run or the
\* journal's head speaks of is in it.  So a reader can tell a torn report (its
\* journal is longer than its Run's version) from one that agrees.
ReportReachesItsRun ==
    report.pc = "done" =>
        /\ report.count >= report.row.version
        /\ (report.count = report.row.version /\ report.count > 0) =>
              report.head[3] = report.row.state
        /\ "FAILED" \in {report.row.state} \union
               (IF report.count = 0 THEN {} ELSE {report.head[3]}) =>
              report.failures = 1
=============================================================================
