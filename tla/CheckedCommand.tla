---------------------------- MODULE CheckedCommand ----------------------------
(***************************************************************************)
(* What run_process promises its caller of a command: nothing of it is to  *)
(* be seen before the end, and what is returned then is final and says of  *)
(* itself what is missing.  Processes, pipes, threads and signals are not  *)
(* to be seen from here.                                                   *)
(***************************************************************************)
EXTENDS Naturals, FiniteSetsExt

CONSTANTS Stream,    \* what a command writes to
          MaxBytes   \* ProcessLimits.max_output_bytes

VARIABLES written,   \* bytes the command has written to each
          late,      \* the timeout has elapsed
          outcome,   \* of run_process: "running", "returned" or "raised"
          report     \* the ProcessResult

commandVars == <<written, late, outcome, report>>

NoReport == [exit_code |-> "none", timed_out |-> FALSE, output_cap_exceeded |-> FALSE,
             kept |-> [s \in Stream |-> 0], truncated |-> [s \in Stream |-> FALSE]]

CommandInit ==
    /\ written = [s \in Stream |-> 0]
    /\ late = FALSE
    /\ outcome = "running"
    /\ report = NoReport

\* A process that outlives a run_process that raised may still write, never
\* one whose output has been returned.
write(s) ==
    /\ outcome # "returned"
    /\ written' = [written EXCEPT ![s] = @ + 1]
    /\ UNCHANGED <<late, outcome, report>>

time_passes ==
    /\ late' = TRUE
    /\ UNCHANGED <<written, outcome, report>>

raise ==
    /\ outcome = "running"
    /\ outcome' = "raised"
    /\ UNCHANGED <<written, late, report>>

\* A command is only killed for a limit it has passed, and of two only the
\* timeout is named.  One that ended by itself just then keeps its exit code.
return(exit_code, timed_out, output_cap_exceeded) ==
    /\ outcome = "running"
    /\ outcome' = "returned"
    /\ timed_out => late
    /\ output_cap_exceeded => ~timed_out /\ \E s \in Stream : written[s] > MaxBytes
    /\ exit_code = "killed" => timed_out \/ output_cap_exceeded
    /\ report' = [exit_code |-> exit_code, timed_out |-> timed_out,
                  output_cap_exceeded |-> output_cap_exceeded,
                  kept |-> [s \in Stream |-> Min({written[s], MaxBytes})],
                  truncated |-> [s \in Stream |-> written[s] > MaxBytes]]
    /\ UNCHANGED <<written, late>>

CommandNext ==
    \/ \E s \in Stream : write(s)
    \/ time_passes \/ raise
    \/ \E exit_code \in {"ok", "error", "killed"}, timed_out, output_cap_exceeded \in BOOLEAN :
          return(exit_code, timed_out, output_cap_exceeded)

CommandSpec == CommandInit /\ [][CommandNext]_commandVars
-----------------------------------------------------------------------------
\* How a command ended is said once, and of one that returned even what it
\* wrote is final: no byte is missing from its report because it came later.
Final ==
    [][/\ outcome # "running" => UNCHANGED <<outcome, report>>
       /\ outcome = "returned" => UNCHANGED written]_commandVars
=============================================================================
