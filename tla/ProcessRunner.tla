---------------------------- MODULE ProcessRunner ----------------------------
(***************************************************************************)
(* run_process: one approved check as a child process with its descendant, *)
(* the two threads that drain its output up to a cap, and the loop that    *)
(* polls, kills and collects.  The leader, the descendant, the threads and *)
(* the loop run concurrently; the clock may pass the timeout at any point. *)
(***************************************************************************)
EXTENDS Naturals, FiniteSetsExt

CONSTANTS MaxBytes,    \* ProcessLimits.max_output_bytes
          Chunk,       \* how much stream.read(4096) asks for
          MaxWritten   \* bound: bytes the processes write to each stream

Stream == {"stdout", "stderr"}

ASSUME RunnerAssumption ==
    /\ MaxBytes \in Nat
    /\ Chunk \in Nat \ {0}
    /\ MaxWritten \in [Stream -> Nat]

VARIABLES platform,  \* "posix" or "win32"
          job,       \* win32: the Job Object still holds the tree
          leader,    \* the child: whether it runs, is a zombie or is reaped; its exit code
          heir,      \* a process the child leaves behind
          written,   \* bytes written to each pipe
          unread,    \* bytes of each pipe no read has returned yet
          drain,     \* the local variables of the two _drain threads
          late,      \* the timeout has elapsed
          pc,        \* where run_process is
          stop,      \* timed_out and output_cap_exceeded
          taken      \* the streams whose queue entry has been taken

vars == <<platform, job, leader, heir, written, unread, drain, late, pc, stop, taken>>

\* Popen has returned: the child runs, in a process group of its own on POSIX.
Init ==
    /\ platform \in {"posix", "win32"}
    /\ job = FALSE
    /\ leader = [life |-> "running", exit |-> "none"]
    /\ heir = [life |-> "none", joined |-> FALSE, holds |-> {}]
    /\ written = [s \in Stream |-> 0]
    /\ unread = [s \in Stream |-> 0]
    /\ drain = [s \in Stream |-> [total |-> 0, truncated |-> FALSE, done |-> FALSE]]
    /\ late = FALSE
    /\ pc = "assign"
    /\ stop = [timed_out |-> FALSE, cap |-> FALSE]
    /\ taken = {}

-----------------------------------------------------------------------------
(* The processes.  A pipe is at its end once nobody holds its other end.    *)

Holders(s) == leader.life = "running" \/ (heir.life = "running" /\ s \in heir.holds)

\* The child's own code, and its descendant's, write.
write(s) ==
    /\ Holders(s)
    /\ written[s] < MaxWritten[s]
    /\ written' = [written EXCEPT ![s] = @ + 1]
    /\ unread' = [unread EXCEPT ![s] = @ + 1]
    /\ UNCHANGED <<platform, job, leader, heir, drain, late, pc, stop, taken>>

\* The child starts a process that inherits some of its pipes.  On POSIX it
\* joins the group unless it calls setsid; on win32 it joins the job if the
\* child is already in it.
spawn(joined, holds) ==
    /\ leader.life = "running"
    /\ heir.life = "none"
    /\ platform = "win32" => joined = job
    /\ heir' = [life |-> "running", joined |-> joined, holds |-> holds]
    /\ UNCHANGED <<platform, job, leader, written, unread, drain, late, pc, stop, taken>>

exit(code) ==
    /\ leader.life = "running"
    /\ leader' = [life |-> "zombie", exit |-> code]
    /\ UNCHANGED <<platform, job, heir, written, unread, drain, late, pc, stop, taken>>

heir_exits ==
    /\ heir.life = "running"
    /\ heir' = [heir EXCEPT !.life = "dead"]
    /\ UNCHANGED <<platform, job, leader, written, unread, drain, late, pc, stop, taken>>

time_passes ==
    /\ ~late
    /\ late' = TRUE
    /\ UNCHANGED <<platform, job, leader, heir, written, unread, drain, pc, stop, taken>>

-----------------------------------------------------------------------------
(* The _drain threads: read blocks for a whole chunk or the end of the      *)
(* pipe.                                                                   *)

Kept(total, n) == Min({n, MaxBytes - total})

\* What one chunk of n bytes does to the thread's variables.
Drained(d, n) ==
    [d EXCEPT !.total = @ + Kept(@, n),
              !.truncated = @ \/ n > Kept(d.total, n)]

cap_event == \E s \in Stream : drain[s].truncated

read(s) ==
    /\ ~drain[s].done
    /\ unread[s] > 0
    /\ unread[s] >= Chunk \/ ~Holders(s)
    /\ LET n == Min({Chunk, unread[s]}) IN
        /\ drain' = [drain EXCEPT ![s] = Drained(@, n)]
        /\ unread' = [unread EXCEPT ![s] = @ - n]
    /\ UNCHANGED <<platform, job, leader, heir, written, late, pc, stop, taken>>

\* An empty read ends the loop; the finally clause puts the result.
end_of_stream(s) ==
    /\ ~drain[s].done
    /\ unread[s] = 0
    /\ ~Holders(s)
    /\ drain' = [drain EXCEPT ![s].done = TRUE]
    /\ UNCHANGED <<platform, job, leader, heir, written, unread, late, pc, stop, taken>>

-----------------------------------------------------------------------------
(* run_process itself.                                                      *)

\* win32: AssignProcessToJobObject fails when the child has already exited,
\* and run_process goes on without a job.
assign ==
    /\ pc = "assign"
    /\ job' = (platform = "win32" /\ leader.life = "running")
    /\ pc' = "poll"
    /\ UNCHANGED <<platform, leader, heir, written, unread, drain, late, stop, taken>>

Reap == leader' = [leader EXCEPT !.life = "reaped"]

poll ==
    /\ pc = "poll"
    /\ IF leader.life = "running"
       THEN pc' = "limits" /\ UNCHANGED leader
       ELSE pc' = "kill_rest" /\ Reap
    /\ UNCHANGED <<platform, job, heir, written, unread, drain, late, stop, taken>>

MutantLimits ==
    /\ pc = "limits"
    /\ stop' = [timed_out |-> FALSE, cap |-> cap_event]
    /\ pc' = IF stop'.cap THEN "kill" ELSE "poll"
    /\ UNCHANGED <<platform, job, leader, heir, written, unread, drain, late, taken>>

\* The timeout is looked at before the cap; neither: sleep and poll again.
check_limits ==
    /\ pc = "limits"
    /\ stop' = [timed_out |-> late, cap |-> ~late /\ cap_event]
    /\ pc' = IF late \/ cap_event THEN "kill" ELSE "poll"
    /\ UNCHANGED <<platform, job, leader, heir, written, unread, drain, late, taken>>

\* Everything of the tree the signal or the job reaches dies.
Slain(p) == [p EXCEPT !.life = IF @ = "running" /\ p.joined THEN "dead" ELSE @]

\* Popen.kill polls first: a child that exited meanwhile is reaped, not killed.
KillLeader ==
    leader' = IF leader.life = "running"
              THEN [life |-> "zombie", exit |-> "killed"]
              ELSE [leader EXCEPT !.life = "reaped"]

\* job.kill_all(), or process.kill().
kill ==
    /\ pc = "kill"
    /\ IF job
       THEN /\ leader' = IF leader.life = "running"
                         THEN [life |-> "zombie", exit |-> "killed"] ELSE leader
            /\ heir' = Slain(heir)
            /\ job' = FALSE
            /\ pc' = "wait"
       ELSE /\ KillLeader
            /\ pc' = IF platform = "win32" THEN "wait" ELSE "kill_group"
            /\ UNCHANGED <<heir, job>>
    /\ UNCHANGED <<platform, written, unread, drain, late, stop, taken>>

MutantKillTree ==
    /\ pc = "kill_group"
    /\ pc' = "wait"
    /\ UNCHANGED <<platform, job, leader, heir, written, unread, drain, late, stop, taken>>

\* _kill_tree_posix: getpgid finds nothing once the child has been reaped.
_kill_tree_posix ==
    /\ pc = "kill_group"
    /\ heir' = IF leader.life = "reaped" THEN heir ELSE Slain(heir)
    /\ pc' = "wait"
    /\ UNCHANGED <<platform, job, leader, written, unread, drain, late, stop, taken>>

\* process.wait(timeout=5) after SIGKILL or TerminateJobObject: the child dies.
wait ==
    /\ pc = "wait"
    /\ Reap
    /\ pc' = "collect"
    /\ UNCHANGED <<platform, job, heir, written, unread, drain, late, stop, taken>>

\* After an exit of its own: kill what the child left behind.  Without a job
\* that is _kill_tree_posix on a reaped child: on POSIX ProcessLookupError is
\* swallowed, on win32 there is no getpgid and AttributeError goes to the caller.
kill_rest ==
    /\ pc = "kill_rest"
    /\ heir' = IF job THEN Slain(heir) ELSE heir
    /\ job' = FALSE
    /\ pc' = IF platform = "win32" /\ ~job THEN "raised" ELSE "collect"
    /\ UNCHANGED <<platform, leader, written, unread, drain, late, stop, taken>>

Order(s) == s = "stderr" => "stdout" \in taken

MutantCollect(s) ==
    /\ pc = "collect"
    /\ s \notin taken
    /\ Order(s)
    /\ taken' = taken \union {s}
    /\ pc' = IF taken' = Stream THEN "returned" ELSE "collect"
    /\ UNCHANGED <<platform, job, leader, heir, written, unread, drain, late, stop>>

\* stdout_q.get(timeout=5), then stderr_q.get(timeout=5).
collect(s) ==
    /\ pc = "collect"
    /\ s \notin taken
    /\ Order(s)
    /\ drain[s].done
    /\ taken' = taken \union {s}
    /\ pc' = IF taken' = Stream THEN "returned" ELSE "collect"
    /\ UNCHANGED <<platform, job, leader, heir, written, unread, drain, late, stop>>

\* queue.Empty after 5 s, which are enough to drain a pipe nobody holds: it is
\* raised only while a descendant still holds the pipe.
gives_up(s) ==
    /\ pc = "collect"
    /\ s \notin taken
    /\ Order(s)
    /\ Holders(s)
    /\ pc' = "raised"
    /\ UNCHANGED <<platform, job, leader, heir, written, unread, drain, late, stop, taken>>

Tree ==
    \/ \E s \in Stream : write(s)
    \/ \E joined \in BOOLEAN, holds \in SUBSET Stream : spawn(joined, holds)
    \/ \E code \in {"ok", "error"} : exit(code)
    \/ heir_exits

Drains == \E s \in Stream : read(s) \/ end_of_stream(s)

Runner ==
    \/ assign \/ poll \/ check_limits \/ kill \/ _kill_tree_posix \/ wait \/ kill_rest
    \/ \E s \in Stream : collect(s) \/ gives_up(s)

\* One step of the processes, the clock, the threads or the loop.
Next == Tree \/ time_passes \/ Drains \/ Runner

Spec == Init /\ [][Next]_vars

\* The loop and the two threads go on and time passes; of the processes
\* nothing is assumed: they may never write, exit or close a pipe.
FairSpec ==
    /\ Spec
    /\ WF_vars(Runner)
    /\ WF_vars(time_passes)
    /\ \A s \in Stream : WF_vars(read(s) \/ end_of_stream(s))

-----------------------------------------------------------------------------
LeaderState == [life : {"running", "zombie", "reaped"},
                exit : {"none", "ok", "error", "killed"}]
HeirState == [life : {"none", "running", "dead"}, joined : BOOLEAN, holds : SUBSET Stream]
DrainState == [total : 0..MaxBytes, truncated : BOOLEAN, done : BOOLEAN]

TypeOK ==
    /\ platform \in {"posix", "win32"}
    /\ job \in BOOLEAN
    /\ leader \in LeaderState
    /\ heir \in HeirState
    /\ written \in [Stream -> Nat] /\ unread \in [Stream -> Nat]
    /\ \A s \in Stream : written[s] <= MaxWritten[s] /\ unread[s] <= written[s]
    /\ drain \in [Stream -> DrainState]
    /\ late \in BOOLEAN
    /\ pc \in {"assign", "poll", "limits", "kill", "kill_group", "wait", "kill_rest",
               "collect", "returned", "raised"}
    /\ stop \in [timed_out : BOOLEAN, cap : BOOLEAN]
    /\ taken \in SUBSET Stream

\* A returned result says exactly what was lost: it holds every byte up to the
\* cap, and a stream is marked truncated exactly when it wrote more.
OutputReportedExactly ==
    pc = "returned" =>
        \A s \in Stream :
            /\ drain[s].total = Min({written[s], MaxBytes})
            /\ drain[s].truncated <=> written[s] > MaxBytes

\* After a kill for the timeout or the cap, no member of the group or the job
\* is left, unless the child had exited before the signal (see README).
KilledTreeIsDead ==
    pc \in {"returned", "raised"} /\ leader.exit = "killed" =>
        ~(heir.life = "running" /\ heir.joined)

\* What the comment at the end of run_process promises: nothing that belongs
\* to the invocation outlives it, a clean exit included.
NothingOutlives ==
    pc = "returned" => ~(heir.life = "running" /\ heir.joined)

\* Whatever the processes do, run_process comes back, with a result or an error.
RunProcessEnds == <>(pc \in {"returned", "raised"})

-----------------------------------------------------------------------------
(* What run_process is taken for.                                           *)

Outcome == IF pc \in {"returned", "raised"} THEN pc ELSE "running"

\* The ProcessResult, once it is returned.
Result ==
    IF pc = "returned"
    THEN [exit_code |-> leader.exit, timed_out |-> stop.timed_out,
          output_cap_exceeded |-> stop.cap,
          kept |-> [s \in Stream |-> drain[s].total],
          truncated |-> [s \in Stream |-> drain[s].truncated]]
    ELSE [exit_code |-> "none", timed_out |-> FALSE, output_cap_exceeded |-> FALSE,
          kept |-> [s \in Stream |-> 0], truncated |-> [s \in Stream |-> FALSE]]

Command == INSTANCE CheckedCommand WITH outcome <- Outcome, report <- Result

\* To its caller run_process is one step that returns what the whole command
\* wrote, up to the cap, and why it was ended; nothing is written afterwards.
ImplementsCheckedCommand == Command!CommandSpec
=============================================================================
