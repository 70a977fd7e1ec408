------------------------- MODULE ProcessRunnerProofs -------------------------
(***************************************************************************)
(* Proofs about ProcessRunner, for any cap, chunk size and output.  The    *)
(* inductive invariant follows the bytes each thread has taken from its    *)
(* pipe, and whom a kill still has to reach.                               *)
(***************************************************************************)
EXTENDS ProcessRunner, TLAPS

Consumed(s) == written[s] - unread[s]

\* A thread knows exactly what it took from its pipe.
Exact ==
    \A s \in Stream :
        /\ drain[s].total = IF Consumed(s) <= MaxBytes THEN Consumed(s) ELSE MaxBytes
        /\ drain[s].truncated <=> Consumed(s) > MaxBytes

\* A thread that has ended has left nothing, and nobody can write any more.
Ended ==
    \A s \in Stream : drain[s].done => unread[s] = 0 /\ ~Holders(s)

Collected ==
    /\ \A s \in taken : drain[s].done
    /\ pc = "returned" => taken = Stream

\* Who is killed and who is still to be: without a job nobody has joined one.
Killed ==
    /\ leader.exit = "killed" =>
         /\ leader.life # "running"
         /\ pc \in {"kill_group", "wait", "collect", "returned", "raised"}
         /\ pc = "kill_group" => leader.life = "zombie"
         /\ pc # "kill_group" => ~(heir.life = "running" /\ heir.joined)
    /\ pc = "assign" => ~job
    /\ pc \in {"assign", "poll", "limits", "kill"} /\ platform = "win32" /\ ~job => ~heir.joined

IInv == TypeOK /\ Exact /\ Ended /\ Collected /\ Killed

\* Of two numbers, the smaller.
LEMMA MinOfTwo ==
  ASSUME NEW a \in Int, NEW b \in Int
  PROVE  Min({a, b}) = IF a <= b THEN a ELSE b
  BY DEF Min

LEMMA InitIInv == Init => IInv
<1> SUFFICES ASSUME Init PROVE IInv
  OBVIOUS
<1>1. TypeOK
  <2>1. /\ leader \in LeaderState /\ heir \in HeirState /\ drain \in [Stream -> DrainState]
        /\ stop \in [timed_out : BOOLEAN, cap : BOOLEAN]
    BY RunnerAssumption DEF Init, LeaderState, HeirState, DrainState
  <2>2. \A s \in Stream : written[s] <= MaxWritten[s] /\ unread[s] <= written[s]
    BY RunnerAssumption DEF Init
  <2>3. /\ written \in [Stream -> Nat] /\ unread \in [Stream -> Nat]
        /\ platform \in {"posix", "win32"} /\ job \in BOOLEAN /\ late \in BOOLEAN
        /\ pc = "assign" /\ taken \in SUBSET Stream
    BY DEF Init
  <2> QED  BY <2>1, <2>2, <2>3 DEF TypeOK
<1>2. Exact
  <2>1. \A s \in Stream : Consumed(s) = 0 /\ drain[s].total = 0 /\ drain[s].truncated = FALSE
    BY DEF Init, Consumed
  <2>2. 0 <= MaxBytes /\ ~(0 > MaxBytes)
    BY RunnerAssumption
  <2> QED  BY <2>1, <2>2 DEF Exact
<1>3. Ended /\ Collected
  BY DEF Init, Ended, Collected
<1>4. leader.exit = "none" /\ ~heir.joined /\ ~job
  BY DEF Init
<1>5. Killed
  BY <1>4 DEF Killed
<1> QED  BY <1>1, <1>2, <1>3, <1>5 DEF IInv

-----------------------------------------------------------------------------
LEMMA TreeKeeps == ASSUME IInv, Tree PROVE IInv'
<1> USE DEF IInv
<1>1. ASSUME NEW s \in Stream, write(s) PROVE IInv'
  <2>1. /\ written \in [Stream -> Nat] /\ unread \in [Stream -> Nat]
        /\ \A x \in Stream : written[x] <= MaxWritten[x] /\ unread[x] <= written[x]
        /\ MaxWritten[s] \in Nat /\ Holders(s) /\ written[s] < MaxWritten[s]
        /\ written' = [written EXCEPT ![s] = @ + 1] /\ unread' = [unread EXCEPT ![s] = @ + 1]
        /\ UNCHANGED <<platform, job, leader, heir, drain, late, pc, stop, taken>>
    BY <1>1, RunnerAssumption DEF TypeOK, write
  <2>2. /\ \A x \in Stream : Consumed(x)' = Consumed(x)
        /\ \A x \in Stream \ {s} : unread'[x] = unread[x]
    BY <2>1 DEF Consumed
  <2>3. /\ written' \in [Stream -> Nat] /\ unread' \in [Stream -> Nat]
        /\ \A x \in Stream : written'[x] <= MaxWritten[x] /\ unread'[x] <= written'[x]
    BY <2>1
  <2>4. ~drain[s].done
    BY <2>1 DEF Ended
  <2>5. TypeOK'
    BY <2>1, <2>3 DEF TypeOK
  <2>6. Ended'
    BY <2>1, <2>2, <2>4 DEF Ended, Holders
  <2> QED  BY <2>1, <2>2, <2>5, <2>6 DEF Exact, Collected, Killed
<1>2. ASSUME NEW joined \in BOOLEAN, NEW holds \in SUBSET Stream, spawn(joined, holds)
      PROVE  IInv'
  <2>1. /\ leader.life = "running" /\ heir' \in HeirState /\ heir'.joined = joined
        /\ platform = "win32" => joined = job
        /\ UNCHANGED <<platform, job, leader, written, unread, drain, late, pc, stop, taken>>
    BY <1>2 DEF spawn, HeirState
  <2>2. TypeOK' /\ Exact' /\ Collected'
    BY <2>1 DEF TypeOK, Exact, Collected, Consumed
  <2> QED  BY <2>1, <2>2 DEF Ended, Holders, Killed
<1>3. ASSUME NEW code \in {"ok", "error"}, exit(code) PROVE IInv'
  <2>1. /\ leader.life = "running" /\ leader' \in LeaderState
        /\ leader'.life = "zombie" /\ leader'.exit = code
        /\ UNCHANGED <<platform, job, heir, written, unread, drain, late, pc, stop, taken>>
    BY <1>3 DEF exit, LeaderState
  <2>2. TypeOK' /\ Exact' /\ Collected'
    BY <2>1 DEF TypeOK, Exact, Collected, Consumed
  <2> QED  BY <2>1, <2>2 DEF Ended, Holders, Killed
<1>4. CASE heir_exits
  <2>1. heir' \in HeirState /\ heir'.life = "dead" /\ heir'.joined = heir.joined
        /\ UNCHANGED <<platform, job, leader, written, unread, drain, late, pc, stop, taken>>
    BY <1>4 DEF heir_exits, HeirState, TypeOK
  <2>2. TypeOK' /\ Exact' /\ Collected'
    BY <2>1 DEF TypeOK, Exact, Collected, Consumed
  <2> QED  BY <2>1, <2>2 DEF Ended, Holders, Killed
<1> QED  BY <1>1, <1>2, <1>3, <1>4 DEF Tree

-----------------------------------------------------------------------------
\* What a chunk adds to what a thread has taken.
LEMMA DrainedExactly ==
  ASSUME NEW d \in DrainState, NEW n \in Nat \ {0}, NEW before \in Nat,
         d.total = IF before <= MaxBytes THEN before ELSE MaxBytes,
         d.truncated <=> before > MaxBytes
  PROVE  /\ Drained(d, n) \in DrainState
         /\ Drained(d, n).total = IF before + n <= MaxBytes THEN before + n ELSE MaxBytes
         /\ Drained(d, n).truncated <=> before + n > MaxBytes
         /\ Drained(d, n).done = d.done
<1>1. d.total \in 0..MaxBytes /\ d.truncated \in BOOLEAN /\ MaxBytes \in Nat
  BY RunnerAssumption DEF DrainState
<1>2. Kept(d.total, n) = IF n <= MaxBytes - d.total THEN n ELSE MaxBytes - d.total
  BY <1>1, MinOfTwo DEF Kept
<1>3. PICK kept \in Nat : kept = Kept(d.total, n)
  BY <1>1, <1>2
<1>4. /\ Drained(d, n).total = d.total + kept /\ Drained(d, n).done = d.done
      /\ Drained(d, n).truncated = (d.truncated \/ n > kept)
      /\ Drained(d, n) \in [total : {d.total + kept}, truncated : BOOLEAN, done : BOOLEAN]
  BY <1>3 DEF Drained, DrainState
<1>5. /\ d.total + kept \in 0..MaxBytes
      /\ d.total + kept = IF before + n <= MaxBytes THEN before + n ELSE MaxBytes
      /\ (d.truncated \/ n > kept) <=> before + n > MaxBytes
  BY <1>1, <1>2, <1>3
<1>6. Drained(d, n) \in DrainState
  BY <1>4, <1>5 DEF DrainState
<1> QED  BY <1>4, <1>5, <1>6

LEMMA DrainsKeep == ASSUME IInv, Drains PROVE IInv'
<1> USE DEF IInv
<1>1. ASSUME NEW s \in Stream, read(s) PROVE IInv'
  <2>1. /\ written \in [Stream -> Nat] /\ unread \in [Stream -> Nat]
        /\ \A x \in Stream : written[x] <= MaxWritten[x] /\ unread[x] <= written[x]
        /\ drain \in [Stream -> DrainState] /\ ~drain[s].done /\ unread[s] > 0
        /\ UNCHANGED <<platform, job, leader, heir, written, late, pc, stop, taken>>
    BY <1>1 DEF TypeOK, read
  <2> DEFINE n == Min({Chunk, unread[s]})
  <2>2. n = IF Chunk <= unread[s] THEN Chunk ELSE unread[s]
    BY <2>1, RunnerAssumption, MinOfTwo
  <2>3. n \in Nat \ {0} /\ n <= unread[s]
    BY <2>1, <2>2, RunnerAssumption
  <2>4. drain' = [drain EXCEPT ![s] = Drained(@, n)] /\ unread' = [unread EXCEPT ![s] = @ - n]
    BY <1>1 DEF read
  <2> HIDE DEF n
  <2>5. PICK before \in Nat : before = Consumed(s)
    BY <2>1 DEF Consumed
  <2>6. PICK d \in DrainState : d = drain[s]
    BY <2>1
  <2>7. /\ d.total = IF before <= MaxBytes THEN before ELSE MaxBytes
        /\ d.truncated <=> before > MaxBytes
    BY <2>5, <2>6 DEF Exact
  <2>8. PICK e \in DrainState :
          /\ e = Drained(d, n)
          /\ e.total = IF before + n <= MaxBytes THEN before + n ELSE MaxBytes
          /\ e.truncated <=> before + n > MaxBytes
          /\ e.done = d.done
    BY <2>3, <2>7, DrainedExactly
  <2>9. /\ drain' \in [Stream -> DrainState] /\ drain'[s] = e
        /\ \A x \in Stream \ {s} : drain'[x] = drain[x]
    BY <2>1, <2>4, <2>6, <2>8
  <2>10. /\ unread' \in [Stream -> Nat] /\ unread'[s] = unread[s] - n
         /\ \A x \in Stream \ {s} : unread'[x] = unread[x]
         /\ \A x \in Stream : unread'[x] <= written[x]
    BY <2>1, <2>3, <2>4
  <2>11. Consumed(s)' = before + n /\ \A x \in Stream \ {s} : Consumed(x)' = Consumed(x)
    BY <2>1, <2>3, <2>5, <2>10 DEF Consumed
  <2>12. TypeOK'
    BY <2>1, <2>9, <2>10 DEF TypeOK
  <2>13. Exact'
    BY <2>8, <2>9, <2>11 DEF Exact
  <2>14. Ended' /\ Collected'
    BY <2>1, <2>6, <2>8, <2>9, <2>10 DEF Ended, Collected, Holders, TypeOK
  <2> QED  BY <2>1, <2>12, <2>13, <2>14 DEF Killed
<1>2. ASSUME NEW s \in Stream, end_of_stream(s) PROVE IInv'
  <2>1. /\ drain \in [Stream -> DrainState] /\ unread[s] = 0 /\ ~Holders(s)
        /\ drain' = [drain EXCEPT ![s].done = TRUE]
        /\ UNCHANGED <<platform, job, leader, heir, written, unread, late, pc, stop, taken>>
    BY <1>2 DEF TypeOK, end_of_stream
  <2> DEFINE e == [drain[s] EXCEPT !.done = TRUE]
  <2>2. /\ e \in DrainState /\ e.total = drain[s].total /\ e.truncated = drain[s].truncated
        /\ e.done = TRUE
    BY <2>1 DEF DrainState
  <2>3. drain' = [drain EXCEPT ![s] = e]
    BY <2>1
  <2> HIDE DEF e
  <2>4. /\ drain' \in [Stream -> DrainState] /\ drain'[s] = e
        /\ \A x \in Stream \ {s} : drain'[x] = drain[x]
    BY <2>1, <2>2, <2>3
  <2>5. TypeOK' /\ Killed'
    BY <2>1, <2>4 DEF TypeOK, Killed
  <2>6. Exact'
    BY <2>1, <2>2, <2>4 DEF Exact, Consumed
  <2>7. Ended' /\ Collected'
    BY <2>1, <2>2, <2>4 DEF Ended, Collected, Holders, TypeOK
  <2> QED  BY <2>5, <2>6, <2>7
<1> QED  BY <1>1, <1>2 DEF Drains

-----------------------------------------------------------------------------
\* The loop leaves the pipes and the threads alone; it ends processes only.
LEMMA RunnerKeeps ==
  ASSUME IInv, UNCHANGED <<platform, written, unread, drain, late>>,
         leader' \in LeaderState, heir' \in HeirState, job' \in BOOLEAN,
         stop' \in [timed_out : BOOLEAN, cap : BOOLEAN],
         pc' \in {"poll", "limits", "kill", "kill_group", "wait", "kill_rest",
                  "collect", "returned", "raised"},
         leader'.life = "running" => leader.life = "running",
         heir'.life = "running" => heir.life = "running",
         heir'.holds = heir.holds,
         taken' \in SUBSET Stream, \A s \in taken' : drain[s].done,
         pc' = "returned" => taken' = Stream,
         Killed'
  PROVE  IInv'
<1>1. TypeOK' /\ Exact'
  BY DEF IInv, TypeOK, Exact, Consumed
<1> QED  BY <1>1 DEF IInv, Ended, Collected, Holders

LEMMA SlainHeir ==
  ASSUME NEW p \in HeirState
  PROVE  /\ Slain(p) \in HeirState /\ Slain(p).holds = p.holds /\ Slain(p).joined = p.joined
         /\ ~(Slain(p).life = "running" /\ Slain(p).joined)
         /\ Slain(p).life = "running" => p.life = "running"
  BY DEF Slain, HeirState

LEMMA RunnerSteps == ASSUME IInv, Runner PROVE IInv'
<1>1. /\ leader \in LeaderState /\ heir \in HeirState /\ job \in BOOLEAN
      /\ stop \in [timed_out : BOOLEAN, cap : BOOLEAN] /\ taken \in SUBSET Stream
      /\ \A s \in taken : drain[s].done
      /\ late \in BOOLEAN /\ platform \in {"posix", "win32"}
  BY DEF IInv, TypeOK, Collected
<1>2. Killed
  BY DEF IInv
<1>3. \A life \in {"zombie", "reaped"} :
        /\ [leader EXCEPT !.life = life] \in LeaderState
        /\ [leader EXCEPT !.life = life].life = life
        /\ [leader EXCEPT !.life = life].exit = leader.exit
  BY <1>1 DEF LeaderState
<1>4. /\ [life |-> "zombie", exit |-> "killed"] \in LeaderState
      /\ [life |-> "zombie", exit |-> "killed"].life = "zombie"
      /\ [life |-> "zombie", exit |-> "killed"].exit = "killed"
  BY DEF LeaderState
<1>5. CASE assign
  <2>1. /\ pc = "assign" /\ pc' = "poll" /\ job' \in BOOLEAN
        /\ UNCHANGED <<platform, leader, heir, written, unread, drain, late, stop, taken>>
        /\ platform = "win32" /\ ~job' => ~heir.joined
    BY <1>1, <1>2, <1>5 DEF assign, Killed
  <2>2. Killed'
    BY <1>2, <2>1 DEF Killed
  <2> QED  BY <1>1, <2>1, <2>2, RunnerKeeps
<1>6. CASE poll
  <2>1. /\ pc = "poll" /\ pc' \in {"limits", "kill_rest"}
        /\ UNCHANGED <<platform, job, heir, written, unread, drain, late, stop, taken>>
        /\ leader' \in LeaderState /\ leader'.exit = leader.exit
        /\ leader'.life = "running" => leader.life = "running"
    BY <1>1, <1>3, <1>6 DEF poll, Reap
  <2>2. Killed'
    BY <1>2, <2>1 DEF Killed
  <2> QED  BY <1>1, <2>1, <2>2, RunnerKeeps
<1>7. CASE check_limits
  <2>1. /\ pc = "limits" /\ pc' \in {"kill", "poll"}
        /\ UNCHANGED <<platform, job, leader, heir, written, unread, drain, late, taken>>
        /\ stop' \in [timed_out : BOOLEAN, cap : BOOLEAN]
    BY <1>1, <1>7 DEF check_limits, cap_event
  <2>2. Killed'
    BY <1>2, <2>1 DEF Killed
  <2> QED  BY <1>1, <2>1, <2>2, RunnerKeeps
<1>8. CASE kill
  <2>1. /\ pc = "kill" /\ UNCHANGED <<platform, written, unread, drain, late, stop, taken>>
        /\ leader' \in LeaderState /\ leader'.life # "running" /\ job' = FALSE
        /\ leader'.exit = "killed" => leader'.life = "zombie"
    BY <1>1, <1>2, <1>3, <1>4, <1>8 DEF kill, KillLeader, Killed, LeaderState
  <2>2. CASE job
    <3>1. heir' = Slain(heir) /\ pc' = "wait"
      BY <1>8, <2>2 DEF kill
    <3>2. /\ heir' \in HeirState /\ heir'.holds = heir.holds
          /\ ~(heir'.life = "running" /\ heir'.joined)
          /\ heir'.life = "running" => heir.life = "running"
      BY <1>1, <3>1, SlainHeir
    <3>3. Killed'
      BY <2>1, <3>1, <3>2 DEF Killed
    <3> QED  BY <1>1, <2>1, <3>1, <3>2, <3>3, RunnerKeeps
  <2>3. CASE ~job
    <3>1. UNCHANGED heir /\ pc' = IF platform = "win32" THEN "wait" ELSE "kill_group"
      BY <1>8, <2>3 DEF kill
    <3>2. Killed'
      BY <1>2, <2>1, <2>3, <3>1 DEF Killed
    <3> QED  BY <1>1, <2>1, <3>1, <3>2, RunnerKeeps
  <2> QED  BY <1>1, <2>2, <2>3
<1>9. CASE _kill_tree_posix
  <2>1. /\ pc = "kill_group" /\ pc' = "wait"
        /\ UNCHANGED <<platform, job, leader, written, unread, drain, late, stop, taken>>
        /\ heir' = heir \/ heir' = Slain(heir)
        /\ leader.exit = "killed" => heir' = Slain(heir)
    BY <1>2, <1>9 DEF _kill_tree_posix, Killed
  <2>2. /\ heir' \in HeirState /\ heir'.holds = heir.holds
        /\ heir'.life = "running" => heir.life = "running"
        /\ leader.exit = "killed" => ~(heir'.life = "running" /\ heir'.joined)
    BY <1>1, <2>1, SlainHeir
  <2>3. Killed'
    BY <1>2, <2>1, <2>2 DEF Killed
  <2> QED  BY <1>1, <2>1, <2>2, <2>3, RunnerKeeps
<1>10. CASE wait
  <2>1. /\ pc = "wait" /\ pc' = "collect" /\ leader' = [leader EXCEPT !.life = "reaped"]
        /\ UNCHANGED <<platform, job, heir, written, unread, drain, late, stop, taken>>
    BY <1>10 DEF wait, Reap
  <2>2. leader' \in LeaderState /\ leader'.life = "reaped" /\ leader'.exit = leader.exit
    BY <1>3, <2>1
  <2>3. Killed'
    BY <1>2, <2>1, <2>2 DEF Killed
  <2> QED  BY <1>1, <2>1, <2>2, <2>3, RunnerKeeps
<1>11. CASE kill_rest
  <2>1. /\ pc = "kill_rest" /\ pc' \in {"raised", "collect"} /\ job' = FALSE
        /\ UNCHANGED <<platform, leader, written, unread, drain, late, stop, taken>>
        /\ heir' = heir \/ heir' = Slain(heir)
    BY <1>11 DEF kill_rest
  <2>2. /\ heir' \in HeirState /\ heir'.holds = heir.holds
        /\ heir'.life = "running" => heir.life = "running"
    BY <1>1, <2>1, SlainHeir
  <2>3. Killed'
    BY <1>2, <2>1 DEF Killed
  <2> QED  BY <1>1, <2>1, <2>2, <2>3, RunnerKeeps
<1>12. ASSUME NEW s \in Stream, collect(s) PROVE IInv'
  <2>1. /\ pc = "collect" /\ taken' = taken \union {s} /\ drain[s].done
        /\ pc' = IF taken' = Stream THEN "returned" ELSE "collect"
        /\ UNCHANGED <<platform, job, leader, heir, written, unread, drain, late, stop>>
    BY <1>12 DEF collect
  <2>2. Killed'
    BY <1>2, <2>1 DEF Killed
  <2>3. taken' \in SUBSET Stream /\ \A x \in taken' : drain[x].done
    BY <1>1, <2>1
  <2> QED  BY <1>1, <2>1, <2>2, <2>3, RunnerKeeps
<1>13. ASSUME NEW s \in Stream, gives_up(s) PROVE IInv'
  <2>1. /\ pc = "collect" /\ pc' = "raised"
        /\ UNCHANGED <<platform, job, leader, heir, written, unread, drain, late, stop, taken>>
    BY <1>13 DEF gives_up
  <2>2. Killed'
    BY <1>2, <2>1 DEF Killed
  <2> QED  BY <1>1, <2>1, <2>2, RunnerKeeps
<1> QED  BY <1>5, <1>6, <1>7, <1>8, <1>9, <1>10, <1>11, <1>12, <1>13 DEF Runner

LEMMA NextIInv == IInv /\ [Next]_vars => IInv'
<1> SUFFICES ASSUME IInv, [Next]_vars PROVE IInv'
  OBVIOUS
<1>1. CASE time_passes
  BY <1>1 DEF time_passes, IInv, TypeOK, Exact, Ended, Collected, Killed, Consumed, Holders
<1>2. CASE UNCHANGED vars
  BY <1>2 DEF vars, IInv, TypeOK, Exact, Ended, Collected, Killed, Consumed, Holders
<1> QED  BY <1>1, <1>2, TreeKeeps, DrainsKeep, RunnerSteps DEF Next

LEMMA Invariant == Spec => []IInv
  BY InitIInv, NextIInv, PTL DEF Spec

-----------------------------------------------------------------------------
\* The variables keep their types.
THEOREM TypeCorrect == Spec => []TypeOK
  BY Invariant, PTL DEF IInv

\* A result holds every byte up to the cap, and says so when there were more.
THEOREM ReportedExactly == Spec => []OutputReportedExactly
<1>1. IInv => OutputReportedExactly
  <2> SUFFICES ASSUME IInv, pc = "returned", NEW s \in Stream
               PROVE  /\ drain[s].total = Min({written[s], MaxBytes})
                      /\ drain[s].truncated <=> written[s] > MaxBytes
    BY DEF OutputReportedExactly
  <2>1. written[s] \in Nat /\ unread[s] \in Nat /\ MaxBytes \in Nat
    BY RunnerAssumption DEF IInv, TypeOK
  <2>2. unread[s] = 0
    BY DEF IInv, Collected, Ended
  <2>3. Consumed(s) = written[s]
    BY <2>1, <2>2 DEF Consumed
  <2>4. /\ drain[s].total = IF written[s] <= MaxBytes THEN written[s] ELSE MaxBytes
        /\ drain[s].truncated <=> written[s] > MaxBytes
    BY <2>3 DEF IInv, Exact
  <2> QED  BY <2>1, <2>4, MinOfTwo
<1> QED  BY <1>1, Invariant, PTL

\* Nobody the kill should reach survives it.
THEOREM KilledIsDead == Spec => []KilledTreeIsDead
<1>1. IInv => KilledTreeIsDead
  BY DEF IInv, Killed, KilledTreeIsDead
<1> QED  BY <1>1, Invariant, PTL

-----------------------------------------------------------------------------
(* run_process is the one step CheckedCommand describes.  The invariant     *)
(* above says what is in a result; what remains is why the command ended.   *)

\* A limit that was found passed was passed; a child is only killed for one; and
\* whoever ended has an exit code.
StopInv ==
    /\ stop.timed_out => late
    /\ stop.cap => ~stop.timed_out /\ \E s \in Stream : drain[s].truncated
    /\ pc \in {"kill", "kill_group", "wait"} => stop.timed_out \/ stop.cap
    /\ leader.exit = "killed" => stop.timed_out \/ stop.cap
    /\ leader.exit = "killed" => pc \in {"kill_group", "wait", "collect", "returned", "raised"}
    /\ leader.life # "running" => leader.exit # "none"
    /\ pc \in {"kill_group", "wait", "kill_rest", "collect", "returned"} => leader.life # "running"

LEMMA InitStopInv == Init => StopInv
BY DEF Init, StopInv

LEMMA NextStopInv == TypeOK /\ StopInv /\ [Next]_vars => StopInv'
<1> SUFFICES ASSUME TypeOK, StopInv, [Next]_vars PROVE StopInv'
  OBVIOUS
<1> USE DEF StopInv
<1>1. CASE UNCHANGED vars
  BY <1>1 DEF vars
<1>2. CASE time_passes
  BY <1>2 DEF time_passes
<1>3. CASE Tree
  <2>1. ASSUME NEW s \in Stream, write(s) PROVE StopInv'
    BY <2>1 DEF write
  <2>2. ASSUME NEW joined \in BOOLEAN, NEW holds \in SUBSET Stream, spawn(joined, holds)
        PROVE  StopInv'
    BY <2>2 DEF spawn
  <2>3. ASSUME NEW code \in {"ok", "error"}, exit(code) PROVE StopInv'
    BY <2>3 DEF exit
  <2>4. CASE heir_exits
    BY <2>4 DEF heir_exits
  <2> QED  BY <1>3, <2>1, <2>2, <2>3, <2>4 DEF Tree
<1>4. CASE Drains
  <2>1. UNCHANGED <<leader, late, pc, stop>>
    BY <1>4 DEF Drains, read, end_of_stream
  <2>2. \A s \in Stream : drain[s].truncated => drain'[s].truncated
    <3>1. ASSUME NEW x \in Stream, read(x), NEW s \in Stream, drain[s].truncated
          PROVE  drain'[s].truncated
      <4> DEFINE n == Min({Chunk, unread[x]})
      <4>1. drain' = [drain EXCEPT ![x] = Drained(drain[x], n)] /\ drain \in [Stream -> DrainState]
        BY <3>1 DEF read, TypeOK
      <4> HIDE DEF n
      <4>2. drain[x].truncated => Drained(drain[x], n).truncated
        BY <4>1 DEF Drained, DrainState
      <4> QED  BY <3>1, <4>1, <4>2
    <3>2. ASSUME NEW x \in Stream, end_of_stream(x), NEW s \in Stream, drain[s].truncated
          PROVE  drain'[s].truncated
      BY <3>2 DEF end_of_stream, TypeOK, DrainState
    <3> QED  BY <1>4, <3>1, <3>2 DEF Drains
  <2> QED  BY <2>1, <2>2
<1>5. CASE Runner
  <2>1. /\ leader \in LeaderState
        /\ \A life \in {"zombie", "reaped"} : [leader EXCEPT !.life = life].exit = leader.exit
        /\ \A life \in {"zombie", "reaped"} : [leader EXCEPT !.life = life].life = life
        /\ [life |-> "zombie", exit |-> "killed"].life = "zombie"
        /\ [life |-> "zombie", exit |-> "killed"].exit = "killed"
    BY DEF TypeOK, LeaderState
  <2>2. UNCHANGED <<drain, late>>
    BY <1>5 DEF Runner, assign, poll, check_limits, kill, _kill_tree_posix, wait, kill_rest,
       collect, gives_up
  <2>3. CASE assign
    BY <2>2, <2>3 DEF assign
  <2>4. CASE poll
    <3>1. /\ pc = "poll" /\ pc' \in {"limits", "kill_rest"} /\ stop' = stop
          /\ \/ leader' = leader /\ pc' = "limits"
             \/ leader.life # "running" /\ leader' = [leader EXCEPT !.life = "reaped"]
      BY <2>4 DEF poll, Reap
    <3>2. leader'.exit = leader.exit /\ leader.exit # "killed"
      BY <2>1, <3>1
    <3> QED  BY <2>1, <2>2, <3>1, <3>2
  <2>5. CASE check_limits
    <3>1. /\ pc = "limits" /\ leader' = leader /\ pc' \in {"kill", "poll"}
          /\ stop'.timed_out = late /\ stop'.cap = (~late /\ cap_event)
          /\ pc' = "kill" => late \/ cap_event
      BY <2>5 DEF check_limits
    <3>2. late \in BOOLEAN /\ leader.exit # "killed"
      BY <3>1 DEF TypeOK
    <3> QED  BY <2>2, <3>1, <3>2 DEF cap_event
  <2>6. CASE kill
    <3>1. /\ pc = "kill" /\ stop' = stop /\ pc' \in {"wait", "kill_group"}
          /\ \/ leader' = [life |-> "zombie", exit |-> "killed"]
             \/ leader.life # "running" /\ leader' = leader
             \/ leader.life # "running" /\ leader' = [leader EXCEPT !.life = "reaped"]
      BY <2>6 DEF kill, KillLeader
    <3>2. leader'.life # "running" /\ leader'.exit # "none"
      BY <2>1, <3>1
    <3> QED  BY <2>2, <3>1, <3>2
  <2>7. CASE _kill_tree_posix
    BY <2>2, <2>7 DEF _kill_tree_posix
  <2>8. CASE wait
    BY <2>1, <2>2, <2>8 DEF wait, Reap
  <2>9. CASE kill_rest
    BY <2>2, <2>9 DEF kill_rest
  <2>10. ASSUME NEW s \in Stream, collect(s) PROVE StopInv'
    BY <2>2, <2>10 DEF collect
  <2>11. ASSUME NEW s \in Stream, gives_up(s) PROVE StopInv'
    BY <2>2, <2>11 DEF gives_up
  <2> QED  BY <1>5, <2>3, <2>4, <2>5, <2>6, <2>7, <2>8, <2>9, <2>10, <2>11 DEF Runner
<1> QED  BY <1>1, <1>2, <1>3, <1>4, <1>5 DEF Next

LEMMA StopInvariant == Spec => []StopInv
<1>1. IInv => TypeOK
  BY DEF IInv
<1> QED  BY <1>1, InitStopInv, NextStopInv, Invariant, PTL DEF Spec

\* Once every thread has put its result, that is the report.
LEMMA CollectedReport ==
  ASSUME IInv, StopInv, Runner, pc # "returned", pc' = "returned"
  PROVE  Command!return(leader.exit, stop.timed_out, stop.cap)
<1>1. PICK s \in Stream : collect(s)
  BY DEF Runner, assign, poll, check_limits, kill, _kill_tree_posix, wait, kill_rest, collect,
     gives_up
<1>2. /\ pc = "collect" /\ taken \union {s} = Stream /\ drain[s].done
      /\ UNCHANGED <<platform, job, leader, heir, written, unread, drain, late, stop>>
  BY <1>1 DEF collect
<1>3. \A x \in Stream : drain[x].done
  BY <1>2 DEF IInv, Collected
<1>4. ASSUME NEW x \in Stream
      PROVE  /\ drain[x].total = Min({written[x], MaxBytes})
             /\ drain[x].truncated = (written[x] > MaxBytes)
  <2>1. /\ written[x] \in Nat /\ MaxBytes \in Nat /\ drain[x].truncated \in BOOLEAN
        /\ unread[x] = 0
    BY <1>3, RunnerAssumption DEF IInv, TypeOK, DrainState, Ended
  <2>2. Consumed(x) = written[x]
    BY <2>1 DEF Consumed
  <2>3. /\ drain[x].total = IF written[x] <= MaxBytes THEN written[x] ELSE MaxBytes
        /\ drain[x].truncated <=> written[x] > MaxBytes
    BY <2>2 DEF IInv, Exact
  <2> QED  BY <2>1, <2>3, MinOfTwo
<1>5. /\ Outcome = "running" /\ Outcome' = "returned"
      /\ UNCHANGED <<written, late>>
  BY <1>2 DEF Outcome
<1>6. /\ stop.timed_out => late
      /\ stop.cap => ~stop.timed_out /\ \E x \in Stream : written[x] > MaxBytes
      /\ leader.exit = "killed" => stop.timed_out \/ stop.cap
  BY <1>4 DEF StopInv
<1>7. Result' = [exit_code |-> leader.exit, timed_out |-> stop.timed_out,
                 output_cap_exceeded |-> stop.cap,
                 kept |-> [x \in Stream |-> Min({written[x], MaxBytes})],
                 truncated |-> [x \in Stream |-> written[x] > MaxBytes]]
  BY <1>2, <1>4 DEF Result
<1> QED  BY <1>5, <1>6, <1>7 DEF Command!return, Command!Min, Min

\* A step that is no return shows at most more output, a later hour or an error.
LEMMA SmallStep ==
  ASSUME IInv, [Next]_vars, pc' = "returned" => pc = "returned"
  PROVE  [Command!CommandNext]_(Command!commandVars)
<1>1. CASE \E s \in Stream : write(s)
  <2>1. PICK s \in Stream : write(s)
    BY <1>1
  <2>2. pc # "returned"
    <3>1. ~drain[s].done
      BY <2>1 DEF write, IInv, Ended
    <3> QED  BY <3>1 DEF IInv, Collected
  <2>3. /\ written' = [written EXCEPT ![s] = @ + 1]
        /\ UNCHANGED <<late, pc, leader, stop, drain>>
    BY <2>1 DEF write
  <2>4. Outcome # "returned" /\ UNCHANGED <<Outcome, Result>>
    BY <2>2, <2>3 DEF Outcome, Result
  <2>5. Command!write(s)
    BY <2>3, <2>4 DEF Command!write
  <2> QED  BY <2>5 DEF Command!CommandNext
<1>2. CASE time_passes
  <2>1. late' = TRUE /\ UNCHANGED <<written, Outcome, Result>>
    BY <1>2 DEF time_passes, Outcome, Result
  <2> QED  BY <2>1 DEF Command!CommandNext, Command!time_passes
<1>3. CASE (Tree /\ ~\E s \in Stream : write(s)) \/ Drains \/ Runner \/ UNCHANGED vars
  <2>1. UNCHANGED <<written, late>>
    BY <1>3 DEF Tree, spawn, exit, heir_exits, Drains, read, end_of_stream, Runner, assign, poll,
       check_limits, kill, _kill_tree_posix, wait, kill_rest, collect, gives_up, vars
  <2>2. pc = "returned" => UNCHANGED <<pc, leader, stop, drain>>
    <3> SUFFICES ASSUME pc = "returned" PROVE UNCHANGED <<pc, leader, stop, drain>>
      OBVIOUS
    <3>1. /\ \A s \in Stream : drain[s].done
          /\ \A s \in Stream : ~Holders(s)
      BY DEF IInv, Collected, Ended
    <3>2. leader.life # "running"
      BY <3>1 DEF Holders, Stream
    <3> QED  BY <1>3, <3>1, <3>2 DEF Tree, spawn, exit, heir_exits, Drains, read, end_of_stream,
             Runner, assign, poll, check_limits, kill, _kill_tree_posix, wait, kill_rest, collect,
             gives_up, vars
  <2>3. Result' = Result
    BY <2>2 DEF Result
  <2>4. pc = "raised" => pc' = "raised"
    BY <1>3 DEF Tree, spawn, exit, heir_exits, Drains, read, end_of_stream, Runner, assign, poll,
       check_limits, kill, _kill_tree_posix, wait, kill_rest, collect, gives_up, vars
  <2>5. Outcome' = Outcome \/ (Outcome = "running" /\ Outcome' = "raised")
    BY <2>2, <2>4 DEF Outcome
  <2> QED  BY <2>1, <2>3, <2>5 DEF Command!CommandNext, Command!raise, Command!commandVars
<1> QED  BY <1>1, <1>2, <1>3 DEF Next

\* For every cap, chunk and output, on both platforms: the caller of run_process
\* gets one final report, exact about what is missing and why it was ended.
THEOREM Implements == Spec => ImplementsCheckedCommand
<1>1. Init => Command!CommandInit
  BY DEF Init, Outcome, Result, Command!CommandInit, Command!NoReport
<1>2. IInv /\ StopInv /\ [Next]_vars => [Command!CommandNext]_(Command!commandVars)
  <2> SUFFICES ASSUME IInv, StopInv, [Next]_vars
               PROVE  [Command!CommandNext]_(Command!commandVars)
    OBVIOUS
  <2>1. CASE pc' = "returned" /\ pc # "returned"
    <3>1. Runner
      BY <2>1 DEF Next, Tree, write, spawn, exit, heir_exits, time_passes, Drains, read,
         end_of_stream, vars
    <3>2. Command!return(leader.exit, stop.timed_out, stop.cap)
      BY <2>1, <3>1, CollectedReport
    <3>3. /\ leader.exit \in {"ok", "error", "killed"}
          /\ stop.timed_out \in BOOLEAN /\ stop.cap \in BOOLEAN
      <4>1. pc = "collect"
        BY <2>1, <3>1 DEF Runner, assign, poll, check_limits, kill, _kill_tree_posix, wait,
           kill_rest, collect, gives_up
      <4> QED  BY <4>1 DEF IInv, TypeOK, LeaderState, StopInv
    <3> QED  BY <3>2, <3>3 DEF Command!CommandNext
  <2>2. CASE pc' = "returned" => pc = "returned"
    BY <2>2, SmallStep
  <2> QED  BY <2>1, <2>2
<1> QED  BY <1>1, <1>2, Invariant, StopInvariant, PTL
         DEF Spec, ImplementsCheckedCommand, Command!CommandSpec
\* It follows from the abstract command alone that a report is final: once
\* run_process has returned, neither it nor what it speaks of changes.
THEOREM ReportsAreFinal == Spec => Command!Final
<1>1. ASSUME Command!CommandNext
      PROVE  /\ Outcome # "running" => UNCHANGED <<Outcome, Result>>
             /\ Outcome = "returned" => UNCHANGED written
  <2>1. CASE \E s \in Stream : Command!write(s)
    BY <2>1 DEF Command!write
  <2>2. CASE Command!time_passes
    BY <2>2 DEF Command!time_passes
  <2>3. CASE Command!raise
    BY <2>3 DEF Command!raise
  <2>4. CASE \E exit_code \in {"ok", "error", "killed"}, timed_out, cap \in BOOLEAN :
                Command!return(exit_code, timed_out, cap)
    BY <2>4 DEF Command!return
  <2> QED  BY <1>1, <2>1, <2>2, <2>3, <2>4 DEF Command!CommandNext
<1>2. [Command!CommandNext]_(Command!commandVars) =>
        [/\ Outcome # "running" => UNCHANGED <<Outcome, Result>>
         /\ Outcome = "returned" => UNCHANGED written]_(Command!commandVars)
  BY <1>1
<1> QED  BY <1>2, Implements, PTL
         DEF ImplementsCheckedCommand, Command!CommandSpec, Command!Final
=============================================================================
