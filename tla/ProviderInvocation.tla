------------------------- MODULE ProviderInvocation -------------------------
(***************************************************************************)
(* One invocation of a provider, as _invoke_role makes it: a session, an   *)
(* invocation whose background task drains the SDK's turns (Claude's       *)
(* _drain, Codex's _run_with_retries), a deadline around await_result,     *)
(* cancel when it passes, and a reader of stream_events.  All of it runs   *)
(* in one asyncio loop: an action is what happens between two awaits.      *)
(***************************************************************************)
EXTENDS Naturals, Integers, Sequences, SequencesExt

CONSTANTS MaxSchemaRetries,  \* CodexPlannerAdapter's max_schema_retries
          MaxMessages,       \* bound: messages of a turn before its last
          Cursors            \* the after_cursor values a reader may pass

ASSUME InvocationAssumption ==
    /\ MaxSchemaRetries \in Nat
    /\ MaxMessages \in Nat
    /\ Cursors \subseteq Nat \union {-1}

VARIABLES adapter,           \* "claude" or "codex"
          turn,              \* the SDK's turn, the last one started
          task,              \* where the background task is
          attempt,           \* Codex: schema retries so far
          final_turn,        \* Codex: what the last TurnCompleted said
          events,            \* _InvocationState.events
          done,              \* _InvocationState.done
          result,            \* protocol_status of _InvocationState.result
          cancel_requested,  \* Codex: set by cancel
          active_turn,       \* Codex: the turn cancel interrupts
          caller,            \* _invoke_role
          late,              \* budget.timeout_seconds have passed
          reader             \* a consumer of stream_events

taskVars == <<task, attempt, final_turn, events, done, result, active_turn>>
vars == <<adapter, turn, taskVars, cancel_requested, caller, late, reader>>

\* How a turn ends, as the SDK reports it: with a final answer, by raising in
\* the stream (broken) or by ending it without an answer (cut).
Answer == {"valid", "invalid", "no_text", "failed", "limit", "interrupted", "broken", "cut"}
Final == Answer \ {"broken", "cut"}
Answers(a) == IF a = "codex" THEN Answer \ {"limit"} ELSE Answer \ {"no_text"}

Turn(n) == [n |-> n, life |-> "running", messages |-> 0, interrupted |-> FALSE,
            answer |-> "none"]

Init ==
    /\ adapter \in {"claude", "codex"}
    /\ turn = [Turn(0) EXCEPT !.life = "over"]
    /\ task = "none"
    /\ attempt = 0
    /\ final_turn = "none"
    /\ events = <<>>
    /\ done = FALSE
    /\ result = "none"
    /\ cancel_requested = FALSE
    /\ active_turn = 0
    /\ caller = [pc |-> "starting", outcome |-> "none", target |-> 0]
    /\ late = FALSE
    /\ \E after \in Cursors :
        reader = [first |-> after, after |-> after, index |-> 0, pending |-> <<>>,
                  finished |-> FALSE, last |-> -1, out |-> <<>>, failed |-> FALSE,
                  resent |-> FALSE]

-----------------------------------------------------------------------------
(* The events list.                                                         *)

\* The sequence counter of the task runs through all turns and warnings.
Appended(n) ==
    events \o [i \in 1..n |-> [sequence |-> Len(events) + i - 1, turn |-> turn.n]]

-----------------------------------------------------------------------------
(* The SDK: what it does with a turn is its own affair.                     *)

\* A message arrives and the task appends its event.
message ==
    /\ turn.life = "running"
    /\ turn.messages < MaxMessages
    /\ turn' = [turn EXCEPT !.messages = @ + 1]
    /\ events' = IF task = "streaming" THEN Appended(1) ELSE events
    /\ UNCHANGED <<adapter, task, attempt, final_turn, done, result, active_turn,
                   cancel_requested, caller, late, reader>>

\* The turn is over; the task has yet to see it.
turn_ends(answer) ==
    /\ turn.life = "running"
    /\ answer = "interrupted" => turn.interrupted
    /\ turn' = [turn EXCEPT !.life = "over", !.answer = answer]
    /\ UNCHANGED <<adapter, taskVars, cancel_requested, caller, late, reader>>

-----------------------------------------------------------------------------
(* The background task.                                                     *)

\* Codex's _build_result, from the last completed turn or the exception.
CodexStatus(final, answer) ==
    CASE answer = "broken" -> "PROVIDER_ERROR"
      [] OTHER -> CASE final \in {"none", "failed"} -> "PROVIDER_ERROR"
                    [] final = "interrupted" -> "CANCELLED"
                    [] final = "invalid" -> "INVALID_OUTPUT"
                    [] OTHER -> "SUCCEEDED"

\* Claude's: from the ResultMessage; a stream that ends without one leaves none.
ClaudeStatus(answer) ==
    CASE answer = "cut" -> "none"
      [] answer \in {"failed", "broken", "interrupted"} -> "PROVIDER_ERROR"
      [] answer = "limit" -> "LIMIT_REACHED"
      [] answer = "invalid" -> "INVALID_OUTPUT"
      [] OTHER -> "SUCCEEDED"

StreamEnded == task = "streaming" /\ turn.life = "over"

\* The last message of a turn is an event too.
LastMessage == IF turn.answer \in Final THEN 1 ELSE 0

\* _drain after its loop: the except and the finally clause.
drain_ends ==
    /\ adapter = "claude"
    /\ StreamEnded
    /\ events' = Appended(LastMessage)
    /\ result' = ClaudeStatus(turn.answer)
    /\ done' = TRUE
    /\ task' = "ended"
    /\ UNCHANGED <<adapter, turn, attempt, final_turn, active_turn, cancel_requested,
                   caller, late, reader>>

\* final_turn once the stream of the current turn has ended.
FinalTurn == IF turn.answer \in Final THEN turn.answer ELSE final_turn

MutantWantsRetry ==
    /\ turn.answer # "broken"
    /\ FinalTurn = "invalid"
    /\ attempt < MaxSchemaRetries

\* Another turn is asked for when the answer does not validate, nobody asked
\* for a cancel and a retry is left.
WantsRetry ==
    /\ turn.answer # "broken"
    /\ ~cancel_requested
    /\ FinalTurn = "invalid"
    /\ attempt < MaxSchemaRetries

MutantRetryTurn ==
    /\ adapter = "codex"
    /\ StreamEnded
    /\ WantsRetry
    /\ attempt' = attempt + 1
    /\ events' = Appended(LastMessage + 1)
    /\ final_turn' = FinalTurn
    /\ task' = "turning"
    /\ UNCHANGED <<adapter, turn, done, result, active_turn, cancel_requested,
                   caller, late, reader>>

\* The warning is appended and thread.turn awaited, outside any try.
retry_turn ==
    /\ adapter = "codex"
    /\ StreamEnded
    /\ WantsRetry
    /\ attempt' = attempt + 1
    /\ events' = Appended(LastMessage + 1)
    /\ final_turn' = "none"
    /\ task' = "turning"
    /\ UNCHANGED <<adapter, turn, done, result, active_turn, cancel_requested,
                   caller, late, reader>>

\* The loop ends: the result is built and the waiters are notified.
finish ==
    /\ adapter = "codex"
    /\ StreamEnded
    /\ ~WantsRetry
    /\ events' = Appended(LastMessage)
    /\ final_turn' = FinalTurn
    /\ result' = CodexStatus(FinalTurn, turn.answer)
    /\ done' = TRUE
    /\ task' = "ended"
    /\ UNCHANGED <<adapter, turn, attempt, active_turn, cancel_requested,
                   caller, late, reader>>

\* thread.turn gives the handle of a new turn, which becomes the active one.
turn_returns ==
    /\ task = "turning"
    /\ turn' = Turn(turn.n + 1)
    /\ active_turn' = turn.n + 1
    /\ task' = "streaming"
    /\ UNCHANGED <<adapter, attempt, final_turn, events, done, result, cancel_requested,
                   caller, late, reader>>

\* thread.turn raises: the task ends there, with done never set.
turn_raises ==
    /\ task = "turning"
    /\ task' = "died"
    /\ UNCHANGED <<adapter, turn, attempt, final_turn, events, done, result, active_turn,
                   cancel_requested, caller, late, reader>>

-----------------------------------------------------------------------------
(* _invoke_role.                                                            *)

\* start_session and start_invocation return: the first turn runs, and the
\* task that drains it is created.
start_invocation ==
    /\ caller.pc = "starting"
    /\ caller' = [caller EXCEPT !.pc = "waiting"]
    /\ turn' = Turn(1)
    /\ active_turn' = 1
    /\ task' = "streaming"
    /\ UNCHANGED <<adapter, attempt, final_turn, events, done, result, cancel_requested,
                   late, reader>>

Closing(outcome) == caller' = [caller EXCEPT !.pc = "closing", !.outcome = outcome]

start_raises ==
    /\ caller.pc = "starting"
    /\ Closing("raised")
    /\ UNCHANGED <<adapter, turn, taskVars, cancel_requested, late, reader>>

MutantDeadlinePasses ==
    /\ ~late
    /\ caller.pc = "waiting"
    /\ turn.messages > 0
    /\ late' = TRUE
    /\ UNCHANGED <<adapter, turn, taskVars, cancel_requested, caller, reader>>

deadline_passes ==
    /\ ~late
    /\ caller.pc = "waiting"
    /\ late' = TRUE
    /\ UNCHANGED <<adapter, turn, taskVars, cancel_requested, caller, reader>>

\* await_result returns; with no result its assertion fails.
await_result ==
    /\ caller.pc = "waiting"
    /\ done
    /\ Closing(IF result = "none" THEN "raised" ELSE result)
    /\ UNCHANGED <<adapter, turn, taskVars, cancel_requested, late, reader>>

\* wait_for gives up, also when the answer has just come: cancel is called and
\* interrupts the turn that is active now (Claude: whatever the client runs).
cancel ==
    /\ caller.pc = "waiting"
    /\ late
    /\ caller' = [caller EXCEPT !.pc = "interrupting", !.target = active_turn]
    /\ cancel_requested' = (adapter = "codex")
    /\ UNCHANGED <<adapter, turn, taskVars, late, reader>>

interrupt_returns ==
    /\ caller.pc = "interrupting"
    /\ caller' = [caller EXCEPT !.pc = "joining"]
    /\ turn' = IF turn.life = "running" /\ (adapter = "codex" => caller.target = turn.n)
               THEN [turn EXCEPT !.interrupted = TRUE]
               ELSE turn
    /\ UNCHANGED <<adapter, taskVars, cancel_requested, late, reader>>

\* Not a ProviderCapabilityError: it leaves _invoke_role through the finally.
interrupt_raises ==
    /\ caller.pc = "interrupting"
    /\ Closing("raised")
    /\ UNCHANGED <<adapter, turn, taskVars, cancel_requested, late, reader>>

MutantJoin ==
    /\ caller.pc = "joining"
    /\ result' = IF result = "none" THEN "none" ELSE "CANCELLED"
    /\ Closing("timeout")
    /\ UNCHANGED <<adapter, turn, task, attempt, final_turn, events, done, active_turn,
                   cancel_requested, late, reader>>

\* cancel waits for the task, with no deadline of its own, and overwrites the
\* status; _invoke_role raises PipelineTimeoutError.
join ==
    /\ caller.pc = "joining"
    /\ done
    /\ result' = IF result = "none" THEN "none" ELSE "CANCELLED"
    /\ Closing("timeout")
    /\ UNCHANGED <<adapter, turn, task, attempt, final_turn, events, done, active_turn,
                   cancel_requested, late, reader>>

\* close_session: Claude disconnects, which ends what the client still runs;
\* Codex only forgets the session.
close_session ==
    /\ caller.pc = "closing"
    /\ caller' = [caller EXCEPT !.pc = "ended"]
    /\ turn' = IF adapter = "claude" /\ turn.life = "running"
               THEN [turn EXCEPT !.life = "over", !.answer = "cut"] ELSE turn
    /\ UNCHANGED <<adapter, taskVars, cancel_requested, late, reader>>

-----------------------------------------------------------------------------
(* A consumer: stream_events, which it may lose and open again, under one   *)
(* normalize_events.  (That an event is of another invocation cannot        *)
(* happen here: every invocation has a list of its own.)                    *)

\* What the consumer has of the list when it is woken.
New(index) == SubSeq(events, index + 1, Len(events))

MutantStreamEvents ==
    /\ task # "none"
    /\ ~reader.finished /\ ~reader.failed /\ reader.pending = <<>>
    /\ reader.index < Len(events) \/ done
    /\ reader' = [reader EXCEPT !.index = Len(events),
                                !.pending = IF done THEN <<>> ELSE New(reader.index),
                                !.finished = done]
    /\ UNCHANGED <<adapter, turn, taskVars, cancel_requested, caller, late>>

\* Woken with something new or with done, it takes what is there, and is
\* finished once the invocation is done and everything was taken.
stream_events ==
    /\ task # "none"
    /\ ~reader.finished /\ ~reader.failed /\ reader.pending = <<>>
    /\ reader.index < Len(events) \/ done
    /\ reader' = [reader EXCEPT !.index = Len(events),
                                !.pending = New(reader.index),
                                !.finished = done]
    /\ UNCHANGED <<adapter, turn, taskVars, cancel_requested, caller, late>>

\* One event of them: not yielded when it is at or before the cursor; passed
\* on, skipped when it has the last number once more, or OutOfOrderEventError.
normalize_events ==
    /\ ~reader.failed /\ reader.pending # <<>>
    /\ LET event == Head(reader.pending)
           rest == [reader EXCEPT !.pending = Tail(@)]
       IN  \/ event.sequence <= reader.after /\ reader' = rest
           \/ /\ event.sequence > reader.after
              /\ \/ /\ event.sequence > reader.last
                    /\ reader' = [rest EXCEPT !.last = event.sequence,
                                              !.out = Append(@, event)]
                 \/ event.sequence = reader.last /\ reader' = rest
                 \/ event.sequence < reader.last /\ reader' = [rest EXCEPT !.failed = TRUE]
    /\ UNCHANGED <<adapter, turn, taskVars, cancel_requested, caller, late>>

\* The consumer opens the stream again, from what it got or from further back,
\* to the cursor it first came with at most.
resume(after) ==
    /\ task # "none"
    /\ ~reader.failed
    /\ reader' = [reader EXCEPT !.after = after, !.index = 0, !.pending = <<>>,
                                !.finished = FALSE, !.resent = @ \/ after < reader.last - 1]
    /\ UNCHANGED <<adapter, turn, taskVars, cancel_requested, caller, late>>

-----------------------------------------------------------------------------
\* The calls the SDK gets once the invocation runs answer or raise.
SdkAnswers == turn_returns \/ turn_raises \/ interrupt_returns \/ interrupt_raises

Task == drain_ends \/ retry_turn \/ finish
Caller == await_result \/ cancel \/ join
Sdk ==
    \/ \E answer \in Answers(adapter) : turn_ends(answer)
    \/ start_invocation \/ start_raises
    \/ SdkAnswers
    \/ close_session

Consumer ==
    \/ stream_events \/ normalize_events
    \/ \E after \in {reader.first} \union reader.first..reader.last : resume(after)

Next == message \/ Task \/ Caller \/ Sdk \/ deadline_passes \/ Consumer

Spec == Init /\ [][Next]_vars

InterruptedTurnEnds ==
    turn.interrupted /\ \E answer \in Answers(adapter) : turn_ends(answer)

\* The harness's own coroutines and its clock go on.  The SDK answers the calls
\* made of it and ends a turn it was told to interrupt; a turn nobody interrupts
\* may run for ever, which is what the deadline is for.
Fairness ==
    /\ WF_vars(Task) /\ WF_vars(Caller)
    /\ WF_vars(deadline_passes) /\ WF_vars(close_session)
    /\ WF_vars(SdkAnswers) /\ WF_vars(InterruptedTurnEnds)

FairSpec == Spec /\ Fairness

-----------------------------------------------------------------------------
Status == {"SUCCEEDED", "INVALID_OUTPUT", "LIMIT_REACHED", "PROVIDER_ERROR", "CANCELLED"}

Turns == 0..(1 + MaxSchemaRetries)  \* 0 before the first

Event == [sequence : Nat, turn : Turns \ {0}]

TurnState ==
    [n : Turns, life : {"running", "over"}, messages : 0..MaxMessages,
     interrupted : BOOLEAN, answer : Answer \union {"none"}]

CallerState ==
    [pc : {"starting", "waiting", "interrupting", "joining", "closing", "ended"},
     outcome : Status \union {"none", "raised", "timeout"}, target : Turns]

ReaderState ==
    [first : Cursors, after : Nat \union {-1}, index : Nat, pending : Seq(Event),
     finished : BOOLEAN, last : Nat \union {-1}, out : Seq(Event), failed : BOOLEAN,
     resent : BOOLEAN]

TypeOK ==
    /\ adapter \in {"claude", "codex"}
    /\ turn \in TurnState
    /\ task \in {"none", "streaming", "turning", "ended", "died"}
    /\ attempt \in 0..MaxSchemaRetries
    /\ final_turn \in Final \union {"none"}
    /\ events \in Seq(Event)
    /\ done \in BOOLEAN
    /\ result \in Status \union {"none"}
    /\ cancel_requested \in BOOLEAN
    /\ active_turn \in Turns
    /\ caller \in CallerState
    /\ late \in BOOLEAN
    /\ reader \in ReaderState

\* A consumer gets every event after the cursor it first came with, once and in
\* order, however its reads fall between the writes, when the invocation ends,
\* and however often it loses the stream; only if it goes back by more than one
\* event it may get OutOfOrderEventError instead.
ReaderMissesNothing ==
    LET wanted == {event \in ToSet(events) : event.sequence > reader.first}
        got == ToSet(reader.out)
    IN  /\ got \subseteq wanted
        /\ \A i, j \in DOMAIN reader.out :
              i < j => reader.out[i].sequence < reader.out[j].sequence
        /\ \A missed \in wanted \ got, event \in got : missed.sequence > event.sequence
        /\ reader.finished /\ reader.pending = <<>> /\ ~reader.failed => got = wanted
        /\ reader.failed => reader.resent

\* Unless it was cancelled, the result is that of the last turn, never that of
\* a turn the adapter rejected before.
ResultIsOfLastTurn ==
    done /\ result # "CANCELLED" =>
        result = IF adapter = "claude" THEN ClaudeStatus(turn.answer)
                 ELSE CodexStatus(IF turn.answer \in Final THEN turn.answer ELSE "none",
                                  turn.answer)

\* Once cancel has been called no retry is asked for; after the turn it
\* interrupts comes at most the one that was being asked for already.
CancelStopsRetries ==
    [][cancel_requested => /\ attempt' = attempt
                           /\ turn'.n <= caller.target + 1]_vars

\* An invocation that ended with an answer or a timeout has nothing running
\* behind it: no turn and no task (the orchestrator reads the worktree next).
NothingRunsAfterwards ==
    caller.pc = "ended" /\ caller.outcome # "raised" =>
        turn.life = "over" /\ task = "ended"

\* The cancel was of a turn that is over, and another runs, which it misses.
CancelMissed == caller.target # 0 /\ turn.n # caller.target

\* An invocation ends though any of its turns hangs, by the deadline and the
\* cancel; but not where the cancel fell into the request of a retry, or that
\* request raised.
InvocationEnds ==
    caller.pc = "waiting" ~> (caller.pc = "ended" \/ task = "died" \/ CancelMissed)

\* What _invoke_role promises, "a real, enforced wall-clock deadline": on timeout
\* it cancels "before always closing the session and raising
\* PipelineTimeoutError", where a hung call used to "block a Run forever".
DeadlineIsEnforced == late ~> caller.pc = "ended"
=============================================================================
