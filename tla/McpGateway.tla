----------------------------- MODULE McpGateway -----------------------------
(***************************************************************************)
(* invoke_mcp_tool: calls of one MCP tool, coroutines of one Run that      *)
(* share its rate limiter, while an administrator may register the tool    *)
(* anew.  A call runs without interruption up to an await, so its gates    *)
(* and its slot in the rate window are one step; the credential and the    *)
(* transport are awaited.  Calls of different tools share nothing.         *)
(***************************************************************************)
EXTENDS Integers, Sequences, FiniteSets

CONSTANTS Call,     \* calls of invoke_mcp_tool
          Role,     \* agent roles
          Specs,    \* the McpToolSpecs the tool is ever registered with
          Approvals,  \* bound: the Approvals callers hold
          Minute,   \* 60.0 seconds, in ticks of the clock
          MaxTime,  \* bound: the clock stops here
          None

McpToolSpec == [roles : SUBSET Role, requires_approval : BOOLEAN, rate_limit : Nat \ {0}]

\* approval.subject_digest is the spec it was given for.
Approval == [subject : Specs, decision : {"APPROVED", "REJECTED"}, expires : Nat \union {None}]

Errors == {"UnauthorizedMcpToolError", "McpApprovalRequiredError", "McpInputSchemaError",
           "McpRateLimitExceededError", "McpResultTooLargeError", "McpGatewayError"}

ASSUME GatewayAssumption ==
    /\ Specs \subseteq McpToolSpec
    /\ Approvals \subseteq Approval
    /\ None \notin Specs \union Approvals \union Nat
    /\ None \notin Errors
    /\ Minute \in Nat \ {0}
    /\ MaxTime \in Nat

VARIABLES catalog,   \* the spec registered for the tool
          window,    \* McpRateLimiter._calls of the tool: times of its last calls
          clock,     \* time.monotonic, which orders as the caller's `now` does
          call,      \* each call
          audit,     \* the outcomes _write_audit recorded for it
          admitted   \* history: the calls the rate limiter let pass, in order

vars == <<catalog, window, clock, call, audit, admitted>>

NewCall == [pc |-> "idle", spec |-> None, approval |-> None, error |-> None]

Init ==
    /\ catalog \in Specs \union {None}
    /\ window = <<>>
    /\ clock = 0
    /\ call = [c \in Call |-> NewCall]
    /\ audit = [c \in Call |-> <<>>]
    /\ admitted = <<>>

-----------------------------------------------------------------------------
(* The gates.                                                               *)

_check_approval(spec, approval, now) ==
    /\ approval # None
    /\ approval.subject = spec
    /\ approval.decision = "APPROVED"
    /\ approval.expires = None \/ now <= approval.expires

\* The first gate that refuses names the error.
Refusal(spec, role, granted, approval, well_formed) ==
    CASE spec = None \/ role \notin spec.roles \/ ~granted -> "UnauthorizedMcpToolError"
      [] spec.requires_approval /\ ~_check_approval(spec, approval, clock)
                                                          -> "McpApprovalRequiredError"
      [] ~well_formed                                     -> "McpInputSchemaError"
      [] OTHER                                            -> None

MutantExpire(n) ==
    /\ \A i \in 1..n : window[i] <= clock - Minute
    /\ n < Len(window) => window[n + 1] > clock - Minute

\* popleft while the first is older than a minute: n times leave the window.
Expire(n) ==
    /\ \A i \in 1..n : window[i] < clock - Minute
    /\ n < Len(window) => window[n + 1] >= clock - Minute

\* Any exception but an McpGatewayError leaves without a record.
Raises(c) ==
    /\ call' = [call EXCEPT ![c].pc = "raised"]
    /\ UNCHANGED audit

\* The call is rejected, and recorded as such before its caller hears of it; or
\* the record cannot be written, and the caller hears of that.
Rejects(c, k, error) ==
    \/ /\ call' = [call EXCEPT ![c] = [k EXCEPT !.pc = "rejected", !.error = error]]
       /\ audit' = [audit EXCEPT ![c] = Append(@, "REJECTED")]
    \/ Raises(c)

\* A call within the limit is recorded; one beyond it leaves the rest as it is.
check_and_record(c, spec, approval) ==
    \E n \in 0..Len(window) :
      LET recent == SubSeq(window, n + 1, Len(window)) IN
      /\ Expire(n)
      /\ \/ /\ Len(recent) >= spec.rate_limit
            /\ Rejects(c, NewCall, "McpRateLimitExceededError")
            /\ window' = recent
            /\ UNCHANGED admitted
         \/ /\ Len(recent) < spec.rate_limit
            /\ window' = Append(recent, clock)
            /\ admitted' = Append(admitted, [call |-> c, at |-> clock])
            /\ call' = [call EXCEPT ![c] = [pc |-> "resolving", spec |-> spec,
                                           approval |-> approval, error |-> None]]
            /\ UNCHANGED audit

\* invoke_mcp_tool up to its first await.
invoke_mcp_tool(c) ==
    /\ call[c].pc = "idle"
    /\ \E role \in Role, granted, well_formed \in BOOLEAN, approval \in Approvals \union {None} :
         LET refusal == Refusal(catalog, role, granted, approval, well_formed) IN
         \/ /\ refusal # None
            /\ Rejects(c, NewCall, refusal)
            /\ UNCHANGED <<window, admitted>>
         \/ refusal = None /\ check_and_record(c, catalog, approval)
    /\ UNCHANGED <<catalog, clock>>

-----------------------------------------------------------------------------
(* The awaits.                                                              *)

MutantResolveReadsAgain(c) ==
    /\ call[c].pc = "resolving"
    /\ call' = [call EXCEPT ![c].pc = "sent", ![c].spec = catalog]
    /\ UNCHANGED <<audit, catalog, window, clock, admitted>>

\* The credential is resolved and the transport called with the spec that was
\* gated; or the broker raises, an McpGatewayError or anything else.
resolve(c) ==
    /\ call[c].pc = "resolving"
    /\ \/ call' = [call EXCEPT ![c].pc = "sent"] /\ UNCHANGED audit
       \/ Rejects(c, call[c], "McpGatewayError")
    /\ UNCHANGED <<catalog, window, clock, admitted>>

MutantTransportReturns(c) ==
    /\ call[c].pc = "sent"
    /\ \/ /\ call' = [call EXCEPT ![c].pc = "returned"]
          /\ audit' = [audit EXCEPT ![c] = Append(@, "SUCCEEDED")]
       \/ /\ call' = [call EXCEPT ![c].pc = "rejected", ![c].error = "McpResultTooLargeError"]
          /\ audit' = [audit EXCEPT ![c] = @ \o <<"SUCCEEDED", "REJECTED">>]
    /\ UNCHANGED <<catalog, window, clock, admitted>>

\* The answer is stored and the call recorded, the answer is too large, or it
\* cannot be serialised or written.
transport_returns(c) ==
    /\ call[c].pc = "sent"
    /\ \/ /\ call' = [call EXCEPT ![c].pc = "returned"]
          /\ audit' = [audit EXCEPT ![c] = Append(@, "SUCCEEDED")]
       \/ Rejects(c, call[c], "McpResultTooLargeError")
       \/ Raises(c)
    /\ UNCHANGED <<catalog, window, clock, admitted>>

\* wait_for: a transport that has not answered is cancelled (or it raises an
\* McpGatewayError itself).
transport_times_out(c) ==
    /\ call[c].pc = "sent"
    /\ Rejects(c, call[c], "McpGatewayError")
    /\ UNCHANGED <<catalog, window, clock, admitted>>

\* The transport raises, or the caller's own task is cancelled at an await.
await_raises(c) ==
    /\ call[c].pc \in {"resolving", "sent"}
    /\ Raises(c)
    /\ UNCHANGED <<catalog, window, clock, admitted>>

\* McpToolCatalog.register, at any time.
register(spec) ==
    /\ catalog' = spec
    /\ UNCHANGED <<window, clock, call, audit, admitted>>

tick ==
    /\ clock < MaxTime
    /\ clock' = clock + 1
    /\ UNCHANGED <<catalog, window, call, audit, admitted>>

Next ==
    \/ \E c \in Call : \/ invoke_mcp_tool(c) \/ resolve(c)
                       \/ transport_returns(c) \/ transport_times_out(c) \/ await_raises(c)
    \/ \E spec \in Specs : register(spec)
    \/ tick

Spec == Init /\ [][Next]_vars

-----------------------------------------------------------------------------
(* Properties.                                                              *)

Answered == {"returned", "rejected"}

Instant == 0..MaxTime

Admission == [call : Call, at : Instant]

Outcome == {"SUCCEEDED", "REJECTED"}

CallState ==
    [pc : {"idle", "resolving", "sent", "raised"} \union Answered,
     spec : Specs \union {None}, approval : Approvals \union {None},
     error : Errors \union {None}]

TypeOK ==
    /\ catalog \in Specs \union {None}
    /\ window \in Seq(Instant)
    /\ clock \in Instant
    /\ call \in [Call -> CallState]
    /\ audit \in [Call -> Seq(Outcome)]
    /\ admitted \in Seq(Admission)

\* Whatever is registered meanwhile, a call goes out with a spec the caller had
\* approval for, if that spec asks for one: the approval is bound to its digest.
SentAsApproved ==
    \A c \in Call :
        LET spec == call[c].spec IN
        call[c].pc \in {"sent", "returned"} =>
            /\ spec # None
            /\ spec.requires_approval =>
                 /\ call[c].approval # None
                 /\ call[c].approval.subject = spec
                 /\ call[c].approval.decision = "APPROVED"

LastMinute(n) ==
    {m \in 1..n : admitted[m].at >= admitted[n].at - Minute}

\* In no minute, both ends included, does the limiter let more calls pass than
\* the limit it last applied, though it forgets calls and limits change.
RateHolds ==
    \A n \in 1..Len(admitted) :
        Cardinality(LastMinute(n)) <= call[admitted[n].call].spec.rate_limit

\* A call the gates refuse takes no slot of the rate window from those that are
\* allowed.
SlotsOnlyForAuthorised ==
    \A n \in 1..Len(admitted) :
        call[admitted[n].call].error \notin
            {"UnauthorizedMcpToolError", "McpApprovalRequiredError", "McpInputSchemaError"}

\* A caller that is given a result or an McpGatewayError finds one record of
\* exactly that: an answer that turns out too large leaves no SUCCEEDED behind.
AnswersAreAudited ==
    \A c \in Call :
        /\ call[c].pc = "returned" => audit[c] = <<"SUCCEEDED">>
        /\ call[c].pc = "rejected" => audit[c] = <<"REJECTED">>

\* What _write_audit and invoke_mcp_tool promise: "Every call, authorized or
\* rejected, leaves an evidence trail", here of the calls the gates authorised,
\* however they end.
AuthorisedCallsAreAudited ==
    \A c \in Call :
        call[c].spec # None /\ call[c].pc \in Answered \union {"raised"} => audit[c] # <<>>

=============================================================================
