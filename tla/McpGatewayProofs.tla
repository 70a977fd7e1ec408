-------------------------- MODULE McpGatewayProofs --------------------------
(***************************************************************************)
(* Proofs about McpGateway, for any calls, specs, approvals and limits.    *)
(* The inductive invariant says what the rate window is: the times of the  *)
(* calls last admitted, all but those older than a minute.                 *)
(***************************************************************************)
EXTENDS McpGateway, FiniteSetTheorems, SequenceTheorems, TLAPS

\* From the gates on, a call has a spec and no error, and approval for it if it needs one.
Approved(k) ==
    k.pc \in {"resolving", "sent", "returned"} =>
        /\ k.spec # None /\ k.error = None
        /\ k.spec.requires_approval =>
             /\ k.approval # None
             /\ k.approval.subject = k.spec
             /\ k.approval.decision = "APPROVED"

Recorded(k, records) ==
    /\ k.pc = "returned" => records = <<"SUCCEEDED">>
    /\ k.pc = "rejected" => records = <<"REJECTED">>
    /\ k.pc \notin Answered => records = <<>>

\* What may have become of a call the limiter let pass.
PassedOn(k) ==
    /\ k.pc # "idle" /\ k.spec # None
    /\ k.error \in {None, "McpResultTooLargeError", "McpGatewayError"}

AdmittedPassedOn == \A n \in 1..Len(admitted) : PassedOn(call[admitted[n].call])

WindowIsLast ==
    /\ Len(window) <= Len(admitted)
    /\ \A i \in 1..Len(window) :
         window[i] = admitted[Len(admitted) - Len(window) + i].at
    /\ \A m \in 1..(Len(admitted) - Len(window)) : admitted[m].at < clock - Minute

IInv ==
    /\ TypeOK
    /\ \A c \in Call : Approved(call[c]) /\ Recorded(call[c], audit[c])
    /\ AdmittedPassedOn
    /\ WindowIsLast
    /\ RateHolds

LEMMA Types ==
  ASSUME TypeOK
  PROVE  /\ window \in Seq(Instant) /\ clock \in Instant /\ clock \in Int /\ Minute \in Int
         /\ call \in [Call -> CallState] /\ audit \in [Call -> Seq(Outcome)]
         /\ admitted \in Seq(Admission)
         /\ Len(window) \in Nat /\ Len(admitted) \in Nat
         /\ \A i \in 1..Len(window) : window[i] \in Int
         /\ \A n \in 1..Len(admitted) : admitted[n].call \in Call /\ admitted[n].at \in Int
<1>1. \A n \in 1..Len(admitted) : admitted[n] \in Admission
  BY ElementOfSeq DEF TypeOK
<1>2. \A i \in 1..Len(window) : window[i] \in Instant
  BY ElementOfSeq DEF TypeOK
<1>3. Len(window) \in Nat /\ Len(admitted) \in Nat
  BY DEF TypeOK
<1>4. \A t \in Instant : t \in Int
  BY GatewayAssumption DEF Instant
<1> QED  BY <1>1, <1>2, <1>3, <1>4, GatewayAssumption DEF TypeOK, Admission

LEMMA InitIInv == Init => IInv
<1> SUFFICES ASSUME Init PROVE IInv
  OBVIOUS
<1>1. /\ NewCall \in CallState /\ NewCall.pc = "idle"
  BY DEF NewCall, CallState
<1>2. TypeOK
  BY <1>1, GatewayAssumption DEF Init, TypeOK, Instant
<1>3. \A c \in Call : Approved(call[c]) /\ Recorded(call[c], audit[c])
  BY <1>1 DEF Init, Approved, Recorded, Answered
<1> QED  BY <1>2, <1>3 DEF Init, IInv, AdmittedPassedOn, WindowIsLast, RateHolds

-----------------------------------------------------------------------------
\* One call steps and none is admitted.
LEMMA CallKeeps ==
  ASSUME IInv, NEW c \in Call, NEW k \in CallState, NEW records \in Seq(Outcome),
         call' = [call EXCEPT ![c] = k], audit' = [audit EXCEPT ![c] = records],
         UNCHANGED <<catalog, clock, admitted>>,
         window' \in Seq(Instant), WindowIsLast',
         call[c].pc = "idle" \/ (PassedOn(k) /\ k.spec = call[c].spec),
         Approved(k), Recorded(k, records)
  PROVE  IInv'
<1> USE DEF IInv
<1>1. /\ call \in [Call -> CallState] /\ audit \in [Call -> Seq(Outcome)]
      /\ \A n \in 1..Len(admitted) : admitted[n].call \in Call
  BY Types
<1>2. /\ call'[c] = k /\ \A x \in Call \ {c} : call'[x] = call[x]
      /\ audit'[c] = records /\ \A x \in Call \ {c} : audit'[x] = audit[x]
  BY <1>1
<1>3. TypeOK'
  BY <1>1 DEF TypeOK
<1>4. \A x \in Call : Approved(call'[x]) /\ Recorded(call'[x], audit'[x])
  BY <1>2
<1>5. \A n \in 1..Len(admitted) : /\ PassedOn(call'[admitted[n].call])
                                  /\ call'[admitted[n].call].spec = call[admitted[n].call].spec
  <2> SUFFICES ASSUME NEW n \in 1..Len(admitted)
               PROVE  /\ PassedOn(call'[admitted[n].call])
                      /\ call'[admitted[n].call].spec = call[admitted[n].call].spec
    OBVIOUS
  <2>1. PassedOn(call[admitted[n].call]) /\ admitted[n].call \in Call
    BY <1>1 DEF AdmittedPassedOn
  <2>2. CASE admitted[n].call = c
    BY <1>2, <2>1, <2>2 DEF PassedOn
  <2>3. CASE admitted[n].call # c
    BY <1>2, <2>1, <2>3
  <2> QED  BY <2>2, <2>3
<1>6. RateHolds'
  BY <1>5 DEF RateHolds, LastMinute
<1> QED  BY <1>3, <1>4, <1>5, <1>6 DEF AdmittedPassedOn

\* A call is rejected, or raises; it was admitted before, or never is.
LEMMA RejectsKeeps ==
  ASSUME IInv, NEW c \in Call, NEW k \in CallState, NEW error \in Errors,
         Rejects(c, k, error) \/ Raises(c),
         call[c].pc \notin Answered,
         \/ call[c].pc = "idle"
         \/ /\ PassedOn(call[c]) /\ k = call[c]
            /\ error \in {"McpResultTooLargeError", "McpGatewayError"},
         UNCHANGED <<catalog, clock, admitted>>,
         window' \in Seq(Instant), WindowIsLast'
  PROVE  IInv'
<1>1. /\ call[c] \in CallState /\ audit \in [Call -> Seq(Outcome)]
      /\ audit[c] = <<>>
  BY Types DEF IInv, Recorded
<1>2. CASE Raises(c)
  <2> DEFINE raised == [call[c] EXCEPT !.pc = "raised"]
  <2>1. call' = [call EXCEPT ![c] = raised] /\ audit' = [audit EXCEPT ![c] = audit[c]]
    BY <1>1, <1>2 DEF Raises
  <2>2. /\ raised \in CallState /\ raised.pc = "raised" /\ raised.spec = call[c].spec
        /\ raised.error = call[c].error
    BY <1>1 DEF CallState
  <2> HIDE DEF raised
  <2>3. Approved(raised) /\ Recorded(raised, audit[c])
    BY <1>1, <2>2 DEF Approved, Recorded, Answered
  <2>4. call[c].pc = "idle" \/ (PassedOn(raised) /\ raised.spec = call[c].spec)
    BY <2>2 DEF PassedOn
  <2> QED  BY <1>1, <2>1, <2>2, <2>3, <2>4, CallKeeps
<1>3. CASE Rejects(c, k, error) /\ ~Raises(c)
  <2> DEFINE rejected == [k EXCEPT !.pc = "rejected", !.error = error]
  <2>1. call' = [call EXCEPT ![c] = rejected] /\ audit' = [audit EXCEPT ![c] = <<"REJECTED">>]
    BY <1>1, <1>3 DEF Rejects
  <2>2. /\ rejected \in CallState /\ rejected.pc = "rejected" /\ rejected.spec = k.spec
        /\ rejected.error = error
    BY DEF CallState, Answered
  <2> HIDE DEF rejected
  <2>3. Approved(rejected) /\ Recorded(rejected, <<"REJECTED">>)
    BY <2>2 DEF Approved, Recorded, Answered
  <2>4. call[c].pc = "idle" \/ (PassedOn(rejected) /\ rejected.spec = call[c].spec)
    BY <2>2 DEF PassedOn
  <2>5. <<"REJECTED">> \in Seq(Outcome)
    BY DEF Outcome
  <2> QED  BY <2>1, <2>2, <2>3, <2>4, <2>5, CallKeeps
<1> QED  BY <1>2, <1>3

-----------------------------------------------------------------------------
\* What the gates let through has approval, if it needs it.
LEMMA GatesHold ==
  ASSUME NEW spec \in Specs \union {None}, NEW role, NEW granted, NEW well_formed,
         NEW approval \in Approvals \union {None},
         Refusal(spec, role, granted, approval, well_formed) = None
  PROVE  /\ spec # None
         /\ spec.requires_approval =>
              /\ approval # None
              /\ approval.subject = spec
              /\ approval.decision = "APPROVED"
<1>1. /\ "UnauthorizedMcpToolError" # None /\ "McpApprovalRequiredError" # None
      /\ "McpInputSchemaError" # None
  BY GatewayAssumption DEF Errors
<1>2. spec # None
  BY <1>1 DEF Refusal
<1>3. ASSUME spec.requires_approval
      PROVE  _check_approval(spec, approval, clock)
  BY <1>1, <1>3 DEF Refusal
<1> QED  BY <1>2, <1>3 DEF _check_approval

LEMMA RefusalIsError ==
  ASSUME NEW spec, NEW role, NEW granted, NEW well_formed, NEW approval,
         Refusal(spec, role, granted, approval, well_formed) # None
  PROVE  Refusal(spec, role, granted, approval, well_formed) \in Errors
<1> DEFINE unauthorized == spec = None \/ role \notin spec.roles \/ ~granted
           unapproved == spec.requires_approval /\ ~_check_approval(spec, approval, clock)
<1>1. Refusal(spec, role, granted, approval, well_formed) =
        CASE unauthorized -> "UnauthorizedMcpToolError"
          [] unapproved   -> "McpApprovalRequiredError"
          [] ~well_formed -> "McpInputSchemaError"
          [] OTHER        -> None
  BY Zenon DEF Refusal
<1> HIDE DEF unauthorized, unapproved
<1> QED  BY <1>1 DEF Errors

LEMMA RestOfWindow ==
  ASSUME IInv, NEW n \in 0..Len(window), NEW recent, recent = SubSeq(window, n + 1, Len(window))
  PROVE  /\ recent \in Seq(Instant) /\ Len(recent) = Len(window) - n
         /\ \A i \in 1..Len(recent) : recent[i] = window[n + i]
<1>1. window \in Seq(Instant) /\ Len(window) \in Nat
  BY Types DEF IInv
<1>2. /\ n + 1 \in Int /\ Len(window) \in Int
      /\ \A i \in (n + 1)..Len(window) : window[i] \in Instant
  BY <1>1
<1>3. /\ recent \in Seq(Instant)
      /\ Len(recent) = IF n + 1 <= Len(window) THEN Len(window) - (n + 1) + 1 ELSE 0
      /\ \A i \in 1..(Len(window) - (n + 1) + 1) : recent[i] = window[n + 1 + i - 1]
  BY <1>2, SubSeqProperties
<1>4. Len(window) - (n + 1) + 1 = Len(window) - n /\ Len(recent) = Len(window) - n
  BY <1>1, <1>3
<1>5. \A i \in 1..(Len(window) - n) : n + 1 + i - 1 = n + i
  BY <1>1
<1> QED  BY <1>3, <1>4, <1>5

\* The window once the calls older than a minute have left it.
LEMMA ExpireKeeps ==
  ASSUME IInv, NEW n \in 0..Len(window), Expire(n),
         NEW recent, Len(recent) = Len(window) - n,
         \A i \in 1..Len(recent) : recent[i] = window[n + i]
  PROVE  /\ Len(recent) \in Nat /\ Len(recent) <= Len(admitted)
         /\ \A i \in 1..Len(recent) :
              recent[i] = admitted[Len(admitted) - Len(recent) + i].at
         /\ \A m \in 1..(Len(admitted) - Len(recent)) : admitted[m].at < clock - Minute
<1>1. /\ Len(window) \in Nat /\ Len(admitted) \in Nat
      /\ Len(window) <= Len(admitted)
  BY Types DEF IInv, WindowIsLast
<1>2. Len(recent) \in Nat /\ Len(recent) <= Len(admitted)
  BY <1>1
<1>3. ASSUME NEW i \in 1..Len(recent)
      PROVE  recent[i] = admitted[Len(admitted) - Len(recent) + i].at
  <2>1. n + i \in 1..Len(window)
    BY <1>1, <1>2
  <2>2. window[n + i] = admitted[Len(admitted) - Len(window) + (n + i)].at
    BY <2>1 DEF IInv, WindowIsLast
  <2>3. Len(admitted) - Len(window) + (n + i) = Len(admitted) - Len(recent) + i
    BY <1>1, <1>2
  <2> QED  BY <1>2, <2>2, <2>3
<1>4. ASSUME NEW m \in 1..(Len(admitted) - Len(recent))
      PROVE  admitted[m].at < clock - Minute
  <2>1. CASE m <= Len(admitted) - Len(window)
    BY <1>1, <1>2, <2>1 DEF IInv, WindowIsLast
  <2>2. CASE m > Len(admitted) - Len(window)
    <3> DEFINE i == m - (Len(admitted) - Len(window))
    <3>1. i \in 1..n /\ i \in 1..Len(window) /\ Len(admitted) - Len(window) + i = m
      BY <1>1, <1>2, <2>2
    <3>2. window[i] < clock - Minute
      BY <3>1 DEF Expire
    <3>3. window[i] = admitted[Len(admitted) - Len(window) + i].at
      BY <3>1 DEF IInv, WindowIsLast
    <3> QED  BY <3>1, <3>2, <3>3
  <2> QED  BY <1>1, <1>2, <2>1, <2>2
<1> QED  BY <1>1, <1>2, <1>3, <1>4

\* One more is admitted: what is left of the window, and its time, are the last.
LEMMA WindowGrows ==
  ASSUME NEW size \in Nat, NEW rest \in 0..size,
         Len(admitted') = size + 1, admitted'[size + 1].at = clock',
         \A m \in 1..size : admitted'[m] = admitted[m],
         Len(window') = rest + 1, window'[rest + 1] = clock',
         \A i \in 1..rest : window'[i] = admitted[size - rest + i].at,
         \A m \in 1..(size - rest) : admitted[m].at < clock' - Minute
  PROVE  WindowIsLast'
<1>1. Len(window') <= Len(admitted') /\ Len(admitted') - Len(window') = size - rest
  OBVIOUS
<1>2. ASSUME NEW i \in 1..(rest + 1)
      PROVE  window'[i] = admitted'[size - rest + i].at
  <2>1. CASE i \in 1..rest
    <3>1. size - rest + i \in 1..size
      BY <2>1
    <3> QED  BY <2>1, <3>1
  <2>2. CASE i = rest + 1
    <3>1. size - rest + i = size + 1
      BY <2>2
    <3> QED  BY <2>2, <3>1
  <2> QED  BY <2>1, <2>2
<1>3. ASSUME NEW m \in 1..(size - rest) PROVE admitted'[m].at < clock' - Minute
  <2>1. m \in 1..size
    OBVIOUS
  <2> QED  BY <2>1
<1> QED  BY <1>1, <1>2, <1>3 DEF WindowIsLast

\* The minute that ends with the last one admitted lies within the window.
LEMMA LastMinuteBounded ==
  ASSUME NEW size \in Nat, NEW rest \in 0..size,
         admitted'[size + 1].at = clock', clock' \in Int, Minute \in Int,
         \A m \in 1..size : admitted'[m] = admitted[m] /\ admitted[m].at \in Int,
         \A m \in 1..(size - rest) : admitted[m].at < clock' - Minute
  PROVE  Cardinality(LastMinute(size + 1)') <= rest + 1
<1> DEFINE first == size - rest + 1
<1>1. LastMinute(size + 1)' \subseteq first..(size + 1)
  <2> SUFFICES ASSUME NEW j \in 1..(size + 1), admitted'[j].at >= clock' - Minute
               PROVE  j \in first..(size + 1)
    BY DEF LastMinute
  <2>1. CASE j \in 1..(size - rest)
    <3>1. j \in 1..size
      BY <2>1
    <3>2. admitted'[j].at < clock' - Minute /\ admitted'[j].at \in Int
      BY <2>1, <3>1
    <3> QED  BY <3>2
  <2> QED  BY <2>1
<1>2. first \in Int /\ size + 1 \in Int /\ first <= size + 1 /\ size + 1 - first + 1 = rest + 1
  OBVIOUS
<1>3. IsFiniteSet(first..(size + 1)) /\ Cardinality(first..(size + 1)) = rest + 1
  <2> DEFINE b == size + 1
  <2> HIDE DEF first, b
  <2>1. first \in Int /\ b \in Int /\ ~(first > b) /\ b - first + 1 = rest + 1
    BY <1>2 DEF b
  <2>2. /\ IsFiniteSet(first..b)
        /\ Cardinality(first..b) = IF first > b THEN 0 ELSE b - first + 1
    BY <2>1, FS_Interval
  <2>3. Cardinality(first..b) = rest + 1
    BY <2>1, <2>2
  <2> QED  BY <2>2, <2>3 DEF b
<1> HIDE DEF first
<1> QED  BY <1>1, <1>3, FS_Subset

\* The limiter lets a call pass: it fits into the minute that ends with it.
LEMMA AdmitsKeeps ==
  ASSUME IInv, NEW c \in Call, call[c].pc = "idle", audit[c] = <<>>,
         NEW k \in CallState, k.pc = "resolving", PassedOn(k), Approved(k),
         k.spec.rate_limit \in Nat,
         NEW one \in Admission, one.call = c, one.at = clock,
         NEW recent \in Seq(Instant), Len(recent) \in Nat, Len(recent) <= Len(admitted),
         \A i \in 1..Len(recent) : recent[i] = admitted[Len(admitted) - Len(recent) + i].at,
         \A m \in 1..(Len(admitted) - Len(recent)) : admitted[m].at < clock - Minute,
         Len(recent) < k.spec.rate_limit,
         window' = Append(recent, clock), admitted' = Append(admitted, one),
         call' = [call EXCEPT ![c] = k], UNCHANGED <<audit, catalog, clock>>
  PROVE  IInv'
<1>1. /\ call \in [Call -> CallState] /\ admitted \in Seq(Admission)
      /\ Len(admitted) \in Nat /\ clock \in Instant /\ clock \in Int /\ Minute \in Int
      /\ \A m \in 1..Len(admitted) : admitted[m].call \in Call /\ admitted[m].at \in Int
  BY Types DEF IInv
<1>2. call'[c] = k /\ \A x \in Call \ {c} : call'[x] = call[x]
  BY <1>1
<1>3. /\ admitted' \in Seq(Admission) /\ Len(admitted') = Len(admitted) + 1
      /\ admitted'[Len(admitted) + 1] = one
      /\ \A m \in 1..Len(admitted) : admitted'[m] = admitted[m]
  BY <1>1, AppendProperties
<1>4. /\ window' \in Seq(Instant) /\ Len(window') = Len(recent) + 1
      /\ window'[Len(recent) + 1] = clock
      /\ \A i \in 1..Len(recent) : window'[i] = recent[i]
  BY <1>1, AppendProperties
<1>5. TypeOK'
  BY <1>1, <1>3, <1>4 DEF TypeOK, IInv
<1>6. \A x \in Call : Approved(call'[x]) /\ Recorded(call'[x], audit'[x])
  BY <1>2 DEF Recorded, IInv, Answered
<1>7. ASSUME NEW m \in 1..Len(admitted)
      PROVE  /\ PassedOn(call'[admitted'[m].call])
             /\ call'[admitted'[m].call].spec = call[admitted[m].call].spec
  <2>1. PassedOn(call[admitted[m].call]) /\ admitted[m].call \in Call
    BY <1>1 DEF IInv, AdmittedPassedOn
  <2>2. admitted[m].call # c
    BY <2>1 DEF PassedOn
  <2> QED  BY <1>2, <1>3, <2>1, <2>2
<1>8. PICK size \in Nat : size = Len(admitted)
  BY <1>1
<1>9. PICK rest \in 0..size : rest = Len(recent)
  BY <1>8
<1>10. \A m \in 1..(size + 1) : m \in 1..size \/ m = size + 1
  OBVIOUS
<1>11. AdmittedPassedOn'
  BY <1>2, <1>3, <1>7, <1>8, <1>10 DEF AdmittedPassedOn
<1>12. WindowIsLast'
  <2>1. \A i \in 1..rest : window'[i] = admitted[size - rest + i].at
    BY <1>4, <1>8, <1>9
  <2>2. \A m \in 1..(size - rest) : admitted[m].at < clock' - Minute
    BY <1>8, <1>9
  <2> QED  BY <1>3, <1>4, <1>8, <1>9, <2>1, <2>2, WindowGrows
<1>13. RateHolds'
  <2>1. ASSUME NEW m \in 1..size
        PROVE  Cardinality(LastMinute(m)') <= call'[admitted'[m].call].spec.rate_limit
    <3>1. \A j \in 1..m : j \in 1..size
      OBVIOUS
    <3>2. LastMinute(m)' = LastMinute(m)
      BY <1>3, <1>8, <3>1 DEF LastMinute
    <3>3. Cardinality(LastMinute(m)) <= call[admitted[m].call].spec.rate_limit
      BY <1>8 DEF IInv, RateHolds
    <3> QED  BY <1>7, <1>8, <3>2, <3>3
  <2>2. Cardinality(LastMinute(size + 1)') <= call'[admitted'[size + 1].call].spec.rate_limit
    <3>1. Cardinality(LastMinute(size + 1)') <= rest + 1
      BY <1>1, <1>3, <1>8, <1>9, LastMinuteBounded
    <3>2. 1 \in Int /\ size + 1 \in Int
      OBVIOUS
    <3>3. IsFiniteSet(LastMinute(size + 1)')
      BY <3>2, FS_Interval, FS_Subset DEF LastMinute
    <3>4. Cardinality(LastMinute(size + 1)') \in Nat
      BY <3>3, FS_CardinalityType
    <3>5. PICK count \in Nat : count = Cardinality(LastMinute(size + 1)')
      BY <3>4
    <3>6. PICK limit \in Nat : limit = k.spec.rate_limit
      OBVIOUS
    <3>7. call'[admitted'[size + 1].call].spec.rate_limit = limit
      BY <1>2, <1>3, <1>8, <3>6
    <3>8. count <= rest + 1 /\ rest < limit
      BY <1>9, <3>1, <3>5, <3>6
    <3>9. count <= limit
      BY <3>8
    <3> QED  BY <3>5, <3>7, <3>9
  <2> QED  BY <1>3, <1>8, <1>10, <2>1, <2>2 DEF RateHolds
<1> QED  BY <1>5, <1>6, <1>11, <1>12, <1>13 DEF IInv

-----------------------------------------------------------------------------
LEMMA InvokeKeeps ==
  ASSUME IInv, NEW c \in Call, invoke_mcp_tool(c)
  PROVE  IInv'
<1>1. call[c].pc = "idle" /\ UNCHANGED <<catalog, clock>> /\ call[c].pc \notin Answered
  BY DEF invoke_mcp_tool, Answered
<1>2. PICK role \in Role, granted \in BOOLEAN, well_formed \in BOOLEAN,
           approval \in Approvals \union {None} :
        LET refusal == Refusal(catalog, role, granted, approval, well_formed) IN
        \/ refusal # None /\ Rejects(c, NewCall, refusal) /\ UNCHANGED <<window, admitted>>
        \/ refusal = None /\ check_and_record(c, catalog, approval)
  BY DEF invoke_mcp_tool
<1> DEFINE refusal == Refusal(catalog, role, granted, approval, well_formed)
<1>3. NewCall \in CallState
  BY DEF NewCall, CallState
<1>4. /\ window \in Seq(Instant) /\ catalog \in Specs \union {None} /\ WindowIsLast
  BY DEF IInv, TypeOK
<1>5. CASE refusal # None /\ Rejects(c, NewCall, refusal) /\ UNCHANGED <<window, admitted>>
  <2>1. refusal \in Errors
    BY <1>5, RefusalIsError
  <2>2. window' \in Seq(Instant) /\ WindowIsLast'
    BY <1>1, <1>4, <1>5 DEF WindowIsLast
  <2> HIDE DEF refusal
  <2> QED  BY <1>1, <1>3, <1>5, <2>1, <2>2, RejectsKeeps
<1>6. CASE refusal = None /\ check_and_record(c, catalog, approval)
  <2>1. /\ catalog # None
        /\ catalog.requires_approval => /\ approval # None
                                        /\ approval.subject = catalog
                                        /\ approval.decision = "APPROVED"
    BY <1>4, <1>6, GatesHold
  <2>2. PICK n \in 0..Len(window) :
          /\ Expire(n)
          /\ \/ /\ Rejects(c, NewCall, "McpRateLimitExceededError")
                /\ window' = SubSeq(window, n + 1, Len(window))
                /\ UNCHANGED admitted
             \/ /\ Len(SubSeq(window, n + 1, Len(window))) < catalog.rate_limit
                /\ window' = Append(SubSeq(window, n + 1, Len(window)), clock)
                /\ admitted' = Append(admitted, [call |-> c, at |-> clock])
                /\ call' = [call EXCEPT ![c] = [pc |-> "resolving", spec |-> catalog,
                                                approval |-> approval, error |-> None]]
                /\ UNCHANGED audit
    BY <1>6 DEF check_and_record
  <2>3. CASE /\ Rejects(c, NewCall, "McpRateLimitExceededError")
             /\ window' = SubSeq(window, n + 1, Len(window))
             /\ UNCHANGED admitted
    <3>1. PICK rest : rest = SubSeq(window, n + 1, Len(window))
      OBVIOUS
    <3>2. /\ rest \in Seq(Instant) /\ Len(rest) = Len(window) - n
          /\ \A i \in 1..Len(rest) : rest[i] = window[n + i]
      BY <3>1, RestOfWindow
    <3>4. /\ Len(rest) <= Len(admitted)
          /\ \A i \in 1..Len(rest) : rest[i] = admitted[Len(admitted) - Len(rest) + i].at
          /\ \A m \in 1..(Len(admitted) - Len(rest)) : admitted[m].at < clock - Minute
      <4>1. n \in 0..Len(window) /\ Expire(n)
        BY <2>2
      <4>2. /\ \A i \in 1..Len(rest) : rest[i] = window[n + i]
            /\ Len(rest) = Len(window) - n
        BY <3>2
      <4> QED  BY <4>1, <4>2, ExpireKeeps, Zenon
    <3>5. window' = rest /\ UNCHANGED <<admitted, clock>>
      BY <1>1, <2>3, <3>1
    <3>6. WindowIsLast' /\ window' \in Seq(Instant)
      BY <3>2, <3>4, <3>5 DEF WindowIsLast
    <3>3. "McpRateLimitExceededError" \in Errors
      BY DEF Errors
    <3> QED  BY <1>1, <1>3, <2>3, <3>3, <3>6, RejectsKeeps
  <2>4. CASE /\ Len(SubSeq(window, n + 1, Len(window))) < catalog.rate_limit
             /\ window' = Append(SubSeq(window, n + 1, Len(window)), clock)
             /\ admitted' = Append(admitted, [call |-> c, at |-> clock])
             /\ call' = [call EXCEPT ![c] = [pc |-> "resolving", spec |-> catalog,
                                             approval |-> approval, error |-> None]]
             /\ UNCHANGED audit
    <3> DEFINE k == [pc |-> "resolving", spec |-> catalog, approval |-> approval, error |-> None]
               one == [call |-> c, at |-> clock]
               recent == SubSeq(window, n + 1, Len(window))
    <3>1. /\ k \in CallState /\ k.pc = "resolving" /\ k.spec = catalog
          /\ k.approval = approval /\ k.error = None
      BY <1>4 DEF CallState
    <3>2. /\ one \in Admission /\ one.call = c /\ one.at = clock
      BY DEF Admission, IInv, TypeOK
    <3>3. catalog.rate_limit \in Nat
      BY <1>4, <2>1, GatewayAssumption DEF McpToolSpec
    <3>4. /\ recent \in Seq(Instant) /\ Len(recent) \in Nat /\ Len(recent) <= Len(admitted)
          /\ \A i \in 1..Len(recent) : recent[i] = admitted[Len(admitted) - Len(recent) + i].at
          /\ \A m \in 1..(Len(admitted) - Len(recent)) : admitted[m].at < clock - Minute
      <4>1. PICK rest : rest = recent
        OBVIOUS
      <4>2. /\ rest \in Seq(Instant) /\ Len(rest) = Len(window) - n
            /\ \A i \in 1..Len(rest) : rest[i] = window[n + i]
        BY <4>1, RestOfWindow
      <4>3. /\ Len(rest) \in Nat /\ Len(rest) <= Len(admitted)
            /\ \A i \in 1..Len(rest) : rest[i] = admitted[Len(admitted) - Len(rest) + i].at
            /\ \A m \in 1..(Len(admitted) - Len(rest)) : admitted[m].at < clock - Minute
        <5>1. n \in 0..Len(window) /\ Expire(n)
          BY <2>2
        <5> QED  BY <4>2, <5>1, ExpireKeeps
      <4> QED  BY <4>1, <4>2, <4>3
    <3>5. /\ window' = Append(recent, clock) /\ admitted' = Append(admitted, one)
          /\ call' = [call EXCEPT ![c] = k] /\ Len(recent) < catalog.rate_limit
          /\ UNCHANGED <<audit, catalog, clock>>
      BY <1>1, <2>4
    <3> HIDE DEF k, one, recent
    <3>6. PassedOn(k) /\ Approved(k) /\ audit[c] = <<>>
      BY <1>1, <2>1, <3>1 DEF PassedOn, Approved, IInv, Recorded
    <3> QED  BY <1>1, <3>1, <3>2, <3>3, <3>4, <3>5, <3>6, AdmitsKeeps
  <2> QED  BY <2>2, <2>3, <2>4
<1> QED  BY <1>2, <1>5, <1>6

\* The steps of a call that the limiter let pass.
LEMMA AwaitKeeps ==
  ASSUME IInv, NEW c \in Call,
         resolve(c) \/ transport_returns(c) \/ transport_times_out(c) \/ await_raises(c)
  PROVE  IInv'
<1>1. /\ UNCHANGED <<catalog, window, clock, admitted>> /\ call[c].pc \in {"resolving", "sent"}
      /\ window' \in Seq(Instant) /\ WindowIsLast'
      /\ audit \in [Call -> Seq(Outcome)]
      /\ call \in [Call -> CallState] /\ call[c] \in CallState
      /\ Approved(call[c]) /\ Recorded(call[c], audit[c])
  BY DEF IInv, TypeOK, WindowIsLast, resolve, transport_returns, transport_times_out, await_raises
<1>2. call[c].pc \notin Answered /\ audit[c] = <<>> /\ PassedOn(call[c])
  BY <1>1 DEF Answered, Recorded, Approved, PassedOn
<1>3. "McpGatewayError" \in Errors /\ "McpResultTooLargeError" \in Errors
  BY DEF Errors
<1>4. CASE \/ Raises(c) \/ Rejects(c, call[c], "McpGatewayError")
           \/ Rejects(c, call[c], "McpResultTooLargeError")
  BY <1>1, <1>2, <1>3, <1>4, RejectsKeeps
<1>5. ASSUME NEW pc \in {"sent", "returned"}, call' = [call EXCEPT ![c].pc = pc],
             NEW records \in Seq(Outcome),
             audit' = [audit EXCEPT ![c] = records],
             records = IF pc = "sent" THEN <<>> ELSE <<"SUCCEEDED">>
      PROVE  IInv'
  <2> DEFINE k == [call[c] EXCEPT !.pc = pc]
  <2>1. call' = [call EXCEPT ![c] = k]
    BY <1>5
  <2>2. /\ k \in CallState /\ k.pc = pc /\ k.spec = call[c].spec /\ k.error = call[c].error
        /\ k.approval = call[c].approval
    BY <1>1 DEF CallState, Answered
  <2> HIDE DEF k
  <2>3. Approved(k) /\ Recorded(k, records) /\ PassedOn(k)
    BY <1>1, <1>5, <2>2 DEF Approved, Recorded, Answered, PassedOn
  <2> QED  BY <1>1, <1>5, <2>1, <2>2, <2>3, CallKeeps
<1>6. CASE resolve(c) /\ ~Rejects(c, call[c], "McpGatewayError")
  <2>1. call' = [call EXCEPT ![c].pc = "sent"] /\ audit' = [audit EXCEPT ![c] = <<>>]
    BY <1>1, <1>2, <1>6 DEF resolve
  <2>2. <<>> \in Seq(Outcome)
    BY DEF Outcome
  <2> QED  BY <1>5, <2>1, <2>2
<1>7. CASE /\ call' = [call EXCEPT ![c].pc = "returned"]
           /\ audit' = [audit EXCEPT ![c] = Append(@, "SUCCEEDED")]
  <2>1. audit' = [audit EXCEPT ![c] = <<"SUCCEEDED">>]
    BY <1>1, <1>2, <1>7
  <2>2. <<"SUCCEEDED">> \in Seq(Outcome)
    BY DEF Outcome
  <2> QED  BY <1>5, <1>7, <2>1, <2>2
<1> QED  BY <1>4, <1>6, <1>7 DEF resolve, transport_returns, transport_times_out, await_raises

LEMMA NextIInv == IInv /\ [Next]_vars => IInv'
<1> SUFFICES ASSUME IInv, [Next]_vars PROVE IInv'
  OBVIOUS
<1>1. ASSUME NEW c \in Call, invoke_mcp_tool(c) PROVE IInv'
  BY <1>1, InvokeKeeps
<1>2. ASSUME NEW c \in Call,
             resolve(c) \/ transport_returns(c) \/ transport_times_out(c) \/ await_raises(c)
      PROVE  IInv'
  BY <1>2, AwaitKeeps
<1>3. ASSUME NEW spec \in Specs, register(spec) PROVE IInv'
  BY <1>3 DEF register, IInv, TypeOK, AdmittedPassedOn, WindowIsLast, RateHolds, LastMinute
<1>4. CASE tick
  <2>1. clock \in Int /\ Minute \in Int /\ MaxTime \in Nat /\ Len(window) \in Nat
        /\ clock' \in Instant /\ clock' = clock + 1 /\ Len(admitted) \in Nat
        /\ \A n \in 1..Len(admitted) : admitted[n].at \in Int
    BY <1>4, Types, GatewayAssumption DEF tick, IInv, Instant
  <2>2. UNCHANGED <<catalog, window, call, audit, admitted>>
    BY <1>4 DEF tick
  <2>3. WindowIsLast'
    <3>1. \A m \in 1..(Len(admitted) - Len(window)) :
            m \in 1..Len(admitted) /\ admitted[m].at < clock - Minute
      BY <2>1 DEF IInv, WindowIsLast
    <3>2. \A m \in 1..(Len(admitted) - Len(window)) : admitted[m].at < clock' - Minute
      BY <2>1, <3>1
    <3> QED  BY <2>2, <3>2 DEF IInv, WindowIsLast
  <2> QED  BY <2>1, <2>2, <2>3 DEF IInv, TypeOK, AdmittedPassedOn, RateHolds, LastMinute
<1>5. CASE UNCHANGED vars
  BY <1>5 DEF vars, IInv, TypeOK, AdmittedPassedOn, WindowIsLast, RateHolds, LastMinute
<1> QED  BY <1>1, <1>2, <1>3, <1>4, <1>5 DEF Next

LEMMA Invariant == Spec => []IInv
  BY InitIInv, NextIInv, PTL DEF Spec

-----------------------------------------------------------------------------
\* The variables keep their types.
THEOREM TypeCorrect == Spec => []TypeOK
  BY Invariant, PTL DEF IInv

\* No call goes out with a spec its caller had no approval for.
THEOREM Sent == Spec => []SentAsApproved
<1>1. IInv => SentAsApproved
  BY DEF IInv, Approved, SentAsApproved
<1> QED  BY <1>1, Invariant, PTL

\* No minute holds more calls than the limit its last call was checked against.
THEOREM Rate == Spec => []RateHolds
  BY Invariant, PTL DEF IInv

\* A call that was refused has no slot in the window.
THEOREM Slots == Spec => []SlotsOnlyForAuthorised
<1>1. IInv => SlotsOnlyForAuthorised
  BY GatewayAssumption DEF IInv, AdmittedPassedOn, PassedOn, SlotsOnlyForAuthorised, Errors
<1> QED  BY <1>1, Invariant, PTL

\* A caller with an answer finds the one record of it.
THEOREM Audited == Spec => []AnswersAreAudited
<1>1. IInv => AnswersAreAudited
  BY DEF IInv, Recorded, AnswersAreAudited
<1> QED  BY <1>1, Invariant, PTL
=============================================================================
