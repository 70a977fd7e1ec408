--------------------------- MODULE ProviderProofs ---------------------------
(***************************************************************************)
(* Proofs about ProviderRegistry, for any roles, providers, reports and    *)
(* probers, and about ProviderInvocation, for any number of retries,       *)
(* messages and cursors.  The registry's invariant follows an answer that  *)
(* is still to come: unless a register overlaps the wait, whoever was      *)
(* asked is still registered, and what it reports now it reported since it *)
(* was.  The invocation's says where the events that a consumer holds and  *)
(* was given stand in the list, and what runs at each place of the task.   *)
(***************************************************************************)
EXTENDS ProviderRegistry, ProviderInvocation, FiniteSetTheorems, SequenceTheorems, TLAPS

WaitsForRegistered ==
    \A c \in Prober :
        /\ prober[c].asked # None => /\ prober[c].role \in Role
                                     /\ prober[c].role \notin overlapped =>
                                          _providers[prober[c].role] = prober[c].asked
        /\ prober[c].pc = "probing" => prober[c].asked # None /\ prober[c].wants \in Requirements

ReportsSince ==
    \A role \in Role : _providers[role] # None => driver[_providers[role]] \in since[role]

\* What probe_all has still to do and what it has done are its dict at first.
IteratesAll ==
    \A c \in Prober :
        prober[c].pc = "iterating" =>
            /\ prober[c].todo \union prober[c].got \subseteq registered_roles
            /\ prober[c].size = Cardinality(prober[c].todo \union prober[c].got)

RegistryInv ==
    /\ RegistryTypeOK
    /\ WaitsForRegistered
    /\ ReportsSince
    /\ CachedPerRegistration
    /\ IteratesAll

-----------------------------------------------------------------------------
LEMMA RegistryInitInv == RegistryInit => RegistryInv
<1> SUFFICES ASSUME RegistryInit PROVE RegistryInv
  OBVIOUS
<1> USE RegistryAssumption DEF RegistryInit
<1>1. Idle \in ProberState /\ Idle.asked = None /\ Idle.pc = "idle"
  BY DEF Idle, ProberState
<1>2. RegistryTypeOK
  BY <1>1 DEF RegistryTypeOK
<1>3. WaitsForRegistered /\ IteratesAll
  BY <1>1 DEF WaitsForRegistered, IteratesAll
<1>4. ReportsSince /\ CachedPerRegistration
  BY DEF ReportsSince, CachedPerRegistration
<1> QED  BY <1>2, <1>3, <1>4 DEF RegistryInv

LEMMA RegisterKeeps ==
  ASSUME RegistryInv, NEW role \in Role, NEW p \in Provider, register(role, p)
  PROVE  RegistryInv'
<1> USE RegistryAssumption DEF RegistryInv, register
<1>1. /\ driver \in [Provider -> Offers]
      /\ _providers \in [Role -> Provider \union {None}]
      /\ _capability_cache \in [Role -> Offers \union {None}]
      /\ since \in [Role -> SUBSET Offers] /\ overlapped \in SUBSET Role
  BY DEF RegistryTypeOK
<1>2. RegistryTypeOK'
  BY <1>1 DEF RegistryTypeOK
<1>3. WaitsForRegistered'
  <2> SUFFICES ASSUME NEW c \in Prober, prober[c].asked # None,
                      prober[c].role \notin overlapped'
               PROVE  _providers'[prober[c].role] = prober[c].asked
    BY DEF WaitsForRegistered
  <2>1. prober[c].role \in Role
    BY DEF WaitsForRegistered
  <2>2. prober[c].role # role
    BY DEF Waiting
  <2> QED  BY <1>1, <2>1, <2>2 DEF WaitsForRegistered
<1>4. ReportsSince'
  BY <1>1 DEF ReportsSince
<1>5. CachedPerRegistration'
  BY <1>1 DEF CachedPerRegistration
<1>6. IteratesAll'
  <2>1. registered_roles \subseteq registered_roles'
    BY <1>1 DEF registered_roles
  <2> QED  BY <2>1 DEF IteratesAll
<1> QED  BY <1>2, <1>3, <1>4, <1>5, <1>6

LEMMA RestartKeeps ==
  ASSUME RegistryInv, NEW p \in Provider, NEW offers \in Offers, restart(p, offers)
  PROVE  RegistryInv'
<1> USE RegistryAssumption DEF RegistryInv, restart
<1>1. /\ driver \in [Provider -> Offers]
      /\ _providers \in [Role -> Provider \union {None}]
      /\ since \in [Role -> SUBSET Offers]
  BY DEF RegistryTypeOK
<1>2. RegistryTypeOK'
  BY <1>1 DEF RegistryTypeOK
<1>3. WaitsForRegistered' /\ IteratesAll'
  BY DEF WaitsForRegistered, IteratesAll, registered_roles
<1>4. ReportsSince'
  BY <1>1 DEF ReportsSince
<1>5. CachedPerRegistration'
  BY <1>1 DEF CachedPerRegistration
<1> QED  BY <1>2, <1>3, <1>4, <1>5

\* Where a step leaves its prober.
LEMMA LeavesAt ==
  ASSUME RegistryInv, NEW c \in Prober
  PROVE  /\ \A pc : Goes(c, pc) => prober'[c] = Ended(pc, None, None) /\ prober'[c].pc = pc
         /\ probe_all(c) => prober'[c].pc = "iterating"
         /\ role_returns(c) => prober'[c].pc = "iterating"
         /\ \A role \in Role : next_role(c, role) => prober'[c].pc = "iterating"
<1>1. prober \in [Prober -> ProberState] /\ prober[c] \in ProberState
  BY DEF RegistryInv, RegistryTypeOK
<1>2. \A k : prober' = [prober EXCEPT ![c] = k] => prober'[c] = k
  BY <1>1
<1>3. ASSUME NEW pc, Goes(c, pc)
      PROVE  prober'[c] = Ended(pc, None, None) /\ prober'[c].pc = pc
  <2>1. prober'[c] = Ended(pc, None, None)
    BY <1>2, <1>3 DEF Goes
  <2> QED  BY <2>1 DEF Ended, Idle
<1>4. ASSUME probe_all(c) PROVE prober'[c].pc = "iterating"
  <2>1. prober'[c] = [Idle EXCEPT !.pc = "iterating", !.todo = registered_roles,
                                  !.size = Cardinality(registered_roles)]
    BY <1>2, <1>4, Zenon DEF probe_all
  <2> QED  BY <2>1, Zenon DEF Idle
<1>5. ASSUME role_returns(c) PROVE prober'[c].pc = "iterating"
  <2>1. /\ prober'[c] = [prober[c] EXCEPT !.asked = None, !.role = None]
        /\ prober[c].pc = "iterating"
    BY <1>2, <1>5, Zenon DEF role_returns
  <2> QED  BY <1>1, <2>1, Zenon DEF ProberState
<1>6. ASSUME NEW role \in Role, next_role(c, role) PROVE prober'[c].pc = "iterating"
  <2> DEFINE before == prober[c]
             asked == _providers[role]
             k == [before EXCEPT !.todo = @ \ {role}, !.got = @ \union {role}]
             w == [k EXCEPT !.role = role, !.asked = asked]
  <2>1. /\ before \in ProberState /\ before.pc = "iterating"
        /\ asked \in Provider \union {None}
    BY <1>1, <1>6, Zenon DEF next_role, RegistryInv, RegistryTypeOK
  <2>2. prober' = [prober EXCEPT ![c] = k] \/ prober' = [prober EXCEPT ![c] = w]
    BY <1>6, Zenon DEF next_role, Awaits
  <2> HIDE DEF before
  <2>3. k \in ProberState /\ k.pc = "iterating"
    <3>1. before \in ProberState
      BY <2>1
    <3>2. k \in ProberState
      BY <3>1, Zenon DEF ProberState
    <3>3. k.pc = before.pc
      BY <3>1, Zenon DEF ProberState
    <3> QED  BY <2>1, <3>2, <3>3
  <2> HIDE DEF k, asked
  <2>4. w.pc = "iterating"
    BY <2>1, <2>3, Zenon DEF ProberState
  <2> HIDE DEF w
  <2> QED  BY <1>2, <2>2, <2>3, <2>4
<1> QED  BY <1>3, <1>4, <1>5, <1>6

\* A step of one prober, which stores an answer (or no more than it found).
LEMMA ProberKeeps ==
  ASSUME RegistryInv, NEW c \in Prober, NEW k \in ProberState,
         UNCHANGED <<driver, _providers, since, overlapped>>,
         prober' = [prober EXCEPT ![c] = k],
         _capability_cache' \in [Role -> Offers \union {None}], CachedPerRegistration',
         k.asked # None => /\ k.role \in Role
                           /\ k.role \notin overlapped => _providers[k.role] = k.asked,
         k.pc = "probing" => k.asked # None /\ k.wants \in Requirements,
         k.pc = "iterating" =>
             /\ k.todo \union k.got \subseteq registered_roles
             /\ k.size = Cardinality(k.todo \union k.got)
  PROVE  RegistryInv'
<1> USE DEF RegistryInv
<1>1. prober \in [Prober -> ProberState]
  BY DEF RegistryTypeOK
<1>2. prober'[c] = k /\ \A x \in Prober \ {c} : prober'[x] = prober[x]
  BY <1>1
<1>3. RegistryTypeOK'
  BY <1>1 DEF RegistryTypeOK
<1>4. WaitsForRegistered'
  BY <1>2 DEF WaitsForRegistered
<1>5. IteratesAll'
  <2>1. registered_roles' = registered_roles
    BY DEF registered_roles
  <2>2. ASSUME NEW x \in Prober, prober'[x].pc = "iterating"
        PROVE  /\ prober'[x].todo \union prober'[x].got \subseteq registered_roles
               /\ prober'[x].size = Cardinality(prober'[x].todo \union prober'[x].got)
    <3>1. CASE x = c
      BY <1>2, <2>2, <3>1
    <3>2. CASE x # c
      <4>1. IteratesAll /\ prober'[x] = prober[x]
        BY <1>2, <3>2
      <4> QED  BY <2>2, <4>1 DEF IteratesAll
    <3> QED  BY <3>1, <3>2
  <2> QED  BY <2>1, <2>2 DEF IteratesAll
<1>6. ReportsSince'
  BY DEF ReportsSince
<1> QED  BY <1>3, <1>4, <1>5, <1>6

\* The answer that is stored was reported since the role was registered.
LEMMA StoresFresh ==
  ASSUME RegistryInv, NEW c \in Prober, prober[c].asked # None, Stores(c),
         UNCHANGED <<driver, _providers, since, overlapped>>
  PROVE  /\ _capability_cache' \in [Role -> Offers \union {None}]
         /\ CachedPerRegistration'
         /\ driver[prober[c].asked] \in Offers
         /\ prober[c].role \notin overlapped =>
              driver[prober[c].asked] \in since[prober[c].role]
<1> USE DEF RegistryInv
<1>1. /\ driver \in [Provider -> Offers]
      /\ _capability_cache \in [Role -> Offers \union {None}]
      /\ prober[c] \in ProberState
  BY DEF RegistryTypeOK
<1>2. prober[c].asked \in Provider /\ prober[c].role \in Role
  BY <1>1 DEF ProberState, WaitsForRegistered
<1>3. prober[c].role \notin overlapped => driver[prober[c].asked] \in since[prober[c].role]
  BY <1>2 DEF WaitsForRegistered, ReportsSince
<1>4. CachedPerRegistration'
  BY <1>1, <1>2, <1>3 DEF Stores, CachedPerRegistration
<1> QED  BY <1>1, <1>2, <1>3, <1>4 DEF Stores

LEMMA EndsKeeps ==
  ASSUME RegistryInv, NEW c \in Prober, UNCHANGED <<driver, _providers, since, overlapped>>,
         _capability_cache' \in [Role -> Offers \union {None}], CachedPerRegistration',
         NEW pc \in {"met", "mismatch", "raised", "probed all"},
         NEW role \in Role \union {None}, NEW wants \in Requirements \union {None},
         prober' = [prober EXCEPT ![c] = Ended(pc, role, wants)]
  PROVE  RegistryInv'
<1> DEFINE k == Ended(pc, role, wants)
<1>1. /\ k \in ProberState /\ k.asked = None /\ k.pc = pc
  BY DEF Ended, Idle, ProberState
<1>2. prober' = [prober EXCEPT ![c] = k]
  OBVIOUS
<1> HIDE DEF k
<1>3. k.pc # "probing" /\ k.pc # "iterating"
  BY <1>1
<1> QED  BY <1>1, <1>2, <1>3, ProberKeeps

LEMMA GoesKeeps ==
  ASSUME RegistryInv, NEW c \in Prober, NEW pc \in {"raised", "probed all"}, Goes(c, pc),
         UNCHANGED <<driver, _providers, _capability_cache, since, overlapped>>
  PROVE  RegistryInv'
<1>1. _capability_cache' \in [Role -> Offers \union {None}] /\ CachedPerRegistration'
  BY DEF RegistryInv, RegistryTypeOK, CachedPerRegistration
<1> QED  BY <1>1, EndsKeeps DEF Goes

LEMMA RequireKeeps ==
  ASSUME RegistryInv, NEW c \in Prober, NEW role \in Role, NEW capabilities,
         NEW wants \in Requirements, require_capabilities(c, role, capabilities, wants),
         UNCHANGED <<driver, _providers, since, overlapped>>,
         _capability_cache' \in [Role -> Offers \union {None}], CachedPerRegistration'
  PROVE  RegistryInv'
<1>1. PICK pc \in {"met", "mismatch"} :
        prober' = [prober EXCEPT ![c] = Ended(pc, role, wants)]
  BY DEF require_capabilities
<1> QED  BY <1>1, EndsKeeps

LEMMA ProbeKeeps ==
  ASSUME RegistryInv, NEW c \in Prober, NEW role \in Role, NEW wants \in Requirements,
         probe(c, role, wants)
  PROVE  RegistryInv'
<1>1. /\ UNCHANGED <<driver, _providers, _capability_cache, since, overlapped>>
      /\ _capability_cache' \in [Role -> Offers \union {None}] /\ CachedPerRegistration'
      /\ _providers \in [Role -> Provider \union {None}]
  BY DEF probe, RegistryInv, RegistryTypeOK, CachedPerRegistration
<1>2. CASE require_capabilities(c, role, _capability_cache[role], wants)
  BY <1>1, <1>2, RequireKeeps
<1>3. CASE Goes(c, "raised")
  BY <1>1, <1>3, GoesKeeps
<1>4. CASE /\ Awaits(c, [Idle EXCEPT !.pc = "probing", !.wants = wants], role)
           /\ _providers[role] # None
  <2> DEFINE k == [Idle EXCEPT !.pc = "probing", !.wants = wants, !.role = role,
                               !.asked = _providers[role]]
  <2>1. prober' = [prober EXCEPT ![c] = k]
    BY <1>4 DEF Awaits, Idle
  <2>2. /\ k \in ProberState
        /\ k.pc = "probing" /\ k.role = role /\ k.asked = _providers[role] /\ k.wants = wants
    BY <1>1 DEF Idle, ProberState
  <2> HIDE DEF k
  <2> QED  BY <1>1, <1>4, <2>1, <2>2, ProberKeeps
<1> QED  BY <1>2, <1>3, <1>4 DEF probe

LEMMA ReturnKeeps ==
  ASSUME RegistryInv, NEW c \in Prober, capabilities_return(c)
  PROVE  RegistryInv'
<1>1. /\ prober[c].asked # None /\ prober[c].role \in Role /\ prober[c].wants \in Requirements
      /\ UNCHANGED <<driver, _providers, since, overlapped>> /\ Stores(c)
  BY DEF RegistryInv, WaitsForRegistered, capabilities_return
<1> QED  BY <1>1, StoresFresh, RequireKeeps DEF capabilities_return

LEMMA IterationKeeps ==
  ASSUME RegistryInv, NEW c \in Prober,
         \/ probe_all(c) \/ \E role \in Role : next_role(c, role)
         \/ role_returns(c) \/ iteration_ends(c)
  PROVE  RegistryInv'
<1>1. /\ prober[c] \in ProberState /\ _providers \in [Role -> Provider \union {None}]
      /\ _capability_cache \in [Role -> Offers \union {None}]
      /\ UNCHANGED <<driver, _providers, since, overlapped>>
  BY DEF RegistryInv, RegistryTypeOK, probe_all, next_role, role_returns, iteration_ends
<1>2. UNCHANGED _capability_cache =>
        _capability_cache' \in [Role -> Offers \union {None}] /\ CachedPerRegistration'
  BY <1>1 DEF RegistryInv, CachedPerRegistration
<1>3. CASE probe_all(c)
  <2> DEFINE k == [Idle EXCEPT !.pc = "iterating", !.todo = registered_roles,
                               !.size = Cardinality(registered_roles)]
  <2>1. prober' = [prober EXCEPT ![c] = k] /\ UNCHANGED _capability_cache
    BY <1>3 DEF probe_all
  <2>2. Cardinality(registered_roles) \in Nat
    BY RegistryAssumption, FS_Subset, FS_CardinalityType DEF registered_roles
  <2>3. /\ k \in ProberState /\ k.pc = "iterating" /\ k.asked = None
        /\ k.todo \union k.got = registered_roles /\ k.size = Cardinality(registered_roles)
    BY <2>2 DEF Idle, ProberState, registered_roles
  <2> HIDE DEF k
  <2> QED  BY <1>1, <1>2, <2>1, <2>3, ProberKeeps
<1>4. ASSUME NEW role \in Role, next_role(c, role) PROVE RegistryInv'
  <2>1. /\ UNCHANGED _capability_cache /\ prober[c].pc = "iterating" /\ prober[c].asked = None
        /\ role \in prober[c].todo
        /\ prober[c].todo \union prober[c].got \subseteq registered_roles
        /\ prober[c].size = Cardinality(prober[c].todo \union prober[c].got)
    <3>1. /\ UNCHANGED _capability_cache /\ prober[c].pc = "iterating"
          /\ prober[c].asked = None /\ role \in prober[c].todo
      BY <1>4, Zenon DEF next_role
    <3>2. IteratesAll
      BY ZenonT(30) DEF RegistryInv
    <3> QED  BY <3>1, <3>2, Zenon DEF IteratesAll
  <2> DEFINE before == prober[c]
             asked == _providers[role]
             visited == [before EXCEPT !.todo = @ \ {role}, !.got = @ \union {role}]
             waiting == [visited EXCEPT !.role = role, !.asked = asked]
  <2>2. prober' = [prober EXCEPT ![c] = visited] \/ prober' = [prober EXCEPT ![c] = waiting]
    BY <1>4 DEF next_role, Awaits
  <2>3. /\ visited \in ProberState /\ waiting \in ProberState
        /\ visited.pc = "iterating" /\ waiting.pc = "iterating"
        /\ visited.asked = None /\ waiting.asked = _providers[role] /\ waiting.role = role
        /\ visited.todo \union visited.got = prober[c].todo \union prober[c].got
        /\ waiting.todo \union waiting.got = prober[c].todo \union prober[c].got
        /\ visited.size = prober[c].size /\ waiting.size = prober[c].size
    <3>1. before \in ProberState /\ asked \in Provider \union {None}
      BY <1>1, Zenon
    <3> HIDE DEF before, asked
    <3>2. /\ visited \in ProberState /\ visited.pc = before.pc
          /\ visited.asked = before.asked /\ visited.size = before.size
          /\ visited.todo = before.todo \ {role} /\ visited.got = before.got \union {role}
      BY <3>1, Zenon DEF ProberState
    <3> HIDE DEF visited
    <3>3. /\ waiting \in ProberState /\ waiting.pc = visited.pc
          /\ waiting.asked = asked /\ waiting.role = role
          /\ waiting.size = visited.size
          /\ waiting.todo = visited.todo /\ waiting.got = visited.got
      BY <3>1, <3>2, Zenon DEF ProberState
    <3> HIDE DEF waiting
    <3>4. visited.todo \union visited.got = before.todo \union before.got
      BY <2>1, <3>2 DEF before
    <3> QED  BY <2>1, <3>2, <3>3, <3>4 DEF before, asked
  <2> HIDE DEF visited, waiting
  <2> QED  BY <1>1, <1>2, <2>1, <2>2, <2>3, ProberKeeps
<1>5. CASE role_returns(c)
  <2>1. /\ prober[c].pc = "iterating" /\ prober[c].asked # None /\ Stores(c)
        /\ prober[c].todo \union prober[c].got \subseteq registered_roles
        /\ prober[c].size = Cardinality(prober[c].todo \union prober[c].got)
    BY <1>5 DEF role_returns, RegistryInv, IteratesAll
  <2> DEFINE k == [prober[c] EXCEPT !.asked = None, !.role = None]
  <2>2. prober' = [prober EXCEPT ![c] = k]
    BY <1>5 DEF role_returns
  <2>3. /\ k \in ProberState /\ k.pc = "iterating" /\ k.asked = None
        /\ k.todo \union k.got = prober[c].todo \union prober[c].got /\ k.size = prober[c].size
    BY <1>1, <2>1 DEF ProberState
  <2>4. _capability_cache' \in [Role -> Offers \union {None}] /\ CachedPerRegistration'
    BY <1>1, <2>1, StoresFresh
  <2> HIDE DEF k
  <2> QED  BY <1>1, <2>1, <2>2, <2>3, <2>4, ProberKeeps
<1>6. CASE iteration_ends(c)
  BY <1>6, GoesKeeps DEF iteration_ends
<1> QED  BY <1>3, <1>4, <1>5, <1>6

LEMMA RegistryNextInv == RegistryInv /\ [RegistryNext]_registryVars => RegistryInv'
<1> SUFFICES ASSUME RegistryInv, [RegistryNext]_registryVars PROVE RegistryInv'
  OBVIOUS
<1>1. CASE \E role \in Role, p \in Provider : register(role, p)
  BY <1>1, RegisterKeeps
<1>2. CASE \E p \in Provider, offers \in Offers : restart(p, offers)
  BY <1>2, RestartKeeps
<1>3. ASSUME NEW c \in Prober, Probing(c) PROVE RegistryInv'
  <2>1. CASE capabilities_raise(c)
    BY <2>1, GoesKeeps DEF capabilities_raise
  <2> QED  BY <1>3, <2>1, ProbeKeeps, ReturnKeeps, IterationKeeps DEF Probing
<1>4. CASE UNCHANGED registryVars
  BY <1>4 DEF registryVars, RegistryInv, RegistryTypeOK, WaitsForRegistered, ReportsSince, CachedPerRegistration,
              IteratesAll, registered_roles
<1> QED  BY <1>1, <1>2, <1>3, <1>4 DEF RegistryNext

LEMMA RegistryInvariant == RegistrySpec => []RegistryInv
  BY RegistryInitInv, RegistryNextInv, PTL DEF RegistrySpec

\* The variables keep their types.
THEOREM RegistryTypeCorrect == RegistrySpec => []RegistryTypeOK
  BY RegistryInvariant, PTL DEF RegistryInv

\* Unless a register overlapped a probe of the role, what is cached was reported
\* by the provider registered, since it was.
THEOREM Cached == RegistrySpec => []CachedPerRegistration
  BY RegistryInvariant, PTL DEF RegistryInv

\* Unless a register overlapped a probe of the role, a prober is told that its
\* requirement is met only on what the provider registered for the role reported
\* since it was.  (In the overlapped case the code goes by the answer of the
\* provider before.)
THEOREM FailsClosed == RegistrySpec => NeverDowngraded
<1> DEFINE Offered(c) ==
      \E offers \in since[prober'[c].role] :
          \A axis \in DOMAIN prober'[c].wants : offers[axis] >= prober'[c].wants[axis]
<1>1. ASSUME RegistryInv, NEW c \in Prober, NEW role \in Role, NEW offers \in Offers,
             NEW wants \in Requirements, require_capabilities(c, role, offers, wants),
             role \notin overlapped => offers \in since[role],
             prober'[c].pc = "met", prober'[c].role \notin overlapped
      PROVE  Offered(c)
  <2>1. PICK pc \in {"met", "mismatch"} :
          /\ prober'[c] = Ended(pc, role, wants)
          /\ pc = "met" => Unmet(offers, wants) = {}
    BY <1>1 DEF RegistryInv, RegistryTypeOK, require_capabilities
  <2>2. prober'[c].role = role /\ prober'[c].wants = wants /\ Unmet(offers, wants) = {}
    BY <1>1, <2>1 DEF Ended, Idle
  <2>3. \A axis \in DOMAIN wants : offers[axis] \in Nat /\ wants[axis] \in Nat
    BY RegistryAssumption DEF ProviderCapabilities
  <2>4. \A axis \in DOMAIN wants : offers[axis] >= wants[axis]
    BY <2>2, <2>3 DEF Unmet
  <2> QED  BY <1>1, <2>2, <2>4
<1>2. ASSUME RegistryInv, [RegistryNext]_registryVars, NEW c \in Prober, prober[c].pc # "met", prober'[c].pc = "met",
             prober'[c].role \notin overlapped
      PROVE  Offered(c)
  <2>1. PICK x \in Prober : Probing(x)
    BY <1>2 DEF RegistryNext, register, restart, registryVars
  <2>2. /\ prober \in [Prober -> ProberState]
        /\ _capability_cache \in [Role -> Offers \union {None}]
    BY <1>2 DEF RegistryInv, RegistryTypeOK
  <2>3. \A y \in Prober \ {x} : prober'[y] = prober[y]
    BY <2>1, <2>2, Zenon DEF Probing, probe, require_capabilities, Goes, Awaits, capabilities_return,
                      capabilities_raise, probe_all, next_role, role_returns, iteration_ends
  <2>4. Probing(c)
    BY <1>2, <2>1, <2>3
  <2>5. ASSUME NEW pc \in {"raised", "probed all"}, Goes(c, pc) PROVE FALSE
    BY <1>2, <2>5, LeavesAt
  <2>6. ASSUME NEW role \in Role, NEW k \in ProberState, Awaits(c, k, role),
               k.pc \in {"probing", "iterating"}
        PROVE  FALSE
    BY <1>2, <2>2, <2>6 DEF Awaits, ProberState
  <2>7. ASSUME NEW role \in Role, NEW wants \in Requirements, probe(c, role, wants)
        PROVE  Offered(c)
    <3>1. CASE /\ require_capabilities(c, role, _capability_cache[role], wants)
               /\ _capability_cache[role] # None
      <4>1. _capability_cache[role] \in Offers
        BY <2>2, <3>1
      <4>2. role \notin overlapped => _capability_cache[role] \in since[role]
        BY <1>2, <3>1 DEF RegistryInv, CachedPerRegistration
      <4> QED  BY <1>1, <1>2, <3>1, <4>1, <4>2
    <3>2. [Idle EXCEPT !.pc = "probing", !.wants = wants] \in ProberState
          /\ [Idle EXCEPT !.pc = "probing", !.wants = wants].pc = "probing"
      BY DEF Idle, ProberState
    <3> QED  BY <2>5, <2>6, <2>7, <3>1, <3>2 DEF probe
  <2>8. CASE capabilities_return(c)
    <3>1. /\ prober[c].asked # None /\ prober[c].role \in Role /\ prober[c].wants \in Requirements
          /\ UNCHANGED <<driver, _providers, since, overlapped>> /\ Stores(c)
      BY <1>2, <2>8 DEF RegistryInv, WaitsForRegistered, capabilities_return
    <3>2. /\ driver[prober[c].asked] \in Offers
          /\ prober[c].role \notin overlapped =>
               driver[prober[c].asked] \in since[prober[c].role]
      BY <1>2, <3>1, StoresFresh
    <3> QED  BY <1>1, <1>2, <2>8, <3>1, <3>2 DEF capabilities_return
  <2>9. CASE capabilities_raise(c) \/ iteration_ends(c)
    BY <2>5, <2>9 DEF capabilities_raise, iteration_ends
  <2>10. CASE probe_all(c) \/ role_returns(c)
    BY <1>2, <2>10, LeavesAt
  <2>11. ASSUME NEW role \in Role, next_role(c, role) PROVE FALSE
    BY <1>2, <2>11, LeavesAt
  <2> QED  BY <2>4, <2>7, <2>8, <2>9, <2>10, <2>11 DEF Probing
<1>3. RegistryInv /\ [RegistryNext]_registryVars =>
        [\A c \in Prober :
           prober[c].pc # "met" /\ prober'[c].pc = "met" /\ prober'[c].role \notin overlapped =>
              \E offers \in since[prober'[c].role] :
                  \A axis \in DOMAIN prober'[c].wants : offers[axis] >= prober'[c].wants[axis]]_registryVars
  BY <1>2
<1> QED  BY <1>3, RegistryInvariant, PTL DEF RegistrySpec, NeverDowngraded

\* probe_all ends with an answer of every registered role, or raises: a set of
\* them of the same size as all of them is all of them.
THEOREM AllProbed == RegistrySpec => ProbesAll
<1>1. ASSUME RegistryInv, [RegistryNext]_registryVars, NEW c \in Prober, prober[c].pc = "iterating",
             prober'[c].pc = "probed all"
      PROVE  prober[c].got = registered_roles
  <2>1. PICK x \in Prober : Probing(x)
    BY <1>1 DEF RegistryNext, register, restart, registryVars
  <2>2. prober \in [Prober -> ProberState]
    BY <1>1 DEF RegistryInv, RegistryTypeOK
  <2>3. x = c
    BY <1>1, <2>1, <2>2, Zenon DEF Probing, probe, require_capabilities, Goes, Awaits,
       capabilities_return, capabilities_raise, probe_all, next_role, role_returns,
       iteration_ends
  <2>4. ~ \E role \in Role : next_role(c, role)
    BY <1>1, LeavesAt
  <2>5. ~role_returns(c) /\ ~capabilities_raise(c)
    <3>1. capabilities_raise(c) => Goes(c, "raised")
      BY Zenon DEF capabilities_raise
    <3>2. Goes(c, "raised") => prober'[c].pc = "raised"
      BY <1>1, LeavesAt
    <3>3. role_returns(c) => prober'[c].pc = "iterating"
      BY <1>1, LeavesAt
    <3> QED  BY <1>1, <3>1, <3>2, <3>3
  <2>6. prober[c] # Idle
    <3>1. Idle.pc = "idle"
      BY DEF Idle
    <3> QED  BY <1>1, <3>1
  <2>7. iteration_ends(c)
    BY <1>1, <2>1, <2>3, <2>4, <2>5, <2>6 DEF Probing, probe_all, capabilities_return, probe
  <2>8. ~Grown(c) /\ prober[c].todo = {}
    <3>1. Goes(c, "raised") => prober'[c].pc = "raised"
      BY <1>1, LeavesAt
    <3>2. ~Goes(c, "raised")
      BY <1>1, <3>1
    <3> QED  BY <2>7, <3>2, Zenon DEF iteration_ends
  <2>9. /\ prober[c].got \subseteq registered_roles
        /\ Cardinality(prober[c].got) = Cardinality(registered_roles)
    BY <1>1, <2>2, <2>8 DEF RegistryInv, IteratesAll, Grown, ProberState
  <2>10. IsFiniteSet(registered_roles)
    BY RegistryAssumption, FS_Subset DEF registered_roles
  <2> QED  BY <2>9, <2>10, FS_Subset
<1>2. RegistryInv /\ [RegistryNext]_registryVars =>
        [\A c \in Prober : prober[c].pc = "iterating" /\ prober'[c].pc = "probed all" =>
            prober[c].got = registered_roles]_registryVars
  BY <1>1
<1> QED  BY <1>2, RegistryInvariant, PTL DEF RegistrySpec, ProbesAll

-----------------------------------------------------------------------------
(* ProviderInvocation.                                                      *)

\* Where the task is says what runs and what it has counted.
TaskInv ==
    /\ task = "none" => /\ turn.n = 0 /\ attempt = 0 /\ events = <<>>
                        /\ final_turn = "none"
    /\ task # "none" => active_turn = turn.n
    /\ task \in {"streaming", "ended"} => turn.n = attempt + 1
    /\ task \in {"turning", "died"} => turn.n = attempt
    /\ turn.life = "running" => task = "streaming"
    /\ task \in {"streaming", "turning"} => final_turn = "none"
    /\ done <=> task = "ended"

\* The caller waits for a task there is, and only gets an outcome from its end.
CallerInv ==
    /\ caller.pc = "starting" => task = "none" /\ ~cancel_requested
    /\ caller.pc \in {"waiting", "interrupting", "joining"} => task # "none"
    /\ caller.outcome \notin {"none", "raised"} => done
    /\ caller.pc \in {"closing", "ended"} => caller.outcome # "none"
    /\ caller.pc = "waiting" => ~cancel_requested

\* What may still run once cancel has been called.
CancelInv ==
    cancel_requested => /\ turn.n <= caller.target + 1
                        /\ task = "turning" => turn.n <= caller.target

\* The result is built once, from the turn that ended last.
ResultInv ==
    /\ ~done => result = "none"
    /\ ResultIsOfLastTurn

\* The events are numbered without gaps.
Numbered == \A i \in 1..Len(events) : events[i].sequence = i - 1

\* How many of the events the consumer has come past since it opened the stream.
Position == reader.index - Len(reader.pending)

\* What the consumer has in hand is the part of the list it took last, and what
\* it was given is the part after its first cursor, up to the last number.
ReaderHolds ==
    /\ reader.index <= Len(events)
    /\ Len(reader.pending) <= reader.index
    /\ \A i \in 1..Len(reader.pending) : reader.pending[i] = events[Position + i]
    /\ reader.finished => done /\ reader.index = Len(events)
    /\ \/ reader.last = -1 /\ reader.out = <<>>
       \/ /\ reader.first < reader.last /\ reader.last < Len(events)
          /\ Len(reader.out) = reader.last - reader.first
          /\ \A i \in 1..Len(reader.out) : reader.out[i] = events[reader.first + 1 + i]

\* It never passes the next event it has not been given, and only a consumer
\* that went back by more than one event can meet one before the last.
ReaderInStep ==
    /\ reader.first <= reader.after
    /\ reader.after <= reader.first \/ reader.after <= reader.last
    /\ Position <= reader.first + 1 \/ Position <= reader.last + 1
    /\ ~reader.resent => reader.after >= reader.last - 1 \/ Position >= reader.last
    /\ reader.failed => reader.resent

InvocationInv ==
    /\ TypeOK
    /\ TaskInv /\ CallerInv /\ CancelInv /\ ResultInv
    /\ Numbered /\ ReaderHolds /\ ReaderInStep

LEMMA InvocationInitInv == Init => InvocationInv
<1> SUFFICES ASSUME Init PROVE InvocationInv
  OBVIOUS
<1>1. /\ turn = [n |-> 0, life |-> "over", messages |-> 0, interrupted |-> FALSE,
                 answer |-> "none"]
      /\ caller = [pc |-> "starting", outcome |-> "none", target |-> 0]
  BY DEF Init, Turn
<1>2. /\ adapter \in {"claude", "codex"} /\ task = "none" /\ attempt = 0
      /\ final_turn = "none" /\ events = <<>> /\ done = FALSE /\ result = "none"
      /\ cancel_requested = FALSE /\ active_turn = 0 /\ late = FALSE
  BY DEF Init
<1>3. PICK after \in Cursors :
        reader = [first |-> after, after |-> after, index |-> 0, pending |-> <<>>,
                  finished |-> FALSE, last |-> -1, out |-> <<>>, failed |-> FALSE,
                  resent |-> FALSE]
  BY DEF Init
<1>4. TypeOK
  <2>1. 0 \in Turns /\ 0 \in 0..MaxMessages /\ 0 \in 0..MaxSchemaRetries
    BY InvocationAssumption DEF Turns
  <2>2. turn \in TurnState /\ caller \in CallerState
    BY <1>1, <2>1 DEF TurnState, CallerState
  <2>3. <<>> \in Seq(Event) /\ after \in Nat \union {-1}
    BY InvocationAssumption
  <2>4. reader \in ReaderState
    BY <1>3, <2>3 DEF ReaderState
  <2> QED  BY <1>2, <2>1, <2>2, <2>3, <2>4 DEF TypeOK
<1>5. TaskInv /\ CallerInv /\ CancelInv /\ ResultInv
  BY <1>1, <1>2 DEF TaskInv, CallerInv, CancelInv, ResultInv, ResultIsOfLastTurn
<1>6. after \in Int
  BY InvocationAssumption
<1>7. Numbered /\ ReaderHolds /\ ReaderInStep
  BY <1>2, <1>3, <1>6, InvocationAssumption DEF Numbered, ReaderHolds, ReaderInStep, Position
<1> QED  BY <1>4, <1>5, <1>7 DEF InvocationInv

\* Appending events leaves those there are, and numbers the new ones on.
LEMMA AppendedNumbers ==
  ASSUME InvocationInv, task = "streaming", NEW n \in Nat
  PROVE  /\ Appended(n) \in Seq(Event)
         /\ Len(Appended(n)) = Len(events) + n
         /\ \A i \in 1..Len(events) : Appended(n)[i] = events[i]
         /\ \A i \in 1..(Len(events) + n) : Appended(n)[i].sequence = i - 1
<1> DEFINE new == [i \in 1..n |-> [sequence |-> Len(events) + i - 1, turn |-> turn.n]]
<1>1. events \in Seq(Event) /\ Len(events) \in Nat /\ turn.n \in Turns \ {0}
  BY DEF InvocationInv, TypeOK, TaskInv, TurnState, Turns
<1>2. new \in Seq(Event) /\ Len(new) = n
  BY <1>1 DEF Event
<1>3. \A i \in 1..n : new[i].sequence = Len(events) + i - 1
  BY <1>1
<1> HIDE DEF new
<1>4. Appended(n) = events \o new
  BY DEF Appended, new
<1>8. Appended(n) \in Seq(Event) /\ Len(Appended(n)) = Len(events) + n
  BY <1>1, <1>2, <1>4, Zenon, ConcatProperties
<1>5. \A i \in (Len(events) + 1)..(Len(events) + n) :
         Appended(n)[i] = new[i - Len(events)] /\ i - Len(events) \in 1..n
  BY <1>1, <1>2, <1>4
<1>6. \A i \in 1..Len(events) : Appended(n)[i] = events[i] /\ events[i].sequence = i - 1
  BY <1>1, <1>2, <1>4 DEF InvocationInv, Numbered
<1>7. ASSUME NEW i \in 1..(Len(events) + n)
      PROVE  Appended(n)[i].sequence = i - 1
  <2>1. CASE i \in 1..Len(events)
    BY <1>6, <2>1
  <2>2. CASE i \in (Len(events) + 1)..(Len(events) + n)
    <3> DEFINE j == i - Len(events)
    <3>1. j \in 1..n /\ Appended(n)[i] = new[j]
      BY <1>5, <2>2
    <3>2. Len(events) + j - 1 = i - 1
      BY <1>1
    <3> HIDE DEF j
    <3>3. new[j].sequence = Len(events) + j - 1
      BY <1>3, <3>1
    <3> QED  BY <3>1, <3>2, <3>3
  <2> QED  BY <1>1, <2>1, <2>2
<1> QED  BY <1>6, <1>7, <1>8

\* What the type of the reader says of its fields.
LEMMA ReaderFields ==
  ASSUME InvocationInv
  PROVE  /\ reader \in ReaderState
         /\ reader.first \in Int /\ reader.first >= -1
         /\ reader.after \in Int /\ reader.after >= -1
         /\ reader.last \in Int /\ reader.last >= -1
         /\ reader.index \in Nat
         /\ reader.pending \in Seq(Event) /\ Len(reader.pending) \in Nat
         /\ reader.out \in Seq(Event) /\ Len(reader.out) \in Nat
         /\ reader.finished \in BOOLEAN /\ reader.failed \in BOOLEAN
         /\ reader.resent \in BOOLEAN
<1>1. reader \in ReaderState
  BY DEF InvocationInv, TypeOK
<1>2. \A cursor \in Cursors \union Nat \union {-1} : cursor \in Int /\ cursor >= -1
  BY InvocationAssumption
<1>3. /\ reader.first \in Cursors /\ reader.after \in Nat \union {-1}
      /\ reader.last \in Nat \union {-1} /\ reader.index \in Nat
      /\ reader.pending \in Seq(Event) /\ reader.out \in Seq(Event)
      /\ reader.finished \in BOOLEAN /\ reader.failed \in BOOLEAN
      /\ reader.resent \in BOOLEAN
  BY <1>1 DEF ReaderState
<1> QED  BY <1>1, <1>2, <1>3

\* The numbers among them.
LEMMA ReaderNumbers ==
  ASSUME InvocationInv
  PROVE  /\ reader.first \in Int /\ reader.after \in Int /\ reader.last \in Int
         /\ reader.first >= -1 /\ reader.after >= -1 /\ reader.last >= -1
         /\ reader.index \in Nat
         /\ Len(reader.pending) \in Nat /\ Len(reader.out) \in Nat /\ Len(events) \in Nat
<1>1. Len(events) \in Nat
  BY DEF InvocationInv, TypeOK
<1> QED  BY <1>1, ReaderFields, Zenon

\* A reader that passes over the event at position p.
LEMMA PassedOver ==
  ASSUME NEW first \in Int, NEW after \in Int, NEW last \in Int, NEW p \in Int,
         first <= after, after <= first \/ after <= last, p <= after \/ p <= last
  PROVE  /\ p + 1 <= first + 1 \/ p + 1 <= last + 1
         /\ after >= last - 1 \/ p >= last => after >= last - 1 \/ p + 1 >= last
         /\ p > after /\ p < last => ~(after >= last - 1 \/ p >= last)
  OBVIOUS

\* What a reader holds lies within the list it read.
LEMMA PendingPlace ==
  ASSUME InvocationInv, NEW i \in 1..Len(reader.pending),
         reader.index <= Len(events), Len(reader.pending) <= reader.index
  PROVE  Position + i \in 1..Len(events)
<1> DEFINE p == Len(reader.pending)
           l == Len(events)
<1>1. p \in Nat /\ l \in Nat /\ reader.index \in Nat
  BY ReaderNumbers
<1>2. Position = reader.index - p
  BY DEF Position
<1> HIDE DEF p, l
<1>3. i \in 1..p /\ reader.index <= l /\ p <= reader.index
  BY DEF p, l
<1>4. Position + i \in 1..l
  BY <1>1, <1>2, <1>3
<1> QED  BY <1>4 DEF l

\* So does what it was given.
LEMMA OutPlace ==
  ASSUME InvocationInv, NEW i \in 1..Len(reader.out),
         reader.first < reader.last, reader.last < Len(events),
         Len(reader.out) = reader.last - reader.first
  PROVE  reader.first + 1 + i \in 1..Len(events)
<1> DEFINE o == Len(reader.out)
           l == Len(events)
<1>1. /\ l \in Nat /\ reader.last \in Int
      /\ reader.first \in Int /\ reader.first >= -1
  BY ReaderNumbers
<1> HIDE DEF o, l
<1>2. i \in 1..o /\ reader.last < l /\ o = reader.last - reader.first
  BY DEF o, l
<1>3. reader.first + 1 + i \in 1..l
  BY <1>1, <1>2, SMTT(20)
<1> QED  BY <1>3 DEF l

\* A step that appends to the list of a task that goes on after it.
LEMMA AppendKeeps ==
  ASSUME InvocationInv, task = "streaming", NEW n \in Nat, events' = Appended(n), reader' = reader
  PROVE  events' \in Seq(Event) /\ Numbered' /\ ReaderHolds' /\ ReaderInStep'
<1>0. events \in Seq(Event) /\ Len(events) \in Nat
  BY DEF InvocationInv, TypeOK
<1>1. /\ events' \in Seq(Event)
      /\ Len(events') = Len(events) + n
      /\ \A i \in 1..Len(events) : events'[i] = events[i]
      /\ \A i \in 1..(Len(events) + n) : events'[i].sequence = i - 1
  BY AppendedNumbers
<1>2. Numbered'
  BY <1>0, <1>1 DEF Numbered
<1>3. ~reader.finished
  BY DEF InvocationInv, ReaderHolds, TaskInv
<1>4. ReaderHolds'
  <2>1. /\ reader.index <= Len(events) /\ Len(reader.pending) <= reader.index
        /\ \A i \in 1..Len(reader.pending) : reader.pending[i] = events[Position + i]
    BY DEF InvocationInv, ReaderHolds
  <2>2. /\ reader.index <= Len(events')
        /\ \A i \in 1..Len(reader.pending) : reader.pending[i] = events'[Position + i]
    <3>1. reader.index <= Len(events')
      BY <1>0, <1>1, <2>1, ReaderFields
    <3>2. ASSUME NEW i \in 1..Len(reader.pending)
          PROVE  reader.pending[i] = events'[Position + i]
      <4>1. Position + i \in 1..Len(events)
        BY <1>0, <2>1, PendingPlace
      <4>2. reader.pending[i] = events[Position + i]
        BY <2>1
      <4> QED  BY <1>1, <4>1, <4>2
    <3> QED  BY <3>1, <3>2
  <2>3. ASSUME reader.first < reader.last, reader.last < Len(events),
               Len(reader.out) = reader.last - reader.first,
               \A i \in 1..Len(reader.out) : reader.out[i] = events[reader.first + 1 + i]
        PROVE  /\ reader.last < Len(events')
               /\ \A i \in 1..Len(reader.out) : reader.out[i] = events'[reader.first + 1 + i]
    <3>1. reader.last < Len(events')
      BY <1>0, <1>1, <2>3, ReaderFields
    <3>2. ASSUME NEW i \in 1..Len(reader.out)
          PROVE  reader.out[i] = events'[reader.first + 1 + i]
      <4>1. reader.first + 1 + i \in 1..Len(events)
        BY <1>0, <2>3, OutPlace
      <4>2. reader.out[i] = events[reader.first + 1 + i]
        BY <2>3
      <4> QED  BY <1>1, <4>1, <4>2
    <3> QED  BY <3>1, <3>2
  <2>4. Position' = Position
    BY DEF Position
  <2> QED  BY <1>3, <2>1, <2>2, <2>3, <2>4 DEF InvocationInv, ReaderHolds
<1>5. ReaderInStep'
  BY DEF InvocationInv, ReaderInStep, Position
<1> QED  BY <1>1, <1>2, <1>4, <1>5

\* A step that leaves the list and its reader alone.
LEMMA ListKeeps ==
  ASSUME InvocationInv, events' = events, reader' = reader, done => done'
  PROVE  events' \in Seq(Event) /\ Numbered' /\ ReaderHolds' /\ ReaderInStep'
  BY DEF InvocationInv, TypeOK, Numbered, ReaderHolds, ReaderInStep, Position

-----------------------------------------------------------------------------
(* The SDK's steps.                                                         *)

LEMMA messageKeeps == ASSUME InvocationInv, message PROVE InvocationInv'
<1>1. task = "streaming" /\ ~done
  BY DEF InvocationInv, TaskInv, message
<1>2. events' \in Seq(Event) /\ Numbered' /\ ReaderHolds' /\ ReaderInStep'
  <2>1. events' = Appended(1) /\ reader' = reader
    BY <1>1 DEF message
  <2> QED  BY <1>1, <2>1, AppendKeeps
<1>3. /\ turn \in TurnState /\ turn' \in TurnState
      /\ turn'.n = turn.n /\ turn'.life = turn.life /\ turn'.answer = turn.answer
  BY InvocationAssumption DEF InvocationInv, TypeOK, TurnState, message
<1>4. UNCHANGED <<adapter, task, attempt, final_turn, done, result, active_turn,
                  cancel_requested, caller, late, reader>>
  BY DEF message
<1>5. TypeOK'
  BY <1>2, <1>3, <1>4 DEF InvocationInv, TypeOK
<1>6. TaskInv' /\ CallerInv' /\ CancelInv' /\ ResultInv'
  BY <1>1, <1>3, <1>4
  DEF InvocationInv, TaskInv, CallerInv, CancelInv, ResultInv, ResultIsOfLastTurn
<1> QED  BY <1>2, <1>5, <1>6 DEF InvocationInv

LEMMA turn_endsKeeps ==
  ASSUME InvocationInv, NEW answer \in Answers(adapter), turn_ends(answer) PROVE InvocationInv'
<1>1. task = "streaming" /\ ~done
  BY DEF InvocationInv, TaskInv, turn_ends
<1>2. UNCHANGED <<adapter, taskVars, cancel_requested, caller, late, reader>>
  BY DEF turn_ends
<1>3. events' \in Seq(Event) /\ Numbered' /\ ReaderHolds' /\ ReaderInStep'
  BY <1>2, ListKeeps DEF taskVars
<1>4. /\ turn' \in TurnState /\ turn'.n = turn.n /\ turn'.life = "over"
  <2>1. answer \in Answer
    BY DEF Answers
  <2>2. turn \in TurnState /\ turn' = [turn EXCEPT !.life = "over", !.answer = answer]
    BY DEF InvocationInv, TypeOK, turn_ends
  <2> QED  BY <2>1, <2>2 DEF TurnState
<1>5. TypeOK'
  BY <1>2, <1>3, <1>4 DEF InvocationInv, TypeOK, taskVars
<1>6. TaskInv' /\ CallerInv' /\ CancelInv' /\ ResultInv'
  BY <1>1, <1>2, <1>4
  DEF InvocationInv, TaskInv, CallerInv, CancelInv, ResultInv, ResultIsOfLastTurn, taskVars
<1> QED  BY <1>3, <1>5, <1>6 DEF InvocationInv

LEMMA turn_returnsKeeps == ASSUME InvocationInv, turn_returns PROVE InvocationInv'
<1>1. /\ task = "turning" /\ ~done
      /\ attempt \in 0..MaxSchemaRetries /\ turn.n = attempt
  BY DEF InvocationInv, TypeOK, TaskInv, turn_returns
<1>2. UNCHANGED <<adapter, attempt, final_turn, events, done, result, cancel_requested,
                  caller, late, reader>>
  BY DEF turn_returns
<1>3. events' \in Seq(Event) /\ Numbered' /\ ReaderHolds' /\ ReaderInStep'
  BY <1>2, ListKeeps
<1>4. /\ turn' \in TurnState /\ turn'.n = attempt + 1 /\ active_turn' = attempt + 1
      /\ task' = "streaming" /\ attempt + 1 \in Turns
  BY <1>1, InvocationAssumption DEF turn_returns, Turn, TurnState, Turns
<1>5. TypeOK'
  BY <1>2, <1>3, <1>4 DEF InvocationInv, TypeOK
<1>6. TaskInv' /\ CallerInv'
  BY <1>1, <1>2, <1>4 DEF InvocationInv, TaskInv, CallerInv
<1>7. CancelInv' /\ ResultInv'
  <2>1. caller.target \in Nat
    BY InvocationAssumption DEF InvocationInv, TypeOK, CallerState, Turns
  <2> QED  BY <1>1, <1>2, <1>4, <2>1 DEF InvocationInv, CancelInv, ResultInv, ResultIsOfLastTurn
<1> QED  BY <1>3, <1>5, <1>6, <1>7 DEF InvocationInv

LEMMA turn_raisesKeeps == ASSUME InvocationInv, turn_raises PROVE InvocationInv'
<1>1. task = "turning" /\ task' = "died" /\ ~done
  BY DEF InvocationInv, TaskInv, turn_raises
<1>2. UNCHANGED <<adapter, turn, attempt, final_turn, events, done, result, active_turn,
                  cancel_requested, caller, late, reader>>
  BY DEF turn_raises
<1>3. events' \in Seq(Event) /\ Numbered' /\ ReaderHolds' /\ ReaderInStep'
  BY <1>2, ListKeeps
<1>4. TypeOK'
  BY <1>1, <1>2 DEF InvocationInv, TypeOK
<1>5. TaskInv' /\ CallerInv' /\ CancelInv' /\ ResultInv'
  BY <1>1, <1>2
  DEF InvocationInv, TaskInv, CallerInv, CancelInv, ResultInv, ResultIsOfLastTurn
<1> QED  BY <1>3, <1>4, <1>5 DEF InvocationInv

-----------------------------------------------------------------------------
(* The background task's steps.                                             *)

LEMMA StatusTypes ==
  /\ \A answer : ClaudeStatus(answer) \in Status \union {"none"}
  /\ \A final, answer : CodexStatus(final, answer) \in Status
BY DEF ClaudeStatus, CodexStatus, Status

LEMMA FinalTurnIs ==
  ASSUME InvocationInv, task = "streaming"
  PROVE  FinalTurn = IF turn.answer \in Final THEN turn.answer ELSE "none"
BY DEF InvocationInv, TaskInv, FinalTurn

\* The task ends, either adapter's.
LEMMA TaskEndsKeeps ==
  ASSUME InvocationInv, StreamEnded, events' = Appended(LastMessage), task' = "ended", done' = TRUE,
         result' = IF adapter = "claude" THEN ClaudeStatus(turn.answer)
                   ELSE CodexStatus(FinalTurn, turn.answer),
         final_turn' \in Final \union {"none"},
         UNCHANGED <<adapter, turn, attempt, active_turn, cancel_requested, caller, late, reader>>
  PROVE  InvocationInv'
<1>1. task = "streaming" /\ ~done /\ turn.life = "over"
  BY DEF InvocationInv, TaskInv, StreamEnded
<1>2. events' \in Seq(Event) /\ Numbered' /\ ReaderHolds' /\ ReaderInStep'
  <2>1. LastMessage \in Nat
    BY DEF LastMessage
  <2> QED  BY <1>1, <2>1, AppendKeeps
<1>3. TypeOK'
  BY <1>2, StatusTypes DEF InvocationInv, TypeOK
<1>4. TaskInv' /\ CallerInv' /\ CancelInv'
  BY <1>1 DEF InvocationInv, TaskInv, CallerInv, CancelInv
<1>5. ResultInv'
  BY <1>1, FinalTurnIs DEF ResultInv, ResultIsOfLastTurn
<1> QED  BY <1>2, <1>3, <1>4, <1>5 DEF InvocationInv

LEMMA TaskKeeps == ASSUME InvocationInv, Task PROVE InvocationInv'
<1>1. ASSUME drain_ends PROVE InvocationInv'
  BY <1>1, TaskEndsKeeps DEF drain_ends, InvocationInv, TypeOK
<1>2. ASSUME finish PROVE InvocationInv'
  <2>1. FinalTurn \in Final \union {"none"}
    BY <1>2, FinalTurnIs DEF finish, StreamEnded
  <2> QED  BY <1>2, <2>1, TaskEndsKeeps DEF finish
<1>3. ASSUME retry_turn PROVE InvocationInv'
  <2>1. /\ task = "streaming" /\ ~done /\ turn.life = "over" /\ ~cancel_requested
        /\ attempt \in Nat /\ attempt' = attempt + 1 /\ turn.n = attempt + 1
        /\ attempt + 1 \in 0..MaxSchemaRetries
        /\ task' = "turning" /\ final_turn' = "none"
    BY <1>3, InvocationAssumption
    DEF InvocationInv, TypeOK, TaskInv, retry_turn, StreamEnded, WantsRetry
  <2>2. UNCHANGED <<adapter, turn, done, result, active_turn, cancel_requested, caller,
                    late, reader>>
    BY <1>3 DEF retry_turn
  <2>3. events' \in Seq(Event) /\ Numbered' /\ ReaderHolds' /\ ReaderInStep'
    <3>1. events' = Appended(LastMessage + 1) /\ LastMessage + 1 \in Nat
      BY <1>3 DEF retry_turn, LastMessage
    <3> QED  BY <2>1, <2>2, <3>1, AppendKeeps
  <2>4. TypeOK'
    BY <2>1, <2>2, <2>3 DEF InvocationInv, TypeOK
  <2>5. TaskInv' /\ CallerInv' /\ CancelInv' /\ ResultInv'
    BY <2>1, <2>2
    DEF InvocationInv, TaskInv, CallerInv, CancelInv, ResultInv, ResultIsOfLastTurn
  <2> QED  BY <2>3, <2>4, <2>5 DEF InvocationInv
<1> QED  BY <1>1, <1>2, <1>3 DEF Task

-----------------------------------------------------------------------------
(* _invoke_role's steps.                                                    *)

LEMMA start_invocationKeeps == ASSUME InvocationInv, start_invocation PROVE InvocationInv'
<1>1. /\ task = "none" /\ ~done /\ ~cancel_requested /\ attempt = 0
      /\ caller \in CallerState /\ caller.pc = "starting"
  BY DEF InvocationInv, TypeOK, TaskInv, CallerInv, start_invocation
<1>2. UNCHANGED <<adapter, attempt, final_turn, events, done, result, cancel_requested,
                  late, reader>>
  BY DEF start_invocation
<1>3. events' \in Seq(Event) /\ Numbered' /\ ReaderHolds' /\ ReaderInStep'
  BY <1>2, ListKeeps
<1>4. /\ turn' \in TurnState /\ turn'.n = 1 /\ active_turn' = 1 /\ 1 \in Turns
      /\ task' = "streaming"
  BY InvocationAssumption DEF start_invocation, Turn, TurnState, Turns
<1>5. /\ caller' \in CallerState /\ caller'.pc = "waiting"
      /\ caller'.outcome = caller.outcome
  BY <1>1 DEF start_invocation, CallerState
<1>6. TypeOK'
  BY <1>2, <1>3, <1>4, <1>5 DEF InvocationInv, TypeOK
<1>7. TaskInv' /\ CallerInv' /\ CancelInv' /\ ResultInv'
  BY <1>1, <1>2, <1>4, <1>5
  DEF InvocationInv, TaskInv, CallerInv, CancelInv, ResultInv, ResultIsOfLastTurn
<1> QED  BY <1>3, <1>6, <1>7 DEF InvocationInv

\* A step of the caller that touches neither turn, task nor result, and is not
\* its first.
LEMMA CallerKeeps ==
  ASSUME InvocationInv, UNCHANGED <<adapter, turn, taskVars, reader>>,
         caller' \in CallerState, late' \in BOOLEAN, cancel_requested' \in BOOLEAN,
         CallerInv', CancelInv'
  PROVE  InvocationInv'
<1>1. events' \in Seq(Event) /\ Numbered' /\ ReaderHolds' /\ ReaderInStep'
  BY ListKeeps DEF taskVars
<1>2. TypeOK' /\ TaskInv' /\ ResultInv'
  BY <1>1 DEF InvocationInv, TypeOK, TaskInv, ResultInv, ResultIsOfLastTurn, taskVars
<1> QED  BY <1>1, <1>2 DEF InvocationInv

\* Whoever leaves for the finally clause with an outcome that is not an
\* exception's, the task has ended.
LEMMA ClosingKeeps ==
  ASSUME InvocationInv, NEW outcome \in Status \union {"raised", "timeout"}, Closing(outcome),
         outcome # "raised" => done,
         UNCHANGED <<adapter, turn, taskVars, cancel_requested, late, reader>>
  PROVE  InvocationInv'
<1>1. /\ caller' \in CallerState /\ caller'.pc = "closing"
      /\ caller'.outcome = outcome /\ caller'.target = caller.target
  BY DEF InvocationInv, TypeOK, CallerState, Closing
<1>2. CallerInv' /\ CancelInv'
  <2>1. outcome # "none"
    BY DEF Status
  <2> QED  BY <1>1, <2>1 DEF InvocationInv, CallerInv, CancelInv, taskVars
<1> QED  BY <1>1, <1>2, CallerKeeps DEF InvocationInv, TypeOK

LEMMA raisesKeeps == ASSUME InvocationInv, start_raises \/ interrupt_raises PROVE InvocationInv'
  BY ClosingKeeps DEF start_raises, interrupt_raises

LEMMA deadline_passesKeeps == ASSUME InvocationInv, deadline_passes PROVE InvocationInv'
<1>1. CallerInv' /\ CancelInv'
  BY DEF InvocationInv, CallerInv, CancelInv, deadline_passes, taskVars
<1> QED  BY <1>1, CallerKeeps DEF deadline_passes, InvocationInv, TypeOK

LEMMA await_resultKeeps == ASSUME InvocationInv, await_result PROVE InvocationInv'
<1> DEFINE outcome == IF result = "none" THEN "raised" ELSE result
<1>1. outcome \in Status \union {"raised", "timeout"} /\ Closing(outcome) /\ done
  BY DEF InvocationInv, TypeOK, await_result
<1> HIDE DEF outcome
<1> QED  BY <1>1, ClosingKeeps DEF await_result

LEMMA cancelKeeps == ASSUME InvocationInv, cancel PROVE InvocationInv'
<1>1. /\ active_turn \in Turns /\ active_turn = turn.n /\ task # "none" /\ turn.n \in Nat
      /\ caller \in CallerState
  BY InvocationAssumption DEF InvocationInv, TypeOK, TaskInv, CallerInv, cancel, Turns
<1>2. /\ caller' \in CallerState /\ caller'.pc = "interrupting"
      /\ caller'.outcome = caller.outcome /\ caller'.target = turn.n
  BY <1>1 DEF cancel, CallerState
<1>3. cancel_requested' \in BOOLEAN /\ UNCHANGED <<adapter, turn, taskVars, late, reader>>
  BY DEF cancel
<1>4. CallerInv' /\ CancelInv'
  BY <1>1, <1>2, <1>3 DEF InvocationInv, CallerInv, CancelInv, taskVars
<1> QED  BY <1>2, <1>3, <1>4, CallerKeeps DEF InvocationInv, TypeOK

LEMMA interrupt_returnsKeeps == ASSUME InvocationInv, interrupt_returns PROVE InvocationInv'
<1>1. /\ turn' \in TurnState /\ turn'.n = turn.n /\ turn'.life = turn.life
      /\ turn'.answer = turn.answer
  BY DEF InvocationInv, TypeOK, TurnState, interrupt_returns
<1>2. /\ caller' \in CallerState /\ caller'.pc = "joining" /\ task # "none"
      /\ caller'.outcome = caller.outcome /\ caller'.target = caller.target
  BY DEF InvocationInv, TypeOK, CallerState, CallerInv, interrupt_returns
<1>3. UNCHANGED <<adapter, taskVars, cancel_requested, late, reader>>
  BY DEF interrupt_returns
<1>4. events' \in Seq(Event) /\ Numbered' /\ ReaderHolds' /\ ReaderInStep'
  BY <1>3, ListKeeps DEF taskVars
<1>5. TypeOK'
  BY <1>1, <1>2, <1>3, <1>4 DEF InvocationInv, TypeOK, taskVars
<1>6. TaskInv' /\ CallerInv' /\ CancelInv' /\ ResultInv'
  BY <1>1, <1>2, <1>3
  DEF InvocationInv, TaskInv, CallerInv, CancelInv, ResultInv, ResultIsOfLastTurn, taskVars
<1> QED  BY <1>4, <1>5, <1>6 DEF InvocationInv

LEMMA joinKeeps == ASSUME InvocationInv, join PROVE InvocationInv'
<1>1. /\ caller' \in CallerState /\ caller'.pc = "closing"
      /\ caller'.outcome = "timeout" /\ caller'.target = caller.target /\ done
  BY DEF InvocationInv, TypeOK, CallerState, join, Closing
<1>2. result' \in Status \union {"none"} /\ (result' = "none" \/ result' = "CANCELLED")
  BY DEF join, Status
<1>3. UNCHANGED <<adapter, turn, task, attempt, final_turn, events, done, active_turn,
                  cancel_requested, late, reader>>
  BY DEF join
<1>4. events' \in Seq(Event) /\ Numbered' /\ ReaderHolds' /\ ReaderInStep'
  BY <1>3, ListKeeps
<1>5. TypeOK'
  BY <1>1, <1>2, <1>3, <1>4 DEF InvocationInv, TypeOK
<1>6. TaskInv' /\ CallerInv' /\ CancelInv'
  BY <1>1, <1>3 DEF InvocationInv, TaskInv, CallerInv, CancelInv
<1>7. ResultInv'
  BY <1>1, <1>2, <1>3 DEF InvocationInv, ResultInv, ResultIsOfLastTurn, join
<1> QED  BY <1>4, <1>5, <1>6, <1>7 DEF InvocationInv

\* Claude's disconnect cuts a turn that still runs: its task has not ended.
LEMMA close_sessionKeeps == ASSUME InvocationInv, close_session PROVE InvocationInv'
<1>1. /\ turn' \in TurnState /\ turn'.n = turn.n
      /\ turn'.life = "running" => turn.life = "running"
      /\ done => turn' = turn
  BY DEF InvocationInv, TypeOK, TaskInv, TurnState, close_session, Answer
<1>2. /\ caller' \in CallerState /\ caller'.pc = "ended" /\ caller.pc = "closing"
      /\ caller'.outcome = caller.outcome /\ caller'.target = caller.target
  BY DEF InvocationInv, TypeOK, CallerState, close_session
<1>3. UNCHANGED <<adapter, taskVars, cancel_requested, late, reader>>
  BY DEF close_session
<1>4. events' \in Seq(Event) /\ Numbered' /\ ReaderHolds' /\ ReaderInStep'
  BY <1>3, ListKeeps DEF taskVars
<1>5. TypeOK'
  BY <1>1, <1>2, <1>3, <1>4 DEF InvocationInv, TypeOK, taskVars
<1>6. TaskInv' /\ CallerInv' /\ CancelInv'
  BY <1>1, <1>2, <1>3 DEF InvocationInv, TaskInv, CallerInv, CancelInv, taskVars
<1>7. ResultInv'
  BY <1>1, <1>3 DEF InvocationInv, ResultInv, ResultIsOfLastTurn, taskVars
<1> QED  BY <1>4, <1>5, <1>6, <1>7 DEF InvocationInv

-----------------------------------------------------------------------------
(* The consumer's steps.                                                    *)

\* A step of the consumer: only its own state is to be looked at.
LEMMA ReaderKeeps ==
  ASSUME InvocationInv, UNCHANGED <<adapter, turn, taskVars, cancel_requested, caller, late>>,
         reader' \in ReaderState, ReaderHolds', ReaderInStep'
  PROVE  InvocationInv'
  BY DEF InvocationInv, TypeOK, TaskInv, CallerInv, CancelInv, ResultInv, ResultIsOfLastTurn,
         Numbered, taskVars

LEMMA stream_eventsKeeps == ASSUME InvocationInv, stream_events PROVE InvocationInv'
<1>1. /\ events \in Seq(Event) /\ Len(events) \in Nat /\ done \in BOOLEAN
      /\ reader.index <= Len(events) /\ Len(reader.pending) = 0 /\ ~reader.failed
  BY ReaderFields DEF InvocationInv, TypeOK, ReaderHolds, stream_events
<1> DEFINE new == New(reader.index)
<1>2. /\ new \in Seq(Event) /\ Len(new) = Len(events) - reader.index
      /\ \A i \in 1..Len(new) : new[i] = events[reader.index + i]
  <2> DEFINE m == reader.index + 1
             n == Len(events)
  <2>1. m \in Int /\ n \in Int /\ m <= n + 1 /\ \A i \in m..n : events[i] \in Event
    BY <1>1, ReaderFields
  <2>2. new = SubSeq(events, m, n)
    BY DEF New
  <2> HIDE DEF m, n, new
  <2>3. /\ new \in Seq(Event)
        /\ Len(new) = IF m <= n THEN n - m + 1 ELSE 0
        /\ \A i \in 1..n - m + 1 : new[i] = events[m + i - 1]
    BY <2>1, <2>2, SubSeqProperties
  <2>4. Len(new) = n - m + 1
    BY <2>1, <2>3
  <2>7. \A i \in 1..Len(new) : new[i] = events[m + i - 1]
    BY <2>3, <2>4
  <2>5. n - m + 1 = Len(events) - reader.index /\ \A i \in Nat : m + i - 1 = reader.index + i
    BY <1>1, ReaderFields DEF m, n
  <2>6. \A i \in 1..Len(new) : new[i] = events[reader.index + i]
    <3> SUFFICES ASSUME NEW i \in 1..Len(new) PROVE new[i] = events[reader.index + i]
      OBVIOUS
    <3>1. new[i] = events[m + i - 1]
      BY <2>7
    <3>2. m + i - 1 = reader.index + i
      BY <2>1, <2>4, <2>5
    <3> QED  BY <3>1, <3>2
  <2> QED  BY <2>3, <2>4, <2>5, <2>6
<1> HIDE DEF new
<1>3. /\ reader' \in ReaderState
      /\ reader' = [reader EXCEPT !.index = Len(events), !.pending = new, !.finished = done]
  BY <1>1, <1>2, ReaderFields DEF stream_events, ReaderState, new
<1>4. /\ reader'.index = Len(events) /\ reader'.pending = new /\ reader'.finished = done
      /\ reader'.first = reader.first /\ reader'.after = reader.after
      /\ reader'.last = reader.last /\ reader'.out = reader.out
      /\ reader'.failed = reader.failed /\ reader'.resent = reader.resent
  BY <1>3, ReaderFields DEF ReaderState
<1>5. UNCHANGED <<adapter, turn, taskVars, cancel_requested, caller, late>>
      /\ events' = events /\ done' = done
  BY DEF stream_events, taskVars
<1>6. Position' = Position /\ Position = reader.index
  <2>1. Len(reader'.pending) = Len(events) - reader.index
    BY <1>2, <1>4
  <2>2. Len(events) - (Len(events) - reader.index) = reader.index
    BY ReaderNumbers
  <2>3. Position' = reader.index
    BY <1>4, <2>1, <2>2, Zenon DEF Position
  <2>4. Position = reader.index
    BY <1>1, ReaderNumbers DEF Position
  <2> QED  BY <2>3, <2>4
<1>7. ReaderHolds'
  <2>1. reader'.index <= Len(events') /\ Len(reader'.pending) <= reader'.index
    <3>1. Len(new) <= Len(events)
      BY <1>1, <1>2, ReaderNumbers
    <3> QED  BY <1>1, <1>4, <1>5, <3>1
  <2>2. \A i \in 1..Len(reader'.pending) : reader'.pending[i] = events'[Position' + i]
    BY <1>2, <1>4, <1>5, <1>6
  <2>3. reader'.finished => done' /\ reader'.index = Len(events')
    BY <1>4, <1>5
  <2>4. \/ reader'.last = -1 /\ reader'.out = <<>>
        \/ /\ reader'.first < reader'.last /\ reader'.last < Len(events')
           /\ Len(reader'.out) = reader'.last - reader'.first
           /\ \A i \in 1..Len(reader'.out) :
                 reader'.out[i] = events'[reader'.first + 1 + i]
    BY <1>4, <1>5 DEF InvocationInv, ReaderHolds
  <2> QED  BY <2>1, <2>2, <2>3, <2>4 DEF ReaderHolds
<1>8. ReaderInStep'
  BY <1>4, <1>6 DEF InvocationInv, ReaderInStep
<1> QED  BY <1>3, <1>5, <1>7, <1>8, ReaderKeeps

\* The event in hand, and what is left of the others.
LEMMA NextInHand ==
  ASSUME InvocationInv, reader.pending # <<>>
  PROVE  /\ Position \in Nat /\ Position < Len(events)
         /\ Head(reader.pending) = events[Position + 1] /\ Head(reader.pending) \in Event
         /\ Head(reader.pending).sequence = Position
         /\ Tail(reader.pending) \in Seq(Event)
         /\ Len(Tail(reader.pending)) = Len(reader.pending) - 1
         /\ \A i \in 1..Len(Tail(reader.pending)) :
               Tail(reader.pending)[i] = events[Position + 1 + i]
<1>1. /\ events \in Seq(Event) /\ Len(events) \in Nat
      /\ reader.index <= Len(events) /\ Len(reader.pending) <= reader.index
      /\ \A i \in 1..Len(reader.pending) : reader.pending[i] = events[Position + i]
  BY DEF InvocationInv, TypeOK, ReaderHolds
<1>2. Len(reader.pending) \in Nat \ {0} /\ reader.index \in Nat
  BY ReaderFields, EmptySeq
<1>3. Position \in Nat /\ Position < Len(events)
  BY <1>1, <1>2 DEF Position
<1>4. /\ Tail(reader.pending) \in Seq(Event)
      /\ Len(Tail(reader.pending)) = Len(reader.pending) - 1
      /\ \A i \in 1..Len(Tail(reader.pending)) : Tail(reader.pending)[i] = reader.pending[i + 1]
      /\ Head(reader.pending) = reader.pending[1]
  BY ReaderFields, HeadTailProperties
<1>5. Head(reader.pending) = events[Position + 1]
  BY <1>1, <1>2, <1>4
<1>6. events[Position + 1] \in Event /\ events[Position + 1].sequence = Position
  BY <1>1, <1>3 DEF InvocationInv, Numbered
<1>7. \A i \in 1..Len(Tail(reader.pending)) :
         Tail(reader.pending)[i] = events[Position + 1 + i]
  BY <1>1, <1>2, <1>3, <1>4
<1> QED  BY <1>3, <1>4, <1>5, <1>6, <1>7

LEMMA normalize_eventsKeeps == ASSUME InvocationInv, normalize_events PROVE InvocationInv'
<1> DEFINE event == Head(reader.pending)
           rest == [reader EXCEPT !.pending = Tail(@)]
<1>1. /\ reader.pending # <<>> /\ ~reader.failed
      /\ UNCHANGED <<adapter, turn, taskVars, cancel_requested, caller, late>>
      /\ events' = events /\ done' = done
  BY DEF normalize_events, taskVars
<1>2. /\ Position \in Nat /\ Position < Len(events)
      /\ event = events[Position + 1] /\ event \in Event /\ event.sequence = Position
      /\ Tail(reader.pending) \in Seq(Event)
      /\ Len(Tail(reader.pending)) = Len(reader.pending) - 1
      /\ \A i \in 1..Len(Tail(reader.pending)) :
            Tail(reader.pending)[i] = events[Position + 1 + i]
  BY <1>1, NextInHand
<1>3. \/ Position <= reader.after /\ reader' = rest
      \/ Position > reader.after /\ Position > reader.last
           /\ reader' = [rest EXCEPT !.last = Position, !.out = Append(@, event)]
      \/ Position > reader.after /\ Position = reader.last /\ reader' = rest
      \/ Position > reader.after /\ Position < reader.last
           /\ reader' = [rest EXCEPT !.failed = TRUE]
  BY <1>2 DEF normalize_events
<1> HIDE DEF event
\* What is the same in every case.
<1>4. /\ reader' \in ReaderState
      /\ reader'.pending = Tail(reader.pending) /\ reader'.index = reader.index
      /\ reader'.finished = reader.finished /\ reader'.first = reader.first
      /\ reader'.after = reader.after /\ reader'.resent = reader.resent
  <2>1. Append(reader.out, event) \in Seq(Event)
    BY <1>2, ReaderFields
  <2>2. rest \in ReaderState
    BY <1>2, ReaderFields DEF ReaderState
  <2> QED  BY <1>2, <1>3, <2>1, <2>2, ReaderFields, ZenonT(30) DEF ReaderState
<1>5. Position' = Position + 1
  BY <1>2, <1>4, ReaderFields DEF Position
<1>6. /\ reader'.index <= Len(events) /\ Len(reader'.pending) <= reader'.index
      /\ \A i \in 1..Len(reader'.pending) : reader'.pending[i] = events[Position' + i]
      /\ reader'.finished => done /\ reader'.index = Len(events)
  <2>1. /\ reader.index <= Len(events) /\ Len(reader.pending) <= reader.index
        /\ reader.finished => done /\ reader.index = Len(events)
    BY DEF InvocationInv, ReaderHolds
  <2>2. Len(reader'.pending) <= reader'.index
    BY <1>2, <1>4, <2>1, ReaderNumbers
  <2>3. \A i \in 1..Len(reader'.pending) : reader'.pending[i] = events[Position' + i]
    BY <1>2, <1>4, <1>5
  <2> QED  BY <1>4, <2>1, <2>2, <2>3
\* It is passed on: it is the very next one.
<1>7. ASSUME Position > reader.after, Position > reader.last,
             reader' = [rest EXCEPT !.last = Position, !.out = Append(@, event)]
      PROVE  ReaderHolds' /\ ReaderInStep'
  <2>1. /\ reader'.last = Position /\ reader'.out = Append(reader.out, event)
        /\ reader'.failed = reader.failed
    BY <1>7, ReaderFields DEF ReaderState
  <2>2. /\ reader.first <= reader.after
        /\ Position = reader.first + 1 \/ Position = reader.last + 1
        /\ Len(reader.out) + 1 = Position - reader.first /\ reader.first < Position
    <3>1. /\ reader.first <= reader.after
          /\ Position <= reader.first + 1 \/ Position <= reader.last + 1
      BY DEF InvocationInv, ReaderInStep
    <3>2. CASE reader.last = -1 /\ reader.out = <<>>
      <4>1. Len(reader.out) = 0
        BY <3>2
      <4> QED  BY <1>2, <1>7, <3>1, <3>2, <4>1, ReaderFields
    <3>3. CASE reader.first < reader.last /\ Len(reader.out) = reader.last - reader.first
      <4>1. Position = reader.last + 1
        <5>1. Position \in Nat /\ Position > reader.last
          BY <1>2, <1>7
        <5>2. reader.first \in Int /\ reader.last \in Int
          BY ReaderFields
        <5> QED  BY <3>1, <3>3, <5>1, <5>2
      <4> QED  BY <1>7, <3>1, <3>3, <4>1, ReaderFields
    <3> QED  BY <3>2, <3>3 DEF InvocationInv, ReaderHolds
  <2>3. \A i \in 1..Len(reader.out) : reader.out[i] = events[reader.first + 1 + i]
    BY ReaderFields, EmptySeq DEF InvocationInv, ReaderHolds
  <2>4. /\ Len(reader'.out) = Position - reader.first
        /\ \A i \in 1..Len(reader'.out) : reader'.out[i] = events[reader.first + 1 + i]
    <3>1. /\ Len(reader'.out) = Len(reader.out) + 1
          /\ \A i \in 1..Len(reader.out) : reader'.out[i] = reader.out[i]
          /\ reader'.out[Len(reader.out) + 1] = event
      <4>1. reader.out \in Seq(Event) /\ event \in Event /\ Len(reader.out) \in Nat
        BY <1>2, ReaderFields
      <4> QED  BY <2>1, <4>1
    <3>2. Len(reader'.out) = Position - reader.first
      BY <2>2, <3>1
    <3>3. event = events[reader.first + 1 + (Len(reader.out) + 1)]
      <4>1. reader.first + 1 + (Len(reader.out) + 1) = Position + 1
        BY <1>2, <2>2, ReaderFields
      <4> QED  BY <1>2, <4>1
    <3>4. \A i \in 1..(Len(reader.out) + 1) : i \in 1..Len(reader.out) \/ i = Len(reader.out) + 1
      BY ReaderFields
    <3> QED  BY <2>3, <3>1, <3>2, <3>3, <3>4
  <2>5. ReaderHolds'
    <3>1. /\ reader'.first < reader'.last /\ reader'.last < Len(events')
          /\ Len(reader'.out) = reader'.last - reader'.first
      BY <1>1, <1>2, <1>4, <2>1, <2>2, <2>4
    <3>2. \A i \in 1..Len(reader'.out) : reader'.out[i] = events'[reader'.first + 1 + i]
      BY <1>1, <1>4, <2>4
    <3> QED  BY <1>1, <1>6, <3>1, <3>2 DEF ReaderHolds
  <2>6. ReaderInStep'
    <3>1. reader.failed => reader.resent
      BY DEF InvocationInv, ReaderInStep
    <3>2. /\ reader'.last = Position /\ Position' = Position + 1
          /\ Position < Position + 1 /\ Position > reader.after
      BY <1>2, <1>5, <1>7, <2>1
    <3> QED  BY <1>2, <1>4, <2>1, <2>2, <3>1, <3>2, ReaderNumbers DEF ReaderInStep
  <2> QED  BY <2>5, <2>6
\* It is not: the consumer has been given it before, or did not ask for it.
<1>8. ASSUME reader'.last = reader.last, reader'.out = reader.out,
             Position <= reader.after \/ Position <= reader.last,
             \/ reader'.failed = reader.failed
             \/ Position > reader.after /\ Position < reader.last
      PROVE  ReaderHolds' /\ ReaderInStep'
  <2>1. ReaderHolds'
    BY <1>1, <1>4, <1>6, <1>8 DEF InvocationInv, ReaderHolds
  <2>2. ReaderInStep'
    <3>1. /\ reader.first <= reader.after
          /\ reader.after <= reader.first \/ reader.after <= reader.last
          /\ ~reader.resent => reader.after >= reader.last - 1 \/ Position >= reader.last
          /\ reader.failed => reader.resent
      BY DEF InvocationInv, ReaderInStep
    <3>2. /\ reader.first \in Int /\ reader.after \in Int /\ reader.last \in Int
          /\ Position \in Int
      BY <1>2, ReaderNumbers
    <3>3. /\ Position + 1 <= reader.first + 1 \/ Position + 1 <= reader.last + 1
          /\ ~reader.resent => reader.after >= reader.last - 1 \/ Position + 1 >= reader.last
          /\ Position > reader.after /\ Position < reader.last => reader.resent
      BY <1>8, <3>1, <3>2, PassedOver
    <3>4. reader'.failed => reader.resent
      BY <1>8, <3>1, <3>3
    <3> HIDE DEF Position
    <3> QED  BY <1>4, <1>5, <1>8, <3>1, <3>3, <3>4 DEF ReaderInStep
  <2> QED  BY <2>1, <2>2
<1>9. ReaderHolds' /\ ReaderInStep'
  <2>1. CASE Position <= reader.after /\ reader' = rest
    BY <2>1, <1>8, ReaderFields DEF ReaderState
  <2>2. CASE Position > reader.after /\ Position = reader.last /\ reader' = rest
    BY <2>2, <1>2, <1>8, ReaderFields DEF ReaderState
  <2>3. CASE Position > reader.after /\ Position < reader.last
             /\ reader' = [rest EXCEPT !.failed = TRUE]
    <3>1. reader'.last = reader.last /\ reader'.out = reader.out
      BY <2>3, ReaderFields DEF ReaderState
    <3>2. Position \in Nat /\ reader.last \in Int /\ Position < reader.last
      BY <1>2, <2>3, ReaderFields
    <3>3. Position <= reader.last
      BY <3>2
    <3> QED  BY <1>8, <2>3, <3>1, <3>3
  <2> QED  BY <1>3, <1>7, <2>1, <2>2, <2>3
<1> QED  BY <1>1, <1>4, <1>9, ReaderKeeps

LEMMA resumeKeeps ==
  ASSUME InvocationInv, NEW after \in {reader.first} \union reader.first..reader.last, resume(after)
  PROVE  InvocationInv'
<1>1. UNCHANGED <<adapter, turn, taskVars, cancel_requested, caller, late>>
      /\ events' = events /\ done' = done /\ ~reader.failed
  BY DEF resume, taskVars
<1>2. /\ after \in Nat \union {-1} /\ reader.first <= after
      /\ after <= reader.first \/ after <= reader.last
  BY ReaderFields
<1>3. /\ reader' \in ReaderState
      /\ reader'.after = after /\ reader'.index = 0 /\ reader'.pending = <<>>
      /\ reader'.finished = FALSE /\ reader'.first = reader.first
      /\ reader'.last = reader.last /\ reader'.out = reader.out
      /\ reader'.failed = reader.failed
      /\ reader'.resent <=> reader.resent \/ after < reader.last - 1
  <2>1. (reader.resent \/ after < reader.last - 1) \in BOOLEAN /\ <<>> \in Seq(Event)
    OBVIOUS
  <2>2. reader' = [reader EXCEPT !.after = after, !.index = 0, !.pending = <<>>,
                                 !.finished = FALSE,
                                 !.resent = (reader.resent \/ after < reader.last - 1)]
    BY DEF resume
  <2>3. 0 \in Nat /\ FALSE \in BOOLEAN
    OBVIOUS
  <2>4. reader' \in ReaderState
    BY <1>2, <2>1, <2>2, <2>3, ReaderFields DEF ReaderState
  <2>5. DOMAIN reader = {"first", "after", "index", "pending", "finished", "last", "out",
                         "failed", "resent"}
    BY ReaderFields DEF ReaderState
  <2> QED  BY <2>2, <2>4, <2>5
<1>4. Position' = 0 /\ Len(reader'.pending) = 0 /\ Len(events) \in Nat
  <2>1. Len(reader'.pending) = 0
    BY <1>3
  <2>2. Len(events) \in Nat
    BY DEF InvocationInv, TypeOK
  <2>3. Position' = reader'.index - Len(reader'.pending)
    BY DEF Position
  <2>4. Position' = 0
    BY <1>3, <2>1, <2>3
  <2> QED  BY <2>1, <2>2, <2>4
<1>5. ReaderHolds'
  BY <1>1, <1>3, <1>4 DEF InvocationInv, ReaderHolds
<1>6. ReaderInStep'
  BY <1>1, <1>2, <1>3, <1>4, ReaderFields DEF InvocationInv, ReaderInStep
<1> QED  BY <1>1, <1>3, <1>5, <1>6, ReaderKeeps

-----------------------------------------------------------------------------
LEMMA InvocationNextInv == InvocationInv /\ [Next]_vars => InvocationInv'
<1> SUFFICES ASSUME InvocationInv, [Next]_vars PROVE InvocationInv'
  OBVIOUS
<1>1. CASE UNCHANGED vars
  <2>1. UNCHANGED <<adapter, turn, taskVars, cancel_requested, caller, late>> /\ reader' = reader
    BY <1>1 DEF vars
  <2> QED  BY <2>1, ListKeeps, ReaderKeeps DEF InvocationInv, TypeOK, taskVars
<1>2. CASE message
  BY <1>2, messageKeeps
<1>3. CASE Task
  BY <1>3, TaskKeeps
<1>4. CASE Caller
  BY <1>4, await_resultKeeps, cancelKeeps, joinKeeps DEF Caller
<1>5. CASE Sdk
  BY <1>5, turn_endsKeeps, turn_returnsKeeps, turn_raisesKeeps, start_invocationKeeps,
     raisesKeeps, interrupt_returnsKeeps, close_sessionKeeps DEF Sdk, SdkAnswers
<1>6. CASE deadline_passes
  BY <1>6, deadline_passesKeeps
<1>7. CASE Consumer
  BY <1>7, stream_eventsKeeps, normalize_eventsKeeps, resumeKeeps DEF Consumer
<1> QED  BY <1>1, <1>2, <1>3, <1>4, <1>5, <1>6, <1>7 DEF Next

THEOREM InvocationInvariant == Spec => []InvocationInv
  BY InvocationInitInv, InvocationNextInv, PTL DEF Spec

\* Type correctness: whatever the SDK answers, however often it is retried.
THEOREM InvocationTypeCorrect == Spec => []TypeOK
<1>1. InvocationInv => TypeOK
  BY DEF InvocationInv
<1> QED  BY <1>1, InvocationInvariant, PTL

-----------------------------------------------------------------------------
(* What a consumer was given are the events after its first cursor, without *)
(* a gap.                                                                   *)

LEMMA GivenInARow ==
  ASSUME InvocationInv
  PROVE  /\ Len(reader.out) \in Nat /\ DOMAIN reader.out = 1..Len(reader.out)
         /\ Len(events) \in Nat /\ DOMAIN events = 1..Len(events)
         /\ reader.first \in Int /\ reader.first >= -1
         /\ \A i \in 1..Len(reader.out) :
               /\ reader.first + 1 + i \in 1..Len(events)
               /\ reader.out[i] = events[reader.first + 1 + i]
               /\ reader.out[i].sequence = reader.first + i
         /\ \A i \in 1..Len(events) : events[i].sequence = i - 1
<1>1. events \in Seq(Event) /\ Len(events) \in Nat
  BY DEF InvocationInv, TypeOK
<1>2. \A i \in 1..Len(events) : events[i].sequence = i - 1
  BY DEF InvocationInv, Numbered
<1>3. \A i \in 1..Len(reader.out) :
         /\ reader.first + 1 + i \in 1..Len(events)
         /\ reader.out[i] = events[reader.first + 1 + i]
  <2>1. CASE reader.out = <<>>
    BY <2>1
  <2>2. CASE /\ reader.first < reader.last /\ reader.last < Len(events)
             /\ Len(reader.out) = reader.last - reader.first
             /\ \A i \in 1..Len(reader.out) : reader.out[i] = events[reader.first + 1 + i]
    BY <2>2, OutPlace
  <2> QED  BY <2>1, <2>2 DEF InvocationInv, ReaderHolds
<1>4. ASSUME NEW i \in 1..Len(reader.out)
      PROVE  reader.out[i].sequence = reader.first + i
  <2> DEFINE k == reader.first + 1 + i
  <2>1. k \in 1..Len(events) /\ reader.out[i] = events[k]
    BY <1>3
  <2>2. k - 1 = reader.first + i
    BY ReaderFields
  <2> HIDE DEF k
  <2>3. events[k].sequence = k - 1
    BY <1>2, <2>1
  <2> QED  BY <2>1, <2>2, <2>3
<1>5. DOMAIN reader.out = 1..Len(reader.out) /\ DOMAIN events = 1..Len(events)
  <2>1. \A s \in Seq(Event) : DOMAIN s = 1..Len(s)
    OBVIOUS
  <2> QED  BY <1>1, <2>1, ReaderFields
<1>6. /\ Len(reader.out) \in Nat
      /\ reader.first \in Int /\ reader.first >= -1
  BY ReaderFields
<1> QED  BY <1>1, <1>2, <1>3, <1>4, <1>5, <1>6, Zenon

LEMMA InvariantMissesNothing == ASSUME InvocationInv PROVE ReaderMissesNothing
<1> DEFINE wanted == {event \in ToSet(events) : event.sequence > reader.first}
           got == ToSet(reader.out)
           n == Len(reader.out)
<1>1. \A event : event \in got <=> \E i \in 1..n : event = reader.out[i]
  BY GivenInARow DEF ToSet
<1>2. \A event : event \in wanted <=> \E j \in 1..Len(events) : event = events[j] /\ j - 1 > reader.first
  BY GivenInARow DEF ToSet
<1>3. \A j \in 1..Len(events) : j - 1 > reader.first /\ j - 1 <= reader.first + n => events[j] \in got
  <2> SUFFICES ASSUME NEW j \in 1..Len(events), j - 1 > reader.first, j - 1 <= reader.first + n
               PROVE  events[j] \in got
    OBVIOUS
  <2>1. j - 1 - reader.first \in 1..n
    BY GivenInARow
  <2>2. reader.first + 1 + (j - 1 - reader.first) = j
    BY GivenInARow
  <2>3. reader.out[j - 1 - reader.first] = events[j]
    BY <2>1, <2>2, GivenInARow
  <2> QED  BY <1>1, <2>1, <2>3
<1> HIDE DEF wanted, got
<1>4. got \subseteq wanted
  <2> SUFFICES ASSUME NEW i \in 1..n PROVE reader.out[i] \in wanted
    BY <1>1
  <2> DEFINE k == reader.first + 1 + i
  <2>1. k \in 1..Len(events) /\ k - 1 > reader.first /\ reader.out[i] = events[k]
    BY GivenInARow
  <2> HIDE DEF k
  <2> QED  BY <1>2, <2>1
<1>5. ASSUME NEW i \in DOMAIN reader.out, NEW j \in DOMAIN reader.out, i < j
      PROVE  reader.out[i].sequence < reader.out[j].sequence
  <2>1. i \in 1..n /\ j \in 1..n
    BY GivenInARow
  <2>2. /\ reader.out[i].sequence = reader.first + i
        /\ reader.out[j].sequence = reader.first + j
    BY <2>1, GivenInARow
  <2>3. i \in Int /\ j \in Int /\ reader.first \in Int
    BY <2>1, GivenInARow
  <2>4. reader.first + i < reader.first + j
    BY <1>5, <2>3
  <2> QED  BY <2>2, <2>4
<1>6. \A missed \in wanted \ got, event \in got : missed.sequence > event.sequence
  <2> SUFFICES ASSUME NEW missed \in wanted \ got, NEW event \in got
               PROVE  missed.sequence > event.sequence
    OBVIOUS
  <2>1. PICK i \in 1..n : event = reader.out[i]
    BY <1>1
  <2>2. PICK j \in 1..Len(events) : missed = events[j] /\ j - 1 > reader.first
    BY <1>2
  <2>3. j - 1 > reader.first + n
    BY <1>3, <2>2, GivenInARow
  <2>4. event.sequence = reader.first + i /\ missed.sequence = j - 1
    BY <2>1, <2>2, GivenInARow
  <2> QED  BY <2>3, <2>4, GivenInARow, SMTT(20)
<1>7. ASSUME reader.finished, reader.pending = <<>>
      PROVE  got = wanted
  <2>1. Position = Len(events)
    BY <1>7, ReaderFields DEF InvocationInv, ReaderHolds, Position
  <2>2. Len(events) <= reader.first + 1 \/ Len(events) <= reader.last + 1
    BY <2>1 DEF InvocationInv, ReaderInStep
  <2>3. reader.last = -1 \/ reader.last = reader.first + n
    BY ReaderFields DEF InvocationInv, ReaderHolds
  <2>4. \A j \in 1..Len(events) : j - 1 > reader.first => events[j] \in got
    BY <1>3, <2>2, <2>3, GivenInARow
  <2>5. wanted \subseteq got
    BY <1>2, <2>4
  <2> QED  BY <1>4, <2>5
<1>8. reader.failed => reader.resent
  BY DEF InvocationInv, ReaderInStep
<1> QED  BY <1>4, <1>5, <1>6, <1>7, <1>8 DEF ReaderMissesNothing, wanted, got

\* A consumer of stream_events gets every event after its first cursor, once and
\* in order, for any list, any cursor and any way it loses and reopens the stream.
THEOREM NothingMissed == Spec => []ReaderMissesNothing
  BY InvariantMissesNothing, InvocationInvariant, PTL

\* The result that _build_result leaves is that of the turn that ended last.
THEOREM LastTurnsResult == Spec => []ResultIsOfLastTurn
<1>1. InvocationInv => ResultIsOfLastTurn
  BY DEF InvocationInv, ResultInv
<1> QED  BY <1>1, InvocationInvariant, PTL

\* After an answer or a timeout of _invoke_role no turn and no task runs on.
THEOREM NothingRunsBehind == Spec => []NothingRunsAfterwards
<1>1. InvocationInv => NothingRunsAfterwards
  <2> SUFFICES ASSUME InvocationInv, caller.pc = "ended", caller.outcome # "raised"
               PROVE  turn.life = "over" /\ task = "ended"
    BY DEF NothingRunsAfterwards
  <2>1. done
    BY DEF InvocationInv, CallerInv
  <2>2. task = "ended" /\ turn.life # "running" /\ turn \in TurnState
    BY <2>1 DEF InvocationInv, TaskInv, TypeOK
  <2> QED  BY <2>2 DEF TurnState
<1> QED  BY <1>1, InvocationInvariant, PTL

-----------------------------------------------------------------------------
\* The number of the turn changes in two steps only: thread.turn returns, or the
\* first turn starts.
LEMMA SameTurn ==
  ASSUME InvocationInv, [Next]_vars, ~turn_returns, ~start_invocation
  PROVE  turn'.n = turn.n
<1>1. turn \in TurnState
  BY DEF InvocationInv, TypeOK
<1>2. CASE UNCHANGED vars
  BY <1>2 DEF vars
<1>3. CASE message
  BY <1>1, <1>3 DEF message, TurnState
<1>4. CASE Task
  BY <1>4 DEF Task, drain_ends, retry_turn, finish
<1>5. CASE Caller
  BY <1>5 DEF Caller, await_result, cancel, join
<1>6. CASE Sdk
  <2>1. ASSUME NEW answer \in Answers(adapter), turn_ends(answer)
        PROVE  turn'.n = turn.n
    BY <1>1, <2>1 DEF turn_ends, TurnState
  <2>2. CASE turn_raises \/ start_raises \/ interrupt_raises
    BY <2>2 DEF turn_raises, start_raises, interrupt_raises
  <2>3. CASE interrupt_returns
    BY <1>1, <2>3 DEF interrupt_returns, TurnState
  <2>4. CASE close_session
    BY <1>1, <2>4 DEF close_session, TurnState
  <2> QED  BY <1>6, <2>1, <2>2, <2>3, <2>4 DEF Sdk, SdkAnswers
<1>7. CASE deadline_passes
  BY <1>7 DEF deadline_passes
<1>8. CASE Consumer
  BY <1>8 DEF Consumer, stream_events, normalize_events, resume
<1> QED  BY <1>2, <1>3, <1>4, <1>5, <1>6, <1>7, <1>8 DEF Next

\* Only retry_turn counts an attempt.
LEMMA SameAttempt ==
  ASSUME [Next]_vars, cancel_requested
  PROVE  attempt' = attempt
<1>1. CASE UNCHANGED vars
  BY <1>1 DEF vars, taskVars
<1>2. CASE message \/ deadline_passes
  BY <1>2 DEF message, deadline_passes, taskVars
<1>3. CASE Task
  BY <1>3 DEF Task, drain_ends, retry_turn, WantsRetry, finish
<1>4. CASE Caller
  BY <1>4 DEF Caller, await_result, cancel, join, taskVars
<1>5. CASE Sdk
  BY <1>5 DEF Sdk, SdkAnswers, turn_ends, turn_returns, turn_raises, start_invocation, start_raises,
     interrupt_returns, interrupt_raises, close_session, taskVars
<1>6. CASE Consumer
  BY <1>6 DEF Consumer, stream_events, normalize_events, resume, taskVars
<1> QED  BY <1>1, <1>2, <1>3, <1>4, <1>5, <1>6 DEF Next

LEMMA StepStopsRetries ==
  ASSUME InvocationInv, [Next]_vars, cancel_requested
  PROVE  attempt' = attempt /\ turn'.n <= caller.target + 1
<1>0. attempt' = attempt
  BY SameAttempt
<1>1. /\ turn.n <= caller.target + 1
      /\ task = "turning" => turn.n <= caller.target
      /\ turn.n \in Nat /\ caller.target \in Nat
  BY InvocationAssumption DEF InvocationInv, CancelInv, TypeOK, TurnState, CallerState, Turns
<1>2. CASE turn_returns
  <2>1. turn'.n = turn.n + 1 /\ task = "turning"
    BY <1>2 DEF turn_returns, Turn
  <2> QED  BY <1>0, <1>1, <2>1
<1>3. CASE start_invocation
  BY <1>3 DEF InvocationInv, CallerInv, start_invocation
<1>4. CASE ~turn_returns /\ ~start_invocation
  <2>1. turn'.n = turn.n
    BY <1>4, SameTurn
  <2> QED  BY <1>0, <1>1, <2>1
<1> QED  BY <1>2, <1>3, <1>4

\* From cancel on the Codex task asks for no retry, and after the turn that is
\* interrupted runs at most the one thread.turn was being awaited for.
THEOREM CancelStops == Spec => CancelStopsRetries
<1>1. InvocationInv /\ [Next]_vars =>
        [cancel_requested => attempt' = attempt /\ turn'.n <= caller.target + 1]_vars
  BY StepStopsRetries
<1> QED  BY <1>1, InvocationInvariant, PTL DEF Spec, CancelStopsRetries

-----------------------------------------------------------------------------
(* What has been written of an invocation is final.                         *)

\* The list keeps what it has.
ListKept ==
    \A i \in 1..Len(events) : i \in 1..Len(events') /\ events'[i] = events[i]

\* Events are only appended, and none after done; after that only a cancel still
\* writes to the result, and what it makes of one is CANCELLED.
HistoryFinal ==
    /\ ListKept
    /\ done => /\ done' /\ events' = events
               /\ result' = result \/ (caller.pc = "joining" /\ result' = "CANCELLED")

LEMMA AppendingKeepsList ==
  ASSUME InvocationInv, task = "streaming", NEW n \in Nat, events' = Appended(n)
  PROVE  ListKept
<1>1. /\ Len(events') = Len(events) + n
      /\ \A i \in 1..Len(events) : events'[i] = events[i]
  BY AppendedNumbers
<1>0. Len(events) \in Nat
  BY DEF InvocationInv, TypeOK
<1> DEFINE l == Len(events)
           m == Len(events')
<1>2. l \in Nat /\ m = l + n
  BY <1>0, <1>1
<1> HIDE DEF l, m
<1>3. \A i \in 1..l : i \in 1..m
  BY <1>2
<1>4. \A i \in 1..Len(events) : i \in 1..Len(events')
  BY <1>3 DEF l, m
<1> QED  BY <1>1, <1>4, Zenon DEF ListKept

LEMMA StepIsFinal == InvocationInv /\ [Next]_vars => HistoryFinal
<1> SUFFICES ASSUME InvocationInv, [Next]_vars PROVE HistoryFinal
  OBVIOUS
<1>1. done => task = "ended"
  BY DEF InvocationInv, TaskInv
<1>2. LastMessage \in Nat /\ LastMessage + 1 \in Nat
  BY DEF LastMessage
<1>3. events' = events => ListKept
  BY DEF ListKept
<1>4. CASE message \/ drain_ends \/ finish \/ retry_turn
  <2>1. task = "streaming"
    BY <1>4 DEF message, drain_ends, finish, retry_turn, StreamEnded, InvocationInv, TaskInv
  <2>2. \/ events' = Appended(1) \/ events' = Appended(LastMessage)
        \/ events' = Appended(LastMessage + 1)
    BY <1>4, <2>1 DEF message, drain_ends, finish, retry_turn
  <2>3. ListKept
    <3>1. ASSUME NEW n \in Nat, events' = Appended(n) PROVE ListKept
      BY <2>1, <3>1, AppendingKeepsList
    <3>2. 1 \in Nat
      OBVIOUS
    <3> QED  BY <1>2, <2>2, <3>1, <3>2, Zenon
  <2> QED  BY <1>1, <2>1, <2>3 DEF HistoryFinal
<1>5. CASE join
  <2>1. /\ caller.pc = "joining" /\ done' = done /\ events' = events
        /\ result' = IF result = "none" THEN "none" ELSE "CANCELLED"
    BY <1>5 DEF join
  <2> QED  BY <1>3, <2>1 DEF HistoryFinal
<1>6. CASE UNCHANGED <<events, done, result>>
  BY <1>3, <1>6 DEF HistoryFinal
<1>7. CASE (\E answer \in Answers(adapter) : turn_ends(answer)) \/ turn_returns \/ turn_raises
           \/ start_invocation \/ start_raises \/ interrupt_returns \/ interrupt_raises
           \/ close_session
  BY <1>6, <1>7, Zenon DEF turn_ends, turn_returns, turn_raises, start_invocation, start_raises,
                    interrupt_returns, interrupt_raises, close_session, taskVars
<1>8. CASE deadline_passes \/ await_result \/ cancel \/ UNCHANGED vars
  BY <1>6, <1>8 DEF deadline_passes, await_result, cancel, taskVars, vars
<1>9. CASE Consumer
  BY <1>6, <1>9, Zenon DEF Consumer, stream_events, normalize_events, resume, taskVars
<1> QED  BY <1>4, <1>5, <1>7, <1>8, <1>9 DEF Next, Task, Caller, Sdk, SdkAnswers

\* What every cursor rests on: for any retries, messages and cancels the list of
\* events only grows at its end, and is whole once the invocation is done
\* (providers/codex.py and claude.py, the tasks that drain the SDK).
THEOREM EventsAreFinal == Spec => [][HistoryFinal]_vars
<1>1. InvocationInv /\ [Next]_vars => [HistoryFinal]_vars
  BY StepIsFinal
<1> QED  BY <1>1, InvocationInvariant, PTL DEF Spec
=============================================================================
