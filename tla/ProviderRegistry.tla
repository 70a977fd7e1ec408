-------------------------- MODULE ProviderRegistry --------------------------
(***************************************************************************)
(* The registry of providers and the capability check before one is used:  *)
(* coroutines that probe roles, one or all, while providers are registered *)
(* anew and their driver processes restart.  A probe runs without          *)
(* interruption but for the await of the provider's answer.                *)
(***************************************************************************)
EXTENDS Naturals, FiniteSets

CONSTANTS Role,
          Provider,
          Axis,          \* kinds of support, flags, and the roles a provider may take
          Offers,        \* bound: the ProviderCapabilities drivers report
          Requirements,  \* bound: the CapabilityRequirements probers state
          Prober,
          None

\* Every axis is ranked; a flag or a role is offered (1) or not (0).
ProviderCapabilities == [Axis -> Nat]

ASSUME RegistryAssumption ==
    /\ Offers \subseteq ProviderCapabilities
    /\ \A wants \in Requirements :  \* an axis left None is not in the domain
         DOMAIN wants \subseteq Axis /\ wants \in [DOMAIN wants -> Nat]
    /\ None \notin Provider \union Role \union Offers
    /\ IsFiniteSet(Role)

VARIABLES driver,      \* what each provider reports now
          _providers,  \* the provider registered for each role
          _capability_cache,
          prober,      \* each coroutine
          since,       \* history: what each role's provider reported since registered
          overlapped   \* history: roles registered anew while a probe of them waited

registryVars == <<driver, _providers, _capability_cache, prober, since, overlapped>>

Idle == [pc |-> "idle", role |-> None, asked |-> None, todo |-> {}, size |-> 0,
         got |-> {}, wants |-> None]

RegistryInit ==
    /\ driver \in [Provider -> Offers]
    /\ _providers = [role \in Role |-> None]
    /\ _capability_cache = [role \in Role |-> None]
    /\ prober = [c \in Prober |-> Idle]
    /\ since = [role \in Role |-> {}]
    /\ overlapped = {}

registered_roles == {role \in Role : _providers[role] # None}

Waiting(role) == {c \in Prober : prober[c].asked # None /\ prober[c].role = role}

-----------------------------------------------------------------------------
MutantRegister(role, p) ==
    /\ _providers' = [_providers EXCEPT ![role] = p]
    /\ _capability_cache' = [_capability_cache EXCEPT ![role] =
                               IF _providers[role] = p THEN @ ELSE None]
    /\ since' = [since EXCEPT ![role] = {driver[p]}]
    /\ overlapped' = IF Waiting(role) = {} THEN overlapped \ {role} ELSE overlapped \union {role}
    /\ UNCHANGED <<driver, prober>>

\* The role's cached answer goes, also when the provider is the same.
register(role, p) ==
    /\ _providers' = [_providers EXCEPT ![role] = p]
    /\ _capability_cache' = [_capability_cache EXCEPT ![role] = None]
    /\ since' = [since EXCEPT ![role] = {driver[p]}]
    /\ overlapped' = IF Waiting(role) = {} THEN overlapped \ {role} ELSE overlapped \union {role}
    /\ UNCHANGED <<driver, prober>>

\* The provider's process restarts with another driver version.
restart(p, offers) ==
    /\ driver' = [driver EXCEPT ![p] = offers]
    /\ since' = [role \in Role |-> IF _providers[role] = p THEN since[role] \union {offers}
                                   ELSE since[role]]
    /\ UNCHANGED <<_providers, _capability_cache, prober, overlapped>>

-----------------------------------------------------------------------------
(* One role: probe, then require_capabilities on what it returned.          *)

MutantUnmet(capabilities, requirement) ==
    {axis \in DOMAIN requirement : capabilities[axis] > requirement[axis]}

\* A stronger support satisfies the requirement of a weaker one.
Unmet(capabilities, requirement) ==
    {axis \in DOMAIN requirement : capabilities[axis] < requirement[axis]}

Ended(pc, role, wants) == [Idle EXCEPT !.pc = pc, !.role = role, !.wants = wants]

require_capabilities(c, role, capabilities, requirement) ==
    prober' = [prober EXCEPT ![c] =
        Ended(IF Unmet(capabilities, requirement) = {} THEN "met" ELSE "mismatch",
              role, requirement)]

Goes(c, pc) == prober' = [prober EXCEPT ![c] = Ended(pc, None, None)]

Awaits(c, k, role) ==
    prober' = [prober EXCEPT ![c] = [k EXCEPT !.role = role, !.asked = _providers[role]]]

probe(c, role, requirement) ==
    /\ prober[c] = Idle
    /\ \/ /\ _capability_cache[role] # None
          /\ require_capabilities(c, role, _capability_cache[role], requirement)
       \/ /\ _capability_cache[role] = None /\ _providers[role] = None
          /\ Goes(c, "raised")
       \/ /\ _capability_cache[role] = None /\ _providers[role] # None
          /\ Awaits(c, [Idle EXCEPT !.pc = "probing", !.wants = requirement], role)
    /\ UNCHANGED <<driver, _providers, _capability_cache, since, overlapped>>

\* The answer is stored for the role, whoever is registered for it by now.
Stores(c) ==
    _capability_cache' = [_capability_cache EXCEPT ![prober[c].role] = driver[prober[c].asked]]

capabilities_return(c) ==
    /\ prober[c].pc = "probing"
    /\ Stores(c)
    /\ require_capabilities(c, prober[c].role, driver[prober[c].asked], prober[c].wants)
    /\ UNCHANGED <<driver, _providers, since, overlapped>>

capabilities_raise(c) ==
    /\ prober[c].asked # None
    /\ Goes(c, "raised")
    /\ UNCHANGED <<driver, _providers, _capability_cache, since, overlapped>>

-----------------------------------------------------------------------------
(* All roles: a comprehension over the dict itself.                         *)

probe_all(c) ==
    /\ prober[c] = Idle
    /\ prober' = [prober EXCEPT ![c] =
         [Idle EXCEPT !.pc = "iterating", !.todo = registered_roles,
                      !.size = Cardinality(registered_roles)]]
    /\ UNCHANGED <<driver, _providers, _capability_cache, since, overlapped>>

MutantGrown(c) == FALSE

\* A dict that has another size raises at the next step of its iteration.
Grown(c) == Cardinality(registered_roles) # prober[c].size

\* The next role: in the cache, or awaited.
next_role(c, role) ==
    /\ prober[c].pc = "iterating" /\ prober[c].asked = None
    /\ ~Grown(c)
    /\ role \in prober[c].todo
    /\ LET k == [prober[c] EXCEPT !.todo = @ \ {role}, !.got = @ \union {role}] IN
       \/ _capability_cache[role] # None /\ prober' = [prober EXCEPT ![c] = k]
       \/ _capability_cache[role] = None /\ Awaits(c, k, role)
    /\ UNCHANGED <<driver, _providers, _capability_cache, since, overlapped>>

role_returns(c) ==
    /\ prober[c].pc = "iterating" /\ prober[c].asked # None
    /\ Stores(c)
    /\ prober' = [prober EXCEPT ![c] = [@ EXCEPT !.asked = None, !.role = None]]
    /\ UNCHANGED <<driver, _providers, since, overlapped>>

iteration_ends(c) ==
    /\ prober[c].pc = "iterating" /\ prober[c].asked = None
    /\ \/ Grown(c) /\ Goes(c, "raised")
       \/ ~Grown(c) /\ prober[c].todo = {} /\ Goes(c, "probed all")
    /\ UNCHANGED <<driver, _providers, _capability_cache, since, overlapped>>

-----------------------------------------------------------------------------
Probing(c) ==
    \/ \E role \in Role : \/ \E requirement \in Requirements : probe(c, role, requirement)
                          \/ next_role(c, role)
    \/ capabilities_return(c) \/ capabilities_raise(c)
    \/ probe_all(c) \/ role_returns(c) \/ iteration_ends(c)

RegistryNext ==
    \/ \E role \in Role, p \in Provider : register(role, p)
    \/ \E p \in Provider, offers \in Offers : restart(p, offers)
    \/ \E c \in Prober : Probing(c)

RegistrySpec == RegistryInit /\ [][RegistryNext]_registryVars

-----------------------------------------------------------------------------
(* Properties.                                                              *)

ProberState ==
    [pc : {"idle", "probing", "iterating", "met", "mismatch", "raised", "probed all"},
     role : Role \union {None}, asked : Provider \union {None},
     todo : SUBSET Role, size : Nat, got : SUBSET Role, wants : Requirements \union {None}]

RegistryTypeOK ==
    /\ driver \in [Provider -> Offers]
    /\ _providers \in [Role -> Provider \union {None}]
    /\ _capability_cache \in [Role -> Offers \union {None}]
    /\ prober \in [Prober -> ProberState]
    /\ since \in [Role -> SUBSET Offers]
    /\ overlapped \in SUBSET Role

\* "Cached per registration": what is cached for a role was reported by the
\* provider registered for it, after it was registered, though it be the same
\* provider with another driver; but for a register that overlapped a probe.
CachedPerRegistration ==
    \A role \in Role :
        _capability_cache[role] # None /\ role \notin overlapped =>
            _capability_cache[role] \in since[role]

\* Capability negotiation fails closed: a prober is only told that its
\* requirement is met if the role's provider, since it was registered, reported
\* no less on any axis; again but for a register that overlapped a probe.
NeverDowngraded ==
    [][\A c \in Prober :
         prober[c].pc # "met" /\ prober'[c].pc = "met" /\ prober'[c].role \notin overlapped =>
            \E offers \in since[prober'[c].role] :
                \A axis \in DOMAIN prober'[c].wants : offers[axis] >= prober'[c].wants[axis]]_registryVars

\* probe_all has an answer for every registered role, those registered while it
\* ran included, or it raises.
ProbesAll ==
    [][\A c \in Prober :
         prober[c].pc = "iterating" /\ prober'[c].pc = "probed all" =>
            prober[c].got = registered_roles]_registryVars
=============================================================================
