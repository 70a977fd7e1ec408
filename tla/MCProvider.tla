----------------------------- MODULE MCProvider -----------------------------
(* The registry, from which a provider is taken, and an invocation of one.   *)
(* They share no state, so that interleaving their steps shows nothing that  *)
(* neither shows alone: a behaviour is one of the registry, whose invocation *)
(* never starts, or one of an invocation, behind a registry that rests.      *)
(* Both adapters read their lists alike: only Claude's reader, with one turn *)
(* before it, may first come with a cursor.                                  *)
EXTENDS MCProviderInvocation, MCProviderRegistry

VARIABLE part  \* what this behaviour is about

ProviderInit ==
    /\ part \in {"registry", "invocation"}
    /\ Init /\ (part = "registry" => adapter = "claude")
    /\ reader.first # -1 => part = "invocation" /\ adapter = "claude"
    /\ RegistryInit
    /\ (part = "invocation" => \A p \in Provider : driver[p] = Report(1, 0))

ProviderNext ==
    /\ \/ part = "registry" /\ RegistryNext /\ UNCHANGED vars
       \/ part = "invocation" /\ Next /\ UNCHANGED registryVars
    /\ UNCHANGED part

ProviderSpec == ProviderInit /\ [][ProviderNext]_<<part, vars, registryVars>> /\ Fairness
=============================================================================
