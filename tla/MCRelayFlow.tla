----------------------------- MODULE MCRelayFlow -----------------------------
(***************************************************************************)
(* Parts of a serving process for TLC: the jobs of a relayed order, and    *)
(* the reload of the configuration.  A reload touches a relayed order only *)
(* by unmounting its profile, which RelayFlow has for itself, so each      *)
(* behaviour is of one part and leaves the other at rest.  A TXT record    *)
(* differs from a token in that it does not expire, and bypass publishes   *)
(* nothing: they are looked at where time passes, http01 everywhere.  Rows *)
(* of the digest are lost in a part of their own, where no delivery is     *)
(* followed and no configuration is refused for what it says.              *)
(***************************************************************************)
EXTENDS RelayFlow, MCReload

VARIABLE part
servingVars == <<part, vars, reloadVars>>

ServingInit ==
    /\ part \in {"relay", "reload", "digest"}
    /\ Init /\ ReloadInit
    /\ part # "relay" => strategy = "http01" /\ mishaps = {"slow"}
    /\ strategy # "http01" => mishaps = {"slow"}
    /\ file.conf = PlainConfig

ServingNext ==
    \/ part = "relay" /\ UNCHANGED <<part, reloadVars>> /\ Next
    \/ /\ part = "reload" /\ UNCHANGED <<part, vars>> /\ ReloadNext
       /\ \A p \in Profile : ~Lost(digest'[p])
    \/ /\ part = "digest" /\ UNCHANGED <<part, vars, note>> /\ ReloadNext
       /\ ~Clash(file'.conf) /\ file'.conf.db = d1

ServingSpec == ServingInit /\ [][ServingNext]_servingVars

Symmetry == Permutations(Worker)
=============================================================================
