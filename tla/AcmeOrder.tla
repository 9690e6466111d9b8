----------------------------- MODULE AcmeOrder -----------------------------
(***************************************************************************)
(* What an ACME client may see of an order and its authorizations: the     *)
(* state machine that the status columns of crates/store/src/order.rs and  *)
(* crates/store/src/authz.rs are documented to follow (RFC 8555 section    *)
(* 7.1.6), with no jobs, workers, requests in flight or lost statements.   *)
(*                                                                         *)
(* While nothing is decided an order is `ready` exactly when each of its   *)
(* authorizations is `valid`; `valid` and `invalid` are final; and an      *)
(* order holds a certificate exactly when it is `valid`.                   *)
(***************************************************************************)
CONSTANT Authz
VARIABLES order, authz, certified

avars == <<order, authz, certified>>

Proven == \A a \in Authz : authz'[a] = "valid"

Init == order = "pending" /\ authz = [a \in Authz |-> "pending"] /\ ~certified

\* The last authorization to be proved carries the order along.
Prove(a) ==
    /\ authz[a] = "pending"
    /\ authz' = [authz EXCEPT ![a] = "valid"]
    /\ order' = IF order = "pending" /\ Proven THEN "ready" ELSE order
    /\ certified' = certified

\* One failed authorization fails an order that was still open.
Refute(a) ==
    /\ authz[a] = "pending"
    /\ authz' = [authz EXCEPT ![a] = "invalid"]
    /\ order' = IF order \in {"pending", "ready"} THEN "invalid" ELSE order
    /\ certified' = certified

\* A client gives an authorization up: a ready order is no longer ready.
Withdraw(a) ==
    /\ authz[a] \in {"pending", "valid"}
    /\ authz' = [authz EXCEPT ![a] = "deactivated"]
    /\ order' = IF order = "ready" THEN "pending" ELSE order
    /\ certified' = certified

Request == order = "ready" /\ order' = "processing" /\ UNCHANGED <<authz, certified>>

Issue == order = "processing" /\ order' = "valid" /\ certified' /\ authz' = authz

Fail == order = "processing" /\ order' = "invalid" /\ UNCHANGED <<authz, certified>>

\* An order that holds no certificate may be deleted, with all that hangs on it.
Remove ==
    /\ order \notin {"valid", "none"}
    /\ order' = "none" /\ authz' = [a \in Authz |-> "none"]
    /\ certified' = certified

Next == \/ \E a \in Authz : Prove(a) \/ Refute(a) \/ Withdraw(a)
        \/ Request \/ Issue \/ Fail \/ Remove

Spec == Init /\ [][Next]_avars
=============================================================================
