---------------------------- MODULE JobContract ----------------------------
(***************************************************************************)
(* What the job queue promises its callers (the module documentation of    *)
(* crates/store/src/job.rs and of crates/jobs/src/jobs/mod.rs), with no    *)
(* runners, leases, attempts or clock: a job once queued is live until it  *)
(* is done, failed or cancelled; at most one live job has a given          *)
(* identity; only a failed job ever comes back, and only as itself; and a  *)
(* job that has settled is forgotten in the end, never one that has not.   *)
(***************************************************************************)
CONSTANTS Job, Key
VARIABLES phase, ident

cvars == <<phase, ident>>

Phase == {"none", "queued", "done", "failed", "cancelled"}

Unclaimed(k) == \A j \in Job : phase[j] = "queued" => ident[j] # k

Init == phase = [j \in Job |-> "none"] /\ ident \in [Job -> Key]

Submit(j, k) ==
    /\ phase[j] = "none" /\ Unclaimed(k)
    /\ phase' = [phase EXCEPT ![j] = "queued"]
    /\ ident' = [ident EXCEPT ![j] = k]

\* The runner settles the job for good.
Finish(j) ==
    /\ phase[j] = "queued"
    /\ \E p \in {"done", "failed"} : phase' = [phase EXCEPT ![j] = p]
    /\ ident' = ident

\* The operator takes it off the queue, or closes a failed one.
Cancel(j) ==
    /\ phase[j] \in {"queued", "failed"}
    /\ phase' = [phase EXCEPT ![j] = "cancelled"]
    /\ ident' = ident

Revive(j) ==
    /\ phase[j] = "failed" /\ Unclaimed(ident[j])
    /\ phase' = [phase EXCEPT ![j] = "queued"]
    /\ ident' = ident

Forget(j) ==
    /\ phase[j] \in {"done", "failed", "cancelled"}
    /\ phase' = [phase EXCEPT ![j] = "none"]
    /\ ident' = ident

Next == \E j \in Job : \/ \E k \in Key : Submit(j, k)
                       \/ Finish(j) \/ Cancel(j) \/ Revive(j) \/ Forget(j)

Spec == Init /\ [][Next]_cvars
=============================================================================
