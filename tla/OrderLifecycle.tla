--------------------------- MODULE OrderLifecycle ---------------------------
(***************************************************************************)
(* One ACME order from its creation to its certificate: the requests that  *)
(* change it (crates/protocol/src/acme/order.rs), the guarded statements   *)
(* they and the workers write with (crates/store/src/order.rs, authz.rs),  *)
(* and the two kinds of queued work that decide it, `challenge_validate`   *)
(* (validate.rs) and `signer_issue` (issue.rs, with a backend that signs   *)
(* itself: `relay`, which answers `Processing`, is not modelled here).     *)
(*                                                                         *)
(* The queue is the one of JobContract, which JobQueue implements: rows    *)
(* are submitted, finished, cancelled and revived by its actions.  On top  *)
(* of it stand the attempts, and what JobQueue says of them: while leases  *)
(* hold, one attempt at a time works on a row; an attempt whose lease was  *)
(* lost, or released by a graceful stop, goes on beside its successor.     *)
(*                                                                         *)
(* A transaction is one action (SQLite serialises writers; see README for  *)
(* PostgreSQL).  Between the statements of one request, or of one attempt, *)
(* everything else may happen.                                             *)
(***************************************************************************)
EXTENDS Integers, FiniteSets

CONSTANTS
    Authz,        \* the authorizations of the order
    Chall,        \* their challenges
    Of,           \* the authorization each challenge belongs to
    Order,        \* the identity of the order's signer_issue work
    Job,          \* rows of the queue
    Worker,       \* attempts that can run at a time
    NoWorker, NoJob,
    MaxAttempts,  \* jobs.max_attempts
    MaxInFlight,  \* challenge.max_in_flight_per_account, 0 for no limit
    MaxCerts,     \* bound: certificates a run may sign
    MaxRequests,  \* bound: kinds of request between their read and their write
    Mishaps       \* what besides the requests happens in a run

\* Subjects of queued work, and the (kind, dedup_key) identities of their rows.
Key == Chall \cup {Order}

\* overlap: an attempt outlives its lease.   crash: a process dies, or a
\* statement fails.   untold: it dies between a retirement and its abandon.
\* cancel, revive, delete: the operator does so.   resend: a client sends a
\* request again before the first is through.
Mishap == {"overlap", "crash", "untold", "cancel", "revive", "delete", "resend"}

ASSUME LifecycleAssumption ==
    /\ Of \in [Chall -> Authz] /\ Order \notin Chall
    /\ Authz # {} /\ IsFiniteSet(Authz) /\ IsFiniteSet(Chall)
    /\ NoWorker \notin Worker /\ NoJob \notin Job
    /\ MaxAttempts \in Nat \ {0} /\ MaxInFlight \in Nat
    /\ MaxCerts \in Nat /\ MaxRequests \in Nat
    /\ Mishaps \subseteq Mishap

VARIABLES
    account,    \* the status of the account
    order,      \* the status of the order, "none" once its row is deleted
    authz,      \* the status of each authorization
    chall,      \* the status of each challenge
    expired,    \* whether the order's `expires`, its authorizations' too, passed
    cert,       \* the certificate the order's row holds, 0 if none
    signed,     \* how many certificates the backend has signed
    announced,  \* the certificates audited and notified as issued
    phase, ident, \* the queue, as JobContract has it
    tries,      \* the attempts of a row
    holder,     \* the attempt that holds the lease of a row
    att,        \* what each attempt is doing
    req,        \* requests that have read, and not yet written: each for one or more alike
    owing       \* a cancelled signer_issue whose order is not yet abandoned

Queue == INSTANCE JobContract

subject == <<account, order, authz, chall, expired>>
ledger == <<cert, signed, announced>>
queue == <<phase, ident, tries, holder>>
vars == <<subject, ledger, queue, att, req, owing>>

Idle == [pc |-> "free", job |-> NoJob, outcome |-> "Done", cert |-> 0]

-----------------------------------------------------------------------------
(* Guarded statements, each as the value it leaves in the column, unchanged *)
(* where its WHERE fails; and the transactions made of them.                *)

Undecided == {"pending", "processing"}

\* Mutant of OrderInvalid: the UPDATE has no guard.
OrderInvalidated == "invalid"

\* Mutant of OrderPending: the UPDATE spares only orders under way or issued.
OrderReopened == IF order \in {"ready", "invalid"} THEN "pending" ELSE order

\* Order::set_invalid, set_ready and set_pending.
OrderInvalid == IF order \in {"pending", "ready", "processing"} THEN "invalid" ELSE order
OrderReady == IF order = "pending" THEN "ready" ELSE order
OrderPending == IF order = "ready" THEN "pending" ELSE order

\* Order::finalize, whose UPDATE asks only that the row is there.
OrderFinalized == IF order = "none" THEN order ELSE "valid"

\* live_certificate!, revocation and the certificate's own expiry left out.
LiveCertificate == cert # 0

\* Challenge::set_valid and set_invalid, Authorization::set_valid and set_invalid.
ChallVerdict(c, v) == IF chall[c] \in Undecided THEN v ELSE chall[c]
AuthzVerdict(a, v) == IF authz[a] = "pending" THEN v ELSE authz[a]

\* Authorization::set_deactivated.
Deactivatable(a) == authz[a] \in {"pending", "valid"}

\* Whether a verdict on c is written to its authorization too.
Carries(c) == chall[c] \in Undecided /\ authz[Of[c]] = "pending"

\* Mutant of CommitValidation: the order promoted without asking after the others.
CommitValidationEager(c) ==
    /\ chall' = [chall EXCEPT ![c] = ChallVerdict(c, "valid")]
    /\ authz' = IF Carries(c) THEN [authz EXCEPT ![Of[c]] = "valid"] ELSE authz
    /\ order' = IF Carries(c) THEN OrderReady ELSE order

\* commit_validation: challenge, then authorization, then the order if that
\* was the last authorization outstanding, each only if the one before wrote.
CommitValidation(c) ==
    /\ chall' = [chall EXCEPT ![c] = ChallVerdict(c, "valid")]
    /\ authz' = [authz EXCEPT ![Of[c]] = IF Carries(c) THEN AuthzVerdict(Of[c], "valid") ELSE @]
    /\ order' = IF Carries(c) /\ \A a \in Authz : authz'[a] = "valid" THEN OrderReady ELSE order

\* commit_validation_failure: the same chain of writes, to `invalid`.
CommitValidationFailure(c) ==
    /\ chall' = [chall EXCEPT ![c] = ChallVerdict(c, "invalid")]
    /\ authz' = [authz EXCEPT ![Of[c]] = IF Carries(c) THEN AuthzVerdict(Of[c], "invalid") ELSE @]
    /\ order' = IF Carries(c) THEN OrderInvalid ELSE order

\* JobQueue::enqueue_in: a row, unless a live one has the identity.  An id that
\* an attempt still names is not minted again.
Enqueue(k) ==
    \/ \E j \in Job : /\ \A w \in Worker : att[w].job # j
                      /\ Queue!Submit(j, k)
                      /\ tries' = [tries EXCEPT ![j] = 0]
                      /\ holder' = holder
    \/ ~Queue!Unclaimed(k) /\ UNCHANGED queue

InFlight == Cardinality({c \in Chall : chall[c] = "processing"})

-----------------------------------------------------------------------------
\* The state OrderService::new_order commits: order, authorizations, challenges.
Init ==
    /\ account = "active" /\ order = "pending" /\ expired = FALSE
    /\ authz = [a \in Authz |-> "pending"]
    /\ chall = [c \in Chall |-> "pending"]
    /\ cert = 0 /\ signed = 0 /\ announced = {}
    /\ phase = [j \in Job |-> "none"]
    /\ ident = [j \in Job |-> Order]
    /\ tries = [j \in Job |-> 0]
    /\ holder = [j \in Job |-> NoWorker]
    /\ att = [w \in Worker |-> Idle]
    /\ req = {} /\ owing = FALSE

-----------------------------------------------------------------------------
(* Requests.  Each is a read, on which it may be refused, and a write that  *)
(* relies on the guards of its statements.                                  *)

\* signer_account and load_owned_order: what every request has passed.
Admitted == /\ account = "active"
            /\ order # "none" /\ (order = "valid" \/ ~expired)
            /\ Cardinality(req) < MaxRequests

Read(r) == /\ req' = req \cup {r}
           /\ UNCHANGED <<subject, ledger, queue, att, owing>>

\* One of the requests that read alike comes to its transaction: it was the last
\* of them, or others are still on their way.
Writes(r) == /\ r \in req
             /\ req' = req \ {r} \/ ("resend" \in Mishaps /\ req' = req)

\* claim_challenge up to its transaction: expired, deactivated, already decided
\* and invalid are answered without one.
ReadTrigger(c) ==
    /\ Admitted
    /\ ~expired /\ authz[Of[c]] = "pending"
    /\ chall[c] \in Undecided /\ order # "invalid"
    /\ Read(<<"trigger", c>>)

\* deactivate_authz up to its transaction.
ReadDeactivate(a) ==
    /\ Admitted
    /\ Deactivatable(a)
    /\ order \notin {"valid", "processing"}
    /\ Read(<<"deactivate", a>>)

\* finalize up to its transaction; a refused CSR goes no further.
ReadFinalize ==
    /\ Admitted
    /\ order = "ready"
    /\ Read(<<"finalize", Order>>)

\* Challenge::claim_for_validation_on.
Claimable(c) == /\ chall[c] = "pending"
                /\ authz[Of[c]] = "pending" /\ order = "pending"
                /\ MaxInFlight = 0 \/ InFlight < MaxInFlight

\* claim_challenge's transaction: the claim commits with the job that settles it.
ClaimChallenge(c) ==
    /\ Writes(<<"trigger", c>>)
    /\ \/ /\ Claimable(c)
          /\ chall' = [chall EXCEPT ![c] = "processing"]
          /\ Enqueue(c)
          /\ UNCHANGED <<account, order, authz, expired>>
       \/ ~Claimable(c) /\ UNCHANGED <<subject, queue>>
    /\ UNCHANGED <<ledger, att, owing>>

\* Mutant of Deactivate: the order is not demoted.
DeactivateAlone(a) ==
    /\ Writes(<<"deactivate", a>>)
    /\ authz' = [authz EXCEPT ![a] = IF Deactivatable(a) THEN "deactivated" ELSE @]
    /\ UNCHANGED <<account, order, chall, expired, ledger, queue, att, owing>>

\* deactivate_authz's transaction: a ready order is demoted with it.
Deactivate(a) ==
    /\ Writes(<<"deactivate", a>>)
    /\ \/ /\ Deactivatable(a)
          /\ authz' = [authz EXCEPT ![a] = "deactivated"]
          /\ order' = OrderPending
       \/ ~Deactivatable(a) /\ UNCHANGED <<authz, order>>
    /\ UNCHANGED <<account, chall, expired, ledger, queue, att, owing>>

\* Mutant of Finalize: the issuance is queued without the claim.
FinalizeUnclaimed ==
    /\ Writes(<<"finalize", Order>>)
    /\ order = "ready" /\ Enqueue(Order)
    /\ UNCHANGED <<subject, ledger, att, owing>>

\* finalize's transaction: Order::claim_for_finalize_on, and signer_issue queued.
Finalize ==
    /\ Writes(<<"finalize", Order>>)
    /\ \/ order = "ready" /\ order' = "processing" /\ Enqueue(Order)
       \/ order # "ready" /\ UNCHANGED <<order, queue>>
    /\ UNCHANGED <<account, authz, chall, expired, ledger, att, owing>>

\* The transaction fails, or the process serving the request dies before it.
RequestFails(r) ==
    /\ "crash" \in Mishaps
    /\ r \in req /\ req' = req \ {r}
    /\ UNCHANGED <<subject, ledger, queue, att, owing>>

\* acme::account::deactivate, by the account itself or by the operator.
DeactivateAccount ==
    /\ account = "active" /\ account' = "deactivated"
    /\ UNCHANGED <<order, authz, chall, expired, ledger, queue, att, req, owing>>

\* The order's validity_seconds run out.
Expire ==
    /\ ~expired /\ expired' = TRUE
    /\ UNCHANGED <<account, order, authz, chall, ledger, queue, att, req, owing>>

-----------------------------------------------------------------------------
(* Attempts at queued work.                                                 *)

Lesser(m, n) == IF m < n THEN m ELSE n

Work(w) == ident[att[w].job]
Goto(w, pc) == att' = [att EXCEPT ![w] = [@ EXCEPT !.pc = pc]]
Answer(w, o) ==
    att' = [att EXCEPT ![w] = [@ EXCEPT !.pc = "settle", !.outcome = o, !.cert = 0]]
Retire(w) == att' = [att EXCEPT ![w] = [Idle EXCEPT !.pc = "abandon", !.job = att[w].job]]

\* The runner claims a row no attempt holds.  Past the budget only "exhausted"
\* is asked of its attempts, so they saturate there.
Take(w, j) ==
    /\ att[w].pc = "free"
    /\ phase[j] = "queued" /\ holder[j] = NoWorker
    /\ tries' = [tries EXCEPT ![j] = Lesser(@ + 1, MaxAttempts)]
    /\ holder' = [holder EXCEPT ![j] = w]
    /\ att' = [att EXCEPT ![w] = [Idle EXCEPT !.pc = "load", !.job = j]]
    /\ UNCHANGED <<subject, ledger, phase, ident, req, owing>>

\* Mutant of Load: a subject already settled is worked on again.
LoadAgain(w) ==
    LET k == Work(w)
        status == IF k = Order THEN order ELSE chall[k] IN
    /\ att[w].pc = "load"
    /\ IF expired \/ status = "none"
       THEN Answer(w, "Failed")
       ELSE Goto(w, IF k = Order THEN "check" ELSE "probe")
    /\ UNCHANGED <<subject, ledger, queue, req, owing>>

\* The head of both handlers' run: a row past its deadline is retired unrun, a
\* subject that is gone fails it, and one already settled makes it done.
Load(w) ==
    LET k == Work(w)
        status == IF k = Order THEN order ELSE chall[k] IN
    /\ att[w].pc = "load"
    /\ \/ (expired \/ status = "none") /\ Answer(w, "Failed")
       \/ ~expired /\ status \notin {"none", "processing"} /\ Answer(w, "Done")
       \/ ~expired /\ status = "processing" /\ Goto(w, IF k = Order THEN "check" ELSE "probe")
    /\ UNCHANGED <<subject, ledger, queue, req, owing>>

\* run_validation: the validator answers, and the answer is recorded.
Validate(w) ==
    /\ att[w].pc = "probe"
    /\ CommitValidation(Work(w)) \/ CommitValidationFailure(Work(w))
    /\ Answer(w, "Done")
    /\ UNCHANGED <<account, expired, ledger, queue, req, owing>>

\* authority_withdrawn.
Withdrawn == account # "active" \/ \E a \in Authz : authz[a] # "valid"

CheckAuthority(w) ==
    /\ att[w].pc = "check"
    /\ Goto(w, IF Withdrawn THEN "refuse" ELSE "sign")
    /\ UNCHANGED <<subject, ledger, queue, req, owing>>

\* SignerBackend::issue: a chain, one that cannot be read, or BadCsr.  Internal
\* is a Retry, as Interrupted has it.
Sign(w) ==
    /\ att[w].pc = "sign"
    /\ \/ /\ signed < MaxCerts /\ signed' = signed + 1
          /\ \/ att' = [att EXCEPT ![w] = [@ EXCEPT !.pc = "record", !.cert = signed']]
             \/ Answer(w, "Failed")
       \/ signed' = signed /\ Goto(w, "refuse")
    /\ UNCHANGED <<subject, cert, announced, queue, req, owing>>

\* SignerIssueJob::refuse, that is fail_order.
Refuse(w) ==
    /\ att[w].pc = "refuse"
    /\ order' = OrderInvalid
    /\ Answer(w, "Done")
    /\ UNCHANGED <<account, authz, chall, expired, ledger, queue, req, owing>>

\* Mutant of Record: the issuance is announced though its write failed.
RecordRegardless(w) ==
    /\ att[w].pc = "record"
    /\ Goto(w, "announce")
    /\ UNCHANGED <<subject, ledger, queue, req, owing>>

\* record_issuance, by way of Order::finalize, whose UPDATE has no guard: no row
\* to update is not an error.
Record(w) ==
    /\ att[w].pc = "record"
    /\ order' = OrderFinalized
    /\ cert' = IF order = "none" THEN cert ELSE att[w].cert
    /\ Goto(w, "announce")
    /\ UNCHANGED <<account, authz, chall, expired, signed, announced, queue, req, owing>>

\* announce_issuance: the audit entry and the notifications, once it is recorded.
Announce(w) ==
    /\ att[w].pc = "announce"
    /\ announced' = announced \cup {att[w].cert}
    /\ Answer(w, "Done")
    /\ UNCHANGED <<subject, cert, signed, queue, req, owing>>

\* The attempt panics or times out, a read or write of it fails, the backend
\* answers Internal, or the profile is not mounted: Retry.
Interrupted(w) ==
    /\ att[w].pc \in {"load", "probe", "check", "sign", "refuse", "record", "announce"}
    /\ Answer(w, "Retry")
    /\ UNCHANGED <<subject, ledger, queue, req, owing>>

\* The guard of a settlement compares the runner, not the attempt: one that lost
\* its lease passes for the attempt its own process has started since.
Holds(w, j) == holder[j] = w \/ ("overlap" \in Mishaps /\ holder[j] # NoWorker)

\* run_one's settlement, by an attempt of the runner that holds the row.  A retry
\* is one unless the attempts are spent or the deadline comes before it.
Settle(w) ==
    LET j == att[w].job
        o == att[w].outcome IN
    /\ att[w].pc = "settle"
    /\ phase[j] = "queued" /\ Holds(w, j)
    /\ holder' = [holder EXCEPT ![j] = NoWorker]
    /\ \/ /\ o = "Done"
          /\ Queue!Finish(j) /\ phase'[j] = "done"
          /\ att' = [att EXCEPT ![w] = Idle]
       \/ /\ o \in {"Failed", "Retry"}
          /\ Queue!Finish(j) /\ phase'[j] = "failed"
          /\ Retire(w)
       \/ /\ o = "Retry" /\ tries[j] < MaxAttempts /\ ~expired
          /\ att' = [att EXCEPT ![w] = Idle]
          /\ UNCHANGED <<phase, ident>>
    /\ UNCHANGED <<subject, ledger, tries, req, owing>>

\* A settlement that affects no row, another runner's attempt having taken it over.
SettleMisses(w) ==
    /\ att[w].pc = "settle"
    /\ phase[att[w].job] # "queued" \/ holder[att[w].job] # w
    /\ att' = [att EXCEPT ![w] = Idle]
    /\ UNCHANGED <<subject, ledger, queue, req, owing>>

\* Mutant of Abandon: the subject is left as it is.
AbandonSilently(w) ==
    /\ att[w].pc = "abandon"
    /\ att' = [att EXCEPT ![w] = Idle]
    /\ UNCHANGED <<subject, ledger, queue, req, owing>>

\* JobHandler::abandon of either kind, for a subject still `processing`.
Abandon(w) ==
    LET k == Work(w) IN
    /\ att[w].pc = "abandon"
    /\ att' = [att EXCEPT ![w] = Idle]
    /\ \/ /\ k = Order
          /\ order' = IF order = "processing" THEN OrderInvalid ELSE order
          /\ UNCHANGED <<authz, chall>>
       \/ k \in Chall /\ chall[k] = "processing" /\ CommitValidationFailure(k)
       \/ k \in Chall /\ chall[k] # "processing" /\ UNCHANGED <<order, authz, chall>>
    /\ UNCHANGED <<account, expired, ledger, queue, req, owing>>

\* The attempt's process dies, or its settlement fails: the row is left to be
\* reclaimed once its lease has run out.
Crash(w) ==
    /\ "crash" \in Mishaps
    /\ att[w].pc \notin {"free", "abandon"}
    /\ att' = [att EXCEPT ![w] = Idle]
    /\ holder' = [j \in Job |-> IF holder[j] = w THEN NoWorker ELSE holder[j]]
    /\ UNCHANGED <<subject, ledger, phase, ident, tries, req, owing>>

\* It dies, or its reads fail, after the row was retired: nothing calls again.
AbandonLost(w) ==
    /\ "untold" \in Mishaps
    /\ att[w].pc = "abandon"
    /\ att' = [att EXCEPT ![w] = Idle]
    /\ UNCHANGED <<subject, ledger, queue, req, owing>>

\* A lease is reclaimed, or released by a stop, under an attempt that goes on.
LoseLease(j) ==
    /\ "overlap" \in Mishaps
    /\ holder[j] # NoWorker
    /\ holder' = [holder EXCEPT ![j] = NoWorker]
    /\ UNCHANGED <<subject, ledger, phase, ident, tries, att, req, owing>>

\* ChallengeValidateJob::recover, when a runner starts.
Recover(c) ==
    /\ chall[c] = "processing" /\ ~expired
    /\ Queue!Unclaimed(c)
    /\ Enqueue(c)
    /\ UNCHANGED <<subject, ledger, att, req, owing>>

-----------------------------------------------------------------------------
(* The operator, and retention.                                             *)

\* admin::ops::cancel_job: the row first, then the order of an issuance that
\* was still in flight.
CancelRow(j) ==
    /\ "cancel" \in Mishaps
    /\ phase[j] = "queued" => holder[j] = NoWorker
    /\ Queue!Cancel(j)
    /\ owing' = (owing \/ (phase[j] = "queued" /\ ident[j] = Order))
    /\ UNCHANGED <<subject, ledger, tries, holder, att, req>>

AbandonOrder ==
    /\ owing /\ owing' = FALSE
    /\ order' = IF order = "processing" THEN OrderInvalid ELSE order
    /\ UNCHANGED <<account, authz, chall, expired, ledger, queue, att, req>>

\* The operator's process dies between the two, or the second fails.
CancelLost ==
    /\ "untold" \in Mishaps
    /\ owing /\ owing' = FALSE
    /\ UNCHANGED <<subject, ledger, queue, att, req>>

\* admin::ops::run_job_now on a failed row: one more attempt.
Revive(j) ==
    /\ "revive" \in Mishaps
    /\ Queue!Revive(j)
    /\ tries' = [tries EXCEPT ![j] = MaxAttempts - 1]
    /\ UNCHANGED <<subject, ledger, holder, att, req, owing>>

\* DELETE, and the cascade to authorizations and challenges.
Removed ==
    /\ order # "none" /\ order' = "none"
    /\ authz' = [a \in Authz |-> "none"]
    /\ chall' = [c \in Chall |-> "none"]
    /\ UNCHANGED <<account, expired, ledger, queue, att, req, owing>>

\* Mutant of DeleteOrder: a live certificate does not stop it.
DeleteAnyOrder == "delete" \in Mishaps /\ Removed

\* admin::ops::delete_order: Order::delete refuses a live certificate.
DeleteOrder == "delete" \in Mishaps /\ ~LiveCertificate /\ Removed

\* Order::cleanup, the retention sweep.  order.retention_days is whole days past
\* `expires`, and no attempt lasts that long past its deadline.
CleanupOrder ==
    /\ order # "valid" /\ expired
    /\ \A w \in Worker : att[w].pc \in {"free", "load", "settle", "abandon"}
    /\ Removed

\* Job::cleanup.
Forget(j) ==
    /\ Queue!Forget(j)
    /\ tries' = [tries EXCEPT ![j] = 0]
    /\ UNCHANGED <<subject, ledger, holder, att, req, owing>>

-----------------------------------------------------------------------------
RequestStep ==
    \/ \E c \in Chall : ReadTrigger(c) \/ ClaimChallenge(c)
    \/ \E a \in Authz : ReadDeactivate(a) \/ Deactivate(a)
    \/ ReadFinalize \/ Finalize
    \/ \E r \in req : RequestFails(r)
    \/ DeactivateAccount

WorkerStep(w) ==
    \/ \E j \in Job : Take(w, j)
    \/ Load(w) \/ Validate(w) \/ CheckAuthority(w) \/ Sign(w) \/ Refuse(w) \/ Record(w)
    \/ Announce(w) \/ Interrupted(w) \/ Settle(w) \/ SettleMisses(w) \/ Abandon(w)
    \/ Crash(w) \/ AbandonLost(w)

OperatorStep ==
    \/ \E j \in Job : CancelRow(j) \/ Revive(j) \/ Forget(j) \/ LoseLease(j)
    \/ \E c \in Chall : Recover(c)
    \/ AbandonOrder \/ CancelLost \/ DeleteOrder \/ CleanupOrder
    \/ Expire

Next == RequestStep \/ (\E w \in Worker : WorkerStep(w)) \/ OperatorStep

Spec == Init /\ [][Next]_vars

-----------------------------------------------------------------------------
(* Properties.                                                              *)

OrderStatus == {"pending", "ready", "processing", "valid", "invalid", "none"}
AuthzStatus == {"pending", "valid", "invalid", "deactivated", "none"}
ChallStatus == {"pending", "processing", "valid", "invalid", "none"}
AttemptPC == {"free", "load", "probe", "check", "sign", "refuse", "record",
              "announce", "settle", "abandon"}
Attempt == [pc : AttemptPC, job : Job \cup {NoJob}, outcome : {"Done", "Failed", "Retry"},
            cert : Nat]
Requests == ({"trigger"} \X Chall) \cup ({"deactivate"} \X Authz) \cup {<<"finalize", Order>>}

SubjectOK == /\ account \in {"active", "deactivated"} /\ order \in OrderStatus
             /\ authz \in [Authz -> AuthzStatus] /\ chall \in [Chall -> ChallStatus]
             /\ expired \in BOOLEAN
LedgerOK == cert \in Nat /\ signed \in Nat /\ announced \in SUBSET Nat
QueueOK == /\ phase \in [Job -> Queue!Phase] /\ ident \in [Job -> Key]
           /\ tries \in [Job -> Nat] /\ holder \in [Job -> Worker \cup {NoWorker}]

AttemptsOK ==
    /\ att \in [Worker -> Attempt]
    /\ \A w \in Worker :
          /\ att[w].pc = "free" <=> att[w].job = NoJob
          /\ att[w].pc = "probe" => Work(w) \in Chall
          /\ att[w].pc \in {"check", "sign", "refuse", "record", "announce"} => Work(w) = Order

\* Every variable has its type; a free attempt names no job, and an attempt is
\* at a step of the handler its row belongs to.
TypeOK == /\ SubjectOK /\ LedgerOK /\ QueueOK /\ AttemptsOK
          /\ req \subseteq Requests /\ owing \in BOOLEAN

\* While it is open, an order is `ready` exactly when every authorization of it
\* is `valid`: no verdict, sibling or deactivation, in whatever order they land,
\* leaves one finalizable without them or stuck `pending` with them all.
ReadyIsDerived ==
    order \in {"pending", "ready"} =>
        (order = "ready" <=> \A a \in Authz : authz[a] = "valid")

\* An order is `valid` exactly when its row holds a certificate.
ValidHasCertificate == order = "valid" <=> cert # 0

\* Work is queued only for what has been claimed, so that the claim's own job
\* is never refused for an older one with its identity.
QueuedIsClaimed ==
    \A j \in Job : phase[j] \in {"queued", "failed"} =>
        IF ident[j] = Order THEN order \notin {"pending", "ready"}
                            ELSE chall[ident[j]] # "pending"

\* What a step leaves of the verdicts.
VerdictsKept ==
    /\ \A c \in Chall : chall[c] \in {"valid", "invalid"} => chall'[c] \in {chall[c], "none"}
    /\ \A a \in Authz : authz[a] \in {"invalid", "deactivated"} => authz'[a] \in {authz[a], "none"}
    /\ \A a \in Authz : authz[a] = "valid" => authz'[a] \in {"valid", "deactivated", "none"}
    /\ order = "valid" => order' = "valid"

\* A verdict is final: redelivered attempts, late siblings, abandoned rows and
\* stale requests leave a decided challenge, an `invalid` or `deactivated`
\* authorization and a `valid` order as they are, until they are deleted; and a
\* proven authorization is lost only by its client giving it up.
VerdictsStand == [][VerdictsKept]_vars

\* While leases hold, the certificate of an order is never replaced: however
\* often its row is redelivered, cancelled or revived, one signed certificate
\* is recorded and stays the one the order can revoke.
CertificateKept == [][cert # 0 => cert' = cert]_vars

\* While leases hold and no failed row is revived, the columns a client reads
\* follow the state machine of AcmeOrder.
Acme == INSTANCE AcmeOrder WITH certified <- cert # 0
ImplementsAcme == Acme!Spec

\* A failed order is issued after all, by an attempt that was at work on it before.
Reissue ==
    /\ order = "invalid" /\ order' = "valid" /\ cert' # 0 /\ authz' = authz
    /\ \E w \in Worker : att[w].pc = "record"

\* With leases lost, rows revived and everything else that may happen, those columns
\* depart from AcmeOrder in nothing but this.
AcmeUnlessReissued == Acme!Init /\ [][Acme!Next \/ Reissue]_(Acme!avars)

\* "the `signer_issue` job re-checks every authorization before it signs": no
\* certificate is signed over an authorization its client has given up.
SignedWhileAuthorized ==
    [][signed' # signed => \A a \in Authz : authz[a] # "deactivated"]_vars

\* While leases hold, every certificate announced as
\* issued is the one its order's row holds, the only record by which it can be
\* revoked, however attempts fail between the signature and the write.
AnnouncedIsHeld == order # "none" => announced \subseteq {cert}

-----------------------------------------------------------------------------
(* Liveness.  The runners go on claiming and every attempt that can go on   *)
(* does (see JobQueue); a process is not killed at one and the same step of *)
(* a handler for ever; and an operator's cancellation is carried through.   *)

Fairness ==
    /\ \A w \in Worker :
          /\ SF_vars(\E j \in Job : Take(w, j))
          /\ SF_vars(Load(w)) /\ SF_vars(Validate(w)) /\ SF_vars(CheckAuthority(w))
          /\ SF_vars(Sign(w)) /\ SF_vars(Refuse(w)) /\ SF_vars(Record(w)) /\ SF_vars(Announce(w))
          /\ SF_vars(Settle(w)) /\ WF_vars(SettleMisses(w)) /\ WF_vars(Abandon(w))
    /\ WF_vars(AbandonOrder)

FairSpec == Spec /\ Fairness

\* What is claimed is decided: a challenge or an order in `processing` leaves it,
\* through any crashes and redeliveries, if no retirement goes untold.
ClaimsSettle ==
    /\ \A c \in Chall : chall[c] = "processing" ~> chall[c] # "processing"
    /\ order = "processing" ~> order # "processing"
=============================================================================
