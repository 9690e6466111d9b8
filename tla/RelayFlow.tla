------------------------------ MODULE RelayFlow ------------------------------
(***************************************************************************)
(* One order whose certificate comes from an upstream CA: the signer_issue *)
(* job opens an upstream order and queues the relay                        *)
(* (crates/signer/src/relay/mod.rs, crates/protocol/src/acme/issue.rs),    *)
(* and the relay job drives it to a certificate and settles the local      *)
(* order (relay/flow.rs), answering http-01 challenges from a table of     *)
(* tokens with a deadline (relay/http01.rs, crates/store/src/              *)
(* http01_token.rs).  The mapping row (crates/store/src/upstream_order.rs) *)
(* says which upstream order stands for the local one, and whether a       *)
(* restart has something to resume.                                        *)
(*                                                                         *)
(* The queue is that of JobContract.  The upstream is an environment: it   *)
(* validates what was triggered by fetching the token, signs what was      *)
(* finalized, and may refuse or not answer at all.                         *)
(***************************************************************************)
EXTENDS Integers, FiniteSets

CONSTANTS
    Job,          \* rows of the queue
    Worker,       \* attempts that can run at a time
    NoWorker, NoJob,
    Authz,        \* the authorizations of an upstream order
    NoAuthz,
    MaxUp,        \* bound: upstream orders opened
    MaxAttempts,  \* jobs.max_attempts
    PollTimeout,  \* signer.relay.poll_timeout_secs, the attempt's budget
    Margin,       \* what token_ttl adds to it
    First,        \* the row finalize queued
    Strategies,   \* signer.relay.challenge_strategy, as it may be configured
    Scenarios     \* the sets of mishaps that may come together

Key == {"issue", "relay"}
Upstream == 1..MaxUp

\* crash: a process dies, or a statement or an answer of the upstream fails.
\* untold: it dies between a retirement, or a cancellation, and its abandon.
\* refuse: the upstream gives a reason, or its chain cannot be read.
\* slow: it takes longer than an attempt.   cancel, revive, delete: the operator.
\* reload: the profile is unmounted for a while.   late: a retraction left to
\* the runtime is overtaken by the retry.   blind: a row is queued without the
\* order's deadline and profile, which could not be read.   overlap: an attempt
\* outlives its lease.
Mishap == {"crash", "untold", "refuse", "slow", "cancel", "revive", "delete",
           "reload", "late", "blind", "overlap"}

ASSUME RelayAssumption ==
    /\ NoWorker \notin Worker /\ NoJob \notin Job /\ NoAuthz \notin Authz
    /\ MaxUp \in Nat \ {0} /\ MaxAttempts \in Nat \ {0}
    /\ PollTimeout \in Nat /\ Margin \in Nat \ {0}
    /\ First \in Job /\ Strategies \subseteq {"http01", "dns01", "bypass"}
    /\ Scenarios \subseteq SUBSET Mishap

VARIABLES
    order,      \* the status of the local order, "none" once deleted
    cert,       \* the upstream order whose certificate its row holds, 0 if none
    announced,  \* how often an issuance was audited and notified
    map,        \* the upstream_orders row
    ups,        \* the status of each upstream order
    proof,      \* what each upstream order has of its authorizations
    token,      \* what is left of each token, or TXT record, published: 0 if
                \* expired, -1 if there is none
    dropping,   \* tokens whose retraction was left to the runtime by a Drop
    strategy,   \* how this profile answers the upstream's challenges
    mishaps,    \* what besides the two jobs happens in this behaviour
    mounted,    \* whether this generation serves the order's profile
    expired,    \* whether the local order's `expires` has passed
    phase, ident, \* the queue, as JobContract has it
    blind,      \* rows with no deadline and no profile in their payload
    tries, holder, \* the attempts of a row, and the one that holds its lease
    att,        \* what each attempt is doing
    owing       \* what an operator's cancellation has still to do

Queue == INSTANCE JobContract

local == <<order, cert, announced, map>>
remote == <<ups, proof>>
served == <<token, dropping>>
world == <<strategy, mishaps, mounted, expired>>
queue == <<phase, ident, blind, tries, holder>>
vars == <<local, remote, served, world, queue, att, owing>>

Idle == [pc |-> "free", job |-> NoJob, outcome |-> "Done", up |-> 0,
         at |-> NoAuthz, left |-> 0]

NoMapping == [status |-> "none", up |-> 0]

-----------------------------------------------------------------------------
(* Statements.                                                              *)

\* Order::mark_invalid.
OrderInvalid == IF order = "processing" THEN "invalid" ELSE order

\* Mutant of MappingCreated: the row is replaced.
MappingReplaced(u) == [status |-> "processing", up |-> u]

\* UpstreamOrder::create, ON CONFLICT DO NOTHING.
MappingCreated(u) == IF map.status = "none" THEN [status |-> "processing", up |-> u] ELSE map

\* UpstreamOrder::mark_valid and mark_invalid: whatever the row says now.
MappingMarked(s) == IF map.status = "none" THEN map ELSE [map EXCEPT !.status = s]

\* Mutant of Published: the first deadline stands.
PublishedOnce(a) == [token EXCEPT ![a] = IF @ >= 0 THEN @ ELSE PollTimeout + Margin]

\* Http01Token::publish with token_ttl: an upsert that renews the deadline.
Published(a) == [token EXCEPT ![a] = PollTimeout + Margin]

\* Http01Token::retract, and lookup's condition.
Retracted(a) == [token EXCEPT ![a] = -1]
Servable(a) == token[a] > 0

\* JobQueue::enqueue of relay_spec, keyed on the order.  OrderContext::read may
\* fail, and then the row has neither deadline nor profile.  An id that an
\* attempt still names is not minted again.
EnqueueRelay ==
    \/ \E j \in Job :
          /\ \A w \in Worker : att[w].job # j
          /\ Queue!Submit(j, "relay")
          /\ \/ blind' = blind \ {j}
             \/ "blind" \in mishaps /\ blind' = blind \cup {j}
          /\ tries' = [tries EXCEPT ![j] = 0]
          /\ holder' = holder
    \/ ~Queue!Unclaimed("relay") /\ UNCHANGED queue

-----------------------------------------------------------------------------
\* What finalize commits: the order claimed, and its signer_issue row.
Init ==
    /\ order = "processing" /\ cert = 0 /\ announced = 0 /\ map = NoMapping
    /\ ups = [u \in Upstream |-> "none"]
    /\ proof = [u \in Upstream |-> [a \in Authz |-> "pending"]]
    /\ token = [a \in Authz |-> -1] /\ dropping = {}
    /\ strategy \in Strategies /\ mishaps \in Scenarios
    /\ mounted = TRUE /\ expired = FALSE
    /\ phase = [j \in Job |-> IF j = First THEN "queued" ELSE "none"]
    /\ ident = [j \in Job |-> "issue"]
    /\ blind = {} /\ tries = [j \in Job |-> 0] /\ holder = [j \in Job |-> NoWorker]
    /\ att = [w \in Worker |-> Idle]
    /\ owing = "nothing"

-----------------------------------------------------------------------------
(* Attempts.                                                                *)

Lesser(m, n) == IF m < n THEN m ELSE n

Work(w) == ident[att[w].job]
Goto(w, pc) == att' = [att EXCEPT ![w] = [@ EXCEPT !.pc = pc]]
Answer(w, o) == att' = [att EXCEPT ![w] = [@ EXCEPT !.pc = "settle", !.outcome = o]]

\* The runner claims a row.  The backoff of a retry, whole seconds, outlasts a
\* DELETE already handed to the runtime, unless that is "late".
Take(w, j) ==
    /\ att[w].pc = "free"
    /\ phase[j] = "queued" /\ holder[j] = NoWorker
    /\ dropping = {} \/ "late" \in mishaps
    /\ tries' = [tries EXCEPT ![j] = Lesser(@ + 1, MaxAttempts)]
    /\ holder' = [holder EXCEPT ![j] = w]
    /\ att' = [att EXCEPT ![w] = [Idle EXCEPT !.pc = "load", !.job = j, !.left = PollTimeout]]
    /\ UNCHANGED <<local, remote, served, world, phase, ident, blind, owing>>

\* A row past its deadline is retired unrun.
Overdue(w) == expired /\ att[w].job \notin blind

\* SignerIssueJob::run up to the backend: the order still `processing`, its
\* authority not withdrawn, its profile mounted.
LoadIssue(w) ==
    /\ att[w].pc = "load" /\ Work(w) = "issue"
    /\ \/ (Overdue(w) \/ order = "none") /\ Answer(w, "Failed")
       \/ ~Overdue(w) /\ order \in {"valid", "invalid"} /\ Answer(w, "Done")
       \/ ~Overdue(w) /\ order = "processing" /\ ~mounted /\ Answer(w, "Retry")
       \/ ~Overdue(w) /\ order = "processing" /\ mounted /\ Goto(w, "find")
       \/ /\ "refuse" \in mishaps
          /\ ~Overdue(w) /\ order = "processing" /\ Goto(w, "refuse")
    /\ UNCHANGED <<local, remote, served, world, queue, owing>>

\* RelaySigner::issue, its first read: an order already relayed is only queued.
FindMapping(w) ==
    /\ att[w].pc = "find"
    /\ Goto(w, IF map.status = "none" THEN "open" ELSE "requeue")
    /\ UNCHANGED <<local, remote, served, world, queue, owing>>

\* newOrder at the upstream: an order, or badCSR.  Any other failure is
\* Internal, a Retry, as Interrupted has it.
OpenOrder(w) ==
    /\ att[w].pc = "open"
    /\ \/ \E u \in Upstream :
             /\ ups[u] = "none" /\ \A v \in 1..(u - 1) : ups[v] # "none"
             /\ ups' = [ups EXCEPT ![u] = "pending"]
             /\ att' = [att EXCEPT ![w] = [@ EXCEPT !.pc = "create", !.up = u]]
       \/ "refuse" \in mishaps /\ Goto(w, "refuse") /\ ups' = ups
    /\ UNCHANGED <<local, proof, served, world, queue, owing>>

CreateMapping(w) ==
    /\ att[w].pc = "create"
    /\ map' = IF order = "none" THEN map ELSE MappingCreated(att[w].up)
    /\ IF order = "none" THEN Answer(w, "Retry") ELSE Goto(w, "requeue")
    /\ UNCHANGED <<order, cert, announced, remote, served, world, queue, owing>>

\* Mutant of Requeue: the answer is Processing though nothing was queued.
RequeueForgets(w) ==
    /\ att[w].pc = "requeue"
    /\ Answer(w, "Done")
    /\ UNCHANGED <<local, remote, served, world, queue, owing>>

\* RelaySigner::requeue, after which signer_issue parks the client on the mapping
\* row and is done: the relay job owns the order.
Requeue(w) ==
    /\ att[w].pc = "requeue"
    /\ EnqueueRelay
    /\ Answer(w, "Done")
    /\ UNCHANGED <<local, remote, served, world, owing>>

\* SignerIssueJob::refuse.
Refuse(w) ==
    /\ att[w].pc = "refuse"
    /\ order' = OrderInvalid
    /\ Answer(w, "Done")
    /\ UNCHANGED <<cert, announced, map, remote, served, world, queue, owing>>

-----------------------------------------------------------------------------
(* RelayJob::run.                                                           *)

\* resolve reads the order only for a payload that names no profile.
Gone(w) == order = "none" /\ att[w].job \in blind

\* resolve and find_by_order_id: a profile that is not mounted is asked again,
\* an order or a mapping that is gone is not.
LoadRelay(w) ==
    /\ att[w].pc = "load" /\ Work(w) = "relay"
    /\ \/ Overdue(w) /\ Answer(w, "Failed")
       \/ ~Overdue(w) /\ ~Gone(w) /\ ~mounted /\ Answer(w, "Retry")
       \/ ~Overdue(w) /\ (Gone(w) \/ (mounted /\ map.status = "none")) /\ Answer(w, "Failed")
       \/ /\ ~Overdue(w) /\ mounted /\ map.status # "none"
          /\ att' = [att EXCEPT ![w] = [@ EXCEPT !.pc = "poll", !.up = map.up]]
    /\ UNCHANGED <<local, remote, served, world, queue, owing>>

\* poll_until, three times: for `pending`, `ready` or `valid`, for `ready` or
\* `valid`, and for `valid`.  It waits while the upstream says anything else.
Wanted == [poll |-> {"pending", "ready", "valid"}, ready |-> {"ready", "valid"},
           valid |-> {"valid"}]
Onwards == [pending |-> "answer", ready |-> "finalize", valid |-> "fetch"]

PollUntil(w) ==
    LET s == ups[att[w].up] IN
    /\ att[w].pc \in {"poll", "ready", "valid"}
    /\ \/ s \in Wanted[att[w].pc] /\ Goto(w, Onwards[s])
       \/ s = "invalid" /\ Answer(w, "Failed")
    /\ UNCHANGED <<local, remote, served, world, queue, owing>>

\* The next authorization the upstream still calls `pending`, triggered or not.
AnswerNext(w) ==
    LET open == {a \in Authz : proof[att[w].up][a] \in {"pending", "triggered"}} IN
    /\ att[w].pc = "answer"
    /\ \/ \E a \in open :
             att' = [att EXCEPT ![w] = [@ EXCEPT !.at = a,
                        !.pc = IF strategy = "bypass" THEN "trigger" ELSE "publish"]]
       \/ open = {} /\ Goto(w, "ready")
    /\ UNCHANGED <<local, remote, served, world, queue, owing>>

\* PublishedToken::publish, or upsert_txt and the wait for its propagation, before
\* the trigger and never after.
Publish(w) ==
    /\ att[w].pc = "publish"
    /\ token' = Published(att[w].at)
    /\ Goto(w, "trigger")
    /\ UNCHANGED <<local, remote, dropping, world, queue, owing>>

Trigger(w) ==
    LET u == att[w].up
        a == att[w].at IN
    /\ att[w].pc = "trigger"
    /\ proof' = [proof EXCEPT ![u][a] = IF @ = "pending" THEN "triggered" ELSE @]
    /\ Goto(w, "await")
    /\ UNCHANGED <<local, ups, served, world, queue, owing>>

\* trigger_and_await returns once the authorization is settled.
AwaitAuthz(w) ==
    LET p == proof[att[w].up][att[w].at] IN
    /\ att[w].pc = "await"
    /\ p \in {"valid", "invalid"}
    /\ att' = [att EXCEPT ![w] = [@ EXCEPT !.pc = "retract",
                                  !.outcome = IF p = "valid" THEN "Done" ELSE "Failed"]]
    /\ UNCHANGED <<local, remote, served, world, queue, owing>>

\* ... or once a request of it fails, with the challenge posed or not, or its
\* own deadline passes.
AwaitFails(w) ==
    /\ att[w].pc \in {"trigger", "await"}
    /\ \E o \in {"Retry", "Failed"} :
          /\ o = "Retry" => "crash" \in mishaps \/ att[w].left = 0
          /\ o = "Failed" => "refuse" \in mishaps
          /\ att' = [att EXCEPT ![w] = [@ EXCEPT !.pc = "retract", !.outcome = o]]
    /\ UNCHANGED <<local, remote, served, world, queue, owing>>

\* PublishedToken::retract or delete_txt, before the outcome is looked at; a
\* failure is only logged.
Retract(w) ==
    /\ att[w].pc = "retract"
    /\ token' = Retracted(att[w].at) \/ ("crash" \in mishaps /\ token' = token)
    /\ IF att[w].outcome = "Done" THEN Goto(w, "answer") ELSE Goto(w, "settle")
    /\ UNCHANGED <<local, remote, dropping, world, queue, owing>>

\* The CSR to finalize.  An order that is not `ready` any more is refused.
PostFinalize(w) ==
    LET u == att[w].up IN
    /\ att[w].pc = "finalize"
    /\ \/ ups[u] = "ready" /\ ups' = [ups EXCEPT ![u] = "processing"] /\ Goto(w, "valid")
       \/ ups[u] # "ready" /\ ups' = ups /\ Answer(w, "Failed")
    /\ UNCHANGED <<local, proof, served, world, queue, owing>>

\* The chain, then mark_valid, whose failure is only logged.
FetchChain(w) ==
    /\ att[w].pc = "fetch"
    /\ \/ map' = MappingMarked("valid")
       \/ "crash" \in mishaps /\ map' = map
    /\ Goto(w, "record")
    /\ UNCHANGED <<order, cert, announced, remote, served, world, queue, owing>>

\* settle: record_issuance, whose UPDATE asks only that the row is there, and
\* announce_issuance.
Record(w) ==
    /\ att[w].pc = "record"
    /\ \/ order = "none" /\ Answer(w, "Failed") /\ UNCHANGED <<order, cert, announced>>
       \/ /\ "refuse" \in mishaps /\ order # "none"
          /\ Answer(w, "Failed") /\ UNCHANGED <<order, cert, announced>>
       \/ /\ order # "none"
          /\ order' = "valid" /\ cert' = att[w].up
          /\ announced' = Lesser(announced + 1, 2)
          /\ Answer(w, "Done")
    /\ UNCHANGED <<map, remote, served, world, queue, owing>>

-----------------------------------------------------------------------------
(* How an attempt ends.                                                     *)

AtUpstream == {"poll", "ready", "valid", "answer", "finalize", "fetch"}

\* classify: nobody decided anything, so the outcome is Retry.
Interrupted(w) ==
    /\ "crash" \in mishaps
    /\ att[w].pc \in AtUpstream \cup {"load", "find", "open", "create", "requeue", "refuse",
                                      "publish", "record"}
    /\ Answer(w, "Retry")
    /\ UNCHANGED <<local, remote, served, world, queue, owing>>

\* classify: the CA stated a reason, so the outcome is Failed.
Refused(w) ==
    /\ "refuse" \in mishaps
    /\ att[w].pc \in AtUpstream
    /\ Answer(w, "Failed")
    /\ UNCHANGED <<local, remote, served, world, queue, owing>>

\* The runner drops the attempt at the end of its budget.  The token it had
\* published is retracted by a task that its Drop leaves to the runtime; a TXT
\* record stays.
Timeout(w) ==
    /\ att[w].pc \notin {"free", "settle", "abandon", "unmap"}
    /\ Work(w) = "relay" /\ att[w].left = 0
    /\ dropping' = IF strategy = "http01" /\ att[w].pc \in {"trigger", "await"}
                   THEN dropping \cup {att[w].at} ELSE dropping
    /\ Answer(w, "Retry")
    /\ UNCHANGED <<local, remote, token, world, queue, owing>>

DroppedRetraction(a) ==
    /\ a \in dropping /\ dropping' = dropping \ {a}
    /\ token' = Retracted(a)
    /\ UNCHANGED <<local, remote, world, queue, att, owing>>

Settle(w) ==
    LET j == att[w].job
        o == att[w].outcome IN
    /\ att[w].pc = "settle"
    /\ phase[j] = "queued" /\ holder[j] = w
    /\ holder' = [holder EXCEPT ![j] = NoWorker]
    /\ \/ /\ o = "Done"
          /\ Queue!Finish(j) /\ phase'[j] = "done"
          /\ att' = [att EXCEPT ![w] = Idle]
       \/ /\ o = "Failed" \/ (o = "Retry" /\ (tries[j] = MaxAttempts \/ Overdue(w)))
          /\ Queue!Finish(j) /\ phase'[j] = "failed"
          /\ Goto(w, "abandon")
       \/ /\ o = "Retry" /\ tries[j] < MaxAttempts /\ ~Overdue(w)
          /\ att' = [att EXCEPT ![w] = Idle]
          /\ UNCHANGED <<phase, ident>>
    /\ UNCHANGED <<local, remote, served, world, blind, tries, owing>>

\* A settlement that affects no row, another attempt having taken it over.
SettleMisses(w) ==
    /\ att[w].pc = "settle"
    /\ phase[att[w].job] # "queued" \/ holder[att[w].job] # w
    /\ att' = [att EXCEPT ![w] = Idle]
    /\ UNCHANGED <<local, remote, served, world, queue, owing>>

\* A lease is reclaimed, or released by a stop, under an attempt that goes on.
LoseLease(j) ==
    /\ "overlap" \in mishaps
    /\ holder[j] # NoWorker
    /\ holder' = [holder EXCEPT ![j] = NoWorker]
    /\ UNCHANGED <<local, remote, served, world, phase, ident, blind, tries, att, owing>>

\* SignerIssueJob::abandon, for an order still `processing`.
AbandonIssue(w) ==
    /\ att[w].pc = "abandon" /\ Work(w) = "issue"
    /\ order' = OrderInvalid
    /\ att' = [att EXCEPT ![w] = Idle]
    /\ UNCHANGED <<cert, announced, map, remote, served, world, queue, owing>>

\* RelayJob::abandon: nothing without a backend or an order, else the order ...
AbandonRelay(w) ==
    /\ att[w].pc = "abandon" /\ Work(w) = "relay"
    /\ \/ /\ ~mounted \/ order = "none"
          /\ att' = [att EXCEPT ![w] = Idle] /\ order' = order
       \/ /\ mounted /\ order # "none"
          /\ Goto(w, "unmap") /\ order' = OrderInvalid
    /\ UNCHANGED <<cert, announced, map, remote, served, world, queue, owing>>

\* ... and the mapping row with it, in a statement of its own.
AbandonMapping(w) ==
    /\ att[w].pc = "unmap"
    /\ map' = MappingMarked("invalid")
    /\ att' = [att EXCEPT ![w] = Idle]
    /\ UNCHANGED <<order, cert, announced, remote, served, world, queue, owing>>

\* The attempt's process dies.
Crash(w) ==
    /\ "crash" \in mishaps
    /\ att[w].pc \notin {"free", "abandon", "unmap"} \/ ("untold" \in mishaps /\ att[w].pc # "free")
    /\ att' = [att EXCEPT ![w] = Idle]
    /\ holder' = [j \in Job |-> IF holder[j] = w THEN NoWorker ELSE holder[j]]
    /\ dropping' = {}
    /\ UNCHANGED <<local, remote, token, world, phase, ident, blind, tries, owing>>

\* RelayJob::recover, when a runner starts: list_processing, and an enqueue.
Recover ==
    /\ map.status = "processing" /\ mounted
    /\ Queue!Unclaimed("relay") /\ EnqueueRelay
    /\ UNCHANGED <<local, remote, served, world, att, owing>>

-----------------------------------------------------------------------------
(* The upstream, external: it decides what it is asked to.                  *)

\* It fetches the token of a challenge posed to it.
UpValidate(u, a) ==
    /\ ups[u] = "pending" /\ proof[u][a] = "triggered"
    /\ \E p \in (IF Servable(a) \/ strategy = "bypass" THEN {"valid"} ELSE {"invalid"}) \cup
                (IF "refuse" \in mishaps THEN {"invalid"} ELSE {}) :
          /\ proof' = [proof EXCEPT ![u][a] = p]
          /\ ups' = [ups EXCEPT ![u] = IF p = "invalid" THEN "invalid"
                        ELSE IF \A b \in Authz : proof'[u][b] = "valid" THEN "ready" ELSE @]
    /\ UNCHANGED <<local, served, world, queue, att, owing>>

UpSign(u) ==
    /\ ups[u] = "processing"
    /\ \E s \in {"valid"} \cup (IF "refuse" \in mishaps THEN {"invalid"} ELSE {}) :
          ups' = [ups EXCEPT ![u] = s]
    /\ UNCHANGED <<local, proof, served, world, queue, att, owing>>

-----------------------------------------------------------------------------
(* The operator, time and the sweeps.                                       *)

\* admin::ops::cancel_job: the row first, then what was in flight.
CancelRow(j) ==
    /\ "cancel" \in mishaps /\ owing = "nothing"
    /\ phase[j] = "queued" => holder[j] = NoWorker
    /\ Queue!Cancel(j)
    /\ owing' = IF phase[j] = "queued" THEN ident[j] ELSE owing
    /\ UNCHANGED <<local, remote, served, world, blind, tries, holder, att>>

CancelAbandons ==
    /\ owing \in Key
    /\ order' = OrderInvalid
    /\ owing' = IF owing = "relay" /\ order # "none" THEN "mapping" ELSE "nothing"
    /\ UNCHANGED <<cert, announced, map, remote, served, world, queue, att>>

CancelUnmaps ==
    /\ owing = "mapping" /\ owing' = "nothing"
    /\ map' = MappingMarked("invalid")
    /\ UNCHANGED <<order, cert, announced, remote, served, world, queue, att>>

CancelLost ==
    /\ "untold" \in mishaps
    /\ owing # "nothing" /\ owing' = "nothing"
    /\ UNCHANGED <<local, remote, served, world, queue, att>>

\* admin::ops::run_job_now on a failed row.
Revive(j) ==
    /\ "revive" \in mishaps
    /\ Queue!Revive(j)
    /\ tries' = [tries EXCEPT ![j] = MaxAttempts - 1]
    /\ UNCHANGED <<local, remote, served, world, blind, holder, att, owing>>

\* Order::delete, and the cascade to the mapping row.
DeleteOrder ==
    /\ "delete" \in mishaps
    /\ order \in {"processing", "invalid"} /\ order' = "none"
    /\ map' = NoMapping
    /\ UNCHANGED <<cert, announced, remote, served, world, queue, att, owing>>

\* A reload leaves the profile out of RelayJob's targets, or puts it back.
Reload ==
    /\ "reload" \in mishaps
    /\ mounted' = ~mounted
    /\ UNCHANGED <<local, remote, served, strategy, mishaps, expired, queue, att, owing>>

Expire ==
    /\ ~expired /\ expired' = TRUE
    /\ UNCHANGED <<local, remote, served, strategy, mishaps, mounted, queue, att, owing>>

\* A unit of time.  Nothing outlives its budget while time passes, and an
\* upstream that is not slow answers within it.
Tick ==
    /\ "slow" \in mishaps
    /\ \A w \in Worker : att[w].pc # "free" => att[w].left > 0
    /\ dropping = {} \/ "late" \in mishaps
    /\ token' = [a \in Authz |-> IF token[a] > 0 /\ strategy = "http01"
                                THEN token[a] - 1 ELSE token[a]]
    /\ att' = [w \in Worker |-> IF att[w].pc = "free" THEN att[w]
                                ELSE [att[w] EXCEPT !.left = @ - 1]]
    /\ UNCHANGED <<local, remote, dropping, world, queue, owing>>

\* Http01Token::cleanup.
CleanupTokens ==
    /\ \E a \in Authz : token[a] = 0
    /\ token' = [a \in Authz |-> IF token[a] = 0 THEN -1 ELSE token[a]]
    /\ UNCHANGED <<local, remote, dropping, world, queue, att, owing>>

\* Job::cleanup.
Forget(j) ==
    /\ Queue!Forget(j)
    /\ UNCHANGED <<local, remote, served, world, blind, tries, holder, att, owing>>

-----------------------------------------------------------------------------
IssueStep(w) ==
    \/ LoadIssue(w) \/ FindMapping(w) \/ OpenOrder(w) \/ CreateMapping(w)
    \/ Requeue(w) \/ Refuse(w)

RelayStep(w) ==
    \/ LoadRelay(w) \/ PollUntil(w) \/ AnswerNext(w) \/ Publish(w) \/ Trigger(w)
    \/ AwaitAuthz(w) \/ AwaitFails(w) \/ Retract(w) \/ PostFinalize(w) \/ FetchChain(w)
    \/ Record(w)

EndStep(w) ==
    \/ Interrupted(w) \/ Refused(w) \/ Timeout(w) \/ Settle(w) \/ SettleMisses(w)
    \/ AbandonIssue(w) \/ AbandonRelay(w) \/ AbandonMapping(w) \/ Crash(w)

WorkerStep(w) ==
    \/ \E j \in Job : Take(w, j)
    \/ IssueStep(w) \/ RelayStep(w) \/ EndStep(w)

UpstreamStep == \E u \in Upstream : UpSign(u) \/ \E a \in Authz : UpValidate(u, a)

OperatorStep ==
    \/ \E j \in Job : CancelRow(j) \/ Revive(j) \/ Forget(j) \/ LoseLease(j)
    \/ \E a \in Authz : DroppedRetraction(a)
    \/ CancelAbandons \/ CancelUnmaps \/ CancelLost \/ DeleteOrder
    \/ Recover \/ Reload \/ Expire \/ Tick \/ CleanupTokens

Next == (\E w \in Worker : WorkerStep(w)) \/ UpstreamStep \/ OperatorStep

Spec == Init /\ [][Next]_vars

-----------------------------------------------------------------------------
(* Properties.                                                              *)

IssuePC == {"find", "open", "create", "requeue", "refuse"}
RelayPC == {"poll", "ready", "valid", "answer", "publish", "trigger", "await", "retract",
            "finalize", "fetch", "record"}
AttemptPC == IssuePC \cup RelayPC \cup {"free", "load", "settle", "abandon", "unmap"}
UpStatus == {"none", "pending", "ready", "processing", "valid", "invalid"}
Attempt == [pc : AttemptPC, job : Job \cup {NoJob}, outcome : {"Done", "Failed", "Retry"},
            up : 0..MaxUp, at : Authz \cup {NoAuthz}, left : 0..PollTimeout]

\* Every variable has its type, and an attempt is at a step of its row's handler:
\* one that relays names an upstream order that was opened, one that answers a
\* challenge names its authorization.
TypeOK ==
    /\ order \in {"processing", "valid", "invalid", "none"}
    /\ cert \in 0..MaxUp /\ announced \in 0..2
    /\ map \in [status : {"none", "processing", "valid", "invalid"}, up : 0..MaxUp]
    /\ ups \in [Upstream -> UpStatus]
    /\ proof \in [Upstream -> [Authz -> {"pending", "triggered", "valid", "invalid"}]]
    /\ token \in [Authz -> -1..(PollTimeout + Margin)] /\ dropping \subseteq Authz
    /\ strategy \in Strategies /\ mishaps \in Scenarios
    /\ mounted \in BOOLEAN /\ expired \in BOOLEAN
    /\ phase \in [Job -> Queue!Phase] /\ ident \in [Job -> Key] /\ blind \subseteq Job
    /\ tries \in [Job -> 0..MaxAttempts] /\ holder \in [Job -> Worker \cup {NoWorker}]
    /\ att \in [Worker -> Attempt] /\ owing \in {"nothing", "issue", "relay", "mapping"}
    /\ \A w \in Worker :
          /\ att[w].pc = "free" <=> att[w].job = NoJob
          /\ att[w].pc \in IssuePC => Work(w) = "issue"
          /\ att[w].pc \in RelayPC => Work(w) = "relay" /\ att[w].up \in Upstream
          /\ att[w].pc \in {"publish", "trigger", "await", "retract"} => att[w].at \in Authz

\* However often the issuance is redelivered, and though two attempts of it open
\* an upstream order each, the certificate an order holds is that of the one
\* upstream order its mapping row names.
CertificateIsMapped == order = "valid" => map.status # "none" /\ cert = map.up

\* While leases hold, whatever an attempt waits for the upstream to validate is
\* still served when the upstream comes to fetch it, at the end of the attempt's
\* budget too and after any earlier attempt's token.
AwaitedIsServed ==
    mishaps \cap {"overlap", "late"} = {} =>
        \A w \in Worker :
            (att[w].pc = "await" /\ proof[att[w].up][att[w].at] = "triggered"
                /\ strategy # "bypass") => Servable(att[w].at)

\* What may still settle the order: a live row of either kind, a retirement being
\* told to its handler, an operator about to abandon it.
Coming == \/ \E j \in Job : phase[j] = "queued"
          \/ \E w \in Worker : att[w].pc = "abandon"
          \/ owing \in Key

\* Between the two jobs the order is never dropped: one of them is live, or about
\* to be told, for as long as the order is `processing`.  A process that dies
\* before its abandon, and a profile unmounted when it comes, are excepted.
NeverBetween == order = "processing" => Coming \/ mishaps \cap {"untold", "reload"} # {}

=============================================================================
