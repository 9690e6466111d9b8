# A verification project for acme-proxy

acme-proxy is an ACME (RFC 8555) server that issues through a backend: its own
CA, an upstream ACME server, or a script. Several processes (roles, and several
instances of each) share one SQLite or PostgreSQL database, and every slow or
privileged piece of work is a row in a durable queue. What can go wrong is
therefore rarely inside one function: it is between two statements of one
request, between two workers, or between a crash and the restart after it. This
directory models those parts in TLA+, checks them with TLC on small instances,
and proves the most important results for instances of any size with TLAPS.

Paths below are relative to the repository.

## Inventory

| Component | State it keeps | Operations | Meets | What makes it correct |
|---|---|---|---|---|
| Job queue (`crates/store/src/job.rs`, `crates/jobs/src/jobs/mod.rs`) | `jobs` rows: kind, key, status, `run_at`, attempts, owner, lease, deadline | enqueue, claim, extend, done, reschedule, retry, abandon, reclaim, release, advance, revive, cancel, cleanup | every component that queues work | one live row per key; settled only under its lease; every row settles |
| Runner (`crates/jobs/src/jobs/runner.rs`) | permits, running attempts, registry | poll, recover, reclaim, drain, run, retire, stop, reload | queue, handlers | attempts of one job do not overlap; permits are conserved; a handler is told what happened |
| Orders, authorizations, challenges (`crates/store/src/order.rs`, `authz.rs`, `crates/protocol/src/acme/order.rs`) | one row each with a status | newOrder, trigger, verdict, deactivate, finalize, delete | validation and issuance jobs, operator | RFC 8555 status changes only; readiness follows the authorizations; verdicts are final |
| Challenge validation (`validate.rs`) | the challenge's claim | probe, commit verdict, abandon, recover | network, queue | one verdict per challenge, by whichever attempt is first |
| Issuance (`issue.rs`, `crates/signer/src/issuance.rs`) | the order's claim, the certificate | load, re-check, sign, record, abandon | signer backend, queue, audit, notifications | a valid order has its certificate and keeps it; a claim is settled |
| Relay signer (`crates/signer/src/relay`, `crates/store/src/upstream_order.rs`, `http01_token.rs`) | `upstream_orders` row, published HTTP-01 tokens | issue, requeue, answer, finalize, fetch, settle, abandon, recover | upstream server, order rows, operator cancel, reload | the certificate is the mapped upstream order's; what the upstream fetches is served; no order is dropped between the two jobs |
| CRL and ledger (`crates/signer/src/local_ca/crl.rs`, `sweep.rs`, `crates/store/src/crl.rs`, `revocation.rs`) | the CRL row with its number, the revocations ledger | initialise, revoke, regenerate, refresh, prune, export | revokeCert, sweeps, second worker | numbers grow; what was acknowledged is listed; nothing is lost by a concurrent regeneration |
| Revocation requests (`crates/protocol/src/acme/revoke.rs`) | order's revocation stamp | revoke, queue, await | ledger, queue | acknowledged means recorded |
| Nonces (`crates/store/src/nonce.rs`) | unexpired nonces | mint, verify, sweep | every signed request | consumed at most once |
| Accounts, EAB, key change (`account.rs`, `eab.rs`) | key, status, binding | register, roll over, deactivate, delete, revoke a credential | every signed request, operator | one account per key; a deactivation stands; a certificate keeps its account |
| Web admin users, sessions, MFA, throttling (`crates/admin`, `crates/store/src/admin_*.rs`) | operators, sessions, TOTP steps, recovery codes, login buckets | sign in, prove, enrol, confirm, change, revoke | operators | a step, code or half session is used once; a change ends the sessions before it; the login budget holds |
| Notifications, expiry digest (`crates/jobs/src/notify`) | queue rows, one per delivery and one per profile's digest | dispatch, deliver, reconcile, reschedule | queue, generations | a delivery meets a map that can know its backend; the digest goes on across reloads |
| Policy filters, IPAM (`crates/policy`) | rules; answers memoised for one evaluation | build, ask, decide | every request, newOrder, finalize | an answer stands whatever the unknown would have been |
| Server: supervisor, reload, sockets (`crates/server`, `crates/net/src/listener.rs`) | generation, watch cells, listeners, the reload channel | trigger, load, bind, build, publish, adopt, accept | all | a reload swaps everything or nothing; no signal is lost |
| Configuration, JWS, validators, certificate building, CLI, templates | none shared | parse, verify, render | all | out of a model checker's reach (see the end) |

The hard behaviours: two runners over one table; a lease that lapses under a
running attempt; a graceful stop that gives up leases while attempts go on; a
crash between any two statements (a retirement and the call that tells the
subject, a signature and the row that records it); a request that reads, waits
and then writes; two authorizations decided at once; an operator who cancels,
revives or deletes in the middle of all this; a permit pool resized under load;
a token that expires while the upstream has still to fetch it; a replayed
request, or one whose future is dropped half way; a second reload signalled
during the first, and readers of its cells between two sends.
`PROJECT.json` lists them under "hazards", each at its line.

## Modules

| Module | Stands for |
|---|---|
| `JobContract` | what the queue promises its users: a job is queued, then done, failed or cancelled, once, with one live job per key |
| `JobQueue` | the table and the runners over it, statement by statement |
| `JobQueueProofs` | theorems about `JobQueue`: leases and overlap; permits, tellings, and that it implements `JobContract` |
| `AcmeOrder` | the RFC 8555 order and authorization state machine as a client sees it |
| `OrderLifecycle` | requests, guarded updates and both kinds of queued work on one order, over the queue of `JobContract` |
| `OrderProofs` | theorems about `OrderLifecycle`, and that it implements `AcmeOrder` |
| `CrlStore` | one local CA's ledger and stored CRL, the processes that sign over them and both doors a revocation enters by |
| `CrlProofs` | theorems about `CrlStore` |
| `RelayFlow` | the two jobs of an order relayed to an upstream CA, its mapping row, its tokens, and the upstream as environment, over the queue of `JobContract` |
| `RelayProofs` | theorems about `RelayFlow` |
| `ClientAccess` | nonces, accounts, keys, bindings and the operator's commands on them |
| `ClientProofs` | theorems about `ClientAccess` |
| `AdminAccess` | the web admin's limiter, operators, factors and sessions |
| `AdminProofs` | theorems about `AdminAccess` |
| `FilterExpr` | the condition language: the parser from texts to trees, and what a text means |
| `FilterPolicy` | what `build` accepts and the evaluation of one stage, with the meaning of a policy it is compared with |
| `FilterProofs` | theorems about `FilterPolicy` |
| `Reload` | one process's generations: signal, supervisor, cells, sockets, requests, the digest and a delivery |
| `ReloadProofs` | theorems about `Reload` |
| `MCJobQueue`, `MCOrderLifecycle`, `MCCrlStore`, `MCReload` | constant values and symmetry for TLC |
| `MCAccess`, `MCRelayFlow` | parts that share no state, in one run: clients, operators and policies; a relayed order, a reload, and the digest's rows |

`OrderLifecycle` and `RelayFlow` are composed with the queue through its
contract: they use the actions of `JobContract` for the rows, and their attempts
behave as `JobQueue` shows attempts behave (one at a time while leases hold, side
by side once one is lost). `JobQueueLease` checks that `JobQueue` implements that
contract.

### JobQueue

`rows` is the `jobs` table; times (`run_at`, `deadline`, `lease`) are distances
from now, which `Tick` shortens. A runner is a process: `loop` is where
`run_loop` is, `view` the registry it read, `cap` and `free` its semaphore,
`goal` the size a reload asked for. `att[r][s]` is the task in slot `s` of
runner `r`: it holds a row just claimed, extends its lease before the handler
starts (`Extend`, which may miss), runs (`Answer`, or the timeout that aborts
it), settles (`Settle`, which hits no row when the lease was lost) and, after a
retirement, calls `JobHandler::abandon`. Every statement may fail, and a runner
may crash, at any point. `debt` counts retirements whose handler was not told.
`Timely` says whether an attempt is really cut off inside its budget; with it
`FALSE` a task may be descheduled for longer than its lease.

### OrderLifecycle

`order`, `authz`, `chall`, `account` are the status columns, `cert` the chain
the order holds, `signed` how many the backend has signed and `announced` those
audited as issued. `req` holds requests between their read and their write
(trigger, finalize, deactivation), which is where a stale read lives. A member
of it stands for one or more requests that read alike: with the mishap `resend`
it stays when one of them has written, so that two finalizes of one ready order
both come to their transaction. `att[w]`
is an attempt with its step in `ChallengeValidateJob::run` or
`SignerIssueJob::run`; a probe or a signature happens outside any transaction,
so everything may happen between loading and recording, and the announcement is
a step after the record, with room for a crash in between. A settlement asks for
the runner, as the code's does: while leases hold that is the attempt that holds
the row, and with `overlap` any attempt may pass for the holder (`Holds`).
`Recover` reads the subjects and enqueues in one step: the row it inserts for a
subject settled in between is done at its next `Load`, as one that was inserted
before would be. `owing` is an operator's
cancel between the job row and the order. `Mishaps` selects what besides the
requests happens in a run: lost leases, crashes, a crash before abandon, cancel,
revive, delete, resent requests.

### CrlStore

`rows` and `at` are the `revocations` rows of one issuer, `crl` its `crls` row,
`revoked` the stamps on the orders, `file` what `crl_path` holds. An instance is
a process (or a generation of one) with the key; `ready` and `mutex` are its
`OnceCell` and its lock. A task is a call running in an instance, and its `pc`
names the await it stands at: the daily `refresh` (bounds, count, check), the
regenerate job's `republish`, or `LocalCa::revoke`, all of which end in
`regenerate` (lock, prune, snapshot, sign, store, export). The ledger route is
`Ask`, `Record`, `AskForCrl`, with anything lost in between by `Dropped`. A CRL
is the set of serials it lists, its number and the moment it was built;
`thisUpdate` and `nextUpdate` are computed from that moment as `sign` does. The
regenerate row appears as `regen`, with the refusal of a second live row that
`JobQueue` models in full. `sweep` says whether the row of the daily sweep is
live: a restart or a revival puts it there (`SeedSweep`), and it is lost when its
attempts are used up by timeouts or panics, or to an operator (`LoseSweep`). The
refresh that a start or a reload makes needs no row (`StoreFirstCrls`). A refresh
takes the clock first and reads the stored CRL afterwards, as two steps. Any
statement may fail (`Fail`), any process die
(`Crash`), and a lease lapse under a running task (`Lapse`).

### RelayFlow

`map` is the `upstream_orders` row, `ups` and `proof` the orders and
authorizations of the upstream, `token` what is left of each published token.
`att[w]` is an attempt of either job, its `pc` the await it stands at: `find`,
`open`, `create`, `requeue` for `RelaySigner::issue`; `poll`, `answer`,
`publish`, `trigger`, `await`, `retract`, `finalize`, `fetch`, `record` for
`relay` and `settle`. `left` is what the attempt has of `poll_timeout`; time
shortens it together with the tokens, which is how `AwaitedIsServed` can ask
whether `token_ttl` covers a whole attempt. `dropping` is a retraction that the
`Drop` of an aborted attempt left to the runtime. A behaviour is given one of
`Scenarios`, a set of mishaps that come together.

### ClientAccess

A request walks through `verify_jws` and its handler, holding the account as it
was read (`read`) while the nonce is spent and others write. `Insert`,
`UpdatePubkey`, `DeleteAccount` and the others are single statements with the
conditions the SQL has. `held` follows what an account has at the CA as far as
deletion asks for it.

### AdminAccess

A request is a task whose every statement is an action. `bucket` is the
address's `admin_login_buckets` row, `owed` the releases that dropped attempts
still owe, `lent` what attempts of an earlier window gave back to this one.
`proved` counts sign-ins per code, and not the confirmation of an enrolment, which
checks a code without opening a session by it; `undone` are operators a change of whom was
cut short, or whose new factor was overwritten by a second enrolment under the
same half session. `MCAccess` defines the scenes: `Throttled` (many attempts, drops,
deaths), `Passwords` (rehash, changes, disable, deletion), `Factors` (codes,
reset, removal, new recovery codes), `SettingUp` and `FirstCodes` (a required
factor being enrolled by racing requests), `Moving` (a factor moved to another
device), `Roles` (two admins who may be demoted).

### FilterExpr and FilterPolicy

`FilterExpr` has the recursive-descent parser of `expr.rs`, from a sequence of
tokens to a tree (`Name`, `Negation`, `Joined`), and `Means`, what a text says
when every check knows: it splits the text at its outermost operator,
independently of the parser.

`FilterPolicy` is given the texts rules may be written with (`Source`), what
each parses to (`Parsed`) and the trees (`Condition`, each made of trees that
nest less deep by `Depth`). `MCAccess` gives these as a table, and
`ParsedAsMeant` compares the table with the parser and with `Means`.
`FilterPolicy` models what `build` accepts, and `evaluate` as a loop over the
rules of the stage: `at` is the rule under evaluation, `memo` what the checks
asked so far have answered, `pending` the effects of the rules that stayed
undecided. `Eval` yields a verdict or the check to ask next, and `AskCheck` is
the await in which it is asked. `Holds` and `Meaning` say what a condition and a
policy mean when every check knows, and `Worlds` are the answers that agree with
what was said.

### Reload

`file` is the configuration file and how often it was edited. `sup` is
`supervise_reloads`: `Load` is `prepare_reload` up to the sockets it binds (the
point where it refuses), `BuildGeneration` the rest, which may fail, and
`PublishCell` one send of `publish_reload`. The sends have no await between them,
but the runtime has several threads, so everything that reads a cell may do so in
between. `orders` are the commands in each listener's channel. `call` is a
request with the router it was routed by; `note` one delivery, followed from the
map that queued it to the map that delivers it or gives it up. `digest` has the
row and the attempt of each profile; `view` and `recovered` are those of
`run_loop`. A row may be lost, in the ways `Losses` names: an insert that the
database refuses is only logged (`refuse`), attempts that time out or panic use
the row's up (`exhaust`), an operator cancels it (`cancel`). `Lost` remembers
that it was, until a revival, a restart or another profile's pass writes it
again.

## Runs

`tlc -workers 2 -config <run>.cfg <module>`, inside this directory.

| Run | Checks | Shows |
|---|---|---|
| `JobQueueLease` | `ToldOnlyIfRetired`, `ImplementsContract` | with two runners, attempts that may outlive their leases and two rows competing for one key, late settlements and missed extensions are harmless, and enqueue, recover, revive and cancel never make two live rows for one key |
| `JobQueueTimely` | `NoOverlap`, `SettledByClaimant`, `PermitConservation`, `DrainedIsIdle` | attempts cut off in time never overlap, across reclaims, retries and restarts, and a row is settled by the attempt it was last claimed for, though the statement compares only the process; resizing under load conserves permits; "drained" means idle |
| `JobQueueLive` | `EveryJobSettles` | no row is stranded while some runner stays up |
| `OrderIssue` | `ValidHasCertificate`, `QueuedIsClaimed`, `VerdictsStand`, `AcmeUnlessReissued` | the core of the order under every mishap but resent requests at once; what lost leases and revivals let a client see beyond RFC 8555 is a failed order issued after all, and nothing more |
| `OrderAcme` | `AnnouncedIsHeld`, `ReadyIsDerived`, `ImplementsAcme`, `CertificateKept` | two authorizations and three challenges decided at once, with crashes, deletion and requests sent twice but while leases hold: readiness follows from all the authorizations, the order is promoted exactly once and claimed by one of two finalizes, the first of two sibling verdicts stands, a recorded certificate is kept and is the one announced, and a client sees RFC 8555 and nothing else |
| `OrderLive` | `ClaimsSettle` | every claim, of a challenge or of the order, is settled in the end |
| `OrderWithdrawn` | `SignedWhileAuthorized`, violated | finding 1 |
| `CrlRaces` | `Imported`, `RevokedIsRecorded`, `AckedIsListed`, `EntryKept`, `NumbersGrow`, `ExportMonotone` | two processes with the key and a request without it race through import, recording, pruning, signing, storing and exporting, and lose nothing |
| `CrlLive` | `RecordedIsListed` | once faults stop, and unless they left the sweep without its row, every recorded revocation reaches a CRL or lapses, though the request for one was refused, lost or used up |
| `Access` | `NonceSpentOnce`, `OneAccountPerKey`, `CertificateHasAccount`, `DeactivationStands`; `LimiterHolds`, `SpentOnce`, `RevocationHolds`; `ParsedAsMeant`, `AnswerStands`, `UnknownMatters` | the three doors to the server: clients, operators, policies |
| `RelayReload` | `CertificateIsMapped`, `AwaitedIsServed`, `NeverBetween`; `AllOrNothing`, `SignalTaken`, `LostIsOutdated`, `DigestKept` | a relayed order through everything that may happen to its two jobs; reloads under readers that see them half published; the digest's rows across reloads, restarts and the ways one is lost |
| `DigestStranded` | `DigestKept`, violated | finding 2 |

The parts of `Access`, and of `RelayReload`, share no state: a behaviour is of
one part while the others rest, so one run asks several questions.

### Findings

1. `OrderWithdrawn` (`crates/protocol/src/acme/order.rs:491`). A deactivation
   that read the order before finalize claimed it can commit after the job's
   re-check and before the signature; the comment says the re-check covers this.
2. `DigestStranded` (`crates/jobs/src/notify/expiry.rs:477`). A digest row whose
   profile the handler does not know is retired before it has written the rows
   of the profiles it does know, and a kind is recovered once per process. A
   reload that moves the digest from its only profile to another one therefore
   ends it until the next restart. Running `reconcile` before the early return
   would keep it.

### Remarks

Met while modelling, each visible in a module or excluded by a property that
says so; none is a run of its own.

Queue and orders:

- `claim_next` and `reclaim_expired` never compare attempts with `max_attempts`:
  a job whose attempts all die with their process is claimed without end
  (`crates/store/src/job.rs:202-217`).
- A settlement compares the runner's id (`crates/store/src/job.rs:347`): when an
  attempt outlives its lease and its own process claims the row again, the stale
  attempt may settle it under the new one. `OrderLifecycle` allows it, and its
  properties hold all the same; while attempts end in time it cannot happen
  (`SettledByClaimant`).
- A crash between recording a certificate and announcing it leaves an issued
  certificate without its audit row and notification: the next attempt finds the
  order `valid` and is done.
- The row is retired before `JobHandler::abandon` is called: a crash in between
  leaves an order `processing` with nothing coming for it.
- Two attempts of one issuance that overlap both sign, and the second record
  replaces the first: `Order::finalize` has no condition on the status.
- `invalid` is not terminal when an operator revives the job before its pending
  abandon. A certificate whose order was deleted meanwhile is announced as
  issued. A cancelled `challenge_validate` leaves its challenge `processing`
  until the next start.
- An entry of a certificate that had already expired when it was revoked may be
  pruned without having been listed, when its request was stamped before the
  stored CRL was built and recorded after; `crates/store/src/revocation.rs`
  accepts this within one second.
- A `recover` whose enqueue fails is logged and not repeated, so a sweep is
  without its row for the life of the process; a periodic handler that runs into
  its timeout uses up the row's attempts; and an operator may cancel it.
  `CrlStore` and `Reload` have all of these, and `RecordedIsListed` and
  `DigestKept` except them.

Relay:

- `trigger_and_await` "Returns only once the upstream's authorization is
  terminal", except when a read fails or its deadline passes
  (`crates/signer/src/relay/flow.rs:831`, `:845`).
- `mark_valid` precedes the order's record; when it fails, `recover` relays again
  and the issuance is announced twice.
- The retraction a dropped attempt leaves to the runtime names the token, not
  the attempt: if it comes late it takes the retry's row.
- Two overlapping attempts both finalize upstream; the second is answered
  `orderNotReady`, which is taken for a refusal and invalidates the order.
- The abandon of a profile no longer mounted leaves its order `processing`.

Clients:

- Two rollovers signed by the same old key both succeed.
- A registration verified before `Eab::delete` inserts after it, and escapes
  `--deactivate-accounts`.
- "The re-read cannot come back empty" (`crates/store/src/account.rs`) does not
  hold when the row is deleted or re-keyed between the two statements.

Operators:

- A sign-in that read the row before a change inserts its session after the
  revocation; a rehash can write the old password back; a change cut short
  between its write and its revocation leaves the sessions. `RevocationHolds`
  excepts these, and the next one.
- A half session may enrol twice: the stale enrolment writes a second pending
  secret after the first was confirmed, its confirmation replaces the factor just
  confirmed (`crates/store/src/admin_user.rs:665` asks only that something is
  pending), and a code of the replaced factor that was read before still promotes
  the session. This takes four requests, more than the run has; it was met in
  the proof of `RevocationHolds`.
- Two concurrent demotions leave no admin. An attempt that began in an earlier
  window gives its slot back to the present one. `confirm_totp` moves whatever
  secret is pending when it writes. The step of the code that confirmed it is
  claimed in a second statement, so a sign-in in between can use that code once.

Reload:

- "No task can observe a generation half-applied"
  (`crates/server/src/generation.rs:594-600`) holds for tasks of the same thread
  only; the order of the sends is what carries the guarantee.
- The same comment says an unknown backend id "is a `Failed`, not a `Retry`";
  `NotifyJob::run` retries it.
- `trigger` answers `false` also when a reload already waits, which
  `watch_for_hangup` logs as `server_reload_supervisor_gone`.
- A request still running under the old generation may queue a delivery to a
  backend the new one has removed; its attempts are then used up.

### Bounds

- Two runners, one or two jobs, one or two slots: overlap, a reclaimed row and
  an identity conflict all need two of something and none needs three.
- Leases, budgets and slack are 1 or 2 units, so that expiry before, at and
  after an attempt's end all occur; `Backoff` reaches its cap. `JobQueueLive`
  allows one attempt, since a second is beyond the time a run may take with
  liveness to check; retries occur in `JobQueueTimely`.
- `Job = {j1, j2}` in the order runs: one row per challenge and one for the
  order, or a second row for the same key after the first has settled.
- One order with one authorization carries every mishap but resent requests
  (`OrderIssue`); the run with two authorizations, one of them with two
  challenges, allows crashes, deletion and resent requests only, because its
  question is the interleaving of verdicts and requests. Its limit
  of two validations in flight is reached by three challenges.
- `CrlRaces` has two instances with one task each, so that every lock of one
  process is free and only the database and the export lock order the steps: the
  mutex and the `OnceCell` could only remove interleavings. One certificate
  expires and is asked to be revoked, one comes from the sidecar; both doors and
  three moments of time are enough for a CRL built before, at and after the
  expiry. `MaxTries` and `MaxPasses` are 2, so that losing the swap once and for
  the last time, and a further pass, all occur. One revocation is asked
  for (`MaxAsks`), by either door; a second one, or a retry through the other
  door, is covered by the proofs only. `CrlLive` has one instance and
  two revocations, the second of which is recorded while the first is signed. The
  sweep's row is followed there (`Sweeping`); in `CrlRaces` a refresh starts at any
  time, which is the weaker assumption.
- `Access`: two requests, two nonces, two accounts and keys and one credential,
  so that replays, registrations and rollovers meet on one key; two tasks and
  two or three session tokens, a limit of two attempts, two windows, two codes'
  steps; policies of up to two rules over four checks (with the default, three
  effects in a row), conditions that need precedence and some that do not parse.
- `RelayReload`: two workers, two upstream orders (one per overlapping attempt),
  one authorization, a budget of one unit and a margin of one. The `dns01` and
  `bypass` strategies are looked at where time passes, since they differ from
  `http01` in what expires and in what is published. Three versions of the file,
  from five configurations: there and back, and an edit between two signals; two
  profiles with a target each, two listeners. Rows of the digest are lost in a
  part of its own, which follows no delivery and refuses no configuration.
- `MaxCerts` and `MaxRequests` cap signatures and half-done requests. Two of
  each suffice for a replaced certificate and for two stale requests.
- Symmetry is used for safety runs only.

The interesting cases do happen: each property has a mutant, a plausible bug in
one mapped definition kept beside it, that makes its run fail.

### Fairness

`JobQueueLive`, `OrderLive` and `CrlLive` are the only runs that assume any. A
runner that is up keeps going round `run_loop` (it is a spawned task woken by a
poll interval), a running task goes on (tokio schedules it, and a timeout aborts
what hangs), time passes. Strong fairness on reclaim, claim, extend and settle
says that a statement is not refused for ever: a database error is logged and the
step tried again on the next pass. `EveryJobSettles` is conditional on some
runner staying up, which no code can promise. Crashes stay possible in both; it
is assumed that a process does not die at the same step of the same handler for
ever. `CrlLive` needs weak fairness only: the daily sweep comes round
as long as its row is live (`StartRefresh`), and a task that can go on does, or
gives up when it has lost its last try. Nothing is assumed to put a lost row back.
In return its property is conditional on faults coming to an end and on the row
being there from some moment on.

## Proofs

`tlapm <module>.tla`, inside this directory. Eight modules hold theorems. Every
invariant and action property of the passing runs is proved for all values of the
constants, except those listed under "Only model-checked" below. The assumptions
are the `ASSUME`s of the models: null values are not elements, bounds are
naturals, `Of` maps challenges to authorizations and `Home` tasks to instances, a
configuration gives each listener an address, there is an operator, a password,
and finitely many admin requests in flight, and a condition is a check or made of
conditions that nest less deep (a parsed tree is finite). Four theorems have a hypothesis
besides, named below with the reason.

### Queue

- `TypeCorrect`, `LeasesDisciplined`, `AttemptsDoNotOverlap`.
  `NoOverlap` is not inductive: a state with one attempt and a row that has
  already been reclaimed satisfies it and breaks it with the next claim.
  `LeaseInv` adds why that cannot be: an attempt that may still write holds its
  row (`AttemptHolds`), what is left of its budget is no more than what is left of
  its lease, and a runner has one slot per row. `LeaseSafety` proves it
  inductive, one step per action.
- `PermitsAreConserved` and `DrainedMeansIdle` are counts
  over slots. `PermitInv` says that the free permits and the busy slots make up
  the pool, and that a runner which is down has none busy; each action is one of
  four effects on the count (takes a slot, frees one, resizes, leaves it).
  `TellingFollowsRetirement` counts attempts at `JobHandler::abandon` in the same
  way (`TellInv`). `ClaimantSettles` follows from `LeaseInv` at
  the step itself: the attempt that settles holds its row, so does any other that
  has not given its lease up, and a runner has one slot per row.
- `QueueKeepsContract` is the refinement. Lemma `Tables` sorts the steps of
  the queue by what they do to the table (nothing the contract sees, a
  submission, a settlement by the holder, an operator's command), and each kind
  is mapped to a step of `JobContract`. One live row per key, which `enqueue` and
  `revive` rely on the unique index for, comes out as part of it.

### Orders

- `OrderProofs` first sorts the steps by what they do to the status columns
  (lemma `Moves`: claim, withdraw, decide, finalize, refuse, issue, vanish, or
  nothing). `Readiness`, `VerdictsAreFinal` and `QueuedWorkIsClaimed` are case
  analyses over those moves, under every mishap. `CertificateRecorded` needs the
  strengthening `CertInv`: an attempt about to record holds a certificate.
- `AnnouncedIsRevocable` and `CertificateIsKept` assume `LeasesHold` (no attempt
  outlives its lease): two overlapping attempts do sign twice, as a remark above
  says, and `AttemptsDoNotOverlap` gives the condition under which they do not.
  `IssueInv` says that a working attempt holds the one queued row of its key, so
  that no attempt works on an order already valid, and that what an attempt is
  about to announce is what the row holds (`AnnouncesHeld`).
- `OrderFollowsAcme`, the refinement of `AcmeOrder`, assumes `NoRevival`, that
  is `LeasesHold` and no operator revives the job: a revival makes `invalid`
  leave its terminal state, which RFC 8555 does not allow.
- `OrderDepartsByReissue` says without any hypothesis that this is all: under
  lost leases, revivals, cancels and deletions every step is one of `AcmeOrder`, a
  stutter, or `Reissue`, an attempt that records its certificate on an order
  failed meanwhile. `ClaimInv` is what it needs: an order that is being worked on
  has been finalized (`Begun`), and a `processing` one has no pending authorization
  (`AllDecided`). `OrderFollowsAcme` adds to it, in `AcmeInv`, that an order being
  signed is still `processing` and that one whose row was retired and not yet told
  is past `ready` with no live row, which exclude `Reissue`.

### CRL

- `CrlProofs` proves every property `CrlRaces` checks. None is inductive alone:
  a task acts on what it read before a signature or a lock. `CrlInv` says how
  stale that may be: a task's number is at most the stored one, and while they
  are equal what its snapshot lacks of the stored list has lapsed; a task about
  to prune carries a bound no later than the stored `thisUpdate`; what is listed
  and no longer recorded has lapsed; an initialised instance has a stored CRL.
  The proof first shows that every step `Advances` (clock, number and `built`
  never go back, nothing recorded or listed disappears before it lapses), then
  that an advance takes nothing from a task that stands still (`Untouched`), then
  one step per action for the task that moves (`StepHolds`). The export has its
  own small invariant, `ExportInv`: whoever writes the file holds the lock and
  has read a CRL no older than the file.

### Relay

- `CertificateComesMapped` rests on `RelaysMapped`: while the order exists,
  every attempt past the look-up names the upstream order of the mapping row.
- `OrderIsNeverBetween` cannot be shown from "a live row exists": that row may be
  one whose attempt has already answered `Done`. `FlowInv` asks for a live row
  that is not doomed in this way, or someone who has yet to tell the order, and
  that a relay attempt which answered `Done` has left the order settled.
- `AwaitedTokenIsServed` rests on `ServeInv`: one queued row per key, and in a
  scenario with neither overlap nor late retractions (`Calm`, the property's own
  condition) an attempt holds its row, no retraction is outstanding while a
  relay runs, and a published token lasts at least the attempt's budget and the
  margin.

### Clients

- `NoncesPayOnce`: a nonce that has paid has no row (`Unspent`).
- `KeysAreApart`: `OneAccountPerKey` with every status that has a row
  (`Unique`); the insert and the rollover carry the unique index's condition.
- `DeactivationIsFinal` and `CertificatesAreOwned` use the types, which include
  what a request knows at each of its statements.

### Operators

- `AttemptsAreBounded` counts requests that hold a slot of the present window.
  `Covered` says that those and the releases still owed are no more than the
  bucket's `in_flight` and what earlier windows lent; nothing is owed to a
  window yet to come (`NoneAhead`). The request set is assumed finite, because
  the count is of a set of requests.
- `CodesAreSpentOnce`: a secret is one operator's, or fresh, or nobody's
  (`SecretsApart`), and a step that has proved the current secret is no later
  than its `totp_last_step` (`ProvedLast`). For half sessions, a session made
  from another one finds it gone (`FromGone`), so two heirs of one cannot be.
- `ChangesRevoke` is the longest proof. A session the property speaks of is good
  for what stands, or some change that has been made will yet end it (`Killer`).
  This is not inductive until it says the same of what a request has read on its
  way to a promotion (`CodeReads`, `ConfirmMade`), and that a request is of its
  session's owner and knows whether it is a half one (`Linked`, `Halves`). The
  attempt first failed at a confirmation under a half session, and TLC with four
  requests showed why; the model now counts that overwrite in `undone`.

### Policies

`FilterProofs` is about trees of any depth, which takes an induction and a
recursion theorem of its own.

- Induction: that the naturals are well founded gives every set of them a least
  element (`LeastNumber`), hence every set of conditions one of least depth, and
  so `ConditionInduction`: a set that has a condition whenever it has its
  operands has them all. It quantifies over a set, not over a predicate, which is
  what lets the provers use it.
- Recursion: `FoldExists` shows that what follows a condition bottom up exists,
  by gluing the functions for each depth (`PartialExists`, `PartialUnique`).
  `CheckNames`, `NamesOnce`, `Holds` and `Eval` are instances, and the lemmas
  `...Follow` give what they are at each kind of condition.
- `EvalSound`: what `Run::eval` decides, short circuits included, holds or fails
  in every world that agrees with the answers so far. `AnswersStand` follows
  with the loop invariant `Accounted`: each enforced rule that has had its turn
  holds in no such world, or its effect is pending. An answer only rules worlds
  out (`WorldsShrink`), so what is accounted for stays so.
- `EvalOpen` is the converse: what is left undecided holds in one such world and
  fails in another, if no check is named twice, because worlds for operands that
  share no check can be spliced (`Splice`). `UnknownsMatter` needs it for the
  whole policy at once: `Swinging` says that every enforced rule so far can fail,
  and that each pending effect is that of one that can hold as well; `Combine`
  picks a world for each rule separately, and `TwoMeanings` makes two that
  differ in the one rule that changes the answer. Without the condition
  `NamedOnce` the property is false, already for `x or not x`.

### Reload

- `ReloadIsAtomic`: every cell and every socket is of the version due to it,
  the new one once its send is made and the old one until then (`CellsDue`,
  `SocketsDue`), also in the middle of `publish_reload`.
- `SignalsAreTaken`: after a signal, and with none waiting, the supervisor is
  about to load or has judged the file (`SignalInv`).
- `LossIsOutdating`: notifiers are sent first and the router last, so a request
  never runs under a generation the notifiers have yet to reach (`DeliveryInv`).
- `SteadyDigestIsKept` assumes `SteadyDigest`, some profile that asks for the
  digest in every configuration that has one. Without it the property is false:
  finding 2. The run `RelayReload` checks configurations of which this is true.
  The property excepts a row that was itself lost; the proof shows that nothing
  else takes the steady profile's row away, and that a reload is not among the
  ways it is lost.

The type invariants (`TypeCorrect` of each proof module, `FilterTypesHold` for the
policies) are proved, and not also checked by a run.

### Only model-checked

- `EveryJobSettles`, `ClaimsSettle`, `RecordedIsListed`: liveness under fairness
  is out of the prover's reach.
- `ParsedAsMeant`: the parser's operators are `RECURSIVE`, of which the prover
  knows nothing. The theorems about policies start from the tree, whatever text
  it was read from.
- `SignedWhileAuthorized`, and `DigestKept` under the configurations of
  `DigestStranded`: expected to be violated.
- The MC modules put models side by side in one run; that a property of one part
  is one of the whole holds because the parts share no state, and is not a
  theorem.

## Plan

The models and the proofs are complete as far as they are meant to go. What could
be added:

1. `CertificateHasAccount` for the statements of an issuance and a deletion
   under PostgreSQL, where they are not serialised.
2. The parser as recursive functions over positions, so that `ParsedAsMeant`
   becomes a theorem by induction on the tokens left.

## Not modelled

Parsing of configuration, JWS and certificates, cryptography, ASN.1, rendering,
HTTP, DNS and TLS clients, the command line and the migrations have no shared
state whose interleavings could be wrong, or are I/O whose every outcome is
already a nondeterministic choice (a probe's verdict, a backend's answer, a
check's, a failed statement). They, with the tests beside them, are most of the
repository's lines, which is why the mapped lines are a small share of the whole.

External identity (OIDC, LDAP) is a protocol with a provider whose side is not
here; its login state is consumed by one statement, as a nonce is. IPAM backends
appear as checks that may not know. PostgreSQL's statement-level interleaving
inside a transaction is not modelled: each transaction is one step, as SQLite's
single writer makes it. Of `Reload`, processes of a single role, TLS material and
the metrics listener are left out, the last because its cell and socket behave as
the admin listener's do.
