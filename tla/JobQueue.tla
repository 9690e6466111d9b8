------------------------------ MODULE JobQueue ------------------------------
(***************************************************************************)
(* The durable job queue: the `jobs` table (crates/store/src/job.rs), its  *)
(* enqueue side (crates/jobs/src/jobs/mod.rs), and the runners that drain  *)
(* it (crates/jobs/src/jobs/runner.rs), one per worker process.            *)
(*                                                                         *)
(* Each SQL statement is one action: the database decides every race with  *)
(* the statement's WHERE clause.  A runner's loop, and each attempt it has *)
(* spawned, are separate sequences of such statements, so everything that  *)
(* can happen between two of them is interleaved.                          *)
(*                                                                         *)
(* Times are kept relative to the clock: a positive number is that many    *)
(* ticks ahead, and a moment that has come stays at 0, a deadline that has *)
(* passed at -1, how long ago being of no consequence.  `run_at <= now` is *)
(* thus run_at <= 0, `lease_until <= now` is lease <= 0 and                *)
(* `deadline < now` is deadline < 0.                                       *)
(***************************************************************************)
EXTENDS Integers, FiniteSets

CONSTANTS
    Job,          \* row ids; an id is minted again only once nothing names it
    Key,          \* the (kind, dedup_key) identities
    Runner,       \* runner ids, a fresh one for every start of a worker
    Slot,         \* the places of a permit pool
    Periodic,     \* the keys of the sweeps, which `recover` queues
    Outcomes,     \* what the handler of a key can answer
    Budget,       \* JobHandler::lease of a key's handler
    Lease,        \* jobs.lease_seconds
    Slack,        \* LEASE_SLACK
    RetryBase,    \* jobs.retry_base_seconds
    RetryMax,     \* jobs.retry_max_seconds
    Period,       \* the interval a handler reschedules itself by
    Delays,       \* the delays a job may be queued with
    Deadlines,    \* the deadlines a job may be queued with
    MaxAttempts,  \* the values of jobs.max_attempts over the run's reloads
    Targets,      \* the values of jobs.max_concurrent over the run's reloads
    Registries,   \* the sets of keys whose kinds some generation registers
    Timely,       \* whether every attempt ends within its budget and LEASE_SLACK
    NoRunner, NoJob, NoDeadline

Outcome == {"Done", "Reschedule", "Failed", "Retry"}
Status == {"none", "ready", "running", "done", "failed", "cancelled"}

ASSUME ConstantsAssumption ==
    /\ Key # {} /\ Periodic \subseteq Key
    /\ Outcomes \in [Key -> SUBSET Outcome]
    /\ Budget \in [Key -> Nat \ {0}]
    /\ Lease \in Nat \ {0} /\ Slack \in Nat \ {0} /\ Period \in Nat
    /\ Delays \subseteq Nat
    /\ Deadlines \subseteq Int \cup {NoDeadline}
    /\ MaxAttempts \subseteq Nat
    /\ Targets \subseteq Nat \ {0} /\ Targets # {}
    /\ Registries \subseteq SUBSET Key /\ Registries # {}
    /\ Timely \in BOOLEAN
    /\ NoRunner \notin Runner /\ NoJob \notin Job /\ NoDeadline \notin Int

VARIABLES
    rows,       \* the jobs table
    registry,   \* the registry cell, as the last reload published it
    target,     \* the jobs.max_concurrent of the config cell
    loop,       \* where the loop of each runner is
    view,       \* the registry a runner's current pass runs on
    goal,       \* the max_concurrent a runner's current pass runs on
    recovered,  \* the keys a runner has called `recover` for
    cap, free,  \* the capacity a runner's Permits has issued, the permits free
    att,        \* the attempts of a runner, one per permit taken
    debt        \* retirements of a row whose handler has not been told

store == <<rows, debt>>
cells == <<registry, target>>
pool == <<cap, free>>
vars == <<rows, registry, target, loop, view, goal, recovered, cap, free, att, debt>>

-----------------------------------------------------------------------------
(* Rows and attempts.  A row keeps the columns the statements compare.  An  *)
(* attempt carries its job and the attempt number it was claimed with; left *)
(* is the time before the budget its handler was given, and the slack the   *)
(* settlement may take after it, are used up.                               *)

NoRow == [key |-> CHOOSE k \in Key : TRUE, status |-> "none", run_at |-> 0,
          attempts |-> 0, max |-> 0, deadline |-> NoDeadline,
          owner |-> NoRunner, lease |-> 0]

FreeSlot == [pc |-> "free", job |-> NoJob, n |-> 0, outcome |-> "Done", left |-> 0]

Live(j) == rows[j].status \in {"ready", "running"}
Terminal(j) == rows[j].status \in {"done", "failed", "cancelled"}

\* idx_jobs_identity: the partial unique index on the identity of live rows.
IdentityFree(k) == \A j \in Job : Live(j) => rows[j].key # k

Busy(r) == {s \in Slot : att[r][s].pc # "free"}
Fresh(j) == /\ rows[j].status = "none"
            /\ \A r \in Runner, s \in Slot : att[r][s].job # j

\* The guard of every statement by which a runner writes a row it has claimed.
Holds(r, j) == rows[j].status = "running" /\ rows[j].owner = r

\* A runner process that is up: its loop, or only its attempts, still run.
Up(r) == loop[r] \notin {"off", "gone"}

Lesser(m, n) == IF m < n THEN m ELSE n
Greater(m, n) == IF m > n THEN m ELSE n

\* The column `attempts` grows for as long as claims are not answered; past
\* the budget only "exhausted" is ever asked of it, so it saturates there.
Incremented(row) == Lesser(row.attempts + 1, row.max + 1)

\* backoff: the base doubled for every attempt but the first, capped, less a
\* jitter below a quarter of it, cut to whole ticks.
BackoffCap(n) == Lesser(RetryBase * 2 ^ Lesser(Greater(n, 1) - 1, 32), RetryMax)
Backoff(n) == {d \in 0 .. BackoffCap(n) : 4 * (d + 1) > 3 * BackoffCap(n)}

-----------------------------------------------------------------------------
Init ==
    /\ rows = [j \in Job |-> NoRow]
    /\ debt = [j \in Job |-> 0]
    /\ registry \in Registries
    /\ target \in Targets
    /\ loop = [r \in Runner |-> "off"]
    /\ view = [r \in Runner |-> {}]
    /\ goal = [r \in Runner |-> target]
    /\ recovered = [r \in Runner |-> {}]
    /\ cap = [r \in Runner |-> 0]
    /\ free = [r \in Runner |-> 0]
    /\ att = [r \in Runner |-> [s \in Slot |-> FreeSlot]]

-----------------------------------------------------------------------------
(* The enqueue side: a request, a dispatcher or a handler queues a job.     *)

\* The row Job::enqueue_on inserts.
NewRow(k, delay, deadline, max) ==
    [key |-> k, status |-> "ready", run_at |-> delay, attempts |-> 0, max |-> max,
     deadline |-> deadline, owner |-> NoRunner, lease |-> 0]

\* INSERT ... ON CONFLICT DO NOTHING: no effect while a live row has the key.
Enqueue(j, k, delay, deadline, max) ==
    /\ Fresh(j) /\ IdentityFree(k)
    /\ rows' = [rows EXCEPT ![j] = NewRow(k, delay, deadline, max)]
    /\ debt' = [debt EXCEPT ![j] = 0]
    /\ UNCHANGED <<cells, loop, view, goal, recovered, pool, att>>

\* A reload publishes a registry and a [jobs] section into the runner's cells.
Reload(reg, t) ==
    /\ <<reg, t>> # <<registry, target>>
    /\ registry' = reg /\ target' = t
    /\ UNCHANGED <<store, loop, view, goal, recovered, pool, att>>

-----------------------------------------------------------------------------
(* The loop of a runner.                                                    *)

\* run_loop from its entry to the first pass; the pool is made as configured.
StartRunner(r) ==
    /\ loop[r] = "off"
    /\ loop' = [loop EXCEPT ![r] = "recover"]
    /\ view' = [view EXCEPT ![r] = registry]
    /\ goal' = [goal EXCEPT ![r] = target]
    /\ cap' = [cap EXCEPT ![r] = target]
    /\ free' = [free EXCEPT ![r] = target]
    /\ UNCHANGED <<store, cells, recovered, att>>

\* A wake-up of the select!: the poll interval, a notification, a permit or a
\* cell that changed.  The pass that follows reads both cells first.
Wake(r) ==
    /\ loop[r] = "idle"
    /\ loop' = [loop EXCEPT ![r] = "recover"]
    /\ view' = [view EXCEPT ![r] = registry]
    /\ goal' = [goal EXCEPT ![r] = target]
    /\ UNCHANGED <<store, cells, recovered, pool, att>>

\* recover_new_kinds, and the startup pass over every handler: `recover` runs
\* once per kind and runner.  That of a sweep queues its one row, best effort.
Recover(r, k) ==
    /\ loop[r] = "recover"
    /\ k \in view[r] \ recovered[r]
    /\ recovered' = [recovered EXCEPT ![r] = @ \cup {k}]
    /\ \/ /\ k \in Periodic /\ IdentityFree(k)
          /\ \E j \in Job, max \in MaxAttempts :
                /\ Fresh(j)
                /\ rows' = [rows EXCEPT ![j] = NewRow(k, 0, NoDeadline, max)]
                /\ debt' = [debt EXCEPT ![j] = 0]
       \/ UNCHANGED store
    /\ UNCHANGED <<cells, loop, view, goal, pool, att>>

\* Mutant of Reclaimed: nothing is reclaimed.
ReclaimedNever == rows

\* Every row whose lease has run out goes back to the queue, attempts kept.
Reclaimed == [j \in Job |-> IF rows[j].status = "running" /\ rows[j].lease <= 0
                            THEN [rows[j] EXCEPT !.status = "ready", !.owner = NoRunner,
                                                 !.lease = 0]
                            ELSE rows[j]]

\* Job::reclaim_expired, which the pass goes on without when it fails.
Reclaim(r) ==
    /\ loop[r] = "recover"
    /\ view[r] \subseteq recovered[r]
    /\ rows' = Reclaimed \/ rows' = rows
    /\ loop' = [loop EXCEPT ![r] = "drain"]
    /\ UNCHANGED <<debt, cells, view, goal, recovered, pool, att>>

\* Mutant of Taken: shrinking takes permits that attempts still hold.
TakenFromBusy(r) == Greater(cap[r] - goal[r], 0)

\* Permits::resize: growing always lands, shrinking only takes free permits.
Taken(r) == Lesser(Greater(cap[r] - goal[r], 0), free[r])
ResizedCap(r) == Greater(goal[r], cap[r]) - Taken(r)
ResizedFree(r) == free[r] + Greater(goal[r] - cap[r], 0) - Taken(r)

\* What the claim's subselect may pick: a due row of a registered kind.  It takes
\* the one due for longest, which is any of them once due times are alike.
Eligible(r, j) == /\ rows[j].status = "ready" /\ rows[j].run_at <= 0
                  /\ rows[j].key \in view[r]

\* The lease a claim writes, before the handler is known.
ClaimLease == Lease + Slack

\* Mutant of Stretches: the handler's own lease is never asked for.
StretchesNever(k) == FALSE

\* Whether the handler's own budget outlasts the lease the claim has written.
Stretches(k) == Budget[k] > Lease

\* One turn of drain_ready: a permit, then Job::claim_next.  An attempt whose
\* budget the lease covers is spawned; another waits for extend_lease.
Claim(r, s, j) ==
    /\ loop[r] = "drain"
    /\ \A t \in Slot : att[r][t].pc # "claimed"
    /\ ResizedFree(r) > 0
    /\ att[r][s].pc = "free"
    /\ Eligible(r, j)
    /\ cap' = [cap EXCEPT ![r] = ResizedCap(r)]
    /\ free' = [free EXCEPT ![r] = ResizedFree(r) - 1]
    /\ rows' = [rows EXCEPT ![j] = [@ EXCEPT !.status = "running", !.owner = r,
                                             !.attempts = Incremented(rows[j]),
                                             !.lease = ClaimLease]]
    /\ att' = [att EXCEPT ![r][s] =
                [pc |-> IF Stretches(rows[j].key) THEN "claimed" ELSE "start",
                 job |-> j, n |-> Incremented(rows[j]), outcome |-> "Done",
                 left |-> IF Stretches(rows[j].key) THEN Slack
                          ELSE Budget[rows[j].key] + Slack]]
    /\ UNCHANGED <<debt, cells, loop, view, goal, recovered>>

\* Job::extend_lease lands, and the attempt is spawned with its own budget.
Extend(r, s) ==
    LET j == att[r][s].job
        span == Budget[rows[j].key] + Slack IN
    /\ att[r][s].pc = "claimed"
    /\ Holds(r, j)
    /\ rows' = [rows EXCEPT ![j] = [@ EXCEPT !.lease = span]]
    /\ att' = [att EXCEPT ![r][s] = [@ EXCEPT !.pc = "start", !.left = span]]
    /\ UNCHANGED <<debt, cells, loop, view, goal, recovered, pool>>

\* Job::extend_lease affects no row, or fails: the claimed row is left alone.
ExtendMisses(r, s) ==
    /\ att[r][s].pc = "claimed"
    /\ att' = [att EXCEPT ![r][s] = FreeSlot]
    /\ free' = [free EXCEPT ![r] = @ + 1]
    /\ UNCHANGED <<store, cells, loop, view, goal, recovered, cap>>

\* drain_ready returns: nothing is eligible, the pool is full, or the claim
\* failed.  A permit taken for it is given back.
DrainEnds(r) ==
    /\ loop[r] = "drain"
    /\ \A t \in Slot : att[r][t].pc # "claimed"
    /\ cap' = [cap EXCEPT ![r] = ResizedCap(r)]
    /\ free' = [free EXCEPT ![r] = ResizedFree(r)]
    /\ loop' = [loop EXCEPT ![r] = "idle"]
    /\ UNCHANGED <<store, cells, view, goal, recovered, att>>

-----------------------------------------------------------------------------
(* An attempt: run_one on its own task.                                     *)

Passed(row) == row.deadline # NoDeadline /\ row.deadline < 0

\* run_one up to the handler: a row past its deadline is retired unrun.
Start(r, s) ==
    /\ att[r][s].pc = "start"
    /\ att' = [att EXCEPT ![r][s] = IF Passed(rows[@.job])
                                    THEN [@ EXCEPT !.pc = "settle", !.outcome = "Failed"]
                                    ELSE [@ EXCEPT !.pc = "run"]]
    /\ UNCHANGED <<store, cells, loop, view, goal, recovered, pool>>

\* run_attempt answers: the handler's outcome, or Retry for a panic or a timeout.
Answer(r, s, o) ==
    /\ att[r][s].pc = "run"
    /\ o \in Outcomes[rows[att[r][s].job].key] \cup {"Retry"}
    /\ att' = [att EXCEPT ![r][s] = [@ EXCEPT !.pc = "settle", !.outcome = o]]
    /\ UNCHANGED <<store, cells, loop, view, goal, recovered, pool>>

\* Whether run_one retires the job rather than retry it after a delay of d.
Retires(a, row, d) ==
    \/ a.outcome = "Failed"
    \/ /\ a.outcome = "Retry"
       /\ \/ a.n >= row.max
          \/ row.deadline # NoDeadline /\ d > row.deadline

\* The row as Job::complete, reschedule, abandon or retry leaves it.
Settled(a, row, d) ==
    LET released == [row EXCEPT !.owner = NoRunner, !.lease = 0] IN
    CASE a.outcome = "Done"       -> [released EXCEPT !.status = "done"]
      [] a.outcome = "Reschedule" -> [released EXCEPT !.status = "ready", !.run_at = Period,
                                                      !.attempts = 0]
      [] Retires(a, row, d)       -> [released EXCEPT !.status = "failed"]
      [] OTHER                    -> [released EXCEPT !.status = "ready", !.run_at = d]

\* Mutant of Settle: the statement does not compare lease_owner.
SettleForAnyone(r, s) ==
    LET a == att[r][s] IN
    /\ a.pc = "settle" /\ rows[a.job].status = "running"
    /\ \E d \in Backoff(a.n) :
          /\ ~Retires(a, rows[a.job], d)
          /\ rows' = [rows EXCEPT ![a.job] = Settled(a, rows[a.job], d)]
    /\ att' = [att EXCEPT ![r][s] = FreeSlot]
    /\ free' = [free EXCEPT ![r] = @ + 1]
    /\ UNCHANGED <<debt, cells, loop, view, goal, recovered, cap>>

\* A settlement that lands.  A retirement goes on to tell the handler and keeps
\* its permit; every other one ends the attempt.
Settle(r, s) ==
    LET a == att[r][s] IN
    /\ a.pc = "settle"
    /\ Holds(r, a.job)
    /\ \E d \in Backoff(a.n) :
          /\ rows' = [rows EXCEPT ![a.job] = Settled(a, rows[a.job], d)]
          /\ IF Retires(a, rows[a.job], d)
             THEN /\ att' = [att EXCEPT ![r][s] = [@ EXCEPT !.pc = "abandon", !.left = 0]]
                  /\ debt' = [debt EXCEPT ![a.job] = @ + 1]
                  /\ free' = free
             ELSE /\ att' = [att EXCEPT ![r][s] = FreeSlot]
                  /\ free' = [free EXCEPT ![r] = @ + 1]
                  /\ debt' = debt
    /\ UNCHANGED <<cells, loop, view, goal, recovered, cap>>

\* Mutant of SettleMisses: the handler is told although the row was not retired.
SettleMissesTells(r, s) ==
    /\ att[r][s].pc = "settle"
    /\ att' = [att EXCEPT ![r][s] = [@ EXCEPT !.pc = "abandon", !.left = 0]]
    /\ UNCHANGED <<store, cells, loop, view, goal, recovered, pool>>

\* A settlement that affects no row, or fails: report_settlement says so, and
\* neither the row nor the handler hears of this attempt again.
SettleMisses(r, s) ==
    /\ att[r][s].pc = "settle"
    /\ att' = [att EXCEPT ![r][s] = FreeSlot]
    /\ free' = [free EXCEPT ![r] = @ + 1]
    /\ UNCHANGED <<store, cells, loop, view, goal, recovered, cap>>

\* handler.abandon, the last step of retire.
Abandon(r, s) ==
    /\ att[r][s].pc = "abandon"
    /\ debt' = [debt EXCEPT ![att[r][s].job] = @ - 1]
    /\ att' = [att EXCEPT ![r][s] = FreeSlot]
    /\ free' = [free EXCEPT ![r] = @ + 1]
    /\ UNCHANGED <<rows, cells, loop, view, goal, recovered, cap>>

-----------------------------------------------------------------------------
(* The end of a runner: a graceful stop, or a crash.                        *)

\* The shutdown signal, which the loop sees between two passes.
Shutdown(r) ==
    /\ loop[r] = "idle"
    /\ loop' = [loop EXCEPT ![r] = "stopping"]
    /\ UNCHANGED <<store, cells, view, goal, recovered, pool, att>>

\* Mutant of Drained: the drain waits for the configured number of permits, not
\* for the number issued.
DrainedAtGoal(r) ==
    /\ loop[r] = "stopping"
    /\ free[r] >= goal[r]
    /\ loop' = [loop EXCEPT ![r] = "drained"]
    /\ UNCHANGED <<store, cells, view, goal, recovered, pool, att>>

\* stop has every permit of the issued capacity back before DRAIN_BUDGET ends.
Drained(r) ==
    /\ loop[r] = "stopping"
    /\ free[r] >= cap[r]
    /\ loop' = [loop EXCEPT ![r] = "drained"]
    /\ UNCHANGED <<store, cells, view, goal, recovered, pool, att>>

\* DRAIN_BUDGET ends first.
DrainTimesOut(r) ==
    /\ loop[r] = "stopping"
    /\ loop' = [loop EXCEPT ![r] = "overdue"]
    /\ UNCHANGED <<store, cells, view, goal, recovered, pool, att>>

\* Every lease of the runner is given up, its rows not being settled.
Released(r) == [j \in Job |-> IF Holds(r, j)
                              THEN [rows[j] EXCEPT !.status = "ready", !.owner = NoRunner,
                                                   !.lease = 0]
                              ELSE rows[j]]

\* Job::release_owned, whose failure is swallowed.  The attempts that outlived
\* the drain go on until the process has exited.
ReleaseOwned(r) ==
    /\ loop[r] \in {"drained", "overdue"}
    /\ rows' = Released(r) \/ rows' = rows
    /\ loop' = [loop EXCEPT ![r] = "released"]
    /\ UNCHANGED <<debt, cells, view, goal, recovered, pool, att>>

\* The process ends, at any moment; its memory and its attempts go with it.
Exit(r) ==
    /\ Up(r)
    /\ loop' = [loop EXCEPT ![r] = "gone"]
    /\ att' = [att EXCEPT ![r] = [s \in Slot |-> FreeSlot]]
    /\ view' = [view EXCEPT ![r] = {}]
    /\ recovered' = [recovered EXCEPT ![r] = {}]
    /\ cap' = [cap EXCEPT ![r] = 0]
    /\ free' = [free EXCEPT ![r] = 0]
    /\ UNCHANGED <<store, cells, goal>>

-----------------------------------------------------------------------------
(* The operator, the retention sweep, and the clock.                        *)

\* admin::ops::cancel_job by way of Job::cancel_row, from ready or from failed.
Cancel(j) ==
    /\ rows[j].status \in {"ready", "failed"}
    /\ rows' = [rows EXCEPT ![j] = [@ EXCEPT !.status = "cancelled"]]
    /\ UNCHANGED <<debt, cells, loop, view, goal, recovered, pool, att>>

\* Job::advance_row, the first half of admin::ops::run_job_now.
Advance(j) ==
    /\ rows[j].status = "ready" /\ rows[j].run_at > 0
    /\ rows' = [rows EXCEPT ![j] = [@ EXCEPT !.run_at = 0]]
    /\ UNCHANGED <<debt, cells, loop, view, goal, recovered, pool, att>>

\* Mutant of Revive: the identity is not checked again.
ReviveUnchecked(j) ==
    /\ rows[j].status = "failed"
    /\ rows' = [rows EXCEPT ![j] = [@ EXCEPT !.status = "ready", !.run_at = 0,
                                             !.attempts = Greater(rows[j].max - 1, 0)]]
    /\ UNCHANGED <<debt, cells, loop, view, goal, recovered, pool, att>>

\* Job::revive_row, its second half.  The identity index refuses a row whose
\* key has been queued again meanwhile.
Revive(j) ==
    /\ rows[j].status = "failed"
    /\ IdentityFree(rows[j].key)
    /\ rows' = [rows EXCEPT ![j] = [@ EXCEPT !.status = "ready", !.run_at = 0,
                                             !.attempts = Greater(rows[j].max - 1, 0)]]
    /\ UNCHANGED <<debt, cells, loop, view, goal, recovered, pool, att>>

\* Job::cleanup deletes terminal rows; their age is left open.  An attempt that
\* still runs has its own copy of the row's key, budget and deadline.
Cleanup(j) ==
    /\ Terminal(j)
    /\ rows' = [rows EXCEPT ![j] = [@ EXCEPT !.status = "none", !.run_at = 0, !.attempts = 0]]
    /\ UNCHANGED <<debt, cells, loop, view, goal, recovered, pool, att>>

\* A moment one tick nearer, floor being the least it is told apart from.
Nearer(t, floor) == Greater(t - 1, floor)

\* A second passes.  When attempts are timely, none is left beyond the budget
\* its timeout enforces and the slack allowed for the settling statement.
Tick ==
    /\ Timely => \A r \in Runner, s \in Slot :
                    att[r][s].pc \in {"claimed", "start", "run", "settle"} => att[r][s].left > 1
    /\ rows' = [j \in Job |-> [rows[j] EXCEPT
                    !.run_at = Nearer(@, 0),
                    !.deadline = IF @ = NoDeadline THEN @ ELSE Nearer(@, -1),
                    !.lease = Nearer(@, 0)]]
    /\ att' = [r \in Runner |-> [s \in Slot |->
                    [att[r][s] EXCEPT !.left = Nearer(@, 0)]]]
    /\ UNCHANGED <<debt, cells, loop, view, goal, recovered, pool>>

-----------------------------------------------------------------------------
AttemptStep(r, s) ==
    \/ Extend(r, s) \/ ExtendMisses(r, s) \/ Start(r, s)
    \/ \E o \in Outcome : Answer(r, s, o)
    \/ Settle(r, s) \/ SettleMisses(r, s) \/ Abandon(r, s)

LoopStep(r) ==
    \/ StartRunner(r) \/ Wake(r) \/ Reclaim(r) \/ DrainEnds(r)
    \/ \E k \in Key : Recover(r, k)
    \/ \E s \in Slot, j \in Job : Claim(r, s, j)
    \/ Shutdown(r) \/ Drained(r) \/ DrainTimesOut(r) \/ ReleaseOwned(r)

OperatorStep ==
    \/ \E j \in Job, k \in Key, delay \in Delays, d \in Deadlines, max \in MaxAttempts :
          Enqueue(j, k, delay, d, max)
    \/ \E reg \in Registries, t \in Targets : Reload(reg, t)
    \/ \E j \in Job : Cancel(j) \/ Advance(j) \/ Revive(j) \/ Cleanup(j)

Next ==
    \/ \E r \in Runner : LoopStep(r) \/ Exit(r)
    \/ \E r \in Runner, s \in Slot : AttemptStep(r, s)
    \/ OperatorStep
    \/ Tick

Spec == Init /\ [][Next]_vars

-----------------------------------------------------------------------------
(* Properties.                                                              *)

Row == [key : Key, status : Status, run_at : Nat, attempts : Nat, max : Nat,
        deadline : Int \cup {NoDeadline}, owner : Runner \cup {NoRunner}, lease : Nat]

Attempt == [pc : {"free", "claimed", "start", "run", "settle", "abandon"},
            job : Job \cup {NoJob}, n : Nat, outcome : Outcome, left : Nat]

LoopPC == {"off", "recover", "drain", "idle", "stopping", "drained", "overdue",
           "released", "gone"}

RowsOK == rows \in [Job -> Row] /\ debt \in [Job -> Int]
AttemptsOK == /\ att \in [Runner -> [Slot -> Attempt]]
              /\ \A r \in Runner, s \in Slot : att[r][s].pc = "free" <=> att[r][s].job = NoJob
RunnersOK == /\ registry \subseteq Key /\ target \in Nat \ {0}
             /\ loop \in [Runner -> LoopPC]
             /\ view \in [Runner -> SUBSET Key] /\ goal \in [Runner -> Nat \ {0}]
             /\ recovered \in [Runner -> SUBSET Key]
             /\ cap \in [Runner -> Nat] /\ free \in [Runner -> Int]

\* Every variable has its type, and a slot is free exactly when it names no job.
TypeOK == RowsOK /\ AttemptsOK /\ RunnersOK

\* A row has an owner exactly while it is running, and a lease only then: one
\* that waits or has settled can be neither settled nor reclaimed.
Leased(x) == /\ x.status = "running" <=> x.owner # NoRunner
             /\ x.lease > 0 => x.status = "running"
LeaseDiscipline == \A j \in Job : Leased(rows[j])

\* The attempts that may still write a row or run its handler.
Working(r, s) == att[r][s].pc \in {"claimed", "start", "run", "settle"}

\* When attempts end within their budget and LEASE_SLACK, two attempts at one
\* job never overlap, whichever runners claimed it, unless one of them belongs
\* to a process that has already given its leases up in a graceful stop.
NoOverlap ==
    Timely =>
      \A q, r \in Runner : \A s, t \in Slot :
         /\ Working(q, s) /\ Working(r, t)
         /\ loop[q] # "released" /\ loop[r] # "released"
         /\ att[q][s].job = att[r][t].job
         => q = r /\ s = t

\* Why attempts do not overlap: each attempt still holds the lease of its row,
\* which lasts at least as long as the attempt may, and no runner has two
\* attempts at one row.
AttemptHolds ==
    Timely =>
      \A r \in Runner, s \in Slot :
         Working(r, s) /\ loop[r] # "released" =>
            /\ Holds(r, att[r][s].job)
            /\ 0 < att[r][s].left /\ att[r][s].left <= rows[att[r][s].job].lease
OneSlotPerJob ==
    Timely =>
      \A r \in Runner : \A s, t \in Slot :
         Working(r, s) /\ Working(r, t) /\ att[r][s].job = att[r][t].job => s = t
LeaseInv == LeaseDiscipline /\ AttemptHolds /\ OneSlotPerJob

\* The statement that settles a row compares the runner's id and not the attempt.
\* When attempts end in time that is enough: the attempt whose settlement lands is
\* the one the row was last claimed for.  No other attempt of its runner is at work
\* on the row, and one of another runner only if that one has given its leases up,
\* so that neither a stale attempt of the same process nor one left over from a
\* graceful stop decides what a later attempt is doing.
SettledByClaimant ==
    [][\A r \in Runner, s \in Slot :
          Timely /\ Settle(r, s) =>
             \A q \in Runner, t \in Slot :
                Working(q, t) /\ att[q][t].job = att[r][s].job /\ <<q, t>> # <<r, s>>
                => q # r /\ loop[q] = "released"]_vars

\* A handler is told of a retirement only once the row records it: pending
\* calls of abandon never outnumber the retirements not yet told.
Telling(j) == {x \in Runner \X Slot : /\ att[x[1]][x[2]].pc = "abandon"
                                      /\ att[x[1]][x[2]].job = j}
ToldOnlyIfRetired == \A j \in Job : debt[j] >= Cardinality(Telling(j))

\* The permits a pool has issued are free or held by an attempt, across every
\* reload that grows or shrinks it: none is lost and none is invented.
PermitConservation ==
    \A r \in Runner : Up(r) => free[r] + Cardinality(Busy(r)) = cap[r] /\ free[r] >= 0

\* A graceful stop that reports itself drained has no attempt left running,
\* even when a shrink of the pool had not converged.
DrainedIsIdle == \A r \in Runner : loop[r] = "drained" => Busy(r) = {}

\* The queue keeps the promises of JobContract, in which a job is queued from its
\* insertion until its settlement, whatever claims, lost leases and retries it
\* goes through in between.
Contract == INSTANCE JobContract WITH
    phase <- [j \in Job |-> IF Live(j) THEN "queued" ELSE rows[j].status],
    ident <- [j \in Job |-> rows[j].key]
ImplementsContract == Contract!Spec

-----------------------------------------------------------------------------
(* Liveness.  Tokio runs every ready task, so a loop or an attempt that can  *)
(* go on does; the database does not fail one statement for ever, so a       *)
(* statement that is tried again and again lands; and the clock advances.    *)

PassStep(r) ==
    Wake(r) \/ (\E k \in Key : Recover(r, k)) \/ Reclaim(r) \/ DrainEnds(r)

Fairness ==
    /\ \A r \in Runner :
          /\ WF_vars(PassStep(r))
          /\ SF_vars(Reclaim(r) /\ rows' = Reclaimed)
          /\ SF_vars(\E s \in Slot, j \in Job : Claim(r, s, j))
          /\ \A s \in Slot : /\ WF_vars(AttemptStep(r, s))
                             /\ SF_vars(Extend(r, s))
                             /\ SF_vars(Settle(r, s))
    /\ WF_vars(Tick)

FairSpec == Spec /\ Fairness

Draining(r) == loop[r] \in {"recover", "drain", "idle"}

\* While some runner stays up, every job that does not reschedule itself is
\* settled in the end, whatever crashes, lost leases, failed statements and
\* retries it goes through on the way: no row is stranded.
EveryJobSettles ==
    (\E r \in Runner : <>[]Draining(r)) => \A j \in Job : Live(j) ~> ~Live(j)
=============================================================================
