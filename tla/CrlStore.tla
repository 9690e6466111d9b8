------------------------------ MODULE CrlStore ------------------------------
(***************************************************************************)
(* What one local CA has revoked and the CRL it serves: the `revocations`  *)
(* and `crls` rows (crates/store/src/revocation.rs, crl.rs), the instances *)
(* of CrlStore that sign over them (crates/signer/src/local_ca/crl.rs),    *)
(* the two jobs that make them do so (local_ca/sweep.rs), and both doors   *)
(* a revocation enters by (crates/protocol/src/acme/revoke.rs): recorded   *)
(* in the ledger by a process without the key, or made by the backend.     *)
(*                                                                         *)
(* An instance is one CrlStore: a process, or a generation of one, holding *)
(* the key.  A task is a job attempt running in it.  A statement or a      *)
(* transaction is one step; a signature happens between two steps, with    *)
(* nothing locked in the database.                                         *)
(***************************************************************************)
EXTENDS Integers, FiniteSets

CONSTANTS
    Serial,         \* certificates of this CA
    Mortal,         \* those whose not_after is known, the only ones pruned
    NotAfter,       \* and when they expire
    Sidecar,        \* serials in the ledger kept before the database was
    SidecarNumber,  \* the last CRL number published from it
    Instance, Task,
    Home,           \* the instance each task runs in
    NoTask, NoSerial,
    Skew,           \* CLOCK_SKEW_ALLOWANCE
    Validity,       \* CRL_VALIDITY_DAYS
    MaxTries,       \* MAX_REGENERATION_ATTEMPTS
    MaxPasses,      \* MAX_REPUBLISH_PASSES
    MaxTime,        \* bound: how far the clock runs
    MaxAsks,        \* bound: revocations asked for
    Sweeping        \* bound: whether the row of the daily sweep is followed

ASSUME CrlAssumption ==
    /\ Mortal \subseteq Serial /\ NotAfter \in [Serial -> Nat]
    /\ Sidecar \subseteq Serial /\ SidecarNumber \in Nat
    /\ Home \in [Task -> Instance] /\ NoTask \notin Task /\ NoSerial \notin Serial
    /\ Skew \in Nat /\ Validity \in Nat \ {0}
    /\ MaxTries \in Nat \ {0} /\ MaxPasses \in Nat \ {0}
    /\ MaxTime \in Nat /\ MaxAsks \in Nat /\ Sweeping \in BOOLEAN

VARIABLES
    now,      \* the clock the processes share, up to Skew
    rows,     \* the serials of the `revocations` rows
    at,       \* their revoked_at
    crl,      \* the `crls` row; number 0 while there is none
    revoked,  \* the serials whose order carries revoked_at
    req,      \* revocations by the ledger route on their way
    regen,    \* the local_ca_crl_regenerate row: whether it is live, who runs it
    sweep,    \* whether the local_ca_crl_sweep row is live
    ready,    \* instances whose OnceCell is set
    mutex,    \* the task that regenerates in each instance
    file,     \* the number of the CRL at crl_path, 0 if none
    flock,    \* the task that holds the export lock
    task,     \* what each task is doing
    acked,    \* serials CrlStore::revoke has answered Ok for
    asks      \* revocations asked for so far

tables == <<rows, at, crl, revoked>>
door == <<req, regen, sweep>>
disk == <<file, flock>>
vars == <<now, tables, door, ready, mutex, disk, task, acked, asks>>

\* thisUpdate is backdated from the moment a CRL is built.
ThisUpdate(c) == c.built - Skew

\* RFC 5280, 3.3: c was issued beyond the validity period of s.
Lapsed(s, c) == s \in Mortal /\ NotAfter[s] < ThisUpdate(c)

NoCrl == [number |-> 0, lists |-> {}, built |-> 0]

Idle == [pc |-> "idle", job |-> "none", serial |-> NoSerial, at |-> 0,
         cut |-> 0, upto |-> 0, number |-> 0, rows |-> {}, built |-> 0,
         tries |-> 0, passes |-> 0, ret |-> "idle"]

Becomes(t, x) == task' = [task EXCEPT ![t] = x]
Goto(t, pc) == Becomes(t, [task[t] EXCEPT !.pc = pc])

\* The loser of the race for a lock waits; a task that ends lets go of both.
Unlocked(t) == [mutex EXCEPT ![Home[t]] = IF @ = t THEN NoTask ELSE @]
Unflocked(t) == IF flock = t THEN NoTask ELSE flock

Init ==
    /\ now = 0 /\ rows = {} /\ at = [s \in Serial |-> 0] /\ crl = NoCrl
    /\ revoked = {} /\ req = {} /\ regen = [live |-> FALSE, by |-> NoTask] /\ sweep = FALSE
    /\ ready = {} /\ mutex = [i \in Instance |-> NoTask]
    /\ file = 0 /\ flock = NoTask /\ task = [t \in Task |-> Idle]
    /\ acked = {} /\ asks = 0

-----------------------------------------------------------------------------
(* The ledger route: Revocations::revoke with Revoker::Ledger.              *)

\* The order reads un-revoked; revoked_at is stamped before the transaction.
Ask(s) ==
    /\ s \notin revoked
    /\ asks < MaxAsks /\ asks' = asks + 1
    /\ req' = req \cup {<<"record", s, now>>}
    /\ UNCHANGED <<now, tables, regen, sweep, ready, mutex, disk, task, acked>>

\* Revocation::insert_if_absent.
Inserted(s) == rows' = rows \cup {s}
Stamped(s, when) == at' = IF s \in rows THEN at ELSE [at EXCEPT ![s] = when]

\* Mutant of Record: the CA need not have met the database.
RecordEarly(s, when) ==
    /\ <<"record", s, when>> \in req
    /\ req' = (req \ {<<"record", s, when>>}) \cup (IF s \in revoked THEN {} ELSE {<<"ask", s, 0>>})
    /\ revoked' = revoked \cup {s}
    /\ Inserted(s) /\ Stamped(s, when)
    /\ UNCHANGED <<now, crl, regen, sweep, ready, mutex, disk, task, acked, asks>>

\* Mutant of Record: the ledger is left to whoever signs.
RecordOrderOnly(s, when) ==
    /\ <<"record", s, when>> \in req
    /\ req' = (req \ {<<"record", s, when>>}) \cup {<<"ask", s, 0>>}
    /\ revoked' = IF crl.number > 0 THEN revoked \cup {s} ELSE revoked
    /\ UNCHANGED <<now, rows, at, crl, regen, sweep, ready, mutex, disk, task, acked, asks>>

\* record_in_ledger's transaction: refused while the CA has no stored CRL, lost
\* to whoever stamped the order first, or order and ledger together.
Record(s, when) ==
    /\ <<"record", s, when>> \in req
    /\ \/ /\ crl.number = 0 \/ s \in revoked
          /\ req' = req \ {<<"record", s, when>>}
          /\ UNCHANGED tables
       \/ /\ crl.number > 0 /\ s \notin revoked
          /\ req' = (req \ {<<"record", s, when>>}) \cup {<<"ask", s, 0>>}
          /\ revoked' = revoked \cup {s}
          /\ Inserted(s) /\ Stamped(s, when)
          /\ UNCHANGED crl
    /\ UNCHANGED <<now, regen, sweep, ready, mutex, disk, task, acked, asks>>

\* enqueue_or_log: refused by the identity index while a row is ready or running.
AskForCrl(s) ==
    /\ <<"ask", s, 0>> \in req
    /\ req' = req \ {<<"ask", s, 0>>}
    /\ regen' = [regen EXCEPT !.live = TRUE]
    /\ UNCHANGED <<now, tables, sweep, ready, mutex, disk, task, acked, asks>>

\* The process dies, or a statement fails, between the steps above.
Dropped ==
    /\ \E q \in req : req' = req \ {q}
    /\ UNCHANGED <<now, tables, regen, sweep, ready, mutex, disk, task, acked, asks>>

-----------------------------------------------------------------------------
(* Tasks.                                                                   *)

Refreshes(t) ==
    /\ task[t].pc = "idle"
    /\ Becomes(t, [Idle EXCEPT !.pc = "init", !.job = "refresh"])
    /\ UNCHANGED <<now, tables, door, ready, mutex, disk, acked, asks>>

\* CrlSweepJob::run: the daily sweep, which reschedules its row whatever it met.
StartRefresh(t) == sweep /\ Refreshes(t)

\* store_first_crls, at a start and at every reload, row or no row.
StoreFirstCrls(t) == Refreshes(t)

\* CrlSweepJob::recover, once in the life of a process, or an operator's revival.
SeedSweep ==
    /\ Sweeping /\ ~sweep /\ sweep' = TRUE
    /\ UNCHANGED <<now, tables, req, regen, ready, mutex, disk, task, acked, asks>>

\* Attempts that time out or panic use the row's attempts up and retire it, or an
\* operator cancels it: "will not run again until the server restarts".
LoseSweep ==
    /\ sweep /\ sweep' = FALSE
    /\ UNCHANGED <<now, tables, req, regen, ready, mutex, disk, task, acked, asks>>

\* The runner claims the regenerate row.
StartRegenerate(t) ==
    /\ task[t].pc = "idle" /\ regen.live /\ regen.by = NoTask
    /\ regen' = [regen EXCEPT !.by = t]
    /\ Becomes(t, [Idle EXCEPT !.pc = "init", !.job = "republish"])
    /\ UNCHANGED <<now, tables, req, sweep, ready, mutex, disk, acked, asks>>

\* A signer_revoke job, whose order read un-revoked, reaches LocalCa::revoke.
StartRevoke(t, s) ==
    /\ task[t].pc = "idle" /\ s \notin revoked
    /\ asks < MaxAsks /\ asks' = asks + 1
    /\ Becomes(t, [Idle EXCEPT !.pc = "init", !.job = "revoke",
                                !.serial = s, !.at = now])
    /\ UNCHANGED <<now, tables, door, ready, mutex, disk, acked>>

\* Others of the instance wait for the one that fills its OnceCell.
Initialising(i) ==
    \E u \in Task : /\ Home[u] = i
                    /\ \/ task[u].pc \in {"first", "insert"}
                       \/ task[u].pc \in {"export", "write"} /\ task[u].ret = "init"

\* A task goes on with its instance initialised; a refresh takes the clock first.
Begin(t) ==
    Becomes(t, [task[t] EXCEPT !.pc = "begin", !.at = IF task[t].job = "refresh" THEN now ELSE @])

\* ensure_initialized, and the read that begins initialize.
EnsureInitialized(t) ==
    /\ task[t].pc = "init"
    /\ \/ Home[t] \in ready /\ Begin(t) /\ UNCHANGED ready
       \/ /\ Home[t] \notin ready /\ ~Initialising(Home[t])
          /\ \/ crl.number > 0 /\ ready' = ready \cup {Home[t]} /\ Begin(t)
             \/ crl.number = 0 /\ UNCHANGED ready /\ Goto(t, "first")
    /\ UNCHANGED <<now, tables, door, mutex, disk, acked, asks>>

\* The first CRL is signed over the sidecar, which is a file nobody writes.
FirstSign(t) ==
    /\ task[t].pc = "first"
    /\ Becomes(t, [task[t] EXCEPT !.pc = "insert", !.built = now])
    /\ UNCHANGED <<now, tables, door, ready, mutex, disk, acked, asks>>

\* initialize's transaction, keyed on insert_initial: the loser imports nothing.
InsertInitial(t) ==
    /\ task[t].pc = "insert"
    /\ \/ /\ crl.number = 0
          /\ crl' = [number |-> SidecarNumber + 1, lists |-> Sidecar, built |-> task[t].built]
          /\ rows' = rows \cup Sidecar
          /\ Becomes(t, [task[t] EXCEPT !.pc = "export", !.ret = "init", !.built = 0])
       \/ /\ crl.number > 0
          /\ Becomes(t, [task[t] EXCEPT !.pc = "init", !.built = 0])
          /\ UNCHANGED <<crl, rows>>
    /\ UNCHANGED <<now, at, revoked, door, ready, mutex, disk, acked, asks>>

\* CrlStore::revoke: the row first, in a transaction of its own.
RecordRevocation(t) ==
    /\ task[t].pc = "begin" /\ task[t].job = "revoke"
    /\ Inserted(task[t].serial) /\ Stamped(task[t].serial, task[t].at)
    /\ Becomes(t, [task[t] EXCEPT !.pc = "lock", !.at = 0])
    /\ UNCHANGED <<now, crl, revoked, door, ready, mutex, disk, acked, asks>>

Earlier(m, n) == IF m < n THEN m ELSE n

\* Mutant of ReadBounds: what the stored CRL could show is not asked.
ReadBoundsByClock(t) ==
    /\ task[t].pc = "begin" /\ task[t].job = "refresh"
    /\ Becomes(t, [task[t] EXCEPT !.pc = "count", !.at = 0,
                                  !.cut = task[t].at - Skew, !.upto = task[t].at])
    /\ UNCHANGED <<now, tables, door, ready, mutex, disk, acked, asks>>

\* refresh: the bounds of the prune, from the CRL stored now.  A stale one is
\* regenerated whatever the reads that follow say.
ReadBounds(t) ==
    /\ task[t].pc = "begin" /\ task[t].job = "refresh"
    /\ Becomes(t, [task[t] EXCEPT
                   !.pc = IF task[t].at + Validity \div 2 >= crl.built + Validity THEN "lock" ELSE "count",
                   !.at = 0,
                   !.cut = Earlier(task[t].at - Skew, ThisUpdate(crl)),
                   !.upto = ThisUpdate(crl) + Skew])
    /\ UNCHANGED <<now, tables, door, ready, mutex, disk, acked, asks>>

\* The rows prune_expired deletes and count_expired counts.
Prunable(t) == {s \in rows \cap Mortal : NotAfter[s] < task[t].cut /\ at[s] <= task[t].upto}

CountExpired(t) ==
    /\ task[t].pc = "count"
    /\ Goto(t, IF Prunable(t) # {} THEN "lock" ELSE "check")
    /\ UNCHANGED <<now, tables, door, ready, mutex, disk, acked, asks>>

\* lists_every_revocation, over one snapshot of both tables.
ListsEveryRevocation == rows \subseteq crl.lists

\* Mutant of CheckListed: what was recorded is left to the job that was asked for.
CheckListedTrusting(t) ==
    /\ \/ task[t].pc = "check" /\ Becomes(t, [task[t] EXCEPT !.pc = "export", !.ret = "idle"])
       \/ /\ task[t].pc = "begin" /\ task[t].job = "republish"
          /\ Goto(t, IF ListsEveryRevocation THEN "done" ELSE "lock")
    /\ UNCHANGED <<now, tables, door, ready, mutex, disk, acked, asks>>

\* refresh's third condition, and republish's only one.
CheckListed(t) ==
    /\ \/ /\ task[t].pc = "check"
          /\ Becomes(t, [task[t] EXCEPT !.pc = IF ListsEveryRevocation THEN "export" ELSE "lock",
                                     !.ret = "idle"])
       \/ /\ task[t].pc = "begin" /\ task[t].job = "republish"
          /\ Goto(t, IF ListsEveryRevocation THEN "done" ELSE "lock")
    /\ UNCHANGED <<now, tables, door, ready, mutex, disk, acked, asks>>

-----------------------------------------------------------------------------
(* regenerate.                                                              *)

Lock(t) ==
    /\ task[t].pc = "lock" /\ mutex[Home[t]] = NoTask
    /\ mutex' = [mutex EXCEPT ![Home[t]] = t]
    /\ Becomes(t, [task[t] EXCEPT !.pc = IF task[t].job = "refresh" THEN "prune" ELSE "snapshot",
                               !.tries = MaxTries])
    /\ UNCHANGED <<now, tables, door, ready, disk, acked, asks>>

PruneExpired(t) ==
    /\ task[t].pc = "prune"
    /\ rows' = rows \ Prunable(t)
    /\ Becomes(t, [task[t] EXCEPT !.pc = "snapshot", !.cut = 0, !.upto = 0])
    /\ UNCHANGED <<now, at, crl, revoked, door, ready, mutex, disk, acked, asks>>

\* Mutant of Snapshot: a serial is taken as covered once it is recorded.
SnapshotRecorded(t) ==
    /\ task[t].pc = "snapshot"
    /\ \/ task[t].job = "revoke" /\ task[t].serial \in rows /\ Goto(t, "end")
       \/ /\ ~(task[t].job = "revoke" /\ task[t].serial \in rows)
          /\ Becomes(t, [task[t] EXCEPT !.pc = "sign", !.number = crl.number, !.rows = rows])
    /\ UNCHANGED <<now, tables, door, ready, mutex, disk, acked, asks>>

\* Both tables in one read; a serial some CRL already lists needs no other.
Snapshot(t) ==
    /\ task[t].pc = "snapshot"
    /\ \/ task[t].job = "revoke" /\ task[t].serial \in crl.lists /\ Goto(t, "end")
       \/ /\ ~(task[t].job = "revoke" /\ task[t].serial \in crl.lists)
          /\ Becomes(t, [task[t] EXCEPT !.pc = "sign", !.number = crl.number, !.rows = rows])
    /\ UNCHANGED <<now, tables, door, ready, mutex, disk, acked, asks>>

Sign(t) ==
    /\ task[t].pc = "sign"
    /\ Becomes(t, [task[t] EXCEPT !.pc = "store", !.built = now])
    /\ UNCHANGED <<now, tables, door, ready, mutex, disk, acked, asks>>

\* What a task forgets once its snapshot is stored or superseded.
Spent(t, pc, tries) ==
    Becomes(t, [task[t] EXCEPT !.pc = pc, !.tries = tries, !.ret = "end",
                            !.number = 0, !.rows = {}, !.built = 0])

\* Mutant of ReplaceIfNumber: the swap does not compare.
ReplaceAnyNumber(t) ==
    /\ task[t].pc = "store"
    /\ crl' = [number |-> task[t].number + 1, lists |-> task[t].rows, built |-> task[t].built]
    /\ Spent(t, "export", 0)
    /\ UNCHANGED <<now, rows, at, revoked, door, ready, mutex, disk, acked, asks>>

\* replace_if_number; whoever lost signs again from a fresh snapshot.
ReplaceIfNumber(t) ==
    /\ task[t].pc = "store"
    /\ \/ /\ crl.number = task[t].number
          /\ crl' = [number |-> crl.number + 1, lists |-> task[t].rows, built |-> task[t].built]
          /\ Spent(t, "export", 0)
       \/ /\ crl.number # task[t].number /\ task[t].tries > 1
          /\ Spent(t, "snapshot", task[t].tries - 1)
          /\ UNCHANGED crl
    /\ UNCHANGED <<now, rows, at, revoked, door, ready, mutex, disk, acked, asks>>

-----------------------------------------------------------------------------
(* export: the stored CRL is read under the lock, not handed in.            *)

\* Mutant of ExportRead: the CRL is read before the lock is waited for.
ExportReadFirst(t) ==
    /\ task[t].pc = "export"
    /\ \/ /\ task[t].number = 0 /\ Becomes(t, [task[t] EXCEPT !.number = crl.number])
          /\ UNCHANGED flock
       \/ /\ task[t].number > 0 /\ flock = NoTask /\ flock' = t
          /\ Goto(t, "write")
    /\ UNCHANGED <<now, tables, door, ready, mutex, file, acked, asks>>

ExportRead(t) ==
    /\ task[t].pc = "export" /\ flock = NoTask
    /\ flock' = t
    /\ Becomes(t, [task[t] EXCEPT !.pc = "write", !.number = crl.number])
    /\ UNCHANGED <<now, tables, door, ready, mutex, file, acked, asks>>

\* A task returns from export, written or not: to initialise's caller, to
\* regenerate's end, or from a refresh that had nothing to sign.
Exported(t) ==
    /\ flock' = Unflocked(t)
    /\ Becomes(t, IF task[t].ret = "idle" THEN Idle
               ELSE [task[t] EXCEPT !.pc = task[t].ret, !.ret = "idle", !.number = 0])

ExportWrite(t) ==
    /\ task[t].pc = "write"
    /\ file' = task[t].number
    /\ Exported(t)
    /\ UNCHANGED <<now, tables, door, ready, mutex, acked, asks>>

\* An unwritable export is logged and changes nothing else.
ExportFails(t) ==
    /\ task[t].pc \in {"export", "write"}
    /\ Exported(t)
    /\ UNCHANGED <<now, tables, door, ready, mutex, file, acked, asks>>

-----------------------------------------------------------------------------
(* How a task ends.                                                         *)

\* regenerate returns Ok: refresh is through, CrlStore::revoke answers, and a
\* regenerate job makes another pass or asks for another attempt.
End(t) ==
    /\ task[t].pc = "end"
    /\ mutex' = Unlocked(t)
    /\ acked' = IF task[t].job = "revoke" THEN acked \cup {task[t].serial} ELSE acked
    /\ Becomes(t, CASE task[t].job = "refresh" -> Idle
               [] task[t].job = "revoke" -> [task[t] EXCEPT !.pc = "stamp", !.tries = 0]
               [] OTHER -> [task[t] EXCEPT !.passes = @ + 1, !.tries = 0,
                               !.pc = IF task[t].passes + 1 = MaxPasses THEN "retry" ELSE "init"])
    /\ UNCHANGED <<now, tables, door, ready, disk, asks>>

\* Order::revoke, after the backend: guarded, so the first stamp stands.
Stamp(t) ==
    /\ task[t].pc = "stamp" /\ task[t].job = "revoke"
    /\ revoked' = revoked \cup {task[t].serial}
    /\ Becomes(t, Idle)
    /\ UNCHANGED <<now, rows, at, crl, door, ready, mutex, disk, acked, asks>>

\* The runner settles the regenerate row, if the attempt still holds it: Done
\* ends it, Retry leaves it queued until its attempts are spent.
Settle(t) ==
    /\ task[t].pc \in {"done", "retry"}
    /\ Becomes(t, Idle)
    /\ IF regen.by = t
       THEN \E live \in (IF task[t].pc = "done" THEN {FALSE} ELSE BOOLEAN) :
               regen' = [live |-> live, by |-> NoTask]
       ELSE UNCHANGED regen
    /\ UNCHANGED <<now, tables, req, sweep, ready, mutex, disk, acked, asks>>

\* A statement or a signature fails, or the last try loses the swap: the error
\* drops both locks.  A sweep swallows it; the other jobs answer Retry.
Fail(t) ==
    /\ task[t].pc \notin {"idle", "done", "retry"}
    /\ mutex' = Unlocked(t) /\ flock' = Unflocked(t)
    /\ Becomes(t, IF task[t].job = "republish"
               THEN [Idle EXCEPT !.pc = "retry", !.job = "republish"]
               ELSE Idle)
    /\ UNCHANGED <<now, tables, door, ready, file, acked, asks>>

\* The process dies: its locks with it, and the next one starts uninitialised.
Crash(i) ==
    LET dead == {t \in Task : Home[t] = i} IN
    /\ task' = [t \in Task |-> IF t \in dead THEN Idle ELSE task[t]]
    /\ mutex' = [mutex EXCEPT ![i] = NoTask]
    /\ flock' = IF flock \in dead THEN NoTask ELSE flock
    /\ ready' = ready \ {i}
    /\ UNCHANGED <<now, tables, door, file, acked, asks>>

\* The lease on the regenerate row lapses; its attempt, if alive, goes on.
Lapse ==
    /\ regen.by # NoTask
    /\ regen' = [regen EXCEPT !.by = NoTask]
    /\ UNCHANGED <<now, tables, req, sweep, ready, mutex, disk, task, acked, asks>>

Tick ==
    /\ now < MaxTime /\ now' = now + 1
    /\ UNCHANGED <<tables, door, ready, mutex, disk, task, acked, asks>>

Step(t) ==
    \/ EnsureInitialized(t) \/ FirstSign(t) \/ InsertInitial(t)
    \/ RecordRevocation(t) \/ ReadBounds(t) \/ CountExpired(t) \/ CheckListed(t)
    \/ Lock(t) \/ PruneExpired(t) \/ Snapshot(t) \/ Sign(t) \/ ReplaceIfNumber(t)
    \/ ExportRead(t) \/ ExportWrite(t) \/ End(t) \/ Stamp(t) \/ Settle(t)

Next ==
    \/ \E s \in Serial : \/ Ask(s) \/ AskForCrl(s)
                         \/ \E when \in 0 .. MaxTime : Record(s, when)
    \/ Dropped \/ SeedSweep \/ LoseSweep
    \/ \E t \in Task : \/ StartRefresh(t) \/ StoreFirstCrls(t) \/ StartRegenerate(t)
                       \/ \E s \in Serial : StartRevoke(t, s)
                       \/ Step(t) \/ ExportFails(t) \/ Fail(t)
    \/ \E i \in Instance : Crash(i)
    \/ Lapse \/ Tick

Spec == Init /\ [][Next]_vars

-----------------------------------------------------------------------------
(* Properties.                                                              *)

Crl == [number : Nat, lists : SUBSET Serial, built : Nat]

PC == {"idle", "init", "first", "insert", "begin", "count", "check", "lock", "prune",
       "snapshot", "sign", "store", "export", "write", "end", "stamp", "done", "retry"}

TaskState ==
    [pc : PC,
     job : {"none", "refresh", "republish", "revoke"}, serial : Serial \cup {NoSerial},
     at : Nat, cut : Int, upto : Int, number : Nat, rows : SUBSET Serial, built : Nat,
     tries : Nat, passes : Nat, ret : {"idle", "init", "end"}]

TasksOK ==
    /\ task \in [Task -> TaskState]
    /\ \A t \in Task : task[t].job = "revoke" => task[t].serial \in Serial

TablesOK ==
    /\ rows \in SUBSET Serial /\ at \in [Serial -> Nat] /\ crl \in Crl
    /\ revoked \in SUBSET Serial /\ acked \in SUBSET Serial

QueueOK ==
    /\ req \in SUBSET ({"record", "ask"} \X Serial \X Nat)
    /\ regen \in [live : BOOLEAN, by : Task \cup {NoTask}] /\ sweep \in BOOLEAN

ProcessOK ==
    /\ ready \in SUBSET Instance /\ mutex \in [Instance -> Task \cup {NoTask}]
    /\ file \in Nat /\ flock \in Task \cup {NoTask}

\* Every variable has its type.
TypeOK ==
    /\ now \in Nat /\ asks \in Nat
    /\ TasksOK /\ TablesOK /\ QueueOK /\ ProcessOK

\* "no revocation can be recorded under an issuer before its import has
\* happened", and the import loses nothing: until a first CRL is stored nothing
\* is recorded, and from then on the sidecar's entries are, until they lapse.
Imported ==
    /\ crl.number = 0 => rows = {} /\ revoked = {}
    /\ crl.number > 0 => \A s \in Sidecar : s \in rows \/ Lapsed(s, crl)

\* An order marked revoked has its certificate in the ledger, by whichever door
\* it was revoked, until a CRL issued past its expiry has been stored.
RevokedIsRecorded == \A s \in revoked : s \in rows \/ Lapsed(s, crl)

\* A revocation the backend acknowledged is on the stored CRL, whoever signed
\* that CRL and however many writers raced, until the certificate lapses.
AckedIsListed == \A s \in acked : s \in crl.lists \/ Lapsed(s, crl)

\* RFC 5280, 3.3: a serial leaves the CRL only from one that listed it and was
\* issued beyond the certificate's validity; no CRL signed over an older
\* snapshot, by any instance, replaces a newer one.
EntryKept == [][\A s \in crl.lists \ crl'.lists : Lapsed(s, crl)]_vars

\* The CRL number only grows, by one with every CRL stored, so a number names
\* one CRL for ever.
NumbersGrow ==
    [][crl' # crl => \/ crl'.number = crl.number + 1
                     \/ crl.number = 0 /\ crl'.number = SidecarNumber + 1]_vars

\* The CRL exported to crl_path is never replaced by an older one, though every
\* instance exports after its own store.
ExportMonotone == [][file' >= file]_vars

-----------------------------------------------------------------------------
(* Liveness.  The daily sweep comes round while its row is live, as the queue *)
(* runs what is due; a task that can go on does, and one that has lost its    *)
(* last try of the swap gives up.  Nothing is assumed of a start, of a reload *)
(* or of whoever puts the sweep's row back.                                   *)

LostLastTry(t) == task[t].pc = "store" /\ crl.number # task[t].number /\ task[t].tries = 1

Fairness ==
    \A t \in Task : /\ WF_vars(StartRefresh(t))
                    /\ WF_vars(Step(t) \/ (LostLastTry(t) /\ Fail(t)))

FairSpec == Spec /\ Fairness

\* What goes wrong from outside: statements and signatures that fail (where that is
\* not also how the step ends anyway), processes that die, leases that lapse, the
\* sweep's row lost.
Fault ==
    \/ \E t \in Task : Fail(t) /\ ~Step(t) /\ ~ExportFails(t) /\ ~LostLastTry(t)
    \/ \E i \in Instance : Crash(i)
    \/ Dropped \/ Lapse \/ LoseSweep

\* Once faults stop, and unless they left the sweep without its row, a revocation in
\* the ledger reaches a CRL if its certificate does not lapse first, whatever they did
\* before: also when the request for a CRL was refused by the identity index of a job
\* already past its last look, was lost with its process, or used up its attempts.
RecordedIsListed ==
    <>[][~Fault]_vars /\ <>[]sweep =>
        \A s \in Serial : (s \in rows) ~> (s \in crl.lists \/ s \notin rows)

-----------------------------------------------------------------------------
(* The inductive invariant.                                                 *)

\* s is still in the ledger, or on the stored CRL, unless it has lapsed.
Kept(s) == s \in rows \/ Lapsed(s, crl)
Shown(s) == s \in crl.lists \/ Lapsed(s, crl)

\* t is past initialisation: some CRL is stored.
Past(t) == task[t].pc \notin {"idle", "init", "first", "insert", "done", "retry"}

\* t has stored a CRL of its own, or found one that lists its serial.
Published(t) == \/ task[t].pc = "end"
                \/ task[t].pc \in {"export", "write"} /\ task[t].ret = "end"

\* What t knows of the tables it read earlier, whatever was stored since.
TaskInv(t) ==
    /\ Past(t) => crl.number > 0
    /\ task[t].built <= now
    /\ task[t].pc \in {"count", "check", "prune"} => task[t].job = "refresh"
    /\ task[t].pc \in {"count", "check", "lock", "prune"} /\ task[t].job = "refresh"
          => task[t].cut <= ThisUpdate(crl)
    /\ task[t].pc \in {"sign", "store"} =>
          /\ task[t].number <= crl.number
          /\ \A s \in task[t].rows : Kept(s)
          /\ task[t].number = crl.number =>
                \A s \in crl.lists \ task[t].rows : Lapsed(s, crl)
    /\ task[t].pc = "store" /\ task[t].number = crl.number => crl.built <= task[t].built
    /\ task[t].job = "revoke" =>
          /\ task[t].pc \in {"lock", "snapshot", "stamp"} => Kept(task[t].serial)
          /\ task[t].pc \in {"sign", "store"} =>
                /\ Kept(task[t].serial)
                /\ task[t].serial \in task[t].rows \/ Lapsed(task[t].serial, crl)
          /\ Published(t) => Kept(task[t].serial) /\ Shown(task[t].serial)

\* What is listed is recorded or has lapsed, and every task's view of the tables
\* is old but not wrong: with it, a lost swap is the only harm a race can do.
CrlInv ==
    /\ crl.number = 0 => crl = NoCrl /\ ready = {}
    /\ crl.built <= now
    /\ \A s \in crl.lists : Kept(s)
    /\ \A t \in Task : TaskInv(t)
=============================================================================
