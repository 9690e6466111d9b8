---------------------------- MODULE AdminAccess ----------------------------
(***************************************************************************)
(* Who is signed in at the web admin: the login limiter (crates/store/src/ *)
(* admin_login_bucket.rs, crates/admin/src/webadmin/session.rs), sign-in   *)
(* by password and second factor (webadmin/handlers/session.rs, admin/     *)
(* users.rs, admin/mfa.rs), sessions (crates/store/src/admin_session.rs),  *)
(* enrolment and self-service changes (webadmin/handlers/mfa.rs and        *)
(* account.rs) and what an administrator or the console changes for others *)
(* (webadmin/handlers/operators.rs, admin/users.rs).                       *)
(*                                                                         *)
(* A request is a task; each SQL statement it runs is one action, and it   *)
(* works from the operator's row as it read it.  The future of a request   *)
(* is dropped when its client goes away, and the process may die: both can *)
(* happen between any two statements.  All requests come from one address, *)
(* or none has one, in which case the limiter has no key and lets them by. *)
(* What is refused before the database (origin, CSRF token, policy of a    *)
(* new password) changes nothing and is left out, and so are contacts,     *)
(* audit rows and notifications.                                           *)
(***************************************************************************)
EXTENDS Integers, FiniteSets

CONSTANTS
    Operator, Password, Task,
    Session, NoSession, \* tokens of session rows, each minted once
    Secret, NoSecret,   \* TOTP secrets, each minted once
    Code, NoCode,       \* the recovery codes somebody will submit, each minted once
    MaxAttempts,        \* admin.login_max_attempts
    MaxStep,            \* bound: the last of the TOTP time steps codes are submitted for
    MaxWindows,         \* bound: the windows a login bucket goes through
    Scenes              \* what happens: the requests made and about whom, the passwords
                        \* tried, the sessions there may be, what holds at the start,
                        \* the configuration, and what goes wrong

\* A request is a sign-in or its second step, a change an operator makes to their
\* own account, or one made for them.
SessionOp == {"code", "enrol", "confirm", "unenrol", "recodes", "passwd"}
ChangeOp == {"setpw", "reset", "disable", "enable", "demote", "appoint"}
Op == {"signin"} \cup SessionOp \cup ChangeOp

ASSUME AdminAssumption ==
    /\ Operator # {} /\ Password # {} /\ IsFiniteSet(Task)
    /\ NoSession \notin Session /\ NoSecret \notin Secret /\ NoCode \notin Code
    /\ MaxAttempts \in Nat \ {0} /\ MaxStep \in Nat /\ MaxWindows \in Nat
    /\ Scenes \subseteq [ops : SUBSET Op, who : SUBSET Operator, tries : SUBSET Password,
                         tokens : SUBSET Session, enrolled : SUBSET Operator, outdated : BOOLEAN,
                         require : BOOLEAN, address : BOOLEAN, mishaps : SUBSET {"cancel", "die", "delete", "end"}]

VARIABLES
    scene,
    user,   \* admin_users
    code,   \* admin_recovery_codes
    sess,   \* admin_sessions
    bucket, \* the address's row of admin_login_buckets
    owed,   \* releases spawned by a dropped LoginAttempt, by the window they are of
    lent,   \* slots of this window given back by attempts of an earlier one
    fresh,  \* secrets nobody was given yet
    proved, \* history: sign-ins each code of each secret was accepted for, not the
            \* confirmation that may have used it before, nor recovery codes
    undone, \* operators a change of whom was cut short, or overwritten
    task

tables == <<user, code, sess>>
limiter == <<bucket, owed, lent>>
ghosts == <<proved, undone>>
adminVars == <<scene, tables, limiter, fresh, ghosts, task>>

NoSlot == 0
NoStep == -1

NoSess == [state |-> "unborn", of |-> CHOOSE o \in Operator : TRUE, from |-> NoSession,
           fails |-> 0, pw |-> CHOOSE p \in Password : TRUE, totp |-> NoSecret, late |-> FALSE]
NoRecovery == [state |-> "unborn", of |-> CHOOSE o \in Operator : TRUE]
NewUser == [status |-> "active", admin |-> TRUE, pw |-> CHOOSE p \in Password : TRUE,
            outdated |-> FALSE, totp |-> NoSecret, pending |-> NoSecret, last |-> NoStep]
Idle == [pc |-> "free", op |-> "signin", of |-> CHOOSE o \in Operator : TRUE,
         pw |-> CHOOSE p \in Password : TRUE, read |-> NewUser, sess |-> NoSession,
         half |-> FALSE, slot |-> NoSlot, step |-> NoStep, code |-> NoCode]

\* One of a set of values that are alike, if there is one.
AnyOf(S) == {x \in S : x = CHOOSE y \in S : TRUE}

\* mint_token.
Minted == AnyOf({s \in scene.tokens : sess[s].state = "unborn"})

Live(s) == sess[s].state \in {"pending", "active"}
There(o) == user[o].status # "deleted"

AdminInit ==
    /\ scene \in Scenes
    /\ \E f \in AnyOf({g \in [scene.enrolled -> Secret] :
                            \A o, v \in scene.enrolled : g[o] = g[v] => o = v}) :
          /\ user = [o \in Operator |-> [NewUser EXCEPT !.outdated = scene.outdated,
                                            !.totp = IF o \in scene.enrolled THEN f[o] ELSE NoSecret]]
          /\ fresh = Secret \ {f[o] : o \in scene.enrolled}
    /\ code = [c \in Code |-> NoRecovery]
    /\ sess = [s \in Session |-> NoSess]
    /\ bucket = [row |-> FALSE, failures |-> 0, flight |-> 0, window |-> 0, open |-> FALSE]
    /\ owed = [w \in 1..MaxWindows |-> 0] /\ lent = 0
    /\ proved = [x \in Secret |-> [k \in 0..MaxStep |-> 0]]
    /\ undone = {}
    /\ task = [t \in Task |-> Idle]

-----------------------------------------------------------------------------
(* The limiter.                                                             *)

\* What `begin` compares: failures and attempts in flight, in a window still open.
Count == IF bucket.row /\ bucket.open THEN bucket.failures + bucket.flight ELSE 0

\* Mutant of Refused: what has finished failing is all that counts.
RefusedOnFailures == bucket.row /\ bucket.open /\ bucket.failures >= MaxAttempts

Refused == Count >= MaxAttempts

\* AdminLoginBucket::begin: a row if there is none, and the conditional UPDATE.  A
\* window that has run out starts over, the attempts in flight forgotten.
Reserved ==
    IF bucket.row /\ bucket.open
    THEN [bucket EXCEPT !.flight = @ + 1]
    ELSE [row |-> TRUE, failures |-> 0, flight |-> 1, window |-> bucket.window + 1, open |-> TRUE]

\* LoginLimiter::begin on the way to pc.  Without an address there is no key.
Begin(t, pc) ==
    \/ ~scene.address /\ task' = [task EXCEPT ![t].pc = pc] /\ UNCHANGED limiter
    \/ /\ scene.address /\ ~Refused
       /\ bucket.open \/ bucket.window < MaxWindows
       /\ bucket' = Reserved
       /\ lent' = IF bucket'.window = bucket.window THEN lent ELSE 0
       /\ task' = [task EXCEPT ![t] = [@ EXCEPT !.pc = pc, !.slot = bucket'.window]]
       /\ UNCHANGED owed
    \/ scene.address /\ Refused /\ task' = [task EXCEPT ![t] = Idle] /\ UNCHANGED limiter

\* AdminLoginBucket::settle for an attempt that began in window w.
Settled(w, failed) ==
    /\ bucket' = IF w = NoSlot \/ ~bucket.row THEN bucket
                 ELSE [bucket EXCEPT !.flight = IF @ > 0 THEN @ - 1 ELSE 0,
                                     !.failures = @ + failed]
    /\ lent' = IF w # NoSlot /\ bucket.row /\ w # bucket.window THEN lent + 1 ELSE lent

\* The request ends; the release of a slot it still has is spawned.
Over(t) ==
    /\ task' = [task EXCEPT ![t] = Idle]
    /\ owed' = IF task[t].slot = NoSlot THEN owed ELSE [owed EXCEPT ![task[t].slot] = @ + 1]

ReleaseDropped(w) ==
    /\ owed[w] > 0
    /\ owed' = [owed EXCEPT ![w] = @ - 1]
    /\ Settled(w, 0)
    /\ UNCHANGED <<scene, tables, fresh, ghosts, task>>

\* login_window_seconds pass.
WindowRunsOut ==
    /\ bucket.open
    /\ bucket' = [bucket EXCEPT !.open = FALSE]
    /\ UNCHANGED <<scene, tables, owed, lent, fresh, ghosts, task>>

\* AdminLoginBucket::cleanup, by the sweep.
CleanupBuckets ==
    /\ bucket.row /\ ~bucket.open
    /\ bucket' = [bucket EXCEPT !.row = FALSE, !.failures = 0, !.flight = 0]
    /\ UNCHANGED <<scene, tables, owed, lent, fresh, ghosts, task>>

-----------------------------------------------------------------------------
(* Signing in with a password.                                              *)

\* sign_in begins: the limiter comes before the password.
SignIn(t, o, p) ==
    /\ task[t].pc = "free" /\ "signin" \in scene.ops /\ o \in scene.who /\ p \in scene.tries
    /\ task' = [task EXCEPT ![t] = [Idle EXCEPT !.pc = "begin", !.op = "signin", !.of = o, !.pw = p]]
    /\ UNCHANGED <<scene, tables, limiter, fresh, ghosts>>

BeginAttempt(t) ==
    /\ task[t].pc = "begin"
    /\ Begin(t, IF task[t].op = "signin" THEN "authenticate"
                ELSE IF task[t].op = "code" THEN "verify" ELSE "prove")
    /\ UNCHANGED <<scene, tables, fresh, ghosts>>

\* users::authenticate: the row, the KDF against what was read, the status read.
Authenticate(t) ==
    LET r == user[task[t].of] IN
    /\ task[t].pc = "authenticate"
    /\ task' = [task EXCEPT ![t] = [@ EXCEPT !.read = r,
                  !.pc = IF r.status # "active" \/ r.pw # task[t].pw THEN "wrong"
                         ELSE IF r.outdated THEN "rehash" ELSE "open"]]
    /\ UNCHANGED <<scene, tables, limiter, fresh, ghosts>>

\* ... and its upgrade of the stored hash: an UPDATE by id.
Rehash(t) ==
    LET o == task[t].of IN
    /\ task[t].pc = "rehash"
    /\ user' = IF There(o) THEN [user EXCEPT ![o] = [@ EXCEPT !.pw = task[t].pw, !.outdated = FALSE]] ELSE user
    /\ undone' = IF There(o) /\ user[o].pw # task[t].pw THEN undone \cup {o} ELSE undone
    /\ task' = [task EXCEPT ![t].pc = "open"]
    /\ UNCHANGED <<scene, code, sess, limiter, fresh, proved>>

\* start_session: an active row, or a pending one while a factor, or its enrolment,
\* is owed.  `late` remembers that the row had changed since it was read.
OpenSession(t) ==
    LET q == task[t]
        r == user[q.of]
        half == q.read.totp # NoSecret \/ scene.require
    IN /\ q.pc = "open"
       /\ \/ /\ There(q.of)
             /\ \E s \in Minted :
                      sess' = [sess EXCEPT ![s] = [NoSess EXCEPT
                                 !.state = IF half THEN "pending" ELSE "active", !.of = q.of, !.pw = q.pw,
                                 !.totp = NoSecret,
                                 !.late = \/ r.pw # q.pw \/ r.status # "active"
                                          \/ r.totp # q.read.totp]]
             /\ IF half THEN Over(t) ELSE task' = [task EXCEPT ![t].pc = "clear"] /\ owed' = owed
          \/ ~There(q.of) /\ Over(t) /\ sess' = sess
       /\ UNCHANGED <<scene, user, code, bucket, lent, fresh, ghosts>>

\* record_success, and the attempt is dropped.
ClearFailures(t) ==
    /\ task[t].pc = "clear"
    /\ bucket' = IF scene.address THEN [bucket EXCEPT !.failures = 0] ELSE bucket
    /\ Over(t)
    /\ UNCHANGED <<scene, tables, lent, fresh, ghosts>>

-----------------------------------------------------------------------------
(* Requests under a session.                                                *)

\* resolve_live finds the session's row ...
Present(t, s, op) ==
    /\ task[t].pc = "free" /\ op \in scene.ops
    /\ Live(s)
    /\ op = "code" => sess[s].state = "pending"
    /\ op \in {"unenrol", "recodes", "passwd"} => sess[s].state = "active"
    /\ task' = [task EXCEPT ![t] = [Idle EXCEPT !.pc = "owner", !.op = op, !.of = sess[s].of, !.sess = s,
                                                !.half = sess[s].state = "pending"]]
    /\ UNCHANGED <<scene, tables, limiter, fresh, ghosts>>

\* What the handler does first, once it has the row.  Enrolment of an operator who
\* owes a code is refused (EnrolWrite); changes to a factor there is need the password.
Entry(q, r) ==
    IF q.op \in {"enrol", "confirm"} /\ q.half /\ r.totp # NoSecret THEN "refuse" ELSE
    CASE q.op = "code" -> "begin"
      [] q.op = "confirm" -> IF r.pending = NoSecret THEN "refuse" ELSE "confirm"
      [] q.op = "enrol" -> IF r.totp = NoSecret THEN "enrol" ELSE "begin"
      [] q.op = "unenrol" -> IF scene.require THEN "refuse" ELSE IF r.totp = NoSecret THEN "write" ELSE "begin"
      [] q.op = "recodes" -> IF r.totp = NoSecret THEN "refuse" ELSE "begin"
      [] q.op = "passwd" -> "begin"

\* ... and then its owner's, who must be active.
FindOwner(t) ==
    LET r == user[task[t].of] IN
    /\ task[t].pc = "owner"
    /\ IF r.status # "active" \/ Entry(task[t], r) = "refuse"
       THEN task' = [task EXCEPT ![t] = Idle]
       ELSE task' = [task EXCEPT ![t] = [@ EXCEPT !.read = r, !.pc = Entry(task[t], r)]]
    /\ UNCHANGED <<scene, tables, limiter, fresh, ghosts>>

\* verify_current_password against the hash that was read; settled before it returns.
Prove(t, right) ==
    /\ task[t].pc = "prove"
    /\ Settled(task[t].slot, IF right THEN 0 ELSE 1)
    /\ task' = IF ~right THEN [task EXCEPT ![t] = Idle]
               ELSE [task EXCEPT ![t] = [@ EXCEPT !.slot = NoSlot,
                       !.pc = CASE task[t].op = "enrol" -> "enrol" [] task[t].op = "recodes" -> "codes"
                                [] OTHER -> "write"]]
    /\ UNCHANGED <<scene, tables, owed, fresh, ghosts>>

-----------------------------------------------------------------------------
(* The second factor.                                                       *)

\* The steps whose code totp::verify accepts: the one the clock is in and its two
\* neighbours, so that two steps are accepted at once and in either order.
Window == 0..MaxStep

\* verify_second_factor against the secret that was read: a code of some step, one
\* of the unused recovery codes, or neither.
Verify(t) ==
    /\ task[t].pc = "verify"
    /\ \/ task' = [task EXCEPT ![t].pc = "wrong"]
       \/ /\ task[t].read.totp # NoSecret
          /\ \/ \E k \in Window : task' = [task EXCEPT ![t] = [@ EXCEPT !.pc = "claim", !.step = k]]
             \/ \E c \in Code : /\ code[c] = [state |-> "unused", of |-> task[t].of]
                                /\ task' = [task EXCEPT ![t] = [@ EXCEPT !.pc = "consume", !.code = c]]
    /\ UNCHANGED <<scene, tables, limiter, fresh, ghosts>>

\* Mutant of Claimable: the guard against replay is left to the caller.
ClaimableAgain(o, k) == There(o)

\* AdminUser::claim_totp_step, one conditional UPDATE.
Claimable(o, k) == There(o) /\ user[o].last < k

ClaimStep(t) ==
    LET q == task[t] IN
    /\ q.pc = "claim"
    /\ IF Claimable(q.of, q.step)
       THEN /\ user' = [user EXCEPT ![q.of].last = q.step]
            /\ task' = [task EXCEPT ![t].pc = "promote"]
            /\ proved' = IF user[q.of].totp # q.read.totp \/ proved[q.read.totp][q.step] = 2 THEN proved
                         ELSE [proved EXCEPT ![q.read.totp] = [@ EXCEPT ![q.step] = proved[q.read.totp][q.step] + 1]]
       ELSE task' = [task EXCEPT ![t].pc = "wrong"] /\ UNCHANGED <<user, proved>>
    /\ UNCHANGED <<scene, code, sess, limiter, fresh, undone>>

\* AdminRecoveryCode::consume, WHERE used_at IS NULL.
Consume(t) ==
    LET c == task[t].code IN
    /\ task[t].pc = "consume"
    /\ IF code[c].state = "unused"
       THEN code' = [code EXCEPT ![c].state = "spent"] /\ task' = [task EXCEPT ![t].pc = "promote"]
       ELSE code' = code /\ task' = [task EXCEPT ![t].pc = "wrong"]
    /\ UNCHANGED <<scene, user, sess, limiter, fresh, ghosts>>

\* LoginAttempt::failed.
Fail(t) ==
    /\ task[t].pc = "wrong"
    /\ Settled(task[t].slot, 1)
    /\ task' = IF task[t].op = "signin" THEN [task EXCEPT ![t] = Idle]
               ELSE [task EXCEPT ![t] = [@ EXCEPT !.pc = "count", !.slot = NoSlot]]
    /\ UNCHANGED <<scene, tables, owed, fresh, ghosts>>

\* AdminSession::record_mfa_failure, an UPDATE ... RETURNING.  A count past the cap is
\* no different from one that has reached it.
CountFailure(t) ==
    LET s == task[t].sess IN
    /\ task[t].pc = "count"
    /\ IF Live(s)
       THEN /\ sess' = [sess EXCEPT ![s].fails = IF @ < MaxAttempts THEN @ + 1 ELSE @]
            /\ task' = [task EXCEPT ![t] = IF sess[s].fails + 1 >= MaxAttempts
                                           THEN [@ EXCEPT !.pc = "evict"] ELSE Idle]
       ELSE sess' = sess /\ task' = [task EXCEPT ![t] = Idle]
    /\ UNCHANGED <<scene, user, code, limiter, fresh, ghosts>>

Ended(gone) == [s \in Session |-> IF s \in gone /\ Live(s) THEN [NoSess EXCEPT !.state = "gone"] ELSE sess[s]]

\* The session has had its last guess.
Evict(t) ==
    /\ task[t].pc = "evict"
    /\ sess' = Ended({task[t].sess})
    /\ task' = [task EXCEPT ![t] = Idle]
    /\ UNCHANGED <<scene, user, code, limiter, fresh, ghosts>>

\* AdminSession::promote, one transaction: the pending row goes, an active one comes.
\* The session is good for the password it began with and the secret just proved.
Promote(t) ==
    LET q == task[t] IN
    /\ q.pc = "promote"
    /\ \/ /\ sess[q.sess].state = "pending"
          /\ \E s \in Minted :
                   sess' = [Ended({q.sess}) EXCEPT ![s] =
                              [sess[q.sess] EXCEPT !.state = "active", !.from = q.sess, !.fails = 0,
                                 !.totp = IF q.op = "code" THEN q.read.totp ELSE @]]
          /\ task' = [task EXCEPT ![t].pc = "clear"] /\ owed' = owed
       \/ sess[q.sess].state # "pending" /\ Over(t) /\ sess' = sess
    /\ UNCHANGED <<scene, user, code, bucket, lent, fresh, ghosts>>

-----------------------------------------------------------------------------
(* Enrolment.                                                               *)

\* resume_or_begin_totp_enrolment: what was pending when the row was read is shown
\* again, otherwise a secret is minted and stored.
BeginTotp(t) ==
    LET o == task[t].of IN
    /\ task[t].pc = "enrol"
    /\ \/ task[t].read.pending # NoSecret /\ UNCHANGED <<user, fresh>>
       \/ /\ task[t].read.pending = NoSecret
          /\ \E x \in AnyOf(fresh) :
                /\ fresh' = fresh \ {x}
                /\ user' = IF There(o) THEN [user EXCEPT ![o].pending = x] ELSE user
    /\ task' = [task EXCEPT ![t] = Idle]
    /\ UNCHANGED <<scene, code, sess, limiter, ghosts>>

\* confirm_totp_enrolment: a code of the pending secret that was read, or not.  The
\* UPDATE moves whatever is pending now; the session that asked is good for it.  Under
\* a half session it may overwrite the factor another request just confirmed there.
ConfirmTotp(t) ==
    LET q == task[t]
        moves == There(q.of) /\ user[q.of].pending # NoSecret
    IN /\ q.pc = "confirm"
       /\ \/ task' = [task EXCEPT ![t] = Idle] /\ UNCHANGED <<user, sess, undone>>
          \/ \E k \in Window :
                /\ user' = IF ~moves THEN user
                           ELSE [user EXCEPT ![q.of] = [@ EXCEPT !.totp = user[q.of].pending,
                                                                 !.pending = NoSecret, !.last = NoStep]]
                /\ sess' = IF moves /\ Live(q.sess) THEN [sess EXCEPT ![q.sess].totp = user[q.of].pending] ELSE sess
                /\ undone' = IF moves /\ q.half /\ user[q.of].totp # NoSecret THEN undone \cup {q.of} ELSE undone
                /\ task' = [task EXCEPT ![t] = [@ EXCEPT !.pc = "claimfirst", !.step = k]]
       /\ UNCHANGED <<scene, code, limiter, fresh, proved>>

\* The code that proved the enrolment is claimed, a statement after the factor stands
\* and whether or not it still can be: a sign-in in between may have used it.
ClaimFirst(t) ==
    LET o == task[t].of IN
    /\ task[t].pc = "claimfirst"
    /\ user' = IF Claimable(o, task[t].step) THEN [user EXCEPT ![o].last = task[t].step] ELSE user
    /\ task' = [task EXCEPT ![t].pc = "codes"]
    /\ UNCHANGED <<scene, code, sess, limiter, fresh, ghosts>>

Dropped(o) == [c \in Code |-> IF code[c].of = o /\ code[c].state # "unborn"
                              THEN [code[c] EXCEPT !.state = "gone"] ELSE code[c]]

\* AdminRecoveryCode::replace_all, and delete_for_user when the factor went.
ReplaceCodes(t) ==
    LET q == task[t] IN
    /\ q.pc = "codes"
    /\ LET new == IF q.op \in {"confirm", "recodes"} /\ There(q.of)
                  THEN AnyOf({c \in Code : code[c].state = "unborn"}) ELSE {}
       IN code' = [c \in Code |-> IF c \in new THEN [state |-> "unused", of |-> q.of] ELSE Dropped(q.of)[c]]
    /\ task' = [task EXCEPT ![t] = IF q.op = "recodes" THEN Idle ELSE [@ EXCEPT !.pc = "revoke"]]
    /\ UNCHANGED <<scene, user, sess, limiter, fresh, ghosts>>

-----------------------------------------------------------------------------
(* Changes, and the revocation that follows them.                           *)

\* From the console, or from an administrator whose own password was asked for.
Change(t, o, op, p) ==
    /\ task[t].pc = "free" /\ op \in scene.ops
    /\ There(o) /\ o \in scene.who
    /\ op = "reset" => user[o].totp # NoSecret \/ user[o].pending # NoSecret
    /\ task' = [task EXCEPT ![t] = [Idle EXCEPT !.pc = IF op = "demote" /\ user[o].admin THEN "admins" ELSE "write",
                                                !.op = op, !.of = o, !.pw = IF op = "setpw" THEN p ELSE @]]
    /\ UNCHANGED <<scene, tables, limiter, fresh, ghosts>>

\* apply_role counts the admins before it takes one away.
CountAdmins(t) ==
    /\ task[t].pc = "admins"
    /\ task' = [task EXCEPT ![t] = IF Cardinality({o \in Operator : There(o) /\ user[o].admin}) <= 1
                                   THEN Idle ELSE [@ EXCEPT !.pc = "write"]]
    /\ UNCHANGED <<scene, tables, limiter, fresh, ghosts>>

\* The UPDATE of each change, by id.  A password or factor changed under a session
\* is what that session is good for from then on.
Written(op, row, p) ==
    CASE op \in {"passwd", "setpw"} -> [row EXCEPT !.pw = p, !.outdated = FALSE]
      [] op \in {"unenrol", "reset"} -> [row EXCEPT !.totp = NoSecret, !.pending = NoSecret, !.last = NoStep]
      [] op = "disable" -> [row EXCEPT !.status = "disabled"]
      [] op = "enable" -> [row EXCEPT !.status = "active"]
      [] op \in {"demote", "appoint"} -> [row EXCEPT !.admin = (op = "appoint")]

Write(t) ==
    LET q == task[t] IN
    /\ q.pc = "write"
    /\ \E p \in IF q.op = "passwd" THEN Password ELSE {q.pw} :
          /\ user' = IF There(q.of) THEN [user EXCEPT ![q.of] = Written(q.op, @, p)] ELSE user
          /\ sess' = IF q.sess = NoSession \/ ~There(q.of) THEN sess
                     ELSE IF ~Live(q.sess) THEN sess
                     ELSE IF q.op = "passwd" THEN [sess EXCEPT ![q.sess].pw = p]
                     ELSE [sess EXCEPT ![q.sess].totp = NoSecret]
    /\ task' = [task EXCEPT ![t] = CASE q.op = "enable" -> Idle
                                     [] q.op \in {"unenrol", "reset"} -> [@ EXCEPT !.pc = "codes"]
                                     [] OTHER -> [@ EXCEPT !.pc = "revoke"]]
    /\ UNCHANGED <<scene, code, limiter, fresh, ghosts>>

\* Mutant of Revocable: a half session is nobody's yet.
RevocableActive(o, keep) == {s \in Session : sess[s].state = "active" /\ sess[s].of = o /\ s # keep}

\* AdminSession::delete_for_user and delete_for_user_except.
Revocable(o, keep) == {s \in Session : Live(s) /\ sess[s].of = o /\ s # keep}

Revoke(t) ==
    LET q == task[t] IN
    /\ q.pc = "revoke"
    /\ sess' = Ended(Revocable(q.of, q.sess))
    /\ task' = [task EXCEPT ![t] = IF q.op = "confirm" /\ q.half THEN [@ EXCEPT !.pc = "promote"] ELSE Idle]
    /\ UNCHANGED <<scene, user, code, limiter, fresh, ghosts>>

\* AdminUser::delete cascades to the sessions and the codes.
DeleteOperator(o) ==
    /\ There(o) /\ o \in scene.who /\ "delete" \in scene.mishaps
    /\ user' = [user EXCEPT ![o] = [NewUser EXCEPT !.status = "deleted", !.admin = FALSE]]
    /\ sess' = Ended({s \in Session : sess[s].of = o})
    /\ code' = Dropped(o)
    /\ UNCHANGED <<scene, limiter, fresh, ghosts, task>>

\* A sign-out, a revocation by hand, expiry, idling, or a sign-in that carried it.
EndSession(s) ==
    /\ Live(s) /\ "end" \in scene.mishaps
    /\ sess' = Ended({s})
    /\ UNCHANGED <<scene, user, code, limiter, fresh, ghosts, task>>

-----------------------------------------------------------------------------
(* Failure.                                                                 *)

\* A change that stops here has been made, and its sessions are not revoked.
Unrevoked(t) == task[t].pc \in {"claimfirst", "codes", "revoke"} /\ task[t].op # "recodes"

\* A statement fails, or the client goes away and the request's future is dropped.
Cancel(t) ==
    /\ task[t].pc # "free" /\ "cancel" \in scene.mishaps
    /\ Over(t)
    /\ undone' = IF Unrevoked(t) THEN undone \cup {task[t].of} ELSE undone
    /\ UNCHANGED <<scene, tables, bucket, lent, fresh, proved>>

\* The process dies, and with it the slots of its attempts.
Die ==
    /\ "die" \in scene.mishaps
    /\ \E t \in Task : task[t].pc # "free"
    /\ task' = [t \in Task |-> Idle]
    /\ owed' = [w \in 1..MaxWindows |-> 0]
    /\ undone' = undone \cup {task[t].of : t \in {u \in Task : Unrevoked(u)}}
    /\ UNCHANGED <<scene, tables, bucket, lent, fresh, proved>>

-----------------------------------------------------------------------------
TaskStep(t) ==
    \/ \E o \in Operator, p \in Password : SignIn(t, o, p) \/ \E op \in ChangeOp : Change(t, o, op, p)
    \/ \E s \in Session, op \in SessionOp : Present(t, s, op)
    \/ BeginAttempt(t) \/ Authenticate(t) \/ Rehash(t) \/ OpenSession(t) \/ ClearFailures(t)
    \/ FindOwner(t) \/ \E right \in BOOLEAN : Prove(t, right)
    \/ Verify(t) \/ ClaimStep(t) \/ Consume(t) \/ Fail(t) \/ CountFailure(t) \/ Evict(t) \/ Promote(t)
    \/ BeginTotp(t) \/ ConfirmTotp(t) \/ ClaimFirst(t) \/ ReplaceCodes(t)
    \/ CountAdmins(t) \/ Write(t) \/ Revoke(t)
    \/ Cancel(t)

AdminNext ==
    \/ \E t \in Task : TaskStep(t)
    \/ \E w \in 1..MaxWindows : ReleaseDropped(w)
    \/ WindowRunsOut \/ CleanupBuckets
    \/ \E o \in Operator : DeleteOperator(o)
    \/ \E s \in Session : EndSession(s)
    \/ Die

AdminSpec == AdminInit /\ [][AdminNext]_adminVars

-----------------------------------------------------------------------------
(* Properties.                                                              *)

TaskPC == {"free", "begin", "authenticate", "rehash", "open", "clear", "owner", "prove", "verify",
           "claim", "consume", "wrong", "count", "evict", "promote", "enrol", "confirm",
           "claimfirst", "codes", "admins", "write", "revoke"}
UserRow == [status : {"active", "disabled", "deleted"}, admin : BOOLEAN, pw : Password,
            outdated : BOOLEAN, totp : Secret \cup {NoSecret}, pending : Secret \cup {NoSecret},
            last : {NoStep} \cup 0..MaxStep]

\* Every table has its type; a request that proves a factor has read one, and one
\* that holds a slot of the limiter holds it in a window that has begun.
AdminTypeOK ==
    /\ user \in [Operator -> UserRow]
    /\ code \in [Code -> [state : {"unborn", "unused", "spent", "gone"}, of : Operator]]
    /\ sess \in [Session -> [state : {"unborn", "pending", "active", "gone"}, of : Operator,
                             from : Session \cup {NoSession}, fails : 0..MaxAttempts, pw : Password,
                             totp : Secret \cup {NoSecret}, late : BOOLEAN]]
    /\ bucket \in [row : BOOLEAN, failures : Nat, flight : Nat, window : 0..MaxWindows, open : BOOLEAN]
    /\ owed \in [1..MaxWindows -> Nat] /\ lent \in Nat
    /\ fresh \subseteq Secret /\ undone \subseteq Operator
    /\ task \in [Task -> [pc : TaskPC, op : Op, of : Operator, pw : Password, read : UserRow,
                          sess : Session \cup {NoSession}, half : BOOLEAN, slot : 0..MaxWindows,
                          step : {NoStep} \cup 0..MaxStep, code : Code \cup {NoCode}]]
    /\ \A t \in Task : /\ task[t].pc \in {"claim", "consume"} => task[t].read.totp # NoSecret
                       /\ task[t].slot <= bucket.window
                       /\ task[t].pc \in {"count", "evict", "promote"} => task[t].sess \in Session

\* The budget of an address: failures and attempts under way in this window never
\* pass login_max_attempts, however many requests arrive at once, are dropped or die
\* with their process, but for the slots that attempts of an earlier window gave back.
LimiterHolds ==
    LET w == bucket.window IN
    w > 0 => bucket.failures + Cardinality({t \in Task : task[t].slot = w}) + owed[w] <= MaxAttempts + lent

\* A code of the current factor completes one sign-in and a half session becomes one
\* session, however many submissions race, and whatever is enrolled or reset meanwhile.
\* (Confirming an enrolment with a code is not a sign-in.)
SpentOnce ==
    /\ \A x \in Secret : \A k \in 0..MaxStep : proved[x][k] <= 1
    /\ \A s \in Session : Cardinality({n \in Session : Live(n) /\ sess[n].from = s}) <= 1

\* Once a change of password, factor or status has revoked what it revokes, every
\* active session of the operator was opened with the password and proved with the
\* factor that now stand: of the sessions that were there, half ones included, none
\* comes through.  Left out are sign-ins that inserted their session after the row
\* they had read was changed (late), and operators a change of whom was cut short
\* before its revocation or overwritten by a rehash or a second enrolment (undone).
RevocationHolds ==
    \A s \in Session :
        LET o == sess[s].of IN
        (/\ sess[s].state = "active" /\ ~sess[s].late /\ o \notin undone
         /\ ~\E t \in Task : task[t].of = o /\ Unrevoked(t))
        => /\ user[o].status = "active"
           /\ user[o].pw = sess[s].pw
           /\ user[o].totp = sess[s].totp

=============================================================================
