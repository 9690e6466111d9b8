----------------------------- MODULE AdminProofs -----------------------------
(***************************************************************************)
(* Theorems about AdminAccess, for any number of operators, requests,      *)
(* sessions, secrets and codes, any scene and any budget of the limiter.   *)
(***************************************************************************)
EXTENDS AdminAccess, FiniteSetTheorems, TLAPS

-----------------------------------------------------------------------------
(* Types, and which requests are at which statement.                        *)

TaskRow == [pc : TaskPC, op : Op, of : Operator, pw : Password, read : UserRow,
            sess : Session \cup {NoSession}, half : BOOLEAN, slot : 0..MaxWindows,
            step : {NoStep} \cup 0..MaxStep, code : Code \cup {NoCode}]
SessRow == [state : {"unborn", "pending", "active", "gone"}, of : Operator,
            from : Session \cup {NoSession}, fails : 0..MaxAttempts, pw : Password,
            totp : Secret \cup {NoSecret}, late : BOOLEAN]
CodeRow == [state : {"unborn", "unused", "spent", "gone"}, of : Operator]
BucketRow == [row : BOOLEAN, failures : Nat, flight : Nat, window : 0..MaxWindows, open : BOOLEAN]

\* The operations a request can be of at each statement.
OpsAt(pc) ==
    CASE pc \in {"authenticate", "rehash", "open"} -> {"signin"}
      [] pc = "owner" -> SessionOp
      [] pc = "begin" -> {"signin", "code", "enrol", "unenrol", "recodes", "passwd"}
      [] pc = "prove" -> {"enrol", "unenrol", "recodes", "passwd"}
      [] pc \in {"verify", "claim", "consume", "count", "evict"} -> {"code"}
      [] pc = "wrong" -> {"signin", "code"}
      [] pc \in {"confirm", "claimfirst"} -> {"confirm"}
      [] pc = "enrol" -> {"enrol"}
      [] pc = "codes" -> {"confirm", "recodes", "unenrol", "reset"}
      [] pc = "write" -> {"unenrol", "passwd"} \cup ChangeOp
      [] pc = "revoke" -> {"confirm", "unenrol", "passwd"} \cup ChangeOp
      [] pc = "promote" -> {"code", "confirm"}
      [] pc = "clear" -> {"signin", "code", "confirm"}
      [] pc = "admins" -> {"demote"}
      [] OTHER -> Op

\* What a request at its statement has read, and under which session it runs.
Placed(x) ==
    /\ x.op \in OpsAt(x.pc)
    /\ x.op \in SessionOp <=> x.sess \in Session
    /\ x.pc \in {"claim", "consume"} \/ (x.pc = "promote" /\ x.op = "code") => x.read.totp # NoSecret
    /\ x.pc \in {"claim", "claimfirst"} => x.step \in 0..MaxStep
    /\ x.pc = "consume" => x.code \in Code

UserOK == user \in [Operator -> UserRow]
CodeOK == code \in [Code -> CodeRow]
SessOK == sess \in [Session -> SessRow]
LimiterOK == /\ bucket \in BucketRow /\ owed \in [1..MaxWindows -> Nat] /\ lent \in Nat
             /\ bucket.open => bucket.row
GhostOK == /\ fresh \subseteq Secret /\ undone \subseteq Operator
           /\ proved \in [Secret -> [0..MaxStep -> Nat]]
SceneOK == scene \in Scenes
TaskOK == task \in [Task -> TaskRow] /\ \A t \in Task : Placed(task[t])
SlotOK == \A t \in Task : task[t].slot <= bucket.window

Typed == UserOK /\ CodeOK /\ SessOK /\ LimiterOK /\ GhostOK /\ SceneOK /\ TaskOK /\ SlotOK

LEMMA RowsOK ==
    ASSUME AdminAssumption
    PROVE  /\ NewUser \in UserRow /\ NoSess \in SessRow /\ NoRecovery \in CodeRow /\ Idle \in TaskRow
           /\ Idle.pc = "free" /\ Idle.sess = NoSession /\ Idle.slot = 0 /\ Placed(Idle)
  <1>1. (CHOOSE o \in Operator : TRUE) \in Operator /\ (CHOOSE p \in Password : TRUE) \in Password
    BY DEF AdminAssumption
  <1>2. 0 \in 0..MaxAttempts /\ 0 \in 0..MaxWindows
    BY DEF AdminAssumption
  <1>3. NewUser \in UserRow
    BY <1>1 DEF NewUser, UserRow
  <1>4. NoSess \in SessRow /\ NoRecovery \in CodeRow
    BY <1>1, <1>2 DEF NoSess, SessRow, NoRecovery, CodeRow
  <1>5. Idle \in TaskRow
    BY <1>1, <1>2, <1>3 DEF Idle, TaskRow, TaskPC, Op, NoSlot
  <1>6. Idle.pc = "free" /\ Idle.op = "signin" /\ Idle.sess = NoSession /\ Idle.slot = 0
    BY DEF Idle, NoSlot
  <1>7. Placed(Idle)
    BY <1>6 DEF Placed, OpsAt, Op, SessionOp, AdminAssumption
  <1> QED  BY <1>3, <1>4, <1>5, <1>6, <1>7

\* Any request but one that goes on where the operations allow it.
LEMMA MovedOK ==
    ASSUME NEW x \in TaskRow, Placed(x), NEW pc \in TaskPC, x.op \in OpsAt(pc),
           pc \notin {"claim", "claimfirst", "consume", "promote"}
    PROVE  [x EXCEPT !.pc = pc] \in TaskRow /\ Placed([x EXCEPT !.pc = pc])
  <1>1. [x EXCEPT !.pc = pc] \in TaskRow
    BY DEF TaskRow
  <1>2. [x EXCEPT !.pc = pc].pc = pc /\ [x EXCEPT !.pc = pc].op = x.op /\ [x EXCEPT !.pc = pc].sess = x.sess
    BY DEF TaskRow
  <1> QED  BY <1>1, <1>2 DEF Placed

LEMMA LimiterTyped ==
    ASSUME AdminAssumption, Typed, [AdminNext]_adminVars
    PROVE  LimiterOK' /\ bucket'.window >= bucket.window
  <1> USE DEF Typed
  <1>0. /\ bucket \in BucketRow /\ bucket.window \in 0..MaxWindows /\ bucket.failures \in Nat /\ bucket.flight \in Nat
        /\ MaxWindows \in Nat
    BY DEF LimiterOK, BucketRow, AdminAssumption
  <1>i. bucket.window >= bucket.window
    BY <1>0
  <1>u. ASSUME UNCHANGED limiter PROVE LimiterOK' /\ bucket'.window >= bucket.window
    BY <1>u, <1>i DEF limiter, LimiterOK
  <1>o. ASSUME NEW t \in Task, Over(t), bucket' = bucket \/ bucket' = [bucket EXCEPT !.failures = 0], lent' = lent
        PROVE  LimiterOK' /\ bucket'.window >= bucket.window
    <2>1. owed' \in [1..MaxWindows -> Nat]
      <3>1. task[t].slot \in 0..MaxWindows
        BY DEF TaskOK, TaskRow
      <3>2. CASE task[t].slot = NoSlot
        BY <1>o, <3>2 DEF Over, LimiterOK
      <3>3. CASE task[t].slot # NoSlot
        <4>1. task[t].slot \in 1..MaxWindows
          BY <1>0, <3>1, <3>3 DEF NoSlot
        <4>2. owed' = [owed EXCEPT ![task[t].slot] = owed[task[t].slot] + 1]
          BY <1>o, <3>3 DEF Over
        <4> QED  BY <4>1, <4>2 DEF LimiterOK
      <3> QED  BY <3>2, <3>3
    <2>2. bucket' \in BucketRow /\ bucket'.window = bucket.window /\ (bucket'.open => bucket'.row)
      BY <1>o DEF LimiterOK, BucketRow
    <2> QED  BY <1>0, <1>o, <2>1, <2>2 DEF LimiterOK
  <1>s. ASSUME NEW w, NEW n \in {0, 1}, Settled(w, n), owed' \in [1..MaxWindows -> Nat]
        PROVE  LimiterOK' /\ bucket'.window >= bucket.window
    <2>1. CASE bucket' = bucket
      BY <1>s, <1>i, <2>1 DEF Settled, LimiterOK
    <2>2. ASSUME bucket' = [bucket EXCEPT !.flight = IF @ > 0 THEN @ - 1 ELSE 0, !.failures = @ + n]
          PROVE  LimiterOK' /\ bucket'.window >= bucket.window
      <3> DEFINE f == IF bucket.flight > 0 THEN bucket.flight - 1 ELSE 0
      <3>1. f \in Nat /\ bucket.failures + n \in Nat
        BY <1>0
      <3>2. bucket' = [bucket EXCEPT !.flight = f, !.failures = bucket.failures + n]
        BY <2>2
      <3> HIDE DEF f
      <3>3. bucket' \in BucketRow /\ bucket'.window = bucket.window /\ bucket'.open = bucket.open /\ bucket'.row = bucket.row
        BY <1>0, <3>1, <3>2 DEF BucketRow
      <3>4. lent' \in Nat
        BY <1>s DEF Settled, LimiterOK
      <3> QED  BY <1>0, <1>s, <3>3, <3>4 DEF LimiterOK
    <2> QED  BY <1>s, <2>1, <2>2 DEF Settled
  <1>1. ASSUME NEW t \in Task, BeginAttempt(t) PROVE LimiterOK' /\ bucket'.window >= bucket.window
    <2>1. CASE UNCHANGED limiter
      BY <1>u, <2>1
    <2>2. ASSUME NEW pc, Begin(t, pc), ~UNCHANGED limiter PROVE LimiterOK' /\ bucket'.window >= bucket.window
      <3>1. /\ bucket.open \/ bucket.window < MaxWindows
            /\ bucket' = Reserved /\ owed' = owed /\ lent' \in {lent, 0}
        BY <2>2 DEF Begin
      <3>2. CASE bucket.row /\ bucket.open
        <4>1. bucket' = [bucket EXCEPT !.flight = bucket.flight + 1] /\ bucket.flight + 1 \in Nat
          BY <1>0, <3>1, <3>2 DEF Reserved
        <4>2. bucket' \in BucketRow /\ bucket'.window = bucket.window /\ bucket'.row
          BY <1>0, <3>2, <4>1 DEF BucketRow
        <4> QED  BY <1>0, <3>1, <4>2 DEF LimiterOK
      <3>3. CASE ~(bucket.row /\ bucket.open)
        <4>1. bucket.window + 1 \in 0..MaxWindows
          BY <1>0, <3>1, <3>3 DEF LimiterOK
        <4>2. bucket' = [row |-> TRUE, failures |-> 0, flight |-> 1, window |-> bucket.window + 1, open |-> TRUE]
          BY <3>1, <3>3 DEF Reserved
        <4>3. bucket' \in BucketRow /\ bucket'.window = bucket.window + 1 /\ bucket'.row
          BY <4>1, <4>2 DEF BucketRow
        <4> QED  BY <1>0, <3>1, <4>3 DEF LimiterOK
      <3> QED  BY <3>2, <3>3
    <2> QED  BY <1>1, <2>1, <2>2 DEF BeginAttempt
  <1>2. ASSUME NEW t \in Task, OpenSession(t) \/ Promote(t) \/ ClearFailures(t) \/ Cancel(t), ~UNCHANGED limiter
        PROVE  LimiterOK' /\ bucket'.window >= bucket.window
    <2>1. Over(t) /\ (bucket' = bucket \/ bucket' = [bucket EXCEPT !.failures = 0]) /\ lent' = lent
      BY <1>2 DEF OpenSession, Promote, ClearFailures, Cancel, limiter
    <2> QED  BY <1>o, <2>1
  <1>3. ASSUME NEW t \in Task, NEW right \in BOOLEAN, Prove(t, right) \/ Fail(t)
        PROVE  LimiterOK' /\ bucket'.window >= bucket.window
    <2>1. owed' \in [1..MaxWindows -> Nat] /\ \E n \in {0, 1} : Settled(task[t].slot, n)
      BY <1>3 DEF Prove, Fail, LimiterOK
    <2> QED  BY <1>s, <2>1
  <1>4. ASSUME NEW t \in Task, TaskStep(t), ~BeginAttempt(t), ~(OpenSession(t) \/ Promote(t) \/ ClearFailures(t) \/ Cancel(t)),
               ~\E right \in BOOLEAN : Prove(t, right) \/ Fail(t)
        PROVE  UNCHANGED limiter
    BY <1>4 DEF TaskStep, SignIn, Change, Present, Authenticate, Rehash, FindOwner, Verify, ClaimStep, Consume,
                CountFailure, Evict, BeginTotp, ConfirmTotp, ClaimFirst, ReplaceCodes, CountAdmins, Write, Revoke
  <1>5. ASSUME NEW w \in 1..MaxWindows, ReleaseDropped(w) PROVE LimiterOK' /\ bucket'.window >= bucket.window
    <2>1. owed' \in [1..MaxWindows -> Nat]
      BY <1>5 DEF ReleaseDropped, LimiterOK
    <2> QED  BY <1>5, <1>s, <2>1 DEF ReleaseDropped
  <1>6. ASSUME WindowRunsOut \/ CleanupBuckets PROVE LimiterOK' /\ bucket'.window >= bucket.window
    <2>1. bucket' \in BucketRow /\ bucket'.window = bucket.window /\ ~bucket'.open
      <3>1. CASE WindowRunsOut
        BY <1>0, <3>1 DEF WindowRunsOut, BucketRow
      <3>2. CASE CleanupBuckets
        <4>1. bucket' = [bucket EXCEPT !.row = FALSE, !.failures = 0, !.flight = 0] /\ ~bucket.open
          BY <3>2 DEF CleanupBuckets
        <4> QED  BY <1>0, <4>1 DEF BucketRow
      <3> QED  BY <1>6, <3>1, <3>2
    <2> QED  BY <1>0, <1>6, <2>1 DEF WindowRunsOut, CleanupBuckets, LimiterOK
  <1>7. ASSUME Die PROVE LimiterOK' /\ bucket'.window >= bucket.window
    BY <1>7, <1>i DEF Die, LimiterOK
  <1>8. ASSUME (\E o \in Operator : DeleteOperator(o)) \/ (\E s \in Session : EndSession(s)) \/ UNCHANGED adminVars
        PROVE  UNCHANGED limiter
    BY <1>8 DEF DeleteOperator, EndSession, adminVars
  <1> QED  BY <1>u, <1>1, <1>2, <1>3, <1>4, <1>5, <1>6, <1>7, <1>8 DEF AdminNext

\* A statement leaves its request at one it may be at next.
LEMMA TaskMoves ==
    ASSUME AdminAssumption, Typed, NEW t \in Task, TaskStep(t), LimiterOK'
    PROVE  \E x \in TaskRow : /\ Placed(x) /\ task' = [task EXCEPT ![t] = x]
                              /\ x.slot \in {0, task[t].slot} \/ (BeginAttempt(t) /\ x.slot = bucket'.window)
  <1> DEFINE q == task[t]
             Good == \E x \in TaskRow : /\ Placed(x) /\ task' = [task EXCEPT ![t] = x]
                                        /\ x.slot \in {0, task[t].slot} \/ (BeginAttempt(t) /\ x.slot = bucket'.window)
  <1>0. q \in TaskRow /\ Placed(q) /\ task \in [Task -> TaskRow]
    BY DEF Typed, TaskOK
  <1>r. q.of \in Operator /\ user[q.of] \in UserRow /\ q.op \in Op
    BY <1>0 DEF Typed, UserOK, TaskRow
  <1>z. NoSlot = 0 /\ 0 \in 0..MaxWindows
    BY DEF NoSlot, AdminAssumption
  <1>i. ASSUME task' = [task EXCEPT ![t] = Idle] PROVE Good
    BY <1>i, RowsOK
  <1>x. ASSUME NEW x \in TaskRow, Placed(x), task' = [task EXCEPT ![t] = x],
               x.slot \in {0, task[t].slot} \/ (BeginAttempt(t) /\ x.slot = bucket'.window)
        PROVE  Good
    BY <1>x
  <1>p. ASSUME NEW pc \in TaskPC, q.op \in OpsAt(pc), pc \notin {"claim", "claimfirst", "consume", "promote"},
               task' = [task EXCEPT ![t].pc = pc] \/ task' = [task EXCEPT ![t] = [@ EXCEPT !.pc = pc]]
        PROVE  Good
    <2> DEFINE x == [q EXCEPT !.pc = pc]
    <2>1. x \in TaskRow /\ Placed(x)
      BY <1>0, <1>p, MovedOK
    <2>2. task' = [task EXCEPT ![t] = x] /\ x.slot = q.slot
      BY <1>0, <1>p DEF TaskRow
    <2> QED  BY <1>x, <2>1, <2>2
  <1>n. ASSUME NEW x \in TaskRow, x.pc \in TaskPC, x.op \in OpsAt(x.pc), x.op \in SessionOp <=> x.sess \in Session,
               x.pc \notin {"claim", "claimfirst", "consume", "promote"}
        PROVE  Placed(x)
    BY <1>n DEF Placed
  <1>1. ASSUME NEW o \in Operator, NEW p \in Password, SignIn(t, o, p) PROVE Good
    <2> DEFINE x == [Idle EXCEPT !.pc = "begin", !.op = "signin", !.of = o, !.pw = p]
    <2>1. x \in TaskRow /\ x.pc = "begin" /\ x.op = "signin" /\ x.sess = NoSession /\ x.slot = 0
      BY RowsOK DEF TaskRow, TaskPC, Op
    <2>2. task' = [task EXCEPT ![t] = x]
      BY <1>1 DEF SignIn
    <2> HIDE DEF x
    <2>3. Placed(x)
      BY <1>n, <2>1 DEF OpsAt, SessionOp, TaskPC, AdminAssumption
    <2> QED  BY <1>x, <2>1, <2>2, <2>3
  <1>2. ASSUME NEW o \in Operator, NEW p \in Password, NEW op \in ChangeOp, Change(t, o, op, p) PROVE Good
    <2> DEFINE pc == IF op = "demote" /\ user[o].admin THEN "admins" ELSE "write"
               pw == IF op = "setpw" THEN p ELSE Idle.pw
               x == [Idle EXCEPT !.pc = pc, !.op = op, !.of = o, !.pw = pw]
    <2>1. pc \in {"admins", "write"} /\ (pc = "admins" => op = "demote") /\ pw \in Password /\ op \in Op
      BY RowsOK DEF TaskRow, Op
    <2>2. task' = [task EXCEPT ![t] = x]
      BY <1>2 DEF Change
    <2> HIDE DEF pc, pw
    <2>3. x \in TaskRow /\ x.pc = pc /\ x.op = op /\ x.sess = NoSession /\ x.slot = 0
      BY <2>1, RowsOK DEF TaskRow, TaskPC
    <2> HIDE DEF x
    <2>4. Placed(x)
      BY <1>n, <2>1, <2>3 DEF OpsAt, SessionOp, ChangeOp, TaskPC, AdminAssumption
    <2> QED  BY <1>x, <2>2, <2>3, <2>4
  <1>3. ASSUME NEW s \in Session, NEW op \in SessionOp, Present(t, s, op) PROVE Good
    <2> DEFINE half == sess[s].state = "pending"
               x == [Idle EXCEPT !.pc = "owner", !.op = op, !.of = sess[s].of, !.sess = s, !.half = half]
    <2>1. sess[s].of \in Operator /\ half \in BOOLEAN /\ op \in Op
      BY DEF Typed, SessOK, SessRow, Op
    <2>2. task' = [task EXCEPT ![t] = x]
      BY <1>3 DEF Present
    <2> HIDE DEF half
    <2>3. x \in TaskRow /\ x.pc = "owner" /\ x.op = op /\ x.sess = s /\ x.slot = 0
      BY <2>1, RowsOK DEF TaskRow, TaskPC
    <2> HIDE DEF x
    <2>4. Placed(x)
      BY <1>n, <2>3 DEF OpsAt, SessionOp, TaskPC
    <2> QED  BY <1>x, <2>2, <2>3, <2>4
  <1>4. CASE BeginAttempt(t)
    <2> DEFINE pc == IF q.op = "signin" THEN "authenticate" ELSE IF q.op = "code" THEN "verify" ELSE "prove"
    <2>1. pc \in TaskPC /\ q.op \in OpsAt(pc) /\ pc \notin {"claim", "claimfirst", "consume", "promote"}
      BY <1>0, <1>4 DEF BeginAttempt, Placed, OpsAt, TaskPC
    <2>2. Begin(t, pc)
      BY <1>4 DEF BeginAttempt
    <2> HIDE DEF pc
    <2>3. ASSUME task' = [task EXCEPT ![t] = [@ EXCEPT !.pc = pc, !.slot = bucket'.window]] PROVE Good
      <3> DEFINE x == [q EXCEPT !.pc = pc, !.slot = bucket'.window]
      <3>1. bucket'.window \in 0..MaxWindows
        BY DEF LimiterOK, BucketRow
      <3>2. x \in TaskRow /\ x.pc = pc /\ x.op = q.op /\ x.sess = q.sess /\ x.slot = bucket'.window
        BY <1>0, <2>1, <3>1 DEF TaskRow
      <3>3. task' = [task EXCEPT ![t] = x]
        BY <2>3
      <3> HIDE DEF x
      <3>4. Placed(x)
        BY <1>0, <1>n, <2>1, <3>2 DEF Placed
      <3> QED  BY <1>4, <1>x, <3>2, <3>3, <3>4
    <2> QED  BY <1>i, <1>p, <2>1, <2>2, <2>3 DEF Begin
  <1>5. CASE Authenticate(t)
    <2> DEFINE r == user[q.of]
               pc == IF r.status # "active" \/ r.pw # q.pw THEN "wrong" ELSE IF r.outdated THEN "rehash" ELSE "open"
               x == [q EXCEPT !.read = r, !.pc = pc]
    <2>1. pc \in {"wrong", "rehash", "open"} /\ q.op = "signin"
      BY <1>0, <1>5 DEF Authenticate, Placed, OpsAt
    <2>2. task' = [task EXCEPT ![t] = x]
      BY <1>5 DEF Authenticate
    <2> HIDE DEF pc
    <2>3. x \in TaskRow /\ x.pc = pc /\ x.op = q.op /\ x.sess = q.sess /\ x.slot = q.slot
      BY <1>0, <1>r, <2>1 DEF TaskRow, TaskPC
    <2> HIDE DEF x
    <2>4. Placed(x)
      BY <1>0, <1>n, <2>1, <2>3 DEF OpsAt, TaskPC, Placed
    <2> QED  BY <1>x, <2>2, <2>3, <2>4
  <1>6. CASE Rehash(t)
    BY <1>0, <1>6, <1>p DEF Rehash, Placed, OpsAt, TaskPC
  <1>7. CASE OpenSession(t) \/ ClearFailures(t) \/ Cancel(t)
    <2>1. CASE Over(t)
      BY <1>i, <2>1 DEF Over
    <2>2. CASE ~Over(t)
      <3>1. q.op = "signin" /\ task' = [task EXCEPT ![t].pc = "clear"]
        BY <1>0, <1>7, <2>2 DEF OpenSession, ClearFailures, Cancel, Placed, OpsAt
      <3> QED  BY <1>p, <3>1 DEF OpsAt, TaskPC
    <2> QED  BY <2>1, <2>2
  <1>8. CASE FindOwner(t)
    <2> DEFINE r == user[q.of]
               pc == Entry(q, r)
               x == [q EXCEPT !.read = r, !.pc = pc]
    <2>1. ASSUME pc # "refuse", task' = [task EXCEPT ![t] = x] PROVE Good
      <3>1. q.op \in SessionOp /\ q.sess \in Session
        BY <1>0, <1>8 DEF FindOwner, Placed, OpsAt
      <3>2. /\ pc \in {"begin", "confirm", "enrol", "write"} /\ q.op \in OpsAt(pc)
        <4>1. CASE q.op \in {"code", "passwd"}
          BY <4>1 DEF Entry, OpsAt
        <4>2. CASE q.op = "enrol"
          BY <2>1, <4>2 DEF Entry, OpsAt
        <4>4. CASE q.op = "confirm"
          BY <2>1, <4>4 DEF Entry, OpsAt
        <4>3. CASE q.op \in {"unenrol", "recodes"}
          BY <2>1, <4>3 DEF Entry, OpsAt
        <4> QED  BY <3>1, <4>1, <4>2, <4>3, <4>4 DEF SessionOp
      <3> HIDE DEF pc
      <3>3. x \in TaskRow /\ x.pc = pc /\ x.op = q.op /\ x.sess = q.sess /\ x.slot = q.slot
        BY <1>0, <1>r, <3>2 DEF TaskRow, TaskPC
      <3> HIDE DEF x
      <3>4. Placed(x)
        BY <1>n, <3>1, <3>2, <3>3 DEF TaskPC
      <3> QED  BY <1>x, <2>1, <3>3, <3>4
    <2>2. task' = [task EXCEPT ![t] = Idle] \/ (pc # "refuse" /\ task' = [task EXCEPT ![t] = x])
      BY <1>8 DEF FindOwner
    <2> QED  BY <1>i, <2>1, <2>2
  <1>9. ASSUME NEW right \in BOOLEAN, Prove(t, right) PROVE Good
    <2> DEFINE pc == CASE q.op = "enrol" -> "enrol" [] q.op = "recodes" -> "codes" [] OTHER -> "write"
               x == [q EXCEPT !.slot = NoSlot, !.pc = pc]
    <2>1. pc \in {"enrol", "codes", "write"} /\ q.op \in OpsAt(pc)
      BY <1>0, <1>9 DEF Prove, Placed, OpsAt
    <2>2. task' = [task EXCEPT ![t] = Idle] \/ task' = [task EXCEPT ![t] = x]
      BY <1>9 DEF Prove
    <2> HIDE DEF pc
    <2>3. x \in TaskRow /\ x.pc = pc /\ x.op = q.op /\ x.sess = q.sess /\ x.slot = 0
      BY <1>0, <1>z, <2>1 DEF TaskRow, TaskPC
    <2> HIDE DEF x
    <2>4. Placed(x)
      BY <1>0, <1>n, <2>1, <2>3 DEF Placed, TaskPC
    <2> QED  BY <1>i, <1>x, <2>2, <2>3, <2>4
  <1>10. CASE Verify(t)
    <2>1. q.op = "code" /\ q.sess \in Session
      BY <1>0, <1>10 DEF Verify, Placed, OpsAt, SessionOp
    <2>2. CASE task' = [task EXCEPT ![t].pc = "wrong"]
      BY <1>p, <2>1, <2>2 DEF OpsAt, TaskPC
    <2>3. ASSUME q.read.totp # NoSecret, NEW k \in Window, task' = [task EXCEPT ![t] = [@ EXCEPT !.pc = "claim", !.step = k]]
          PROVE  Good
      <3> DEFINE x == [q EXCEPT !.pc = "claim", !.step = k]
      <3>1. /\ x \in TaskRow /\ x.pc = "claim" /\ x.op = q.op /\ x.sess = q.sess /\ x.slot = q.slot
            /\ x.read = q.read /\ x.step = k
        BY <1>0 DEF TaskRow, TaskPC, Window
      <3>2. task' = [task EXCEPT ![t] = x]
        BY <2>3
      <3> HIDE DEF x
      <3>3. Placed(x)
        BY <2>1, <2>3, <3>1 DEF Placed, OpsAt, Window, SessionOp
      <3> QED  BY <1>x, <3>1, <3>2, <3>3
    <2>4. ASSUME q.read.totp # NoSecret, NEW c \in Code, task' = [task EXCEPT ![t] = [@ EXCEPT !.pc = "consume", !.code = c]]
          PROVE  Good
      <3> DEFINE x == [q EXCEPT !.pc = "consume", !.code = c]
      <3>1. /\ x \in TaskRow /\ x.pc = "consume" /\ x.op = q.op /\ x.sess = q.sess /\ x.slot = q.slot
            /\ x.read = q.read /\ x.code = c
        BY <1>0 DEF TaskRow, TaskPC
      <3>2. task' = [task EXCEPT ![t] = x]
        BY <2>4
      <3> HIDE DEF x
      <3>3. Placed(x)
        BY <2>1, <2>4, <3>1 DEF Placed, OpsAt, SessionOp
      <3> QED  BY <1>x, <3>1, <3>2, <3>3
    <2> QED  BY <1>10, <2>2, <2>3, <2>4 DEF Verify
  <1>11. CASE ClaimStep(t) \/ Consume(t)
    <2>1. q.op = "code" /\ q.sess \in Session /\ q.read.totp # NoSecret
      BY <1>0, <1>11 DEF ClaimStep, Consume, Placed, OpsAt, SessionOp
    <2>2. CASE task' = [task EXCEPT ![t].pc = "wrong"]
      BY <1>p, <2>1, <2>2 DEF OpsAt, TaskPC
    <2>3. ASSUME task' = [task EXCEPT ![t].pc = "promote"] PROVE Good
      <3> DEFINE x == [q EXCEPT !.pc = "promote"]
      <3>1. /\ x \in TaskRow /\ x.pc = "promote" /\ x.op = q.op /\ x.sess = q.sess /\ x.slot = q.slot
            /\ x.read = q.read
        BY <1>0 DEF TaskRow, TaskPC
      <3>2. task' = [task EXCEPT ![t] = x]
        BY <1>0, <2>3 DEF TaskRow
      <3> HIDE DEF x
      <3>3. Placed(x)
        BY <2>1, <3>1 DEF Placed, OpsAt, SessionOp
      <3> QED  BY <1>x, <3>1, <3>2, <3>3
    <2> QED  BY <1>11, <2>2, <2>3 DEF ClaimStep, Consume
  <1>12. CASE Fail(t)
    <2> DEFINE x == [q EXCEPT !.pc = "count", !.slot = NoSlot]
    <2>1. q.op \in {"signin", "code"}
      BY <1>0, <1>12 DEF Fail, Placed, OpsAt
    <2>2. task' = [task EXCEPT ![t] = Idle] \/ (q.op = "code" /\ task' = [task EXCEPT ![t] = x])
      BY <1>12, <2>1 DEF Fail
    <2>3. x \in TaskRow /\ x.pc = "count" /\ x.op = q.op /\ x.sess = q.sess /\ x.slot = 0
      BY <1>0, <1>z DEF TaskRow, TaskPC
    <2> HIDE DEF x
    <2>4. q.op = "code" => Placed(x)
      BY <1>0, <1>n, <2>3 DEF Placed, TaskPC, OpsAt
    <2> QED  BY <1>i, <1>x, <2>2, <2>3, <2>4
  <1>13. CASE CountFailure(t) \/ Evict(t)
    <2>1. q.op = "code"
      BY <1>0, <1>13 DEF CountFailure, Evict, Placed, OpsAt
    <2>2. task' = [task EXCEPT ![t] = Idle] \/ task' = [task EXCEPT ![t] = [@ EXCEPT !.pc = "evict"]]
      BY <1>13 DEF CountFailure, Evict
    <2> QED  BY <1>i, <1>p, <2>1, <2>2 DEF OpsAt, TaskPC
  <1>14. CASE Promote(t)
    <2>1. CASE Over(t)
      BY <1>i, <2>1 DEF Over
    <2>2. CASE ~Over(t)
      <3>1. q.op \in {"code", "confirm"} /\ task' = [task EXCEPT ![t].pc = "clear"]
        BY <1>0, <1>14, <2>2 DEF Promote, Placed, OpsAt
      <3> QED  BY <1>p, <3>1 DEF OpsAt, TaskPC
    <2> QED  BY <2>1, <2>2
  <1>15. CASE BeginTotp(t)
    BY <1>i, <1>15 DEF BeginTotp
  <1>16. CASE ConfirmTotp(t)
    <2>1. q.op = "confirm" /\ q.sess \in Session
      BY <1>0, <1>16 DEF ConfirmTotp, Placed, OpsAt, SessionOp
    <2>2. ASSUME NEW k \in Window, task' = [task EXCEPT ![t] = [@ EXCEPT !.pc = "claimfirst", !.step = k]]
          PROVE  Good
      <3> DEFINE x == [q EXCEPT !.pc = "claimfirst", !.step = k]
      <3>1. /\ x \in TaskRow /\ x.pc = "claimfirst" /\ x.op = q.op /\ x.sess = q.sess /\ x.slot = q.slot /\ x.step = k
        BY <1>0 DEF TaskRow, TaskPC, Window
      <3>2. task' = [task EXCEPT ![t] = x]
        BY <2>2
      <3> HIDE DEF x
      <3>3. Placed(x)
        BY <2>1, <3>1 DEF Placed, OpsAt, Window, SessionOp
      <3> QED  BY <1>x, <3>1, <3>2, <3>3
    <2> QED  BY <1>i, <1>16, <2>2 DEF ConfirmTotp
  <1>17. CASE ClaimFirst(t)
    <2>1. q.op = "confirm" /\ task' = [task EXCEPT ![t].pc = "codes"]
      BY <1>0, <1>17 DEF ClaimFirst, Placed, OpsAt
    <2> QED  BY <1>p, <2>1 DEF OpsAt, TaskPC
  <1>18. CASE ReplaceCodes(t) \/ CountAdmins(t)
    <2>1. \/ task' = [task EXCEPT ![t] = Idle]
          \/ q.op \in OpsAt("revoke") /\ task' = [task EXCEPT ![t] = [@ EXCEPT !.pc = "revoke"]]
          \/ q.op \in OpsAt("write") /\ task' = [task EXCEPT ![t] = [@ EXCEPT !.pc = "write"]]
      BY <1>0, <1>18 DEF ReplaceCodes, CountAdmins, Placed, OpsAt, ChangeOp
    <2> QED  BY <1>i, <1>p, <2>1 DEF TaskPC
  <1>19. CASE Write(t)
    <2>1. \/ task' = [task EXCEPT ![t] = Idle]
          \/ q.op \in OpsAt("codes") /\ task' = [task EXCEPT ![t] = [@ EXCEPT !.pc = "codes"]]
          \/ q.op \in OpsAt("revoke") /\ task' = [task EXCEPT ![t] = [@ EXCEPT !.pc = "revoke"]]
      BY <1>0, <1>19 DEF Write, Placed, OpsAt, ChangeOp
    <2> QED  BY <1>i, <1>p, <2>1 DEF TaskPC
  <1>20. CASE Revoke(t)
    <2> DEFINE x == [q EXCEPT !.pc = "promote"]
    <2>1. \/ task' = [task EXCEPT ![t] = Idle]
          \/ q.op = "confirm" /\ task' = [task EXCEPT ![t] = x]
      BY <1>20 DEF Revoke
    <2>2. x \in TaskRow /\ x.pc = "promote" /\ x.op = q.op /\ x.sess = q.sess /\ x.slot = q.slot
      BY <1>0 DEF TaskRow, TaskPC
    <2> HIDE DEF x
    <2>3. q.op = "confirm" => Placed(x)
      BY <1>0, <2>2 DEF Placed, OpsAt
    <2> QED  BY <1>i, <1>x, <2>1, <2>2, <2>3
  <1>21. Good
    BY <1>1, <1>2, <1>3, <1>4, <1>5, <1>6, <1>7, <1>8, <1>9, <1>10, <1>11, <1>12, <1>13, <1>14, <1>15, <1>16,
       <1>17, <1>18, <1>19, <1>20 DEF TaskStep
  <1> QED  BY <1>21

-----------------------------------------------------------------------------
(* Which statements write which table.                                      *)

LEMMA UserSteps ==
    ASSUME [AdminNext]_adminVars
    PROVE  \/ user' = user
           \/ \E t \in Task : \/ Rehash(t) \/ ClaimStep(t) \/ BeginTotp(t) \/ ConfirmTotp(t)
                              \/ ClaimFirst(t) \/ Write(t)
           \/ \E o \in Operator : DeleteOperator(o)
  <1>1. ASSUME NEW t \in Task, TaskStep(t),
               ~(Rehash(t) \/ ClaimStep(t) \/ BeginTotp(t) \/ ConfirmTotp(t) \/ ClaimFirst(t) \/ Write(t))
        PROVE  user' = user
    BY <1>1 DEF TaskStep, SignIn, Change, Present, BeginAttempt, Authenticate, OpenSession, ClearFailures,
                FindOwner, Prove, Verify, Consume, Fail, CountFailure, Evict, Promote, ReplaceCodes,
                CountAdmins, Revoke, Cancel, tables
  <1> QED  BY <1>1 DEF AdminNext, ReleaseDropped, WindowRunsOut, CleanupBuckets, EndSession, Die, adminVars, tables

LEMMA SessSteps ==
    ASSUME [AdminNext]_adminVars
    PROVE  \/ sess' = sess
           \/ \E t \in Task : \/ OpenSession(t) \/ CountFailure(t) \/ Evict(t) \/ Promote(t)
                              \/ ConfirmTotp(t) \/ Write(t) \/ Revoke(t)
           \/ \E o \in Operator : DeleteOperator(o)
           \/ \E s \in Session : EndSession(s)
  <1>1. ASSUME NEW t \in Task, TaskStep(t),
               ~(OpenSession(t) \/ CountFailure(t) \/ Evict(t) \/ Promote(t) \/ ConfirmTotp(t) \/ Write(t) \/ Revoke(t))
        PROVE  sess' = sess
    BY <1>1 DEF TaskStep, SignIn, Change, Present, BeginAttempt, Authenticate, Rehash, ClearFailures,
                FindOwner, Prove, Verify, ClaimStep, Consume, Fail, BeginTotp, ClaimFirst, ReplaceCodes,
                CountAdmins, Cancel, tables
  <1> QED  BY <1>1 DEF AdminNext, ReleaseDropped, WindowRunsOut, CleanupBuckets, Die, adminVars, tables

LEMMA GhostSteps ==
    ASSUME [AdminNext]_adminVars
    PROVE  /\ scene' = scene
           /\ proved' = proved \/ \E t \in Task : ClaimStep(t)
           /\ fresh' = fresh \/ \E t \in Task : BeginTotp(t)
           /\ \/ undone' = undone
              \/ \E t \in Task : Rehash(t) \/ ConfirmTotp(t) \/ Cancel(t)
              \/ Die
           /\ \/ code' = code
              \/ \E t \in Task : Consume(t) \/ ReplaceCodes(t)
              \/ \E o \in Operator : DeleteOperator(o)
  <1>1. ASSUME NEW t \in Task, TaskStep(t)
        PROVE  /\ scene' = scene
               /\ proved' = proved \/ ClaimStep(t)
               /\ fresh' = fresh \/ BeginTotp(t)
               /\ undone' = undone \/ Rehash(t) \/ ConfirmTotp(t) \/ Cancel(t)
               /\ code' = code \/ Consume(t) \/ ReplaceCodes(t)
    <2>1. CASE \/ \E o \in Operator, p \in Password : SignIn(t, o, p) \/ \E op \in ChangeOp : Change(t, o, op, p)
               \/ \E s \in Session, op \in SessionOp : Present(t, s, op)
               \/ BeginAttempt(t) \/ Authenticate(t) \/ Rehash(t) \/ OpenSession(t) \/ ClearFailures(t)
      BY <2>1 DEF SignIn, Change, Present, BeginAttempt, Authenticate, Rehash, OpenSession, ClearFailures, tables, ghosts
    <2>2. CASE \/ FindOwner(t) \/ \E right \in BOOLEAN : Prove(t, right)
               \/ Verify(t) \/ ClaimStep(t) \/ Consume(t) \/ Fail(t) \/ CountFailure(t) \/ Evict(t) \/ Promote(t)
      BY <2>2 DEF FindOwner, Prove, Verify, ClaimStep, Consume, Fail, CountFailure, Evict, Promote, tables, ghosts
    <2>3. CASE \/ BeginTotp(t) \/ ConfirmTotp(t) \/ ClaimFirst(t) \/ ReplaceCodes(t)
               \/ CountAdmins(t) \/ Write(t) \/ Revoke(t) \/ Cancel(t)
      BY <2>3 DEF BeginTotp, ConfirmTotp, ClaimFirst, ReplaceCodes, CountAdmins, Write, Revoke, Cancel, tables, ghosts
    <2> QED  BY <1>1, <2>1, <2>2, <2>3 DEF TaskStep
  <1>2. ASSUME \/ \E w \in 1..MaxWindows : ReleaseDropped(w)
               \/ WindowRunsOut \/ CleanupBuckets \/ (\E s \in Session : EndSession(s)) \/ UNCHANGED adminVars
        PROVE  UNCHANGED <<scene, proved, fresh, undone, code>>
    BY <1>2 DEF ReleaseDropped, WindowRunsOut, CleanupBuckets, EndSession, adminVars, tables, ghosts
  <1>3. ASSUME \E o \in Operator : DeleteOperator(o) PROVE UNCHANGED <<scene, proved, fresh, undone>>
    BY <1>3 DEF DeleteOperator, ghosts
  <1>4. ASSUME Die PROVE UNCHANGED <<scene, proved, fresh, code>>
    BY <1>4 DEF Die, tables
  <1> QED  BY <1>1, <1>2, <1>3, <1>4 DEF AdminNext

-----------------------------------------------------------------------------
(* Typed is inductive.                                                      *)

LEMMA WrittenOK ==
    ASSUME NEW op \in {"unenrol", "passwd"} \cup ChangeOp, NEW row \in UserRow, NEW p \in Password
    PROVE  Written(op, row, p) \in UserRow
  <1>1. CASE op \in {"passwd", "setpw"}
    <2>1. Written(op, row, p) = [row EXCEPT !.pw = p, !.outdated = FALSE]
      BY <1>1 DEF Written
    <2> QED  BY <2>1 DEF UserRow
  <1>2. CASE op \in {"unenrol", "reset"}
    <2>1. Written(op, row, p) = [row EXCEPT !.totp = NoSecret, !.pending = NoSecret, !.last = NoStep]
      BY <1>2 DEF Written
    <2> QED  BY <2>1 DEF UserRow
  <1>3. CASE op \in {"disable", "enable"}
    <2>1. \E st \in {"disabled", "active"} : Written(op, row, p) = [row EXCEPT !.status = st]
      BY <1>3 DEF Written
    <2> QED  BY <2>1 DEF UserRow
  <1>4. CASE op \in {"demote", "appoint"}
    <2>1. \E b \in BOOLEAN : Written(op, row, p) = [row EXCEPT !.admin = b]
      BY <1>4 DEF Written
    <2> QED  BY <2>1 DEF UserRow
  <1> QED  BY <1>1, <1>2, <1>3, <1>4 DEF ChangeOp

LEMMA UserTyped ==
    ASSUME AdminAssumption, Typed, [AdminNext]_adminVars
    PROVE  UserOK'
  <1> USE DEF UserOK
  <1>0. user \in [Operator -> UserRow] /\ \A t \in Task : task[t] \in TaskRow /\ Placed(task[t])
    BY DEF Typed, TaskOK
  <1>w. ASSUME NEW o \in Operator, NEW r \in UserRow, user' = [user EXCEPT ![o] = r] PROVE UserOK'
    BY <1>0, <1>w
  <1>1. ASSUME NEW t \in Task, Rehash(t) PROVE UserOK'
    <2>1. task[t].of \in Operator /\ task[t].pw \in Password
      BY <1>0 DEF TaskRow
    <2>2. ASSUME NEW r \in UserRow, NEW p \in Password
          PROVE  [r EXCEPT !.pw = p, !.outdated = FALSE] \in UserRow
      BY DEF UserRow
    <2> QED  BY <1>0, <1>1, <1>w, <2>1, <2>2 DEF Rehash
  <1>2. ASSUME NEW t \in Task, ClaimStep(t) \/ ClaimFirst(t) PROVE UserOK'
    <2>1. task[t].of \in Operator /\ task[t].step \in 0..MaxStep
      BY <1>0, <1>2 DEF TaskRow, Placed, ClaimStep, ClaimFirst
    <2>2. user' = user \/ user' = [user EXCEPT ![task[t].of].last = task[t].step]
      BY <1>2 DEF ClaimStep, ClaimFirst
    <2> QED  BY <1>0, <2>1, <2>2 DEF UserRow
  <1>3. ASSUME NEW t \in Task, BeginTotp(t) PROVE UserOK'
    <2>1. task[t].of \in Operator
      BY <1>0 DEF TaskRow
    <2>2. user' = user \/ \E x \in Secret : user' = [user EXCEPT ![task[t].of].pending = x]
      BY <1>3 DEF BeginTotp, AnyOf, Typed, GhostOK
    <2>3. ASSUME NEW r \in UserRow, NEW x \in Secret PROVE [r EXCEPT !.pending = x] \in UserRow
      BY DEF UserRow
    <2> QED  BY <1>0, <1>w, <2>1, <2>2, <2>3
  <1>4. ASSUME NEW t \in Task, ConfirmTotp(t) PROVE UserOK'
    <2> DEFINE r == [user[task[t].of] EXCEPT !.totp = user[task[t].of].pending, !.pending = NoSecret, !.last = NoStep]
    <2>1. task[t].of \in Operator
      BY <1>0 DEF TaskRow
    <2>2. r \in UserRow
      <3>1. ASSUME NEW a \in UserRow
            PROVE  [a EXCEPT !.totp = a.pending, !.pending = NoSecret, !.last = NoStep] \in UserRow
        BY DEF UserRow
      <3> QED  BY <1>0, <2>1, <3>1
    <2>3. user' = user \/ user' = [user EXCEPT ![task[t].of] = r]
      BY <1>4 DEF ConfirmTotp
    <2> HIDE DEF r
    <2> QED  BY <1>0, <1>w, <2>1, <2>2, <2>3
  <1>5. ASSUME NEW t \in Task, Write(t) PROVE UserOK'
    <2>1. task[t].of \in Operator /\ task[t].pw \in Password /\ task[t].op \in {"unenrol", "passwd"} \cup ChangeOp
      BY <1>0, <1>5 DEF TaskRow, Write, Placed, OpsAt
    <2>2. user' = user \/ \E p \in Password : user' = [user EXCEPT ![task[t].of] = Written(task[t].op, user[task[t].of], p)]
      BY <1>5, <2>1 DEF Write
    <2>3. \A p \in Password : Written(task[t].op, user[task[t].of], p) \in UserRow
      BY <1>0, <2>1, WrittenOK
    <2> QED  BY <1>0, <1>w, <2>1, <2>2, <2>3
  <1>6. ASSUME NEW o \in Operator, DeleteOperator(o) PROVE UserOK'
    <2>1. [NewUser EXCEPT !.status = "deleted", !.admin = FALSE] \in UserRow
      BY RowsOK DEF UserRow
    <2> QED  BY <1>6, <1>w, <2>1 DEF DeleteOperator
  <1> QED  BY <1>0, <1>1, <1>2, <1>3, <1>4, <1>5, <1>6, UserSteps

\* The sessions that are ended are gone, the others as they were.
LEMMA EndedOK ==
    ASSUME AdminAssumption, SessOK, NEW gone
    PROVE  /\ Ended(gone) \in [Session -> SessRow]
           /\ \A s \in Session : \/ Ended(gone)[s] = sess[s]
                                 \/ /\ s \in gone /\ Live(s)
                                    /\ Ended(gone)[s] = [NoSess EXCEPT !.state = "gone"]
           /\ \A s \in Session : s \in gone /\ Live(s) => Ended(gone)[s].state = "gone"
           /\ [NoSess EXCEPT !.state = "gone"].state = "gone"
  <1>1. [NoSess EXCEPT !.state = "gone"] \in SessRow /\ [NoSess EXCEPT !.state = "gone"].state = "gone"
    BY RowsOK DEF SessRow
  <1> QED  BY <1>1 DEF Ended, SessOK

LEMMA SessTyped ==
    ASSUME AdminAssumption, Typed, [AdminNext]_adminVars
    PROVE  SessOK'
  <1> USE DEF SessOK
  <1>0. /\ sess \in [Session -> SessRow] /\ user \in [Operator -> UserRow]
        /\ \A t \in Task : task[t] \in TaskRow /\ Placed(task[t])
    BY DEF Typed, TaskOK, UserOK
  <1>m. Minted \subseteq Session
    BY DEF Minted, AnyOf, Typed, SceneOK, AdminAssumption
  <1>e. \A gone : Ended(gone) \in [Session -> SessRow]
    BY EndedOK DEF Typed
  <1>1. ASSUME NEW t \in Task, OpenSession(t) PROVE SessOK'
    <2> DEFINE q == task[t]
               r == user[q.of]
               st == IF q.read.totp # NoSecret \/ scene.require THEN "pending" ELSE "active"
               late == r.pw # q.pw \/ r.status # "active" \/ r.totp # q.read.totp
               x == [NoSess EXCEPT !.state = st, !.of = q.of, !.pw = q.pw, !.totp = NoSecret, !.late = late]
    <2>1. st \in {"pending", "active"} /\ late \in BOOLEAN /\ q.of \in Operator /\ q.pw \in Password
      BY <1>0 DEF TaskRow
    <2>2. sess' = sess \/ \E s \in Minted : sess' = [sess EXCEPT ![s] = x]
      BY <1>1 DEF OpenSession
    <2> HIDE DEF st, late
    <2>3. x \in SessRow
      BY <2>1, RowsOK DEF SessRow
    <2> HIDE DEF x
    <2> QED  BY <1>0, <1>m, <2>2, <2>3
  <1>2. ASSUME NEW t \in Task, CountFailure(t) PROVE SessOK'
    <2>1. task[t].sess \in Session
      BY <1>0, <1>2 DEF CountFailure, Placed, OpsAt, SessionOp
    <2> DEFINE n == IF sess[task[t].sess].fails < MaxAttempts THEN sess[task[t].sess].fails + 1
                    ELSE sess[task[t].sess].fails
    <2>2. n \in 0..MaxAttempts
      BY <1>0, <2>1 DEF SessRow, AdminAssumption
    <2>3. sess' = sess \/ sess' = [sess EXCEPT ![task[t].sess].fails = n]
      BY <1>2 DEF CountFailure
    <2> HIDE DEF n
    <2> QED  BY <1>0, <2>1, <2>2, <2>3 DEF SessRow
  <1>3. ASSUME NEW t \in Task, Evict(t) \/ Revoke(t) PROVE SessOK'
    BY <1>3, <1>e DEF Evict, Revoke
  <1>4. ASSUME NEW t \in Task, Promote(t) PROVE SessOK'
    <2> DEFINE q == task[t]
               f == IF q.op = "code" THEN q.read.totp ELSE sess[q.sess].totp
               x == [sess[q.sess] EXCEPT !.state = "active", !.from = q.sess, !.fails = 0, !.totp = f]
    <2>1. q.sess \in Session /\ f \in Secret \cup {NoSecret} /\ 0 \in 0..MaxAttempts
      BY <1>0, <1>4 DEF Promote, Placed, OpsAt, SessionOp, TaskRow, UserRow, SessRow, AdminAssumption
    <2>2. sess' = sess \/ \E s \in Minted : sess' = [Ended({q.sess}) EXCEPT ![s] = x]
      BY <1>4 DEF Promote
    <2> HIDE DEF f
    <2>3. x \in SessRow
      <3>1. ASSUME NEW a \in SessRow
            PROVE  [a EXCEPT !.state = "active", !.from = q.sess, !.fails = 0, !.totp = f] \in SessRow
        BY <2>1 DEF SessRow
      <3> QED  BY <1>0, <2>1, <3>1
    <2> HIDE DEF x
    <2> QED  BY <1>0, <1>e, <1>m, <2>2, <2>3
  <1>5. ASSUME NEW t \in Task, ConfirmTotp(t) PROVE SessOK'
    <2>1. task[t].of \in Operator /\ task[t].sess \in Session
      BY <1>0, <1>5 DEF ConfirmTotp, Placed, OpsAt, SessionOp, TaskRow
    <2>2. user[task[t].of].pending \in Secret \cup {NoSecret}
      BY <1>0, <2>1 DEF UserRow
    <2>3. sess' = sess \/ sess' = [sess EXCEPT ![task[t].sess].totp = user[task[t].of].pending]
      BY <1>5 DEF ConfirmTotp
    <2> QED  BY <1>0, <2>1, <2>2, <2>3 DEF SessRow
  <1>6. ASSUME NEW t \in Task, Write(t) PROVE SessOK'
    <2>1. task[t].pw \in Password /\ task[t].sess \in Session \cup {NoSession}
      BY <1>0 DEF TaskRow
    <2>2. \/ sess' = sess
          \/ /\ task[t].sess # NoSession
             /\ \/ \E p \in Password : sess' = [sess EXCEPT ![task[t].sess].pw = p]
                \/ sess' = [sess EXCEPT ![task[t].sess].totp = NoSecret]
      BY <1>6, <2>1 DEF Write
    <2>3. ASSUME NEW a \in SessRow
          PROVE  [a EXCEPT !.totp = NoSecret] \in SessRow /\ \A p \in Password : [a EXCEPT !.pw = p] \in SessRow
      BY DEF SessRow
    <2>4. ASSUME NEW a \in SessRow, task[t].sess # NoSession, sess' = [sess EXCEPT ![task[t].sess] = a] PROVE SessOK'
      BY <1>0, <2>1, <2>4
    <2>5. ASSUME task[t].sess # NoSession PROVE sess[task[t].sess] \in SessRow
      BY <1>0, <2>1, <2>5
    <2>6. CASE task[t].sess # NoSession /\ \E p \in Password : sess' = [sess EXCEPT ![task[t].sess].pw = p]
      <3>1. PICK p \in Password : sess' = [sess EXCEPT ![task[t].sess] = [sess[task[t].sess] EXCEPT !.pw = p]]
        BY <2>6
      <3> QED  BY <2>3, <2>4, <2>5, <2>6, <3>1
    <2>7. CASE task[t].sess # NoSession /\ sess' = [sess EXCEPT ![task[t].sess].totp = NoSecret]
      <3>1. sess' = [sess EXCEPT ![task[t].sess] = [sess[task[t].sess] EXCEPT !.totp = NoSecret]]
        BY <2>7
      <3> QED  BY <2>3, <2>4, <2>5, <2>7, <3>1
    <2> QED  BY <1>0, <2>2, <2>6, <2>7
  <1>7. ASSUME (\E o \in Operator : DeleteOperator(o)) \/ (\E s \in Session : EndSession(s)) PROVE SessOK'
    BY <1>7, <1>e DEF DeleteOperator, EndSession
  <1> QED  BY <1>0, <1>1, <1>2, <1>3, <1>4, <1>5, <1>6, <1>7, SessSteps

LEMMA GhostTyped ==
    ASSUME AdminAssumption, Typed, [AdminNext]_adminVars
    PROVE  GhostOK' /\ CodeOK' /\ SceneOK'
  <1>0. /\ \A t \in Task : task[t] \in TaskRow /\ Placed(task[t])
        /\ proved \in [Secret -> [0..MaxStep -> Nat]] /\ fresh \subseteq Secret /\ undone \subseteq Operator
        /\ code \in [Code -> CodeRow]
    BY DEF Typed, TaskOK, GhostOK, CodeOK
  <1>1. proved' \in [Secret -> [0..MaxStep -> Nat]]
    <2>1. ASSUME NEW t \in Task, ClaimStep(t) PROVE proved' \in [Secret -> [0..MaxStep -> Nat]]
      <3>1. task[t].read.totp \in Secret /\ task[t].step \in 0..MaxStep
        BY <1>0, <2>1 DEF ClaimStep, Placed, TaskRow, UserRow
      <3>2. \/ proved' = proved
            \/ proved' = [proved EXCEPT ![task[t].read.totp] =
                            [@ EXCEPT ![task[t].step] = proved[task[t].read.totp][task[t].step] + 1]]
        BY <2>1 DEF ClaimStep
      <3>3. ASSUME NEW x \in Secret, NEW k \in 0..MaxStep,
                   proved' = [proved EXCEPT ![x] = [@ EXCEPT ![k] = proved[x][k] + 1]]
            PROVE  proved' \in [Secret -> [0..MaxStep -> Nat]]
        <4> DEFINE f == proved[x]
                   n == f[k] + 1
                   g == [f EXCEPT ![k] = n]
        <4>1. f \in [0..MaxStep -> Nat]
          BY <1>0
        <4>2. proved' = [proved EXCEPT ![x] = g]
          BY <3>3
        <4> HIDE DEF f
        <4>3. n \in Nat
          BY <4>1
        <4> HIDE DEF n
        <4>4. g \in [0..MaxStep -> Nat]
          BY <4>1, <4>3
        <4> HIDE DEF g
        <4> QED  BY <1>0, <4>2, <4>4
      <3> QED  BY <1>0, <3>1, <3>2, <3>3
    <2> QED  BY <1>0, <2>1, GhostSteps
  <1>2. fresh' \subseteq Secret
    BY <1>0, GhostSteps DEF BeginTotp
  <1>3. undone' \subseteq Operator
    <2>1. \A t \in Task : task[t].of \in Operator
      BY <1>0 DEF TaskRow
    <2>2. ASSUME NEW t \in Task, Rehash(t) \/ ConfirmTotp(t) \/ Cancel(t)
          PROVE  undone' \in {undone, undone \cup {task[t].of}}
      BY <2>2 DEF Rehash, ConfirmTotp, Cancel
    <2>3. CASE Die
      BY <1>0, <2>1, <2>3 DEF Die
    <2> QED  BY <1>0, <2>1, <2>2, <2>3, GhostSteps
  <1>4. code' \in [Code -> CodeRow]
    <2>1. \A o : Dropped(o) \in [Code -> CodeRow]
      BY <1>0 DEF Dropped, CodeRow
    <2>2. ASSUME NEW t \in Task, Consume(t) PROVE code' \in [Code -> CodeRow]
      BY <1>0, <2>2 DEF Consume, CodeRow
    <2>3. ASSUME NEW t \in Task, ReplaceCodes(t) PROVE code' \in [Code -> CodeRow]
      <3>1. task[t].of \in Operator
        BY <1>0 DEF TaskRow
      <3>2. [state |-> "unused", of |-> task[t].of] \in CodeRow
        BY <3>1 DEF CodeRow
      <3>3. \E new : code' = [c \in Code |-> IF c \in new THEN [state |-> "unused", of |-> task[t].of]
                                             ELSE Dropped(task[t].of)[c]]
        BY <2>3 DEF ReplaceCodes
      <3> QED  BY <2>1, <3>2, <3>3
    <2> QED  BY <1>0, <2>1, <2>2, <2>3, GhostSteps DEF DeleteOperator
  <1>5. SceneOK'
    BY GhostSteps DEF Typed, SceneOK
  <1> QED  BY <1>1, <1>2, <1>3, <1>4, <1>5 DEF GhostOK, CodeOK

LEMMA TasksElsewhere ==
    ASSUME [AdminNext]_adminVars, ~\E t \in Task : TaskStep(t)
    PROVE  task' = task \/ Die
  BY DEF AdminNext, ReleaseDropped, WindowRunsOut, CleanupBuckets, DeleteOperator, EndSession, adminVars

LEMMA TaskTyped ==
    ASSUME AdminAssumption, Typed, [AdminNext]_adminVars, LimiterOK', bucket'.window >= bucket.window
    PROVE  TaskOK' /\ SlotOK'
  <1>0. /\ task \in [Task -> TaskRow] /\ \A t \in Task : Placed(task[t]) /\ task[t].slot <= bucket.window
        /\ bucket.window \in Nat /\ bucket'.window \in Nat /\ \A t \in Task : task[t].slot \in Nat
    BY DEF Typed, TaskOK, SlotOK, LimiterOK, BucketRow, TaskRow
  <1>1. ASSUME NEW t \in Task, TaskStep(t) PROVE TaskOK' /\ SlotOK'
    <2>1. PICK x \in TaskRow : /\ Placed(x) /\ task' = [task EXCEPT ![t] = x]
                               /\ x.slot \in {0, task[t].slot} \/ (BeginAttempt(t) /\ x.slot = bucket'.window)
      BY <1>1, TaskMoves
    <2>2. TaskOK'
      BY <1>0, <2>1 DEF TaskOK
    <2>3. x.slot <= bucket'.window
      BY <1>0, <2>1
    <2>4. \A u \in Task : task[u].slot <= bucket'.window
      BY <1>0
    <2>5. SlotOK'
      BY <1>0, <2>1, <2>3, <2>4 DEF SlotOK
    <2> QED  BY <2>2, <2>5
  <1>2. CASE task' = task
    BY <1>0, <1>2 DEF TaskOK, SlotOK
  <1>3. CASE Die
    <2>1. task' = [t \in Task |-> Idle]
      BY <1>3 DEF Die
    <2> QED  BY <1>0, <2>1, RowsOK DEF TaskOK, SlotOK
  <1> QED  BY <1>1, <1>2, <1>3, TasksElsewhere

LEMMA InitTyped == ASSUME AdminAssumption, AdminInit PROVE Typed
  <1>1. CodeOK /\ SessOK /\ SceneOK
    BY RowsOK DEF AdminInit, CodeOK, SessOK, SceneOK
  <1>2. LimiterOK
    <2>1. /\ bucket = [row |-> FALSE, failures |-> 0, flight |-> 0, window |-> 0, open |-> FALSE]
          /\ owed = [w \in 1..MaxWindows |-> 0] /\ lent = 0
      BY DEF AdminInit
    <2>2. 0 \in 0..MaxWindows
      BY DEF AdminAssumption
    <2> QED  BY <2>1, <2>2 DEF LimiterOK, BucketRow
  <1>3. TaskOK /\ SlotOK
    <2>1. task = [t \in Task |-> Idle] /\ bucket.window = 0
      BY DEF AdminInit
    <2> QED  BY <2>1, RowsOK DEF TaskOK, SlotOK
  <1>4. UserOK
    <2>1. PICK f \in [scene.enrolled -> Secret] :
                 user = [o \in Operator |-> [NewUser EXCEPT !.outdated = scene.outdated,
                                               !.totp = IF o \in scene.enrolled THEN f[o] ELSE NoSecret]]
      BY DEF AdminInit, AnyOf
    <2>2. scene.outdated \in BOOLEAN
      BY DEF AdminInit, AdminAssumption
    <2>3. \A o \in Operator : (IF o \in scene.enrolled THEN f[o] ELSE NoSecret) \in Secret \cup {NoSecret}
      BY <2>1
    <2>4. ASSUME NEW b \in BOOLEAN, NEW x \in Secret \cup {NoSecret}
          PROVE  [NewUser EXCEPT !.outdated = b, !.totp = x] \in UserRow
      BY RowsOK DEF UserRow
    <2> QED  BY <2>1, <2>2, <2>3, <2>4 DEF UserOK
  <1>5. GhostOK
    <2>1. fresh \subseteq Secret /\ undone = {} /\ proved = [x \in Secret |-> [k \in 0..MaxStep |-> 0]]
      BY DEF AdminInit
    <2> QED  BY <2>1 DEF GhostOK
  <1> QED  BY <1>1, <1>2, <1>3, <1>4, <1>5 DEF Typed

LEMMA TypedSafety == AdminSpec => []Typed
  <1>1. AdminInit => Typed
    BY AdminAssumption, InitTyped
  <1>2. Typed /\ [AdminNext]_adminVars => Typed'
    BY AdminAssumption, LimiterTyped, UserTyped, SessTyped, GhostTyped, TaskTyped DEF Typed
  <1> QED  BY <1>1, <1>2, PTL DEF AdminSpec

\* AdminTypeOK is an invariant: a request that claims a step or spends a recovery
\* code has read a factor, and one that counts a failure or promotes has a session.
\* It needs to know which operations can be at which statement of their handlers.
THEOREM TypeCorrect == AdminSpec => []AdminTypeOK
  <1>1. Typed => AdminTypeOK
    <2>1. ASSUME Typed, NEW t \in Task, task[t].pc \in {"count", "evict", "promote"}
          PROVE  task[t].sess \in Session
      BY <2>1 DEF Typed, TaskOK, Placed, OpsAt, SessionOp
    <2> QED  BY <2>1 DEF Typed, AdminTypeOK, UserOK, CodeOK, CodeRow, SessOK, SessRow, LimiterOK, BucketRow,
                         GhostOK, TaskOK, TaskRow, SlotOK, Placed
  <1> QED  BY <1>1, TypedSafety, PTL

-----------------------------------------------------------------------------
(* The limiter.                                                             *)

\* The requests that hold a slot of the window, and what is known of them: the slots
\* held and the releases owed are counted in flight, or were lent; and no release is
\* owed to a window to come.
Held == {t \in Task : task[t].slot = bucket.window}
Covered == bucket.row /\ bucket.window > 0 => Cardinality(Held) + owed[bucket.window] <= bucket.flight + lent
NoneAhead == \A v \in 1..MaxWindows : v > bucket.window => owed[v] = 0
LimiterInv == Covered /\ LimiterHolds /\ NoneAhead

LEMMA HeldMoves ==
    ASSUME AdminAssumption, Typed, NEW t \in Task, NEW x \in TaskRow, task' = [task EXCEPT ![t] = x], NEW w \in Nat
    PROVE  LET A == {u \in Task : task[u].slot = w}
               B == {u \in Task : task'[u].slot = w}
           IN /\ Cardinality(A) \in Nat /\ Cardinality(B) \in Nat
              /\ Cardinality(B) <= Cardinality(A) + 1
              /\ x.slot \in {0, task[t].slot} /\ w > 0 => Cardinality(B) <= Cardinality(A)
              /\ x.slot = 0 /\ task[t].slot = w /\ w > 0 => Cardinality(B) = Cardinality(A) - 1
  <1> DEFINE A == {u \in Task : task[u].slot = w}
             B == {u \in Task : task'[u].slot = w}
  <1>0. task \in [Task -> TaskRow] /\ task'[t] = x /\ \A u \in Task : u # t => task'[u] = task[u]
    BY DEF Typed, TaskOK
  <1>1. IsFiniteSet(A) /\ IsFiniteSet(B)
    BY FS_Subset DEF AdminAssumption
  <1>2. Cardinality(A) \in Nat /\ Cardinality(B) \in Nat
    BY <1>1, FS_CardinalityType
  <1>3. Cardinality(B) <= Cardinality(A) + 1
    <2>1. B \subseteq A \cup {t}
      BY <1>0
    <2> HIDE DEF A, B
    <2>2. IsFiniteSet(A \cup {t}) /\ Cardinality(A \cup {t}) <= Cardinality(A) + 1
      <3>1. /\ IsFiniteSet(A \cup {t})
            /\ Cardinality(A \cup {t}) = IF t \in A THEN Cardinality(A) ELSE Cardinality(A) + 1
        BY <1>1, FS_AddElement
      <3> QED  BY <1>2, <3>1
    <2>3. Cardinality(A \cup {t}) \in Nat
      BY <2>2, FS_CardinalityType
    <2>4. Cardinality(B) <= Cardinality(A \cup {t})
      BY <2>1, <2>2, FS_Subset
    <2> QED  BY <1>2, <2>2, <2>3, <2>4
  <1>4. ASSUME x.slot \in {0, task[t].slot}, w > 0 PROVE Cardinality(B) <= Cardinality(A)
    <2>1. B \subseteq A
      BY <1>0, <1>4
    <2> HIDE DEF A, B
    <2> QED  BY <1>1, <2>1, FS_Subset
  <1>5. ASSUME x.slot = 0, task[t].slot = w, w > 0 PROVE Cardinality(B) = Cardinality(A) - 1
    <2>1. B = A \ {t} /\ t \in A
      BY <1>0, <1>5
    <2> HIDE DEF A, B
    <2> QED  BY <1>1, <2>1, FS_RemoveElement
  <1> QED  BY <1>2, <1>3, <1>4, <1>5

LEMMA LimiterKept ==
    ASSUME AdminAssumption, Typed, Typed', LimiterInv, [AdminNext]_adminVars
    PROVE  LimiterInv'
  <1> DEFINE w == bucket.window
             h == Cardinality(Held)
             hh == Cardinality({u \in Task : task'[u].slot = w})
             f == bucket.failures
             g == bucket.flight
             r == owed[w]
             rr == owed'[w]
  <1>0. /\ bucket \in BucketRow /\ w \in 0..MaxWindows /\ w \in Nat /\ bucket.failures \in Nat /\ bucket.flight \in Nat
        /\ MaxWindows \in Nat /\ MaxAttempts \in Nat /\ MaxAttempts >= 1 /\ lent \in Nat /\ owed \in [1..MaxWindows -> Nat]
    BY DEF Typed, LimiterOK, BucketRow, AdminAssumption
  <1>1. /\ bucket' \in BucketRow /\ bucket'.failures \in Nat /\ bucket'.flight \in Nat /\ lent' \in Nat
        /\ owed' \in [1..MaxWindows -> Nat]
    BY DEF Typed, LimiterOK, BucketRow
  <1>2. h \in Nat /\ hh \in Nat
    <2>1. IsFiniteSet(Held) /\ IsFiniteSet({u \in Task : task'[u].slot = w})
      BY FS_Subset DEF AdminAssumption, Held
    <2> QED  BY <2>1, FS_CardinalityType
  <1>3. /\ w > 0 => w \in 1..MaxWindows /\ owed[w] \in Nat /\ owed'[w] \in Nat
        /\ w > 0 => bucket.failures + h + owed[w] <= MaxAttempts + lent
        /\ bucket.row /\ w > 0 => h + owed[w] <= bucket.flight + lent
    <2>1. w > 0 => w \in 1..MaxWindows
      BY <1>0
    <2>2. w > 0 => owed[w] \in Nat /\ owed'[w] \in Nat
      BY <1>0, <1>1, <2>1
    <2> QED  BY <2>1, <2>2 DEF LimiterInv, LimiterHolds, Covered, Held
  <1>n. /\ f \in Nat /\ g \in Nat /\ h \in Nat /\ hh \in Nat /\ lent \in Nat /\ MaxAttempts \in Nat
        /\ w > 0 => r \in Nat /\ rr \in Nat /\ f + h + r <= MaxAttempts + lent
        /\ w > 0 /\ bucket.row => h + r <= g + lent
    BY <1>0, <1>2, <1>3
  \* The window stays: what is to be shown.
  <1>4. ASSUME bucket'.window = w, NoneAhead',
               w > 0 => bucket'.failures + hh + owed'[w] <= MaxAttempts + lent',
               w > 0 /\ bucket'.row => hh + owed'[w] <= bucket'.flight + lent'
        PROVE  LimiterInv'
    BY <1>4 DEF LimiterInv, LimiterHolds, Covered, Held
  \* The slots held and the releases owed are no more than they were.
  <1>5. ASSUME bucket'.window = w, NoneAhead', lent' = lent, bucket'.failures \in {bucket.failures, 0},
               bucket'.row => bucket.row /\ bucket'.flight = bucket.flight,
               w > 0 => hh + owed'[w] <= h + owed[w]
        PROVE  LimiterInv'
    <2>0. w > 0 => hh + rr <= h + r
      BY <1>5
    <2> HIDE DEF w, h, hh, r, rr, f, g
    <2>1. ASSUME w > 0 PROVE bucket'.failures + hh + owed'[w] <= MaxAttempts + lent'
      <3>1. f + hh + rr <= MaxAttempts + lent /\ 0 + hh + rr <= MaxAttempts + lent
        BY <1>n, <2>0, <2>1
      <3> QED  BY <1>5, <3>1 DEF f, rr
    <2>2. ASSUME w > 0, bucket'.row PROVE hh + owed'[w] <= bucket'.flight + lent'
      <3>1. hh + rr <= g + lent
        BY <1>n, <1>5, <2>0, <2>2
      <3> QED  BY <1>5, <2>2, <3>1 DEF g, rr
    <2> QED  BY <1>4, <1>5, <2>1, <2>2
  \* A slot that was held, or a release that was owed, is settled.
  <1>6. ASSUME NEW v \in 0..MaxWindows, NEW n \in {0, 1}, Settled(v, n), NoneAhead',
               v = 0 => hh + owed'[w] <= h + owed[w] \/ w = 0,
               v # 0 /\ w > 0 => hh + owed'[w] <= h + owed[w] /\ (v = w => hh + owed'[w] = h + owed[w] - 1)
        PROVE  LimiterInv'
    <2> HIDE DEF h, hh
    <2>1. CASE v = 0 \/ ~bucket.row
      <3>1. bucket' = bucket /\ lent' = lent
        BY <1>6, <2>1 DEF Settled, NoSlot
      <3>2. w > 0 => hh + owed'[w] <= h + owed[w]
        BY <1>6
      <3> QED  BY <1>5, <1>6, <3>1, <3>2
    <2>2. CASE v # 0 /\ bucket.row
      <3> DEFINE gg == IF g > 0 THEN g - 1 ELSE 0
      <3>1. bucket' = [bucket EXCEPT !.flight = gg, !.failures = bucket.failures + n]
        BY <1>6, <2>2 DEF Settled, NoSlot
      <3> HIDE DEF gg
      <3>2. bucket'.window = w /\ bucket'.flight = gg /\ bucket'.failures = f + n
        BY <1>0, <3>1 DEF BucketRow
      <3> HIDE DEF w, r, rr, f, g
      <3>3. ASSUME w > 0, v = w
            PROVE  bucket'.failures + hh + owed'[w] <= MaxAttempts + lent' /\ hh + owed'[w] <= bucket'.flight + lent'
        <4>1. lent' = lent /\ hh + rr = h + r - 1
          BY <1>6, <2>2, <3>3 DEF Settled, NoSlot, w, r, rr
        <4>2. (f + n) + hh + rr <= MaxAttempts + lent
          BY <1>n, <3>3, <4>1
        <4>3. hh + rr <= gg + lent
          BY <1>n, <2>2, <3>3, <4>1 DEF gg
        <4> QED  BY <3>2, <4>1, <4>2, <4>3 DEF rr
      <3>4. ASSUME w > 0, v # w
            PROVE  bucket'.failures + hh + owed'[w] <= MaxAttempts + lent' /\ hh + owed'[w] <= bucket'.flight + lent'
        <4>1. lent' = lent + 1 /\ hh + rr <= h + r
          BY <1>6, <2>2, <3>4 DEF Settled, NoSlot, w, r, rr
        <4>2. (f + n) + hh + rr <= MaxAttempts + (lent + 1)
          BY <1>n, <3>4, <4>1
        <4>3. hh + rr <= gg + (lent + 1)
          BY <1>n, <2>2, <3>4, <4>1 DEF gg
        <4> QED  BY <3>2, <4>1, <4>2, <4>3 DEF rr
      <3> QED  BY <1>4, <1>6, <3>2, <3>3, <3>4
    <2> QED  BY <2>1, <2>2
  \* A slot is reserved.
  <1>7. ASSUME NEW t \in Task, NEW pc, Begin(t, pc), ~UNCHANGED limiter PROVE LimiterInv'
    <2>1. /\ ~Refused /\ bucket' = Reserved /\ owed' = owed
          /\ lent' = IF bucket'.window = bucket.window THEN lent ELSE 0
          /\ bucket.open \/ bucket.window < MaxWindows
          /\ task' = [task EXCEPT ![t] = [@ EXCEPT !.pc = pc, !.slot = bucket'.window]]
      BY <1>7 DEF Begin
    <2>2. task'[t] \in TaskRow /\ task \in [Task -> TaskRow] /\ task'[t].slot = bucket'.window
      BY <2>1 DEF Typed, TaskOK, TaskRow
    <2>3. task' = [task EXCEPT ![t] = task'[t]]
      BY <2>1, <2>2
    <2>4. CASE bucket.row /\ bucket.open
      <3>1. bucket' = [bucket EXCEPT !.flight = bucket.flight + 1] /\ bucket.failures + bucket.flight < MaxAttempts
        BY <1>0, <2>1, <2>4 DEF Reserved, Refused, Count
      <3>2. bucket'.window = w /\ bucket'.flight = bucket.flight + 1 /\ bucket'.failures = bucket.failures /\ lent' = lent
        BY <1>0, <2>1, <3>1 DEF BucketRow
      <3>3. hh <= h + 1
        BY <1>0, <2>2, <2>3, HeldMoves DEF Held
      <3>4. NoneAhead'
        BY <2>1, <3>2 DEF LimiterInv, NoneAhead
      <3>5. f + g < MaxAttempts
        BY <3>1
      <3> HIDE DEF w, h, hh, r, rr, f, g
      <3>6. ASSUME w > 0 PROVE f + hh + r <= MaxAttempts + lent /\ hh + r <= g + 1 + lent
        BY <1>n, <2>4, <3>3, <3>5, <3>6
      <3> QED  BY <1>4, <2>1, <3>2, <3>4, <3>6 DEF f, g, r
    <2>5. CASE ~(bucket.row /\ bucket.open)
      <3>1. bucket' = [row |-> TRUE, failures |-> 0, flight |-> 1, window |-> w + 1, open |-> TRUE]
        BY <2>1, <2>5 DEF Reserved
      <3>2. bucket'.window = w + 1 /\ bucket'.flight = 1 /\ bucket'.failures = 0 /\ w + 1 \in 1..MaxWindows /\ lent' = 0
        <4>1. w < MaxWindows
          BY <2>1, <2>5 DEF Typed, LimiterOK
        <4>2. bucket'.window = w + 1 /\ bucket'.flight = 1 /\ bucket'.failures = 0
          BY <3>1
        <4>3. w + 1 # w /\ w + 1 \in 1..MaxWindows
          BY <1>0, <4>1
        <4> QED  BY <2>1, <4>2, <4>3
      <3>3. owed'[w + 1] = 0
        BY <1>0, <2>1, <3>2 DEF LimiterInv, NoneAhead
      <3>4. {u \in Task : task'[u].slot = w + 1} = {t}
        <4>1. \A u \in Task : task[u].slot <= w /\ task[u].slot \in Nat
          BY DEF Typed, SlotOK, TaskOK, TaskRow
        <4>2. \A u \in Task : task[u].slot # w + 1
          BY <1>0, <4>1
        <4> QED  BY <2>2, <2>3, <3>2, <4>2
      <3>5. Cardinality({u \in Task : task'[u].slot = w + 1}) = 1
        BY <3>4, FS_Singleton
      <3>6. NoneAhead'
        <4>1. \A v \in 1..MaxWindows : v > w + 1 => v > w
          BY <1>0
        <4> QED  BY <2>1, <3>2, <4>1 DEF LimiterInv, NoneAhead
      <3>7. Held' = {u \in Task : task'[u].slot = w + 1}
        BY <3>2 DEF Held
      <3>8. Covered' /\ LimiterHolds'
        <4>1. Cardinality(Held') = 1 /\ Cardinality({u \in Task : task'[u].slot = bucket'.window}) = 1
          BY <3>2, <3>5, <3>7
        <4>2. 1 + owed'[bucket'.window] <= bucket'.flight + lent'
          BY <3>2, <3>3
        <4>3. bucket'.failures + 1 + owed'[bucket'.window] <= MaxAttempts + lent'
          BY <1>0, <3>2, <3>3
        <4> QED  BY <4>1, <4>2, <4>3 DEF Covered, LimiterHolds
      <3> QED  BY <3>6, <3>8 DEF LimiterInv
    <2> QED  BY <2>4, <2>5
  \* Only the request moves, and it takes no slot.
  <1>8. ASSUME NEW t \in Task, NEW x \in TaskRow, task' = [task EXCEPT ![t] = x], x.slot \in {0, task[t].slot}
        PROVE  /\ w > 0 => hh <= h
               /\ w > 0 /\ x.slot = 0 /\ task[t].slot = w => hh = h - 1
    BY <1>0, <1>8, HeldMoves DEF Held
  <1>9. ASSUME UNCHANGED limiter, w > 0 => hh <= h PROVE LimiterInv'
    <2>1. NoneAhead' /\ bucket' = bucket /\ owed' = owed /\ lent' = lent
      BY <1>9 DEF LimiterInv, NoneAhead, limiter
    <2> HIDE DEF h, hh
    <2>2. w > 0 => hh + owed'[w] <= h + owed[w]
      BY <1>2, <1>3, <1>9, <2>1
    <2> QED  BY <1>5, <2>1, <2>2
  <1>10. ASSUME NEW t \in Task, BeginAttempt(t) PROVE LimiterInv'
    <2>1. PICK pc : Begin(t, pc)
      BY <1>10 DEF BeginAttempt
    <2>2. CASE UNCHANGED limiter
      <3>1. PICK x \in TaskRow : task' = [task EXCEPT ![t] = x]
        BY <1>10, TaskMoves DEF TaskStep, Typed
      <3>2. x = task'[t]
        BY <3>1 DEF Typed, TaskOK
      <3>3. x.slot \in {0, task[t].slot}
        <4>1. CASE task' = [task EXCEPT ![t] = Idle]
          BY <3>2, <4>1, RowsOK DEF Typed, TaskOK
        <4>2. CASE task' = [task EXCEPT ![t].pc = pc]
          BY <3>2, <4>2 DEF Typed, TaskOK, TaskRow
        <4>3. CASE bucket' = Reserved
          <5>1. bucket.row /\ bucket.open => Reserved.flight = bucket.flight + 1
            BY <1>0 DEF Reserved, BucketRow
          <5>2. ~(bucket.row /\ bucket.open) => Reserved.window = bucket.window + 1
            BY DEF Reserved
          <5>3. bucket.flight + 1 # bucket.flight /\ bucket.window + 1 # bucket.window
            BY <1>0
          <5> QED  BY <2>2, <4>3, <5>1, <5>2, <5>3 DEF limiter
        <4> QED  BY <2>1, <4>1, <4>2, <4>3 DEF Begin
      <3> QED  BY <1>8, <1>9, <2>2, <3>1, <3>3
    <2> QED  BY <1>7, <2>1, <2>2
  <1>11. ASSUME NEW t \in Task, Prove(t, TRUE) \/ Prove(t, FALSE) \/ Fail(t) PROVE LimiterInv'
    <2>1. PICK n \in {0, 1} : Settled(task[t].slot, n) /\ owed' = owed
      BY <1>11 DEF Prove, Fail
    <2>2. task'[t].slot = 0 /\ task'[t] \in TaskRow /\ task' = [task EXCEPT ![t] = task'[t]]
      <3>1. \/ task' = [task EXCEPT ![t] = Idle]
            \/ \E pc : task' = [task EXCEPT ![t] = [@ EXCEPT !.slot = 0, !.pc = pc]]
            \/ \E pc : task' = [task EXCEPT ![t] = [@ EXCEPT !.pc = pc, !.slot = 0]]
        BY <1>11 DEF Prove, Fail, NoSlot
      <3>2. task \in [Task -> TaskRow] /\ task'[t] \in TaskRow /\ task[t] \in TaskRow
        BY DEF Typed, TaskOK
      <3>3. \/ task'[t] = Idle
            \/ \E pc : task'[t] = [task[t] EXCEPT !.slot = 0, !.pc = pc]
            \/ \E pc : task'[t] = [task[t] EXCEPT !.pc = pc, !.slot = 0]
        BY <3>1, <3>2
      <3>4. task' = [task EXCEPT ![t] = task'[t]]
        BY <3>1, <3>2
      <3>5. task'[t].slot = 0
        BY <3>2, <3>3, RowsOK DEF TaskRow
      <3> QED  BY <3>2, <3>4, <3>5
    <2>3. NoneAhead'
      <3>1. bucket'.window = bucket.window
        BY <2>1 DEF Settled, Typed, LimiterOK, BucketRow
      <3> QED  BY <2>1, <3>1 DEF LimiterInv, NoneAhead
    <2>4. task[t].slot \in 0..MaxWindows
      BY DEF Typed, TaskOK, TaskRow
    <2>5. w > 0 => hh <= h /\ (task[t].slot = w => hh = h - 1)
      BY <1>8, <2>2
    <2>6. owed'[w] = owed[w]
      BY <2>1
    <2> HIDE DEF h, hh
    <2>7. w > 0 => hh + owed'[w] <= h + owed[w] /\ (task[t].slot = w => hh + owed'[w] = h + owed[w] - 1)
      BY <1>2, <1>3, <2>5, <2>6
    <2>8. w > 0 \/ w = 0
      BY <1>0
    <2> QED  BY <1>6, <2>1, <2>3, <2>4, <2>7, <2>8
  <1>12. ASSUME NEW t \in Task, Over(t), bucket' = bucket \/ bucket' = [bucket EXCEPT !.failures = 0], lent' = lent
         PROVE  LimiterInv'
    <2>1. /\ bucket'.window = w /\ bucket'.failures \in {bucket.failures, 0}
          /\ bucket'.row = bucket.row /\ bucket'.flight = bucket.flight
      BY <1>0, <1>12 DEF BucketRow
    <2>2. task' = [task EXCEPT ![t] = Idle] /\ Idle \in TaskRow /\ Idle.slot = 0
      BY <1>12, RowsOK DEF Over
    <2>3. task[t].slot \in 0..MaxWindows /\ task[t].slot \in Nat /\ task[t].slot <= w
      BY DEF Typed, TaskOK, TaskRow, SlotOK
    <2>4. \A v \in 1..MaxWindows : owed'[v] = owed[v] \/ (v = task[t].slot /\ owed'[v] = owed[v] + 1)
      BY <1>0, <1>12, <2>3 DEF Over
    <2>5. NoneAhead'
      <3>1. \A v \in 1..MaxWindows : v > w => v # task[t].slot
        BY <1>0, <2>3
      <3> QED  BY <2>1, <2>4, <3>1 DEF LimiterInv, NoneAhead
    <2>6. w > 0 => hh <= h /\ (task[t].slot = w => hh = h - 1)
      BY <1>8, <2>2
    <2> HIDE DEF h, hh
    <2>7. w > 0 => hh + owed'[w] <= h + owed[w]
      BY <1>2, <1>3, <2>4, <2>6
    <2> QED  BY <1>5, <1>12, <2>1, <2>5, <2>7
  <1>13. ASSUME task' = task PROVE hh = h
    BY <1>13 DEF Held
  <1>14. ASSUME NEW v \in 1..MaxWindows, ReleaseDropped(v) PROVE LimiterInv'
    <2>1. Settled(v, 0) /\ owed' = [owed EXCEPT ![v] = owed[v] - 1] /\ owed[v] > 0 /\ hh = h
      BY <1>13, <1>14 DEF ReleaseDropped
    <2>2. v \in 0..MaxWindows /\ v # 0
      BY <1>0
    <2>3. NoneAhead'
      <3>1. bucket'.window = bucket.window
        BY <2>1 DEF Settled, Typed, LimiterOK, BucketRow
      <3>2. ~(v > bucket.window)
        <4>1. v > bucket.window => owed[v] = 0
          BY DEF LimiterInv, NoneAhead
        <4> QED  BY <2>1, <4>1
      <3>3. \A u \in 1..MaxWindows : u # v => owed'[u] = owed[u]
        BY <1>0, <2>1
      <3> QED  BY <3>1, <3>2, <3>3 DEF LimiterInv, NoneAhead
    <2>4. w > 0 => owed'[w] = IF v = w THEN owed[w] - 1 ELSE owed[w]
      BY <1>0, <1>3, <2>1
    <2> HIDE DEF h, hh
    <2>5. w > 0 => hh + owed'[w] <= h + owed[w] /\ (v = w => hh + owed'[w] = h + owed[w] - 1)
      BY <1>2, <1>3, <2>1, <2>4
    <2> QED  BY <1>6, <2>1, <2>2, <2>3, <2>5
  <1>15. ASSUME WindowRunsOut \/ CleanupBuckets PROVE LimiterInv'
    <2>1. owed' = owed /\ lent' = lent /\ hh = h
      BY <1>13, <1>15 DEF WindowRunsOut, CleanupBuckets
    <2>2. /\ bucket'.window = w /\ bucket'.failures \in {bucket.failures, 0}
          /\ bucket'.row => bucket.row /\ bucket'.flight = bucket.flight
      <3>1. CASE WindowRunsOut
        BY <1>0, <3>1 DEF WindowRunsOut, BucketRow
      <3>2. CASE CleanupBuckets
        <4>1. bucket' = [bucket EXCEPT !.row = FALSE, !.failures = 0, !.flight = 0]
          BY <3>2 DEF CleanupBuckets
        <4> QED  BY <1>0, <4>1 DEF BucketRow
      <3> QED  BY <1>15, <3>1, <3>2
    <2>3. NoneAhead'
      BY <2>1, <2>2 DEF LimiterInv, NoneAhead
    <2> HIDE DEF h, hh
    <2>4. w > 0 => hh + owed'[w] <= h + owed[w]
      BY <1>2, <1>3, <2>1
    <2> QED  BY <1>5, <2>1, <2>2, <2>3, <2>4
  <1>16. ASSUME Die PROVE LimiterInv'
    <2>1. task' = [t \in Task |-> Idle] /\ owed' = [v \in 1..MaxWindows |-> 0] /\ bucket' = bucket /\ lent' = lent
      BY <1>16 DEF Die
    <2>2. w > 0 => {u \in Task : task'[u].slot = w} = {}
      BY <2>1, RowsOK
    <2>3. w > 0 => hh = 0
      BY <2>2, FS_EmptySet
    <2>4. NoneAhead'
      BY <2>1 DEF NoneAhead
    <2>5. w > 0 => owed'[w] = 0
      BY <1>3, <2>1
    <2> HIDE DEF h, hh
    <2>6. w > 0 => hh + owed'[w] <= h + owed[w]
      BY <1>2, <1>3, <2>3, <2>5
    <2> QED  BY <1>5, <2>1, <2>4, <2>6
  <1>17. ASSUME NEW t \in Task, TaskStep(t), ~BeginAttempt(t), UNCHANGED limiter PROVE LimiterInv'
    <2>1. LimiterOK'
      BY DEF Typed
    <2>2. PICK x \in TaskRow : task' = [task EXCEPT ![t] = x] /\ x.slot \in {0, task[t].slot}
      BY <1>17, <2>1, TaskMoves
    <2> QED  BY <1>8, <1>9, <1>17, <2>2
  <1>18. ASSUME NEW t \in Task, TaskStep(t), ~BeginAttempt(t), ~UNCHANGED limiter PROVE LimiterInv'
    <2>1. CASE OpenSession(t) \/ Promote(t) \/ ClearFailures(t) \/ Cancel(t)
      <3>1. Over(t) /\ (bucket' = bucket \/ bucket' = [bucket EXCEPT !.failures = 0]) /\ lent' = lent
        BY <1>18, <2>1 DEF OpenSession, Promote, ClearFailures, Cancel, limiter
      <3> QED  BY <1>12, <3>1
    <2>2. CASE Prove(t, TRUE) \/ Prove(t, FALSE) \/ Fail(t)
      BY <1>11, <2>2
    <2>3. ASSUME ~(OpenSession(t) \/ Promote(t) \/ ClearFailures(t) \/ Cancel(t)),
                 ~(Prove(t, TRUE) \/ Prove(t, FALSE) \/ Fail(t))
          PROVE  FALSE
      BY <1>18, <2>3 DEF TaskStep, SignIn, Change, Present, Authenticate, Rehash, FindOwner, Verify, ClaimStep,
                         Consume, CountFailure, Evict, BeginTotp, ConfirmTotp, ClaimFirst, ReplaceCodes,
                         CountAdmins, Write, Revoke
    <2> QED  BY <2>1, <2>2, <2>3
  <1>19. ASSUME (\E o \in Operator : DeleteOperator(o)) \/ (\E s \in Session : EndSession(s)) \/ UNCHANGED adminVars
         PROVE  LimiterInv'
    <2>1. UNCHANGED limiter /\ task' = task
      BY <1>19 DEF DeleteOperator, EndSession, adminVars
    <2>2. hh <= h
      BY <1>2, <1>13, <2>1
    <2> QED  BY <1>9, <2>1, <2>2
  <1> QED  BY <1>10, <1>14, <1>15, <1>16, <1>17, <1>18, <1>19 DEF AdminNext

\* LimiterHolds is an invariant: failures and attempts under way from one address never
\* pass login_max_attempts but for the slots that attempts of an earlier window gave
\* back, however requests race, are dropped or die.  What makes it inductive is Covered:
\* every slot held and every release owed is counted in flight or was lent.
THEOREM AttemptsAreBounded == AdminSpec => []LimiterHolds
  <1>1. ASSUME AdminInit PROVE LimiterInv
    <2>1. bucket.window = 0 /\ owed = [w \in 1..MaxWindows |-> 0]
      BY <1>1 DEF AdminInit
    <2>2. ~(bucket.window > 0)
      BY <2>1
    <2> QED  BY <2>1, <2>2 DEF LimiterInv, LimiterHolds, Covered, NoneAhead
  <1>2. Typed /\ Typed' /\ LimiterInv /\ [AdminNext]_adminVars => LimiterInv'
    BY AdminAssumption, LimiterKept
  <1>3. LimiterInv => LimiterHolds
    BY DEF LimiterInv
  <1> QED  BY <1>1, <1>2, <1>3, TypedSafety, PTL DEF AdminSpec

-----------------------------------------------------------------------------
(* Codes and half sessions are spent once.                                  *)

\* No secret is in two places: fresh, pending or the factor, of one operator or another.
Uses(o) == {user[o].totp, user[o].pending} \ {NoSecret}
SecretsApart ==
    \A o \in Operator :
        /\ Uses(o) \cap fresh = {}
        /\ user[o].totp # NoSecret => user[o].totp # user[o].pending
        /\ \A v \in Operator : o # v => Uses(o) \cap Uses(v) = {}

\* A code that was accepted is of a secret that is nobody's, or of a factor whose last
\* step has reached it.
ProvedLast ==
    \A x \in Secret : \A k \in 0..MaxStep :
        proved[x][k] # 0 => /\ x \notin fresh
                            /\ \A o \in Operator : /\ user[o].pending # x
                                                   /\ user[o].totp = x => user[o].last >= k
AtMostOnce == \A x \in Secret : \A k \in 0..MaxStep : proved[x][k] <= 1

\* The half session a session came from is gone, and no other came from it.
FromGone == \A n \in Session : Live(n) /\ sess[n].from \in Session => sess[sess[n].from].state = "gone"
OneHeir == \A m, n \in Session : Live(m) /\ Live(n) /\ sess[n].from \in Session /\ sess[n].from = sess[m].from => m = n

CodesInv == SecretsApart /\ ProvedLast /\ AtMostOnce
HeirsInv == FromGone /\ OneHeir

\* A row whose secrets are those it had, or NoSecret, and whose last step is no
\* earlier while the factor stands, disturbs nothing.
LEMMA RowKeepsCodes ==
    ASSUME AdminAssumption, Typed, Typed', CodesInv, NEW o \in Operator, NEW r \in UserRow, user' = [user EXCEPT ![o] = r],
           fresh' = fresh, proved' = proved,
           r.pending \in {user[o].pending, NoSecret},
           \/ r.totp = NoSecret
           \/ r.totp = user[o].totp /\ r.last >= user[o].last
           \/ r.totp = user[o].pending /\ r.pending = NoSecret
    PROVE  CodesInv'
  <1>0. user \in [Operator -> UserRow] /\ user' \in [Operator -> UserRow] /\ user'[o] = r
        /\ \A v \in Operator : v # o => user'[v] = user[v]
    BY DEF Typed, UserOK
  <1>1. AtMostOnce'
    BY DEF CodesInv, AtMostOnce
  <1>2. SecretsApart'
    <2>1. Uses(o)' \subseteq Uses(o) /\ \A v \in Operator : v # o => Uses(v)' = Uses(v)
      BY <1>0 DEF Uses
    <2>2. r.totp # NoSecret => r.totp # r.pending
      BY DEF CodesInv, SecretsApart
    <2>3. \A v \in Operator : Uses(v)' \subseteq Uses(v)
      BY <2>1
    <2> QED  BY <1>0, <2>2, <2>3 DEF CodesInv, SecretsApart
  <1>3. ProvedLast'
    <2> SUFFICES ASSUME NEW x \in Secret, NEW k \in 0..MaxStep, proved[x][k] # 0, NEW v \in Operator
                 PROVE  x \notin fresh /\ user'[v].pending # x /\ (user'[v].totp = x => user'[v].last >= k)
      BY DEF ProvedLast
    <2>1. x \notin fresh /\ \A u \in Operator : user[u].pending # x /\ (user[u].totp = x => user[u].last >= k)
      BY DEF CodesInv, ProvedLast
    <2>2. CASE v # o
      BY <1>0, <2>1, <2>2
    <2>3. CASE v = o
      <3>1. x # NoSecret
        BY DEF AdminAssumption
      <3>2. r.pending # x
        BY <2>1, <3>1
      <3>3. ASSUME r.totp = x PROVE r.last >= k
        <4>1. r.last >= user[o].last /\ user[o].last >= k
          BY <2>1, <3>1, <3>3
        <4>2. r.last \in Int /\ user[o].last \in Int /\ k \in Int
          BY <1>0 DEF UserRow, NoStep
        <4> QED  BY <4>1, <4>2
      <3> QED  BY <1>0, <2>1, <2>3, <3>2, <3>3
    <2> QED  BY <2>2, <2>3
  <1> QED  BY <1>1, <1>2, <1>3 DEF CodesInv

LEMMA CodesKept ==
    ASSUME AdminAssumption, Typed, Typed', CodesInv, [AdminNext]_adminVars
    PROVE  CodesInv'
  <1>0. /\ user \in [Operator -> UserRow] /\ \A t \in Task : task[t] \in TaskRow /\ Placed(task[t]) /\ task[t].of \in Operator
        /\ proved \in [Secret -> [0..MaxStep -> Nat]] /\ \A o \in Operator : user[o] \in UserRow
    BY DEF Typed, TaskOK, TaskRow, UserOK, GhostOK
  <1>f. (\A t \in Task : ~BeginTotp(t)) => fresh' = fresh
    BY GhostSteps
  <1>p. (\A t \in Task : ~ClaimStep(t)) => proved' = proved
    BY GhostSteps
  <1>l. \A o \in Operator : user[o].last \in Int /\ user[o].last >= NoStep /\ user[o].last >= user[o].last
    BY <1>0 DEF UserRow, NoStep, AdminAssumption
  <1>u. ASSUME user' = user, fresh' = fresh, proved' = proved PROVE CodesInv'
    BY <1>u DEF CodesInv, SecretsApart, ProvedLast, AtMostOnce, Uses
  <1>1. ASSUME NEW t \in Task, Rehash(t) PROVE CodesInv'
    <2> DEFINE o == task[t].of
               r == [user[o] EXCEPT !.pw = task[t].pw, !.outdated = FALSE]
    <2>1. fresh' = fresh /\ proved' = proved /\ (user' = user \/ user' = [user EXCEPT ![o] = r])
      BY <1>1 DEF Rehash
    <2>2. r.pending = user[o].pending /\ r.totp = user[o].totp /\ r.last = user[o].last
      BY <1>0 DEF UserRow
    <2>3. ASSUME user' = [user EXCEPT ![o] = r] PROVE r \in UserRow
      <3>1. user'[o] = r /\ user'[o] \in UserRow
        BY <1>0, <2>3 DEF Typed, UserOK
      <3> QED  BY <3>1
    <2> HIDE DEF r
    <2> QED  BY <1>0, <1>u, <1>l, <2>1, <2>2, <2>3, RowKeepsCodes
  <1>2. ASSUME NEW t \in Task, ClaimFirst(t) PROVE CodesInv'
    <2> DEFINE o == task[t].of
               r == [user[o] EXCEPT !.last = task[t].step]
    <2>1. fresh' = fresh /\ proved' = proved
          /\ (user' = user \/ (user' = [user EXCEPT ![o] = r] /\ user[o].last < task[t].step))
      BY <1>2 DEF ClaimFirst, Claimable, ghosts
    <2>2. r.pending = user[o].pending /\ r.totp = user[o].totp /\ r.last = task[t].step /\ task[t].step \in 0..MaxStep
      BY <1>0, <1>2 DEF UserRow, Placed, ClaimFirst
    <2>3. user[o].last < task[t].step => r.last >= user[o].last
      BY <1>0, <1>l, <2>2
    <2>4. ASSUME user' = [user EXCEPT ![o] = r] PROVE r \in UserRow
      <3>1. user'[o] = r /\ user'[o] \in UserRow
        BY <1>0, <2>4 DEF Typed, UserOK
      <3> QED  BY <3>1
    <2> HIDE DEF r
    <2> QED  BY <1>0, <1>u, <2>1, <2>2, <2>3, <2>4, RowKeepsCodes
  <1>3. ASSUME NEW t \in Task, ConfirmTotp(t) PROVE CodesInv'
    <2> DEFINE o == task[t].of
               r == [user[o] EXCEPT !.totp = user[o].pending, !.pending = NoSecret, !.last = NoStep]
    <2>1. proved' = proved /\ fresh' = fresh /\ (user' = user \/ user' = [user EXCEPT ![o] = r])
      BY <1>3 DEF ConfirmTotp
    <2>2. r.pending = NoSecret /\ r.totp = user[o].pending
      BY <1>0 DEF UserRow
    <2>3. ASSUME user' = [user EXCEPT ![o] = r] PROVE r \in UserRow
      <3>1. user'[o] = r /\ user'[o] \in UserRow
        BY <1>0, <2>3 DEF Typed, UserOK
      <3> QED  BY <3>1
    <2> HIDE DEF r
    <2> QED  BY <1>0, <1>u, <2>1, <2>2, <2>3, RowKeepsCodes
  <1>4. ASSUME NEW t \in Task, Write(t) PROVE CodesInv'
    <2> DEFINE o == task[t].of
    <2>1. task[t].op \in {"unenrol", "passwd"} \cup ChangeOp
      BY <1>0, <1>4 DEF Write, Placed, OpsAt
    <2>2. proved' = proved /\ fresh' = fresh /\ (user' = user \/ \E p : user' = [user EXCEPT ![o] = Written(task[t].op, user[o], p)])
      BY <1>4 DEF Write, ghosts
    <2>3. ASSUME NEW p, user' = [user EXCEPT ![o] = Written(task[t].op, user[o], p)] PROVE CodesInv'
      <3> DEFINE r == Written(task[t].op, user[o], p)
      <3>1. r \in UserRow
        <4>1. user'[o] = r /\ user'[o] \in UserRow
          BY <1>0, <2>3 DEF Typed, UserOK
        <4> QED  BY <4>1
      <3>2. \/ r.totp = NoSecret /\ r.pending = NoSecret
            \/ r.totp = user[o].totp /\ r.pending = user[o].pending /\ r.last = user[o].last
        <4>1. CASE task[t].op \in {"passwd", "setpw"}
          <5>1. r = [user[o] EXCEPT !.pw = p, !.outdated = FALSE]
            BY <4>1 DEF Written
          <5> QED  BY <1>0, <5>1 DEF UserRow
        <4>2. CASE task[t].op \in {"unenrol", "reset"}
          <5>1. r = [user[o] EXCEPT !.totp = NoSecret, !.pending = NoSecret, !.last = NoStep]
            BY <4>2 DEF Written
          <5> QED  BY <1>0, <5>1 DEF UserRow
        <4>3. CASE task[t].op \in {"disable", "enable"}
          <5>1. \E st : r = [user[o] EXCEPT !.status = st]
            BY <4>3 DEF Written
          <5> QED  BY <1>0, <5>1 DEF UserRow
        <4>4. CASE task[t].op \in {"demote", "appoint"}
          <5>1. \E b : r = [user[o] EXCEPT !.admin = b]
            BY <4>4 DEF Written
          <5> QED  BY <1>0, <5>1 DEF UserRow
        <4> QED  BY <2>1, <4>1, <4>2, <4>3, <4>4 DEF ChangeOp
      <3> HIDE DEF r
      <3> QED  BY <1>0, <1>l, <2>2, <2>3, <3>1, <3>2, RowKeepsCodes DEF r
    <2> QED  BY <1>u, <2>2, <2>3
  <1>5. ASSUME NEW o \in Operator, DeleteOperator(o) PROVE CodesInv'
    <2> DEFINE r == [NewUser EXCEPT !.status = "deleted", !.admin = FALSE]
    <2>1. user' = [user EXCEPT ![o] = r] /\ fresh' = fresh /\ proved' = proved
      BY <1>5 DEF DeleteOperator, ghosts
    <2>2. r \in UserRow /\ r.totp = NoSecret /\ r.pending = NoSecret
      BY RowsOK DEF UserRow, NewUser
    <2> HIDE DEF r
    <2> QED  BY <2>1, <2>2, RowKeepsCodes
  <1>6. ASSUME NEW t \in Task, BeginTotp(t) PROVE CodesInv'
    <2> DEFINE o == task[t].of
    <2>1. proved' = proved
      BY <1>6 DEF BeginTotp, ghosts
    <2>2. CASE user' = user /\ fresh' = fresh
      BY <1>u, <2>1, <2>2
    <2>3. ASSUME NEW x \in fresh, fresh' = fresh \ {x}, user' = user \/ user' = [user EXCEPT ![o].pending = x]
          PROVE  CodesInv'
      <3>1. x \in Secret /\ x # NoSecret /\ fresh \subseteq Secret
        BY DEF Typed, GhostOK, AdminAssumption
      <3>2. \A v \in Operator : user'[v].totp = user[v].totp /\ user'[v].last = user[v].last
                                /\ user'[v].pending \in {user[v].pending} \cup (IF v = o THEN {x} ELSE {})
        BY <1>0, <2>3 DEF UserRow
      <3>3. \A v \in Operator : x # user[v].totp /\ x # user[v].pending
        BY <3>1 DEF CodesInv, SecretsApart, Uses
      <3>4. SecretsApart'
        <4>1. \A v \in Operator : Uses(v)' \subseteq Uses(v) \cup (IF v = o THEN {x} ELSE {})
          BY <3>2 DEF Uses
        <4>2. \A v \in Operator : x \notin Uses(v)
          BY <3>3 DEF Uses
        <4>3. \A v \in Operator : Uses(v)' \cap fresh' = {}
          BY <2>3, <4>1 DEF CodesInv, SecretsApart
        <4>4. \A v, u \in Operator : v # u => Uses(v)' \cap Uses(u)' = {}
          BY <4>1, <4>2 DEF CodesInv, SecretsApart
        <4>5. \A v \in Operator : user'[v].totp # NoSecret => user'[v].totp # user'[v].pending
          BY <3>2, <3>3 DEF CodesInv, SecretsApart
        <4> QED  BY <4>3, <4>4, <4>5 DEF SecretsApart
      <3>5. ProvedLast'
        <4> SUFFICES ASSUME NEW y \in Secret, NEW k \in 0..MaxStep, proved[y][k] # 0
                     PROVE  /\ y \notin fresh'
                            /\ \A v \in Operator : user'[v].pending # y /\ (user'[v].totp = y => user'[v].last >= k)
          BY <2>1 DEF ProvedLast
        <4>1. y \notin fresh /\ \A v \in Operator : user[v].pending # y /\ (user[v].totp = y => user[v].last >= k)
          BY DEF CodesInv, ProvedLast
        <4>2. y # x
          BY <4>1
        <4> QED  BY <2>3, <3>2, <4>1, <4>2
      <3> QED  BY <2>1, <3>4, <3>5 DEF CodesInv, AtMostOnce
    <2> QED  BY <1>6, <2>2, <2>3 DEF BeginTotp, AnyOf
  <1>7. ASSUME NEW t \in Task, ClaimStep(t) PROVE CodesInv'
    <2> DEFINE o == task[t].of
               k == task[t].step
               x == task[t].read.totp
    <2>1. x \in Secret /\ k \in 0..MaxStep /\ x # NoSecret
      BY <1>0, <1>7 DEF ClaimStep, Placed, TaskRow, UserRow
    <2>2. fresh' = fresh
      BY <1>7 DEF ClaimStep
    <2>3. CASE user' = user /\ proved' = proved
      BY <1>u, <2>2, <2>3
    <2>4. ASSUME user' = [user EXCEPT ![o].last = k], user[o].last < k,
                 \/ proved' = proved
                 \/ user[o].totp = x /\ proved' = [proved EXCEPT ![x] = [@ EXCEPT ![k] = proved[x][k] + 1]]
          PROVE  CodesInv'
      <3>1. \A v \in Operator : /\ user'[v].totp = user[v].totp /\ user'[v].pending = user[v].pending
                                /\ user'[v].last = IF v = o THEN k ELSE user[v].last
        BY <1>0, <2>4 DEF UserRow
      <3>2. SecretsApart'
        BY <2>2, <3>1 DEF CodesInv, SecretsApart, Uses
      <3>3. ASSUME NEW y \in Secret, NEW j \in 0..MaxStep
            PROVE  proved'[y][j] = proved[y][j] \/ (y = x /\ j = k /\ user[o].totp = x /\ proved'[y][j] = proved[y][j] + 1)
        <4>1. CASE proved' = proved
          BY <4>1
        <4>2. ASSUME user[o].totp = x, proved' = [proved EXCEPT ![x] = [@ EXCEPT ![k] = proved[x][k] + 1]]
              PROVE  proved'[y][j] = proved[y][j] \/ (y = x /\ j = k /\ proved'[y][j] = proved[y][j] + 1)
          <5> DEFINE n == proved[x][k] + 1
          <5>1. proved[x] \in [0..MaxStep -> Nat]
            BY <1>0, <2>1
          <5>2. y # x => proved'[y] = proved[y]
            BY <1>0, <4>2
          <5>3. proved'[x] = [proved[x] EXCEPT ![k] = n]
            BY <1>0, <2>1, <4>2
          <5> HIDE DEF n
          <5>4. y = x => proved'[y][j] = IF j = k THEN n ELSE proved[y][j]
            BY <2>1, <5>1, <5>3
          <5> QED  BY <5>2, <5>4 DEF n
        <4> QED  BY <2>4, <4>1, <4>2
      <3>4. user[o].totp = x => proved[x][k] = 0
        <4>1. proved[x][k] # 0 /\ user[o].totp = x => user[o].last >= k
          BY <1>0, <2>1 DEF CodesInv, ProvedLast
        <4>2. ~(user[o].last >= k)
          BY <1>0, <1>l, <2>1, <2>4
        <4> QED  BY <4>1, <4>2
      <3>5. AtMostOnce'
        <4> SUFFICES ASSUME NEW y \in Secret, NEW j \in 0..MaxStep PROVE proved'[y][j] <= 1
          BY DEF AtMostOnce
        <4>1. proved[y][j] <= 1
          BY DEF CodesInv, AtMostOnce
        <4> QED  BY <3>3, <3>4, <4>1
      <3>6. ProvedLast'
        <4> SUFFICES ASSUME NEW y \in Secret, NEW j \in 0..MaxStep, proved'[y][j] # 0, NEW v \in Operator
                     PROVE  y \notin fresh /\ user'[v].pending # y /\ (user'[v].totp = y => user'[v].last >= j)
          BY <2>2 DEF ProvedLast
        <4>0. j \in Int /\ k \in Int /\ user[o].last \in Int
          BY <1>0, <1>l, <2>1
        <4>1. CASE proved[y][j] # 0
          <5>1. y \notin fresh /\ user[v].pending # y /\ (user[v].totp = y => user[v].last >= j)
            BY <4>1 DEF CodesInv, ProvedLast
          <5>2. v = o /\ user[v].totp = y => k >= j
            BY <2>4, <4>0, <5>1
          <5> QED  BY <3>1, <5>1, <5>2
        <4>2. CASE proved[y][j] = 0
          <5>1. y = x /\ j = k /\ user[o].totp = x
            BY <3>3, <4>2
          <5>2. x \in Uses(o)
            BY <2>1, <5>1 DEF Uses
          <5>3. x \notin fresh /\ (v # o => x \notin Uses(v)) /\ user[o].pending # x
            BY <1>0, <2>1, <5>1, <5>2 DEF CodesInv, SecretsApart
          <5>4. user[v].pending # x /\ (user[v].totp = x => v = o)
            BY <2>1, <5>3 DEF Uses
          <5>5. k >= k
            BY <4>0
          <5> QED  BY <3>1, <5>1, <5>3, <5>4, <5>5
        <4> QED  BY <4>1, <4>2
      <3> QED  BY <3>2, <3>5, <3>6 DEF CodesInv
    <2> QED  BY <1>7, <2>3, <2>4 DEF ClaimStep, Claimable
  <1>8. CASE user' = user
    BY <1>6, <1>7, <1>8, <1>f, <1>p, <1>u
  <1> QED  BY <1>1, <1>2, <1>3, <1>4, <1>5, <1>6, <1>7, <1>8, UserSteps

LEMMA HeirsKept ==
    ASSUME AdminAssumption, Typed, Typed', HeirsInv, [AdminNext]_adminVars
    PROVE  HeirsInv'
  <1>0. /\ sess \in [Session -> SessRow] /\ sess' \in [Session -> SessRow]
        /\ \A t \in Task : task[t] \in TaskRow /\ Placed(task[t])
    BY DEF Typed, TaskOK, SessOK
  <1>m. \A s \in Minted : s \in Session /\ sess[s].state = "unborn"
    BY DEF Minted, AnyOf, Typed, SceneOK, AdminAssumption
  \* A row keeps where it came from, or is ended.
  <1>s. ASSUME \A s \in Session : \/ sess'[s].from = sess[s].from /\ sess'[s].state = sess[s].state
                                  \/ sess'[s].state = "gone"
        PROVE  HeirsInv'
    <2>1. \A s \in Session : sess'[s].state \in {"pending", "active"} => Live(s) /\ sess'[s].from = sess[s].from
      BY <1>s DEF Live
    <2>2. \A s \in Session : sess[s].state = "gone" => sess'[s].state = "gone"
      BY <1>s
    <2>3. FromGone'
      BY <2>1, <2>2 DEF HeirsInv, FromGone, Live
    <2>4. OneHeir'
      BY <2>1 DEF HeirsInv, OneHeir, Live
    <2> QED  BY <2>3, <2>4 DEF HeirsInv
  <1>1. ASSUME NEW t \in Task, OpenSession(t), sess' # sess PROVE HeirsInv'
    <2>1. PICK s \in Minted : \E x : sess' = [sess EXCEPT ![s] = x] /\ x.from = NoSession
      <3> DEFINE q == task[t]
                 r == user[q.of]
                 st == IF q.read.totp # NoSecret \/ scene.require THEN "pending" ELSE "active"
                 late == r.pw # q.pw \/ r.status # "active" \/ r.totp # q.read.totp
                 x == [NoSess EXCEPT !.state = st, !.of = q.of, !.pw = q.pw, !.totp = NoSecret, !.late = late]
      <3>1. \E s \in Minted : sess' = [sess EXCEPT ![s] = x]
        BY <1>1 DEF OpenSession
      <3> HIDE DEF st, late
      <3>2. x.from = NoSession
        BY DEF NoSess
      <3> HIDE DEF x
      <3> QED  BY <3>1, <3>2
    <2>2. s \in Session /\ sess[s].state = "unborn" /\ sess'[s].from = NoSession /\ NoSession \notin Session
          /\ \A n \in Session : n # s => sess'[n] = sess[n]
      BY <1>0, <1>m, <2>1 DEF AdminAssumption
    <2>3. \A n \in Session : Live(n)' /\ sess'[n].from \in Session => n # s /\ Live(n) /\ sess'[n].from = sess[n].from
      BY <2>2 DEF Live
    <2>4. \A n \in Session : sess[n].state = "gone" => sess'[n].state = "gone"
      BY <2>2
    <2>5. FromGone'
      BY <2>3, <2>4 DEF HeirsInv, FromGone
    <2>6. OneHeir'
      BY <2>3 DEF HeirsInv, OneHeir
    <2> QED  BY <2>5, <2>6 DEF HeirsInv
  <1>2. ASSUME NEW t \in Task, Promote(t), sess' # sess PROVE HeirsInv'
    <2> DEFINE p == task[t].sess
               q == task[t]
               f == IF q.op = "code" THEN q.read.totp ELSE sess[q.sess].totp
               x == [sess[q.sess] EXCEPT !.state = "active", !.from = q.sess, !.fails = 0, !.totp = f]
    <2>0. p \in Session
      BY <1>0, <1>2 DEF Promote, Placed, OpsAt, SessionOp
    <2>1. sess[p].state = "pending" /\ \E s \in Minted : sess' = [Ended({p}) EXCEPT ![s] = x]
      BY <1>2 DEF Promote
    <2>2. x.from = p
      BY <1>0, <2>0 DEF SessRow
    <2> HIDE DEF x
    <2>3. PICK s \in Minted : sess' = [Ended({p}) EXCEPT ![s] = x]
      BY <2>1
    <2>4. s \in Session /\ sess[s].state = "unborn" /\ s # p
      BY <1>m, <2>1
    <2>5. sess'[s].from = p /\ sess'[p].state = "gone"
          /\ \A n \in Session : n # s /\ n # p => sess'[n] = sess[n]
      <3>1. Ended({p}) \in [Session -> SessRow] /\ Ended({p})[p].state = "gone"
            /\ \A n \in Session : n # p => Ended({p})[n] = sess[n]
        BY <2>0, <2>1, EndedOK DEF Typed, Live
      <3> QED  BY <2>0, <2>2, <2>3, <2>4, <3>1
    <2>6. \A n \in Session : Live(n)' /\ n # s => Live(n) /\ n # p /\ sess'[n] = sess[n]
      BY <2>0, <2>5 DEF Live
    <2>7. \A n \in Session : sess[n].state = "gone" => sess'[n].state = "gone"
      BY <2>4, <2>5
    <2>8. \A n \in Session : Live(n)' /\ n # s => sess'[n].from # p
      BY <2>0, <2>1, <2>6 DEF HeirsInv, FromGone
    <2>9. FromGone'
      BY <2>5, <2>6, <2>7 DEF HeirsInv, FromGone
    <2>10. OneHeir'
      BY <2>5, <2>6, <2>8 DEF HeirsInv, OneHeir
    <2> QED  BY <2>9, <2>10 DEF HeirsInv
  <1>3. ASSUME NEW t \in Task, CountFailure(t) \/ ConfirmTotp(t) \/ Write(t) PROVE HeirsInv'
    <2>1. \/ sess' = sess
          \/ \E n : sess' = [sess EXCEPT ![task[t].sess].fails = n]
          \/ \E x : sess' = [sess EXCEPT ![task[t].sess].totp = x]
          \/ \E p : sess' = [sess EXCEPT ![task[t].sess].pw = p]
      BY <1>3 DEF CountFailure, ConfirmTotp, Write
    <2>2. \A s \in Session : sess'[s].from = sess[s].from /\ sess'[s].state = sess[s].state
      <3> SUFFICES ASSUME NEW s \in Session PROVE sess'[s].from = sess[s].from /\ sess'[s].state = sess[s].state
        OBVIOUS
      <3>1. sess[s] \in SessRow
        BY <1>0
      <3>2. \/ sess'[s] = sess[s]
            \/ \E n : sess'[s] = [sess[s] EXCEPT !.fails = n]
            \/ \E x : sess'[s] = [sess[s] EXCEPT !.totp = x]
            \/ \E p : sess'[s] = [sess[s] EXCEPT !.pw = p]
        BY <1>0, <2>1
      <3> QED  BY <3>1, <3>2 DEF SessRow
    <2> QED  BY <1>s, <2>2
  <1>4. ASSUME NEW gone, sess' = Ended(gone) PROVE HeirsInv'
    <2>1. \A s \in Session : sess'[s] = sess[s] \/ sess'[s].state = "gone"
      BY <1>4, EndedOK DEF Typed
    <2> QED  BY <1>s, <2>1
  <1>5. CASE sess' = sess
    BY <1>5, <1>s
  <1>6. ASSUME NEW t \in Task, Evict(t) \/ Revoke(t) PROVE HeirsInv'
    BY <1>4, <1>6 DEF Evict, Revoke
  <1>7. ASSUME (\E o \in Operator : DeleteOperator(o)) \/ (\E s \in Session : EndSession(s)) PROVE HeirsInv'
    BY <1>4, <1>7 DEF DeleteOperator, EndSession
  <1> QED  BY <1>1, <1>2, <1>3, <1>5, <1>6, <1>7, SessSteps

\* SpentOnce is an invariant: a code of the current factor completes one sign-in and a
\* half session becomes one session, however many submissions race.  The first half
\* needs that no secret is ever in two places and that the row's last step has reached
\* every code accepted; the second that what a session came from is gone.
THEOREM CodesAreSpentOnce == AdminSpec => []SpentOnce
  <1>1. ASSUME AdminInit PROVE CodesInv /\ HeirsInv
    <2>1. proved = [x \in Secret |-> [k \in 0..MaxStep |-> 0]]
      BY <1>1 DEF AdminInit
    <2>2. PICK f \in [scene.enrolled -> Secret] :
                /\ \A o, v \in scene.enrolled : f[o] = f[v] => o = v
                /\ user = [o \in Operator |-> [NewUser EXCEPT !.outdated = scene.outdated,
                                               !.totp = IF o \in scene.enrolled THEN f[o] ELSE NoSecret]]
                /\ fresh = Secret \ {f[o] : o \in scene.enrolled}
      BY <1>1 DEF AdminInit, AnyOf
    <2>3. \A o \in Operator : /\ user[o].pending = NoSecret
                              /\ user[o].totp = IF o \in scene.enrolled THEN f[o] ELSE NoSecret
      BY <2>2 DEF NewUser
    <2>4. SecretsApart
      <3>1. \A o \in Operator : Uses(o) \subseteq IF o \in scene.enrolled THEN {f[o]} ELSE {}
        BY <2>3 DEF Uses
      <3>2. \A o \in Operator : Uses(o) \cap fresh = {}
        BY <2>2, <3>1
      <3>3. \A o, v \in Operator : o # v => Uses(o) \cap Uses(v) = {}
        BY <2>2, <3>1
      <3> QED  BY <2>3, <3>2, <3>3 DEF SecretsApart
    <2>5. ProvedLast /\ AtMostOnce
      BY <2>1 DEF ProvedLast, AtMostOnce
    <2>6. \A s \in Session : ~Live(s)
      BY <1>1 DEF AdminInit, Live, NoSess
    <2> QED  BY <2>4, <2>5, <2>6 DEF CodesInv, HeirsInv, FromGone, OneHeir
  <1>2. Typed /\ Typed' /\ CodesInv /\ HeirsInv /\ [AdminNext]_adminVars => CodesInv' /\ HeirsInv'
    BY AdminAssumption, CodesKept, HeirsKept
  <1>3. CodesInv /\ HeirsInv => SpentOnce
    <2> SUFFICES ASSUME HeirsInv, NEW s \in Session
                 PROVE  Cardinality({n \in Session : Live(n) /\ sess[n].from = s}) <= 1
      BY DEF CodesInv, AtMostOnce, SpentOnce
    <2> DEFINE H == {n \in Session : Live(n) /\ sess[n].from = s}
    <2>1. \A m, n \in H : m = n
      BY DEF HeirsInv, OneHeir
    <2>2. H = {} \/ \E n : H = {n}
      BY <2>1
    <2> HIDE DEF H
    <2>3. Cardinality(H) \in {0, 1}
      BY <2>2, FS_EmptySet, FS_Singleton
    <2> QED  BY <2>3 DEF H
  <1> QED  BY <1>1, <1>2, <1>3, TypedSafety, PTL DEF AdminSpec

-----------------------------------------------------------------------------
(* Revocation.                                                              *)

\* A change that has been made and will yet end the session.
Killer(s) == \E t \in Task : task[t].of = sess[s].of /\ Unrevoked(t) /\ task[t].sess # s

\* A session RevocationHolds speaks of, or a half one that may become one.
Counted(s) == Live(s) /\ ~sess[s].late /\ sess[s].of \notin undone

\* The session is good for what stands; a half one may have no factor yet.
Good(s) ==
    LET r == user[sess[s].of] IN
    /\ r.status = "active" /\ r.pw = sess[s].pw
    /\ sess[s].totp = r.totp \/ (sess[s].state = "pending" /\ sess[s].totp = NoSecret)

\* A request is of the owner of its session, while there is one, and knows of which kind.
Linked ==
    \A t \in Task :
        task[t].sess \in Session =>
            /\ sess[task[t].sess].state # "unborn"
            /\ Live(task[t].sess) => /\ sess[task[t].sess].of = task[t].of
                                     /\ task[t].half <=> sess[task[t].sess].state = "pending"
Halves ==
    \A t \in Task : /\ task[t].op = "code" => task[t].half
                    /\ task[t].op \in {"unenrol", "recodes", "passwd"} => ~task[t].half
Stands == \A s \in Session : Counted(s) => Killer(s) \/ Good(s)

\* What a request has read of the factor, or has made it, on the way to a promotion.
CodeReads ==
    \A t \in Task :
        (/\ task[t].op = "code" /\ task[t].pc \in {"begin", "verify", "claim", "consume", "promote"}
         /\ Counted(task[t].sess))
        => task[t].read.totp \in {NoSecret, user[task[t].of].totp} \/ Killer(task[t].sess)
ConfirmMade ==
    \A t \in Task :
        (/\ task[t].op = "confirm" /\ task[t].half
         /\ task[t].pc \in {"confirm", "claimfirst", "codes", "revoke", "promote"} /\ Counted(task[t].sess))
        => user[task[t].of].totp = sess[task[t].sess].totp \/ Killer(task[t].sess)

LinkInv == Linked /\ Halves
RevocationInv == Stands /\ CodeReads /\ ConfirmMade

\* A request ends, begins, or stays the request it was.
LEMMA TaskKeeps ==
    ASSUME AdminAssumption, Typed, NEW t \in Task, TaskStep(t), LimiterOK'
    PROVE  /\ \A u \in Task : u # t => task'[u] = task[u]
           /\ \/ task'[t] = Idle
              \/ task[t].pc = "free"
              \/ /\ task'[t].op = task[t].op /\ task'[t].of = task[t].of
                 /\ task'[t].sess = task[t].sess /\ task'[t].half = task[t].half
                 /\ task'[t].read = task[t].read \/ FindOwner(t) \/ Authenticate(t)
  <1> DEFINE q == task[t]
             Kept == /\ task'[t].op = task[t].op /\ task'[t].of = task[t].of
                     /\ task'[t].sess = task[t].sess /\ task'[t].half = task[t].half
             Keeps == \/ task'[t] = Idle
                      \/ task[t].pc = "free"
                      \/ Kept /\ (task'[t].read = task[t].read \/ FindOwner(t) \/ Authenticate(t))
  <1>0. task \in [Task -> TaskRow] /\ q \in TaskRow
    BY DEF Typed, TaskOK
  <1>1. ASSUME NEW x, task' = [task EXCEPT ![t] = x] PROVE task'[t] = x /\ \A u \in Task : u # t => task'[u] = task[u]
    BY <1>0, <1>1
  <1>i. ASSUME task' = [task EXCEPT ![t] = Idle] PROVE Keeps
    BY <1>1, <1>i
  <1>p. ASSUME NEW pc, task' = [task EXCEPT ![t].pc = pc] \/ task' = [task EXCEPT ![t] = [@ EXCEPT !.pc = pc]] PROVE Keeps
    <2>1. task'[t] = [q EXCEPT !.pc = pc]
      BY <1>0, <1>p
    <2> QED  BY <1>0, <2>1 DEF TaskRow
  <1>s. ASSUME NEW pc, NEW v, \/ task' = [task EXCEPT ![t] = [@ EXCEPT !.pc = pc, !.slot = v]]
                              \/ task' = [task EXCEPT ![t] = [@ EXCEPT !.slot = v, !.pc = pc]]
                              \/ task' = [task EXCEPT ![t] = [@ EXCEPT !.pc = pc, !.step = v]]
                              \/ task' = [task EXCEPT ![t] = [@ EXCEPT !.pc = pc, !.code = v]]
        PROVE Keeps
    <2>1. \/ task'[t] = [q EXCEPT !.pc = pc, !.slot = v] \/ task'[t] = [q EXCEPT !.slot = v, !.pc = pc]
          \/ task'[t] = [q EXCEPT !.pc = pc, !.step = v] \/ task'[t] = [q EXCEPT !.pc = pc, !.code = v]
      BY <1>0, <1>s
    <2> QED  BY <1>0, <2>1 DEF TaskRow
  <1>r. ASSUME NEW pc, NEW v, task' = [task EXCEPT ![t] = [@ EXCEPT !.read = v, !.pc = pc]] PROVE Kept
    <2>1. task'[t] = [q EXCEPT !.read = v, !.pc = pc]
      BY <1>0, <1>r
    <2> QED  BY <1>0, <2>1 DEF TaskRow
  <1>k. ASSUME Kept, FindOwner(t) \/ Authenticate(t) PROVE Keeps
    BY <1>k
  <1>f. ASSUME q.pc = "free" PROVE Keeps
    BY <1>f
  <1>u. \A u \in Task : u # t => task'[u] = task[u]
    BY <1>1, TaskMoves
  <1> SUFFICES Keeps
    BY <1>u
  <1> HIDE DEF Kept, Keeps
  <1>2. CASE \/ \E o \in Operator, p \in Password : SignIn(t, o, p) \/ \E op \in ChangeOp : Change(t, o, op, p)
             \/ \E s \in Session, op \in SessionOp : Present(t, s, op)
    <2>1. q.pc = "free"
      BY <1>2 DEF SignIn, Change, Present
    <2> QED  BY <1>f, <2>1
  <1>3. CASE BeginAttempt(t)
    <2>1. PICK pc : Begin(t, pc)
      BY <1>3 DEF BeginAttempt
    <2> QED  BY <1>i, <1>p, <1>s, <2>1 DEF Begin
  <1>4. CASE Authenticate(t)
    <2>1. \E v, pc : task' = [task EXCEPT ![t] = [@ EXCEPT !.read = v, !.pc = pc]]
      BY <1>4 DEF Authenticate
    <2> QED  BY <1>4, <1>k, <1>r, <2>1
  <1>5. CASE FindOwner(t)
    <2>1. task' = [task EXCEPT ![t] = Idle] \/ \E v, pc : task' = [task EXCEPT ![t] = [@ EXCEPT !.read = v, !.pc = pc]]
      BY <1>5 DEF FindOwner
    <2> QED  BY <1>5, <1>i, <1>k, <1>r, <2>1
  <1>6. CASE Rehash(t) \/ OpenSession(t) \/ ClearFailures(t) \/ Consume(t) \/ Promote(t) \/ BeginTotp(t) \/ ClaimFirst(t)
             \/ ClaimStep(t) \/ Evict(t) \/ Cancel(t)
    <2>1. task' = [task EXCEPT ![t] = Idle] \/ \E pc : task' = [task EXCEPT ![t].pc = pc]
      BY <1>6 DEF Rehash, OpenSession, ClearFailures, Consume, Promote, BeginTotp, ClaimFirst, ClaimStep, Evict, Cancel, Over
    <2> QED  BY <1>i, <1>p, <2>1
  <1>7. CASE CountFailure(t) \/ ReplaceCodes(t) \/ CountAdmins(t) \/ Write(t) \/ Revoke(t)
    <2>1. task' = [task EXCEPT ![t] = Idle] \/ \E pc : task' = [task EXCEPT ![t] = [@ EXCEPT !.pc = pc]]
      BY <1>7 DEF CountFailure, ReplaceCodes, CountAdmins, Write, Revoke
    <2> QED  BY <1>i, <1>p, <2>1
  <1>8. CASE (\E right \in BOOLEAN : Prove(t, right)) \/ Fail(t)
    <2>1. \/ task' = [task EXCEPT ![t] = Idle]
          \/ \E v, pc : \/ task' = [task EXCEPT ![t] = [@ EXCEPT !.slot = v, !.pc = pc]]
                        \/ task' = [task EXCEPT ![t] = [@ EXCEPT !.pc = pc, !.slot = v]]
      BY <1>8 DEF Prove, Fail
    <2> QED  BY <1>i, <1>s, <2>1
  <1>9. CASE Verify(t) \/ ConfirmTotp(t)
    <2>1. \/ task' = [task EXCEPT ![t] = Idle] \/ \E pc : task' = [task EXCEPT ![t].pc = pc]
          \/ \E v, pc : \/ task' = [task EXCEPT ![t] = [@ EXCEPT !.pc = pc, !.step = v]]
                        \/ task' = [task EXCEPT ![t] = [@ EXCEPT !.pc = pc, !.code = v]]
      BY <1>9 DEF Verify, ConfirmTotp
    <2> QED  BY <1>i, <1>p, <1>s, <2>1
  <1> QED  BY <1>2, <1>3, <1>4, <1>5, <1>6, <1>7, <1>8, <1>9 DEF TaskStep

\* A session that lives was there, of the same operator and kind, or is new.
LEMMA SessLives ==
    ASSUME AdminAssumption, Typed, Typed', [AdminNext]_adminVars, NEW s \in Session
    PROVE  /\ sess[s].state # "unborn" => sess'[s].state # "unborn"
           /\ Live(s)' => \/ /\ Live(s) /\ sess'[s].of = sess[s].of
                             /\ sess'[s].late = sess[s].late /\ sess'[s].state = sess[s].state
                          \/ sess[s].state = "unborn" /\ \E t \in Task : OpenSession(t) \/ Promote(t)
           /\ Live(s)' /\ Live(s) => \/ sess'[s].pw = sess[s].pw /\ sess'[s].totp = sess[s].totp
                                     \/ \E t \in Task : (ConfirmTotp(t) \/ Write(t)) /\ task[t].sess = s
  <1> DEFINE Known == /\ sess[s].state # "unborn" => sess'[s].state # "unborn"
                      /\ Live(s)' => /\ Live(s) /\ sess'[s].of = sess[s].of
                                     /\ sess'[s].late = sess[s].late /\ sess'[s].state = sess[s].state
             Same == Live(s)' /\ Live(s) => sess'[s].pw = sess[s].pw /\ sess'[s].totp = sess[s].totp
             New == sess[s].state = "unborn" /\ \E t \in Task : OpenSession(t) \/ Promote(t)
             Wrote == \E t \in Task : (ConfirmTotp(t) \/ Write(t)) /\ task[t].sess = s
  <1> SUFFICES (Known /\ (Same \/ Wrote)) \/ New
    BY DEF Live
  <1>0. sess \in [Session -> SessRow] /\ sess[s] \in SessRow
    BY DEF Typed, SessOK
  <1>m. \A n \in Minted : n \in Session /\ sess[n].state = "unborn"
    BY DEF Minted, AnyOf, Typed, SceneOK, AdminAssumption
  <1>u. ASSUME sess'[s] = sess[s] PROVE Known /\ Same
    BY <1>u DEF Live
  <1>g. ASSUME sess'[s].state = "gone" PROVE Known /\ Same
    BY <1>g DEF Live
  <1>e. ASSUME NEW gone, sess' = Ended(gone) PROVE Known /\ Same
    <2>1. sess'[s] = sess[s] \/ sess'[s].state = "gone"
      BY <1>e, EndedOK DEF Typed
    <2> QED  BY <1>u, <1>g, <2>1
  <1>w. ASSUME NEW v, \/ sess'[s] = [sess[s] EXCEPT !.fails = v] \/ sess'[s] = [sess[s] EXCEPT !.totp = v]
                      \/ sess'[s] = [sess[s] EXCEPT !.pw = v]
        PROVE  Known /\ (sess'[s] = [sess[s] EXCEPT !.fails = v] => Same)
    BY <1>0, <1>w DEF Live, SessRow
  <1> HIDE DEF Known, Same, Wrote
  <1>1. ASSUME NEW t \in Task, OpenSession(t) PROVE (Known /\ Same) \/ New
    <2>1. sess' = sess \/ \E n \in Minted : \E x : sess' = [sess EXCEPT ![n] = x]
      BY <1>1 DEF OpenSession
    <2> QED  BY <1>0, <1>1, <1>m, <1>u, <2>1
  <1>2. ASSUME NEW t \in Task, Promote(t) PROVE (Known /\ Same) \/ New
    <2>1. sess' = sess \/ \E n \in Minted : \E x : sess' = [Ended({task[t].sess}) EXCEPT ![n] = x]
      BY <1>2 DEF Promote
    <2>2. CASE sess' = sess
      BY <1>u, <2>2
    <2>3. ASSUME NEW n \in Minted, NEW x, sess' = [Ended({task[t].sess}) EXCEPT ![n] = x] PROVE (Known /\ Same) \/ New
      <3>1. CASE n = s
        BY <1>2, <1>m, <3>1
      <3>2. CASE n # s
        <4>1. sess'[s] = Ended({task[t].sess})[s]
          BY <2>3, <3>2 DEF Ended
        <4>2. sess'[s] = sess[s] \/ sess'[s].state = "gone"
          BY <4>1, EndedOK DEF Typed
        <4> QED  BY <1>u, <1>g, <4>2
      <3> QED  BY <3>1, <3>2
    <2> QED  BY <2>1, <2>2, <2>3
  <1>3. ASSUME NEW t \in Task, CountFailure(t) PROVE Known /\ Same
    <2>1. sess' = sess \/ \E v : sess' = [sess EXCEPT ![task[t].sess].fails = v]
      BY <1>3 DEF CountFailure
    <2>2. sess'[s] = sess[s] \/ \E v : sess'[s] = [sess[s] EXCEPT !.fails = v]
      BY <1>0, <2>1
    <2> QED  BY <1>u, <1>w, <2>2
  <1>4. ASSUME NEW t \in Task, ConfirmTotp(t) \/ Write(t) PROVE Known /\ (Same \/ Wrote)
    <2>1. sess' = sess \/ \E v : \/ sess' = [sess EXCEPT ![task[t].sess].totp = v]
                                 \/ sess' = [sess EXCEPT ![task[t].sess].pw = v]
      BY <1>4 DEF ConfirmTotp, Write
    <2>2. CASE task[t].sess # s
      <3>1. sess'[s] = sess[s]
        BY <1>0, <2>1, <2>2
      <3> QED  BY <1>u, <3>1
    <2>3. CASE task[t].sess = s
      <3>1. Wrote
        BY <1>4, <2>3 DEF Wrote
      <3>2. sess'[s] = sess[s] \/ \E v : sess'[s] = [sess[s] EXCEPT !.totp = v] \/ sess'[s] = [sess[s] EXCEPT !.pw = v]
        BY <1>0, <2>1, <2>3
      <3> QED  BY <1>u, <1>w, <3>1, <3>2
    <2> QED  BY <2>2, <2>3
  <1>5. ASSUME NEW t \in Task, Evict(t) \/ Revoke(t) PROVE Known /\ Same
    BY <1>e, <1>5 DEF Evict, Revoke
  <1>6. ASSUME (\E o \in Operator : DeleteOperator(o)) \/ (\E n \in Session : EndSession(n)) PROVE Known /\ Same
    BY <1>e, <1>6 DEF DeleteOperator, EndSession
  <1> QED  BY <1>u, <1>1, <1>2, <1>3, <1>4, <1>5, <1>6, SessSteps

LEMMA UndoneGrows ==
    ASSUME [AdminNext]_adminVars
    PROVE  undone \subseteq undone'
  <1>1. ASSUME NEW t \in Task, Rehash(t) \/ ConfirmTotp(t) \/ Cancel(t) PROVE undone \subseteq undone'
    BY <1>1 DEF Rehash, ConfirmTotp, Cancel
  <1>2. CASE Die
    BY <1>2 DEF Die
  <1> QED  BY <1>1, <1>2, GhostSteps

\* A session that is still counted was, unless it is new.
LEMMA CountedWas ==
    ASSUME AdminAssumption, Typed, Typed', [AdminNext]_adminVars, NEW s \in Session, Counted(s)', sess[s].state # "unborn"
    PROVE  /\ Counted(s) /\ sess'[s].of = sess[s].of /\ sess'[s].state = sess[s].state
           /\ \/ sess'[s].pw = sess[s].pw /\ sess'[s].totp = sess[s].totp
              \/ \E t \in Task : (ConfirmTotp(t) \/ Write(t)) /\ task[t].sess = s
  BY SessLives, UndoneGrows DEF Counted

\* The change that will end a session goes on to do so, or is cut short.
LEMMA KillerStays ==
    ASSUME AdminAssumption, Typed, Typed', [AdminNext]_adminVars, NEW s \in Session, Killer(s), Counted(s), Counted(s)'
    PROVE  Killer(s)'
  <1>0. PICK u \in Task : task[u].of = sess[s].of /\ Unrevoked(u) /\ task[u].sess # s
    BY DEF Killer
  <1>1. sess'[s].of = sess[s].of /\ Live(s)' /\ sess'[s].of \notin undone'
    BY SessLives DEF Counted, Live
  <1>2. ASSUME task'[u].of = task[u].of, task'[u].sess = task[u].sess, Unrevoked(u)' PROVE Killer(s)'
    BY <1>0, <1>1, <1>2 DEF Killer
  <1>3. CASE task'[u] = task[u]
    BY <1>0, <1>2, <1>3 DEF Unrevoked
  <1>4. CASE Die
    <2>1. task[u].of \in undone'
      BY <1>0, <1>4 DEF Die
    <2> QED  BY <1>0, <1>1, <2>1
  <1>5. ASSUME NEW t \in Task, TaskStep(t), t # u PROVE Killer(s)'
    <2>1. task'[u] = task[u]
      BY <1>5, TaskKeeps DEF Typed
    <2> QED  BY <1>3, <2>1
  <1>6. ASSUME TaskStep(u) PROVE Killer(s)'
    <2>0. task \in [Task -> TaskRow] /\ task[u] \in TaskRow
      BY DEF Typed, TaskOK
    <2>1. CASE ClaimFirst(u)
      <3>1. task'[u] = [task[u] EXCEPT !.pc = "codes"]
        BY <2>0, <2>1 DEF ClaimFirst
      <3>2. task'[u].of = task[u].of /\ task'[u].sess = task[u].sess /\ task'[u].op = task[u].op /\ task'[u].pc = "codes"
        BY <2>0, <3>1 DEF TaskRow
      <3> QED  BY <1>0, <1>2, <3>2 DEF Unrevoked
    <2>2. CASE ReplaceCodes(u)
      <3>1. task'[u] = [task[u] EXCEPT !.pc = "revoke"]
        BY <1>0, <2>0, <2>2 DEF ReplaceCodes, Unrevoked
      <3>2. task'[u].of = task[u].of /\ task'[u].sess = task[u].sess /\ task'[u].op = task[u].op /\ task'[u].pc = "revoke"
        BY <2>0, <3>1 DEF TaskRow
      <3> QED  BY <1>0, <1>2, <3>2 DEF Unrevoked
    <2>3. CASE Revoke(u)
      <3>1. sess' = Ended(Revocable(task[u].of, task[u].sess)) /\ s \in Revocable(task[u].of, task[u].sess) /\ Live(s)
        BY <1>0, <2>3 DEF Revoke, Revocable, Counted
      <3>2. sess'[s].state = "gone"
        BY <3>1, EndedOK DEF Typed
      <3> QED  BY <1>1, <3>2 DEF Live
    <2>4. CASE Cancel(u)
      <3>1. task[u].of \in undone'
        BY <1>0, <2>4 DEF Cancel
      <3> QED  BY <1>0, <1>1, <3>1
    <2>5. task[u].pc \in {"claimfirst", "codes", "revoke"}
      BY <1>0 DEF Unrevoked
    <2>6. ASSUME ~ClaimFirst(u), ~ReplaceCodes(u), ~Revoke(u), ~Cancel(u) PROVE FALSE
      BY <1>6, <2>5, <2>6 DEF TaskStep, SignIn, Change, Present, BeginAttempt, Authenticate, Rehash, OpenSession,
            ClearFailures, FindOwner, Prove, Verify, ClaimStep, Consume, Fail, CountFailure, Evict, Promote,
            BeginTotp, ConfirmTotp, CountAdmins, Write
    <2> QED  BY <2>1, <2>2, <2>3, <2>4, <2>6
  <1> QED  BY <1>3, <1>4, <1>5, <1>6, TasksElsewhere

LEMMA FreeBegins ==
    ASSUME NEW t \in Task, TaskStep(t), task[t].pc = "free"
    PROVE  \/ \E o \in Operator, p \in Password : SignIn(t, o, p) \/ \E op \in ChangeOp : Change(t, o, op, p)
           \/ \E s \in Session, op \in SessionOp : Present(t, s, op)
  BY DEF TaskStep, BeginAttempt, Authenticate, Rehash, OpenSession, ClearFailures, FindOwner, Prove, Verify, ClaimStep,
         Consume, Fail, CountFailure, Evict, Promote, BeginTotp, ConfirmTotp, ClaimFirst, ReplaceCodes, CountAdmins,
         Write, Revoke, Cancel

\* A request that has begun is under way to the statement that finds its owner, or is
\* no session's.
LEMMA BegunAt ==
    ASSUME AdminAssumption, Typed, NEW t \in Task, TaskStep(t), task[t].pc = "free"
    PROVE  task'[t].pc = "owner" \/ task'[t].op \notin SessionOp
  <1>0. task \in [Task -> TaskRow]
    BY DEF Typed, TaskOK
  <1>1. ASSUME NEW o \in Operator, NEW p \in Password, SignIn(t, o, p) PROVE task'[t].op = "signin"
    <2>1. task'[t] = [Idle EXCEPT !.pc = "begin", !.op = "signin", !.of = o, !.pw = p]
      BY <1>0, <1>1 DEF SignIn
    <2> QED  BY <2>1 DEF Idle
  <1>2. ASSUME NEW o \in Operator, NEW p \in Password, NEW op \in ChangeOp, Change(t, o, op, p) PROVE task'[t].op = op
    <2>1. \E pc, pw : task'[t] = [Idle EXCEPT !.pc = pc, !.op = op, !.of = o, !.pw = pw]
      BY <1>0, <1>2 DEF Change
    <2> QED  BY <2>1 DEF Idle
  <1>3. ASSUME NEW s \in Session, NEW op \in SessionOp, Present(t, s, op) PROVE task'[t].pc = "owner"
    <2>1. \E half : task'[t] = [Idle EXCEPT !.pc = "owner", !.op = op, !.of = sess[s].of, !.sess = s, !.half = half]
      BY <1>0, <1>3 DEF Present
    <2> QED  BY <2>1 DEF Idle
  <1>4. "signin" \notin SessionOp /\ \A op \in ChangeOp : op \notin SessionOp
    BY DEF SessionOp, ChangeOp
  <1> QED  BY <1>1, <1>2, <1>3, <1>4, FreeBegins

LEMMA LinkKept ==
    ASSUME AdminAssumption, Typed, Typed', [AdminNext]_adminVars, LinkInv
    PROVE  LinkInv'
  <1> DEFINE LinkedAt(t) == task[t].sess \in Session =>
                              /\ sess[task[t].sess].state # "unborn"
                              /\ Live(task[t].sess) => /\ sess[task[t].sess].of = task[t].of
                                                       /\ task[t].half <=> sess[task[t].sess].state = "pending"
             HalvesAt(t) == /\ task[t].op = "code" => task[t].half
                            /\ task[t].op \in {"unenrol", "recodes", "passwd"} => ~task[t].half
  <1> SUFFICES ASSUME NEW t \in Task PROVE LinkedAt(t)' /\ HalvesAt(t)'
    BY DEF LinkInv, Linked, Halves
  <1>0. LinkedAt(t) /\ HalvesAt(t) /\ task \in [Task -> TaskRow] /\ NoSession \notin Session
    BY DEF LinkInv, Linked, Halves, Typed, TaskOK, AdminAssumption
  <1>1. ASSUME task'[t].sess = task[t].sess, task'[t].of = task[t].of, task'[t].half = task[t].half, task'[t].op = task[t].op
        PROVE  LinkedAt(t)' /\ HalvesAt(t)'
    <2>1. HalvesAt(t)'
      BY <1>0, <1>1
    <2>2. ASSUME NEW s \in Session, s = task[t].sess PROVE LinkedAt(t)'
      <3>1. /\ sess[s].state # "unborn" /\ sess'[s].state # "unborn"
            /\ Live(s)' => Live(s) /\ sess'[s].of = sess[s].of /\ sess'[s].state = sess[s].state
        BY <1>0, <2>2, SessLives
      <3> QED  BY <1>0, <1>1, <2>2, <3>1 DEF Live
    <2> QED  BY <1>1, <2>1, <2>2
  <1>2. ASSUME task'[t] = Idle PROVE LinkedAt(t)' /\ HalvesAt(t)'
    <2>1. task'[t].sess \notin Session /\ task'[t].op = "signin"
      BY <1>0, <1>2, RowsOK DEF Idle
    <2> QED  BY <2>1
  <1>3. ASSUME NEW o \in Operator, NEW p \in Password, SignIn(t, o, p) PROVE LinkedAt(t)' /\ HalvesAt(t)'
    <2>1. task'[t] = [Idle EXCEPT !.pc = "begin", !.op = "signin", !.of = o, !.pw = p]
      BY <1>0, <1>3 DEF SignIn
    <2>2. task'[t].sess \notin Session /\ task'[t].op = "signin"
      BY <1>0, <2>1 DEF Idle
    <2> QED  BY <2>2
  <1>4. ASSUME NEW o \in Operator, NEW p \in Password, NEW op \in ChangeOp, Change(t, o, op, p) PROVE LinkedAt(t)' /\ HalvesAt(t)'
    <2>1. \E pc, pw : task'[t] = [Idle EXCEPT !.pc = pc, !.op = op, !.of = o, !.pw = pw]
      BY <1>0, <1>4 DEF Change
    <2>2. task'[t].sess \notin Session /\ task'[t].op = op
      BY <1>0, <2>1 DEF Idle
    <2>3. op \notin {"code", "unenrol", "recodes", "passwd"}
      BY DEF ChangeOp
    <2> QED  BY <2>2, <2>3
  <1>5. ASSUME NEW s \in Session, NEW op \in SessionOp, Present(t, s, op) PROVE LinkedAt(t)' /\ HalvesAt(t)'
    <2> DEFINE half == sess[s].state = "pending"
    <2>1. task'[t] = [Idle EXCEPT !.pc = "owner", !.op = op, !.of = sess[s].of, !.sess = s, !.half = half]
      BY <1>0, <1>5 DEF Present
    <2>2. /\ Live(s) /\ (op = "code" => half) /\ (op \in {"unenrol", "recodes", "passwd"} => ~half) /\ sess' = sess
      BY <1>5 DEF Present, tables
    <2>3. sess[s].state # "unborn"
      BY <2>2 DEF Live
    <2> HIDE DEF half
    <2>4. task'[t].sess = s /\ task'[t].of = sess[s].of /\ task'[t].op = op /\ task'[t].half = half
      BY <2>1 DEF Idle
    <2> QED  BY <2>2, <2>3, <2>4 DEF half
  <1>6. ASSUME NEW u \in Task, TaskStep(u) PROVE LinkedAt(t)' /\ HalvesAt(t)'
    <2>1. CASE u # t
      <3>1. task'[t] = task[t]
        BY <1>6, <2>1, TaskKeeps DEF Typed
      <3> QED  BY <1>1, <3>1
    <2>2. CASE u = t /\ task[t].pc # "free"
      <3>1. task'[t] = Idle \/ (/\ task'[t].op = task[t].op /\ task'[t].of = task[t].of
                                /\ task'[t].sess = task[t].sess /\ task'[t].half = task[t].half)
        BY <1>6, <2>2, TaskKeeps DEF Typed
      <3> QED  BY <1>1, <1>2, <3>1
    <2>3. CASE u = t /\ task[t].pc = "free"
      <3>1. \/ \E o \in Operator, p \in Password : SignIn(t, o, p) \/ \E op \in ChangeOp : Change(t, o, op, p)
            \/ \E s \in Session, op \in SessionOp : Present(t, s, op)
        BY <1>6, <2>3, FreeBegins
      <3> QED  BY <1>3, <1>4, <1>5, <3>1
    <2> QED  BY <2>1, <2>2, <2>3
  <1>7. CASE Die
    <2>1. task'[t] = Idle
      BY <1>7 DEF Die
    <2> QED  BY <1>2, <2>1
  <1>8. CASE task' = task
    BY <1>1, <1>8
  <1> QED  BY <1>6, <1>7, <1>8, TasksElsewhere

\* The change a request makes to its operator will end every session but its own.
LEMMA ChangeKills ==
    ASSUME AdminAssumption, Typed, NEW t \in Task, NEW s \in Session, sess'[s].of = task[t].of, task[t].sess # s,
           \/ ConfirmTotp(t) /\ user' # user
           \/ Write(t) /\ task[t].op # "enable"
    PROVE  Killer(s)'
  <1>0. task \in [Task -> TaskRow] /\ task[t] \in TaskRow /\ Placed(task[t])
    BY DEF Typed, TaskOK
  <1>1. task[t].op # "recodes"
    BY <1>0 DEF Placed, OpsAt, ConfirmTotp, Write, ChangeOp
  <1>2. \/ \E k : task'[t] = [task[t] EXCEPT !.pc = "claimfirst", !.step = k]
        \/ \E pc \in {"codes", "revoke"} : task'[t] = [task[t] EXCEPT !.pc = pc]
    <2>1. CASE ConfirmTotp(t) /\ user' # user
      BY <1>0, <2>1 DEF ConfirmTotp
    <2>2. CASE Write(t) /\ task[t].op \in {"unenrol", "reset"}
      BY <1>0, <2>2 DEF Write
    <2>3. CASE Write(t) /\ task[t].op \notin {"unenrol", "reset", "enable"}
      BY <1>0, <2>3 DEF Write
    <2> QED  BY <2>1, <2>2, <2>3
  <1>3. /\ task'[t].pc \in {"claimfirst", "codes", "revoke"} /\ task'[t].op = task[t].op
        /\ task'[t].of = task[t].of /\ task'[t].sess = task[t].sess
    BY <1>0, <1>2 DEF TaskRow
  <1>4. Unrevoked(t)'
    BY <1>1, <1>3 DEF Unrevoked
  <1> QED  BY <1>3, <1>4 DEF Killer

\* How the row of an operator changes, but for what the sessions do not show.
LEMMA RowMoves ==
    ASSUME AdminAssumption, Typed, Typed', [AdminNext]_adminVars, NEW o \in Operator
    PROVE  \/ /\ user'[o].status = user[o].status /\ user'[o].totp = user[o].totp
              /\ user'[o].pw = user[o].pw \/ o \in undone'
           \/ \E t \in Task : /\ ConfirmTotp(t) /\ task[t].of = o /\ user' # user
                              /\ user'[o].status = user[o].status /\ user'[o].pw = user[o].pw
                              /\ user'[o].totp = user[o].pending
                              /\ Live(task[t].sess) => sess' = [sess EXCEPT ![task[t].sess].totp = user[o].pending]
                              /\ task[t].half /\ user[o].totp # NoSecret => o \in undone'
           \/ \E t \in Task : Write(t) /\ task[t].of = o /\ There(o) /\ task[t].op # "enable"
           \/ user'[o].status = "active" /\ user'[o].totp = user[o].totp /\ user'[o].pw = user[o].pw
           \/ DeleteOperator(o)
  <1> DEFINE Kept == /\ user'[o].status = user[o].status /\ user'[o].totp = user[o].totp
                     /\ user'[o].pw = user[o].pw \/ o \in undone'
  <1>0. /\ user \in [Operator -> UserRow] /\ user[o] \in UserRow
        /\ \A t \in Task : task[t] \in TaskRow /\ Placed(task[t]) /\ task[t].of \in Operator
    BY DEF Typed, UserOK, TaskOK, TaskRow
  <1>u. ASSUME user'[o] = user[o] PROVE Kept
    BY <1>u
  <1>1. ASSUME NEW t \in Task, Rehash(t) PROVE Kept
    <2>1. CASE user' = user \/ task[t].of # o
      BY <1>0, <1>1, <1>u, <2>1 DEF Rehash
    <2>2. CASE user' # user /\ task[t].of = o
      <3>1. user'[o] = [user[o] EXCEPT !.pw = task[t].pw, !.outdated = FALSE] /\ There(o)
        BY <1>0, <1>1, <2>2 DEF Rehash
      <3>2. user[o].pw # task[t].pw => o \in undone'
        BY <1>1, <2>2, <3>1 DEF Rehash
      <3>3. user'[o].status = user[o].status /\ user'[o].totp = user[o].totp /\ user'[o].pw = task[t].pw
        BY <1>0, <3>1 DEF UserRow
      <3> QED  BY <3>2, <3>3
    <2> QED  BY <2>1, <2>2
  <1>2. ASSUME NEW t \in Task, ClaimStep(t) \/ ClaimFirst(t) \/ BeginTotp(t) PROVE Kept
    <2>1. \/ user' = user \/ \E k : user' = [user EXCEPT ![task[t].of].last = k]
          \/ \E x : user' = [user EXCEPT ![task[t].of].pending = x]
      BY <1>2 DEF ClaimStep, ClaimFirst, BeginTotp
    <2>2. \/ user'[o] = user[o] \/ \E k : user'[o] = [user[o] EXCEPT !.last = k]
          \/ \E x : user'[o] = [user[o] EXCEPT !.pending = x]
      BY <1>0, <2>1
    <2> QED  BY <1>0, <2>2 DEF UserRow
  <1>3. ASSUME NEW t \in Task, ConfirmTotp(t), ~Kept
        PROVE  /\ task[t].of = o /\ user' # user
               /\ user'[o].status = user[o].status /\ user'[o].pw = user[o].pw
               /\ user'[o].totp = user[o].pending
               /\ Live(task[t].sess) => sess' = [sess EXCEPT ![task[t].sess].totp = user[o].pending]
               /\ task[t].half /\ user[o].totp # NoSecret => o \in undone'
    <2>1. user'[o] # user[o]
      BY <1>3, <1>u
    <2>2. task[t].of = o /\ user' # user
      BY <1>0, <1>3, <2>1 DEF ConfirmTotp
    <2>3. /\ user' = [user EXCEPT ![o] = [@ EXCEPT !.totp = user[o].pending, !.pending = NoSecret, !.last = NoStep]]
          /\ Live(task[t].sess) => sess' = [sess EXCEPT ![task[t].sess].totp = user[o].pending]
          /\ task[t].half /\ user[o].totp # NoSecret => o \in undone'
      BY <1>3, <2>2 DEF ConfirmTotp
    <2>4. user'[o] = [user[o] EXCEPT !.totp = user[o].pending, !.pending = NoSecret, !.last = NoStep]
      BY <1>0, <2>3
    <2>5. user'[o].status = user[o].status /\ user'[o].pw = user[o].pw /\ user'[o].totp = user[o].pending
      BY <1>0, <2>4 DEF UserRow
    <2> QED  BY <2>2, <2>3, <2>5
  <1>4. ASSUME NEW t \in Task, Write(t), ~Kept
        PROVE  \/ task[t].of = o /\ There(o) /\ task[t].op # "enable"
               \/ user'[o].status = "active" /\ user'[o].totp = user[o].totp /\ user'[o].pw = user[o].pw
    <2>1. user'[o] # user[o]
      BY <1>4, <1>u
    <2>2. task[t].of = o /\ There(o) /\ \E p : user'[o] = Written(task[t].op, user[o], p)
      BY <1>0, <1>4, <2>1 DEF Write
    <2>3. CASE task[t].op = "enable"
      <3>1. user'[o] = [user[o] EXCEPT !.status = "active"]
        BY <2>2, <2>3 DEF Written
      <3> QED  BY <1>0, <3>1 DEF UserRow
    <2> QED  BY <2>2, <2>3
  <1>5. ASSUME NEW v \in Operator, DeleteOperator(v), v # o PROVE Kept
    BY <1>0, <1>5, <1>u DEF DeleteOperator
  <1> HIDE DEF Kept
  <1>6. CASE Kept
    BY <1>6 DEF Kept
  <1>7. CASE ~Kept /\ \E t \in Task : ConfirmTotp(t)
    BY <1>3, <1>7
  <1>8. CASE ~Kept /\ \E t \in Task : Write(t)
    BY <1>4, <1>8
  <1>9. CASE ~Kept /\ ~(\E t \in Task : ConfirmTotp(t) \/ Write(t))
    BY <1>u, <1>1, <1>2, <1>5, <1>9, UserSteps
  <1> QED  BY <1>6, <1>7, <1>8, <1>9

\* A session follows what is changed under it.
LEMMA OwnChange ==
    ASSUME AdminAssumption, Typed, NEW t \in Task, ConfirmTotp(t) \/ Write(t),
           NEW s \in Session, task[t].sess = s, Live(s), NEW o \in Operator, task[t].of = o
    PROVE  /\ user'[o].status = user[o].status
           /\ user[o].pw = sess[s].pw => user'[o].pw = sess'[s].pw
           /\ \/ user'[o].totp = sess'[s].totp
              \/ user'[o].totp = user[o].totp /\ sess'[s].totp = sess[s].totp
  <1>0. /\ user \in [Operator -> UserRow] /\ user[o] \in UserRow /\ sess \in [Session -> SessRow] /\ sess[s] \in SessRow
        /\ task[t] \in TaskRow /\ Placed(task[t])
    BY DEF Typed, UserOK, SessOK, TaskOK
  <1>1. CASE user' = user /\ sess' = sess
    BY <1>1
  <1>2. ASSUME ConfirmTotp(t), ~(user' = user /\ sess' = sess)
        PROVE  /\ user'[o].status = user[o].status /\ user'[o].pw = user[o].pw
               /\ sess'[s].pw = sess[s].pw /\ user'[o].totp = sess'[s].totp
    <2>1. /\ user' = [user EXCEPT ![o] = [@ EXCEPT !.totp = user[o].pending, !.pending = NoSecret, !.last = NoStep]]
          /\ sess' = [sess EXCEPT ![s].totp = user[o].pending]
      BY <1>2 DEF ConfirmTotp
    <2>2. /\ user'[o] = [user[o] EXCEPT !.totp = user[o].pending, !.pending = NoSecret, !.last = NoStep]
          /\ sess'[s] = [sess[s] EXCEPT !.totp = user[o].pending]
      BY <1>0, <2>1
    <2>3. user'[o].status = user[o].status /\ user'[o].pw = user[o].pw /\ user'[o].totp = user[o].pending
      BY <1>0, <2>2 DEF UserRow
    <2>4. sess'[s].pw = sess[s].pw /\ sess'[s].totp = user[o].pending
      BY <1>0, <2>2 DEF SessRow
    <2> QED  BY <2>3, <2>4
  <1>3. ASSUME Write(t), ~(user' = user /\ sess' = sess)
        PROVE  /\ user'[o].status = user[o].status
               /\ \/ /\ user'[o].pw = user[o].pw /\ sess'[s].pw = sess[s].pw /\ user'[o].totp = sess'[s].totp
                  \/ /\ user'[o].pw = sess'[s].pw /\ user'[o].totp = user[o].totp /\ sess'[s].totp = sess[s].totp
    <2>1. task[t].op \in {"unenrol", "passwd"} /\ s # NoSession
      BY <1>0, <1>3 DEF Write, Placed, OpsAt, SessionOp, ChangeOp, AdminAssumption
    <2>2. There(o)
      BY <1>3 DEF Write
    <2>3. CASE task[t].op = "passwd"
      <3>1. PICK p : /\ user' = [user EXCEPT ![o] = Written("passwd", user[o], p)] /\ sess' = [sess EXCEPT ![s].pw = p]
        BY <1>3, <2>1, <2>2, <2>3 DEF Write
      <3>2. user'[o] = [user[o] EXCEPT !.pw = p, !.outdated = FALSE] /\ sess'[s] = [sess[s] EXCEPT !.pw = p]
        BY <1>0, <3>1 DEF Written
      <3>3. user'[o].status = user[o].status /\ user'[o].pw = p /\ user'[o].totp = user[o].totp
        BY <1>0, <3>2 DEF UserRow
      <3>4. sess'[s].pw = p /\ sess'[s].totp = sess[s].totp
        BY <1>0, <3>2 DEF SessRow
      <3> QED  BY <3>3, <3>4
    <2>4. CASE task[t].op = "unenrol"
      <3>1. PICK p : /\ user' = [user EXCEPT ![o] = Written("unenrol", user[o], p)]
                     /\ sess' = [sess EXCEPT ![s].totp = NoSecret]
        BY <1>3, <2>1, <2>2, <2>4 DEF Write
      <3>2. /\ user'[o] = [user[o] EXCEPT !.totp = NoSecret, !.pending = NoSecret, !.last = NoStep]
            /\ sess'[s] = [sess[s] EXCEPT !.totp = NoSecret]
        BY <1>0, <3>1 DEF Written
      <3>3. user'[o].status = user[o].status /\ user'[o].pw = user[o].pw /\ user'[o].totp = NoSecret
        BY <1>0, <3>2 DEF UserRow
      <3>4. sess'[s].pw = sess[s].pw /\ sess'[s].totp = NoSecret
        BY <1>0, <3>2 DEF SessRow
      <3> QED  BY <3>3, <3>4
    <2> QED  BY <2>1, <2>3, <2>4
  <1> QED  BY <1>1, <1>2, <1>3

\* A session that was there.
LEMMA OldStands ==
    ASSUME AdminAssumption, Typed, Typed', [AdminNext]_adminVars, LinkInv, RevocationInv,
           NEW s \in Session, Counted(s)', sess[s].state # "unborn"
    PROVE  Killer(s)' \/ Good(s)'
  <1> DEFINE o == sess[s].of
  <1>0. /\ Counted(s) /\ Live(s) /\ sess'[s].of = o /\ sess'[s].state = sess[s].state /\ Live(s)' /\ o \notin undone'
        /\ o \in Operator
    BY CountedWas DEF Counted, Typed, SessOK, SessRow
  <1>1. CASE Killer(s)
    BY <1>0, <1>1, KillerStays
  <1>2. ASSUME Good(s), NEW t \in Task, ConfirmTotp(t) \/ Write(t), task[t].sess = s PROVE Good(s)'
    <2>1. task[t].of = o
      BY <1>0, <1>2 DEF LinkInv, Linked
    <2>2. /\ user'[o].status = user[o].status
          /\ user[o].pw = sess[s].pw => user'[o].pw = sess'[s].pw
          /\ \/ user'[o].totp = sess'[s].totp
             \/ user'[o].totp = user[o].totp /\ sess'[s].totp = sess[s].totp
      BY <1>0, <1>2, <2>1, OwnChange
    <2> QED  BY <1>0, <1>2, <2>2 DEF Good
  <1>3. ASSUME Good(s), ~\E t \in Task : (ConfirmTotp(t) \/ Write(t)) /\ task[t].sess = s PROVE Killer(s)' \/ Good(s)'
    <2>1. sess'[s].pw = sess[s].pw /\ sess'[s].totp = sess[s].totp
      BY <1>0, <1>3, CountedWas
    <2>2. ASSUME NEW t \in Task, task[t].of = o, (ConfirmTotp(t) /\ user' # user) \/ (Write(t) /\ task[t].op # "enable")
          PROVE  Killer(s)'
      BY <1>0, <1>3, <2>2, ChangeKills
    <2>3. CASE user'[o].status = user[o].status /\ user'[o].totp = user[o].totp /\ (user'[o].pw = user[o].pw \/ o \in undone')
      BY <1>0, <1>3, <2>1, <2>3 DEF Good
    <2>4. CASE user'[o].status = "active" /\ user'[o].totp = user[o].totp /\ user'[o].pw = user[o].pw
      BY <1>0, <1>3, <2>1, <2>4 DEF Good
    <2>5. CASE DeleteOperator(o)
      <3>1. sess'[s].state = "gone"
        BY <1>0, <2>5, EndedOK DEF DeleteOperator, Typed
      <3> QED  BY <1>0, <3>1 DEF Live
    <2> QED  BY <1>0, <2>2, <2>3, <2>4, <2>5, RowMoves
  <1> QED  BY <1>0, <1>1, <1>2, <1>3 DEF RevocationInv, Stands

\* A session that a sign-in opens.
LEMMA OpenedStands ==
    ASSUME AdminAssumption, Typed, Typed', NEW t \in Task, OpenSession(t), NEW s \in Session, Counted(s)', sess[s].state = "unborn"
    PROVE  Good(s)'
  <1> DEFINE q == task[t]
             r == user[q.of]
             half == q.read.totp # NoSecret \/ scene.require
             st == IF half THEN "pending" ELSE "active"
             late == r.pw # q.pw \/ r.status # "active" \/ r.totp # q.read.totp
             x == [NoSess EXCEPT !.state = st, !.of = q.of, !.pw = q.pw, !.totp = NoSecret, !.late = late]
  <1>0. sess \in [Session -> SessRow] /\ user' = user /\ sess'[s].state \in {"pending", "active"} /\ ~sess'[s].late
    BY DEF Typed, SessOK, OpenSession, Counted, Live
  <1>1. sess' = sess \/ \E n \in Minted : sess' = [sess EXCEPT ![n] = x]
    BY DEF OpenSession
  <1>2. sess'[s] = sess[s] \/ sess'[s] = x
    <2> HIDE DEF x
    <2> QED  BY <1>0, <1>1
  <1>3. sess'[s] = x
    BY <1>0, <1>2
  <1> HIDE DEF st, late
  <1>4. x.state = st /\ x.of = q.of /\ x.pw = q.pw /\ x.totp = NoSecret /\ x.late = late
    BY DEF NoSess
  <1>5. r.pw = q.pw /\ r.status = "active" /\ r.totp = q.read.totp
    BY <1>0, <1>3, <1>4 DEF late
  <1>6. st = "pending" \/ q.read.totp = NoSecret
    BY DEF st
  <1> HIDE DEF x
  <1> QED  BY <1>0, <1>3, <1>4, <1>5, <1>6 DEF Good

\* A session that a half one becomes.
LEMMA PromotedStands ==
    ASSUME AdminAssumption, Typed, Typed', LinkInv, RevocationInv, NEW t \in Task, Promote(t),
           NEW s \in Session, Counted(s)', sess[s].state = "unborn"
    PROVE  Killer(s)' \/ Good(s)'
  <1> DEFINE q == task[t]
             p == task[t].sess
             f == IF q.op = "code" THEN q.read.totp ELSE sess[p].totp
             x == [sess[p] EXCEPT !.state = "active", !.from = p, !.fails = 0, !.totp = f]
  <1>0. /\ sess \in [Session -> SessRow] /\ user' = user /\ undone' = undone
        /\ sess'[s].state \in {"pending", "active"} /\ ~sess'[s].late /\ sess'[s].of \notin undone
        /\ q \in TaskRow /\ Placed(q) /\ task \in [Task -> TaskRow]
    BY DEF Typed, SessOK, TaskOK, Promote, Counted, Live, ghosts
  <1>1. p \in Session /\ q.op \in {"code", "confirm"} /\ q.pc = "promote"
    BY <1>0 DEF Promote, Placed, OpsAt, SessionOp
  <1>2. sess[p].state = "pending" /\ task' = [task EXCEPT ![t].pc = "clear"] /\ \E n \in Minted : sess' = [Ended({p}) EXCEPT ![n] = x]
    <2>1. sess' # sess
      BY <1>0
    <2> QED  BY <2>1 DEF Promote
  <1>3. sess'[s] = x
    <2> HIDE DEF x
    <2>1. s # p
      BY <1>2
    <2>2. Ended({p}) \in [Session -> SessRow] /\ Ended({p})[s] = sess[s]
      BY <2>1, EndedOK DEF Typed
    <2>3. sess'[s] = sess[s] \/ sess'[s] = x
      BY <1>2, <2>2
    <2> QED  BY <1>0, <2>3
  <1> HIDE DEF f
  <1>4. x.state = "active" /\ x.of = sess[p].of /\ x.pw = sess[p].pw /\ x.late = sess[p].late /\ x.totp = f
    BY <1>0, <1>1 DEF SessRow
  <1> HIDE DEF x
  <1>5. Counted(p)
    BY <1>0, <1>2, <1>3, <1>4 DEF Counted, Live
  <1>6. q.of = sess[p].of /\ q.half
    BY <1>1, <1>2 DEF LinkInv, Linked, Live
  <1>7. ASSUME Killer(p) PROVE Killer(s)'
    <2>1. PICK u \in Task : task[u].of = sess[p].of /\ Unrevoked(u) /\ task[u].sess # p
      BY <1>7 DEF Killer
    <2>2. u # t
      BY <1>1, <2>1 DEF Unrevoked
    <2>3. task'[u] = task[u] /\ task[u].sess # s
      BY <1>0, <1>2, <2>2 DEF LinkInv, Linked
    <2> QED  BY <1>3, <1>4, <2>1, <2>3 DEF Killer, Unrevoked
  <1>8. ASSUME Good(p), ~Killer(p) PROVE Good(s)'
    <2>1. f = user[q.of].totp
      <3>1. CASE q.op = "code"
        <4>1. f = q.read.totp /\ q.read.totp # NoSecret
          BY <1>0, <1>1, <3>1 DEF f, Placed
        <4>2. q.read.totp \in {NoSecret, user[q.of].totp}
          BY <1>1, <1>5, <1>8, <3>1 DEF RevocationInv, CodeReads
        <4> QED  BY <4>1, <4>2
      <3>2. CASE q.op = "confirm"
        <4>1. f = sess[p].totp
          BY <3>2 DEF f
        <4>2. user[q.of].totp = sess[p].totp
          BY <1>1, <1>5, <1>6, <1>8, <3>2 DEF RevocationInv, ConfirmMade
        <4> QED  BY <4>1, <4>2
      <3> QED  BY <1>1, <3>1, <3>2
    <2> QED  BY <1>0, <1>3, <1>4, <1>6, <1>8, <2>1 DEF Good
  <1> QED  BY <1>1, <1>5, <1>7, <1>8 DEF RevocationInv, Stands

\* What a request submitting a code has read of the factor.
LEMMA CodeReadsKept ==
    ASSUME AdminAssumption, Typed, Typed', [AdminNext]_adminVars, LinkInv, LinkInv', RevocationInv
    PROVE  CodeReads'
  <1> DEFINE Path == {"begin", "verify", "claim", "consume", "promote"}
  <1> SUFFICES ASSUME NEW t \in Task, task'[t].op = "code", task'[t].pc \in Path,
                      NEW s \in Session, s = task'[t].sess, Counted(s)', ~Killer(s)'
               PROVE  task'[t].read.totp \in {NoSecret, user'[task'[t].of].totp}
    <2>1. \A t \in Task : task'[t].op = "code" => task'[t].sess \in Session
      BY DEF Typed, TaskOK, Placed, SessionOp
    <2> QED  BY <2>1 DEF CodeReads
  <1>1. task' = task \/ \E u \in Task : TaskStep(u)
    <2>1. ~Die
      BY DEF Die, Idle
    <2> QED  BY <2>1, TasksElsewhere
  <1>2. CASE FindOwner(t)
    <2>1. task'[t].read = user[task[t].of] /\ task'[t].of = task[t].of /\ user' = user
      <3>0. task[t] \in TaskRow /\ task \in [Task -> TaskRow]
        BY DEF Typed, TaskOK
      <3>1. task'[t] = Idle \/ \E pc : task'[t] = [task[t] EXCEPT !.read = user[task[t].of], !.pc = pc]
        BY <1>2, <3>0 DEF FindOwner
      <3>2. task'[t] # Idle
        BY DEF Idle
      <3>3. PICK pc : task'[t] = [task[t] EXCEPT !.read = user[task[t].of], !.pc = pc]
        BY <3>1, <3>2
      <3>4. task'[t].read = user[task[t].of] /\ task'[t].of = task[t].of
        BY <3>0, <3>3 DEF TaskRow
      <3> QED  BY <1>2, <3>4 DEF FindOwner, tables
    <2> QED  BY <2>1
  <1>3. CASE ~FindOwner(t)
    \* It was on its way.
    <2>0. task[t] \in TaskRow /\ Placed(task[t]) /\ task \in [Task -> TaskRow]
      BY DEF Typed, TaskOK
    <2> DEFINE Was == /\ task[t].op = "code" /\ task[t].sess = s /\ task[t].of = task'[t].of
                      /\ task[t].read = task'[t].read /\ task[t].half = task'[t].half /\ task[t].pc \in Path
    <2>1. Was
      <3>1. ASSUME task'[t] = task[t] PROVE Was
        BY <3>1
      <3>2. ASSUME TaskStep(t) PROVE Was
        <4>1. task'[t] # Idle
          BY DEF Idle
        <4>2. task[t].pc # "free"
          BY <3>2, BegunAt DEF SessionOp
        <4>3. /\ task'[t].op = task[t].op /\ task'[t].of = task[t].of
              /\ task'[t].sess = task[t].sess /\ task'[t].half = task[t].half
              /\ task'[t].read = task[t].read \/ Authenticate(t)
          BY <1>3, <3>2, <4>1, <4>2, TaskKeeps DEF Typed
        <4>4. ~Authenticate(t)
          <5>1. task[t].pc = "authenticate" => task[t].op = "signin"
            BY <2>0 DEF Placed, OpsAt
          <5> QED  BY <4>3, <5>1 DEF Authenticate
        <4>5. task[t].pc \in Path \cup {"owner", "wrong", "count", "evict", "clear"}
          <5>1. task[t].pc \in TaskPC /\ "code" \in OpsAt(task[t].pc)
            BY <2>0, <4>3 DEF TaskRow, Placed
          <5> QED  BY <4>2, <5>1 DEF TaskPC, OpsAt, ChangeOp
        <4>6. ASSUME task[t].pc \in {"owner", "wrong", "count", "evict", "clear"} PROVE FALSE
          <5>1. Fail(t) \/ CountFailure(t) \/ Evict(t) \/ ClearFailures(t) \/ Cancel(t)
            BY <1>3, <3>2, <4>2, <4>6 DEF TaskStep, SignIn, Change, Present, BeginAttempt, Authenticate, Rehash,
                  OpenSession, Prove, Verify, ClaimStep, Consume, Promote, BeginTotp, ConfirmTotp, ClaimFirst,
                  ReplaceCodes, CountAdmins, Write, Revoke
          <5>2. \/ task'[t] = Idle \/ task'[t] = [task[t] EXCEPT !.pc = "evict"]
                \/ task'[t] = [task[t] EXCEPT !.pc = "count", !.slot = NoSlot]
            BY <2>0, <5>1 DEF Fail, CountFailure, Evict, ClearFailures, Cancel, Over
          <5> QED  BY <2>0, <4>1, <5>2 DEF TaskRow
        <4> QED  BY <4>3, <4>4, <4>5, <4>6
      <3>3. ASSUME NEW u \in Task, TaskStep(u), u # t PROVE task'[t] = task[t]
        BY <3>3, TaskKeeps DEF Typed
      <3> QED  BY <1>1, <3>1, <3>2, <3>3
    <2>2. sess[s].state # "unborn" /\ Counted(s) /\ sess[s].of = sess'[s].of
      BY <2>1, CountedWas DEF LinkInv, Linked
    <2>3. task[t].of = sess[s].of /\ task[t].half /\ sess[s].state = "pending" /\ task[t].of \in Operator
      BY <2>0, <2>1, <2>2 DEF LinkInv, Linked, Halves, Counted, TaskRow
    <2>4. ~Killer(s) /\ task[t].read.totp \in {NoSecret, user[task[t].of].totp}
      BY <2>1, <2>2, KillerStays DEF RevocationInv, CodeReads
    <2> DEFINE o == task[t].of
    <2>5. o \notin undone' /\ Live(s)'
      BY <2>2, <2>3 DEF Counted
    <2>6. ASSUME NEW u \in Task, ConfirmTotp(u), task[u].of = o, user' # user,
                 task[u].half /\ user[o].totp # NoSecret => o \in undone'
          PROVE  task[t].read.totp = NoSecret
      <3>1. task[u].sess = s
        BY <2>2, <2>3, <2>6, ChangeKills
      <3>2. task[u].half
        BY <2>2, <2>3, <3>1 DEF LinkInv, Linked, Counted
      <3> QED  BY <2>4, <2>5, <2>6, <3>2
    <2>7. ASSUME NEW u \in Task, Write(u), task[u].of = o, There(o), task[u].op # "enable"
          PROVE  FALSE
      <3>1. task[u].sess = s
        BY <2>2, <2>3, <2>7, ChangeKills
      <3>2. task[u].half
        BY <2>2, <2>3, <3>1 DEF LinkInv, Linked, Counted
      <3>3. task[u].op \in {"unenrol", "passwd"}
        <4>1. Placed(task[u])
          BY DEF Typed, TaskOK
        <4> QED  BY <2>7, <3>1, <4>1 DEF Write, Placed, OpsAt, SessionOp, ChangeOp
      <3> QED  BY <3>2, <3>3 DEF LinkInv, Halves
    <2>8. ~DeleteOperator(o)
      <3>1. ASSUME DeleteOperator(o) PROVE sess'[s].state = "gone"
        <4>1. sess' = Ended({n \in Session : sess[n].of = o}) /\ s \in {n \in Session : sess[n].of = o} /\ Live(s)
          BY <2>2, <2>3, <3>1 DEF DeleteOperator, Counted
        <4> QED  BY <4>1, EndedOK DEF Typed
      <3> QED  BY <2>5, <3>1 DEF Live
    <2>9. user'[o].totp = user[o].totp \/ task[t].read.totp = NoSecret
      BY <2>3, <2>6, <2>7, <2>8, RowMoves
    <2> QED  BY <2>1, <2>4, <2>9
  <1> QED  BY <1>2, <1>3

\* The factor a half session has confirmed, on the way to its promotion.
LEMMA ConfirmMadeKept ==
    ASSUME AdminAssumption, Typed, Typed', [AdminNext]_adminVars, LinkInv, LinkInv', RevocationInv
    PROVE  ConfirmMade'
  <1> DEFINE Path == {"confirm", "claimfirst", "codes", "revoke", "promote"}
  <1> SUFFICES ASSUME NEW t \in Task, task'[t].op = "confirm", task'[t].half, task'[t].pc \in Path,
                      NEW s \in Session, s = task'[t].sess, Counted(s)', ~Killer(s)'
               PROVE  user'[task'[t].of].totp = sess'[s].totp
    <2>1. \A t \in Task : task'[t].op = "confirm" => task'[t].sess \in Session
      BY DEF Typed, TaskOK, Placed, SessionOp
    <2> QED  BY <2>1 DEF ConfirmMade
  <1>1. task' = task \/ \E u \in Task : TaskStep(u)
    <2>1. ~Die
      BY DEF Die, Idle
    <2> QED  BY <2>1, TasksElsewhere
  <1>2. task[t] \in TaskRow /\ Placed(task[t]) /\ task \in [Task -> TaskRow]
    BY DEF Typed, TaskOK
  \* It was on its way, or its owner is found to have no factor.
  <1> DEFINE Was == /\ task[t].op = "confirm" /\ task[t].sess = s /\ task[t].of = task'[t].of
                    /\ task[t].half = task'[t].half
                    /\ task[t].pc \in Path \/ FindOwner(t)
  <1>3. Was
    <2>1. ASSUME task'[t] = task[t] PROVE Was
      BY <2>1
    <2>2. ASSUME TaskStep(t) PROVE Was
      <3>1. task'[t] # Idle
        BY DEF Idle
      <3>2. task[t].pc # "free"
        BY <2>2, BegunAt DEF SessionOp
      <3>3. /\ task'[t].op = task[t].op /\ task'[t].of = task[t].of
            /\ task'[t].sess = task[t].sess /\ task'[t].half = task[t].half
        BY <2>2, <3>1, <3>2, TaskKeeps DEF Typed
      <3>4. task[t].pc \in Path \cup {"owner", "clear"}
        <4>1. task[t].pc \in TaskPC /\ "confirm" \in OpsAt(task[t].pc)
          BY <1>2, <3>3 DEF TaskRow, Placed
        <4> QED  BY <3>2, <4>1 DEF TaskPC, OpsAt, ChangeOp
      <3>5. ASSUME task[t].pc \in {"owner", "clear"}, ~FindOwner(t) PROVE FALSE
        <4>1. ClearFailures(t) \/ Cancel(t)
          BY <2>2, <3>2, <3>5 DEF TaskStep, SignIn, Change, Present, BeginAttempt, Authenticate, Rehash, OpenSession,
                Prove, Verify, ClaimStep, Consume, Fail, CountFailure, Evict, Promote, BeginTotp, ConfirmTotp,
                ClaimFirst, ReplaceCodes, CountAdmins, Write, Revoke
        <4> QED  BY <1>2, <3>1, <4>1 DEF ClearFailures, Cancel, Over
      <3> QED  BY <3>3, <3>4, <3>5
    <2>3. ASSUME NEW u \in Task, TaskStep(u), u # t PROVE task'[t] = task[t]
      BY <2>3, TaskKeeps DEF Typed
    <2> QED  BY <1>1, <2>1, <2>2, <2>3
  <1> DEFINE o == task[t].of
  <1>4. sess[s].state # "unborn" /\ Counted(s) /\ Live(s) /\ sess[s].of = sess'[s].of /\ ~Killer(s)
    BY <1>3, CountedWas, KillerStays DEF LinkInv, Linked, Counted
  <1>5. o = sess[s].of /\ o \in Operator /\ o = task'[t].of /\ o \notin undone' /\ Live(s)'
    BY <1>2, <1>3, <1>4 DEF LinkInv, Linked, Counted, TaskRow
  <1>6. CASE FindOwner(t)
    <2>1. user' = user /\ sess' = sess
      BY <1>6 DEF FindOwner, tables
    <2>2. task'[t] # Idle
      BY DEF Idle
    <2>3. Entry(task[t], user[o]) # "refuse"
      BY <1>2, <1>6, <2>2 DEF FindOwner
    <2>4. user[o].totp = NoSecret
      <3>1. task[t].op = "confirm" /\ task[t].half
        BY <1>3
      <3> QED  BY <2>3, <3>1 DEF Entry
    <2>5. Good(s)
      BY <1>4 DEF RevocationInv, Stands
    <2>6. sess[s].totp = NoSecret
      BY <1>5, <2>4, <2>5 DEF Good
    <2> QED  BY <1>5, <2>1, <2>4, <2>6
  <1>7. CASE ~FindOwner(t)
    <2>1. user[o].totp = sess[s].totp
      BY <1>3, <1>4, <1>7 DEF RevocationInv, ConfirmMade
    <2>2. ASSUME NEW u \in Task, ConfirmTotp(u) \/ Write(u), task[u].sess = s PROVE user'[o].totp = sess'[s].totp
      <3>1. task[u].of = o
        BY <1>4, <1>5, <2>2 DEF LinkInv, Linked
      <3>2. \/ user'[o].totp = sess'[s].totp
            \/ user'[o].totp = user[o].totp /\ sess'[s].totp = sess[s].totp
        BY <1>4, <1>5, <2>2, <3>1, OwnChange
      <3> QED  BY <2>1, <3>2
    <2>3. ASSUME ~\E u \in Task : (ConfirmTotp(u) \/ Write(u)) /\ task[u].sess = s PROVE user'[o].totp = sess'[s].totp
      <3>1. sess'[s].totp = sess[s].totp
        BY <1>4, <2>3, CountedWas
      <3>2. ASSUME NEW u \in Task, task[u].of = o, (ConfirmTotp(u) /\ user' # user) \/ (Write(u) /\ task[u].op # "enable")
            PROVE  FALSE
        BY <1>4, <1>5, <2>3, <3>2, ChangeKills
      <3>3. ~DeleteOperator(o)
        <4>1. ASSUME DeleteOperator(o) PROVE sess'[s].state = "gone"
          <5>1. sess' = Ended({n \in Session : sess[n].of = o}) /\ s \in {n \in Session : sess[n].of = o} /\ Live(s)
            BY <1>4, <1>5, <4>1 DEF DeleteOperator
          <5> QED  BY <5>1, EndedOK DEF Typed
        <4> QED  BY <1>5, <4>1 DEF Live
      <3>4. user'[o].totp = user[o].totp
        BY <1>5, <3>2, <3>3, RowMoves
      <3> QED  BY <2>1, <3>1, <3>4
    <2>4. user'[o].totp = sess'[s].totp
      BY <2>2, <2>3
    <2> QED  BY <1>5, <2>4
  <1> QED  BY <1>6, <1>7

\* RevocationHolds is an invariant: once a change of password, factor or status has
\* revoked what it revokes, every active session of the operator is good for what
\* stands, but for sign-ins that came late and operators of an undone change.  It needs
\* the same of half sessions, and what the requests that will promote one have read
\* (CodeReads) or made (ConfirmMade) of the factor.
THEOREM ChangesRevoke == AdminSpec => []RevocationHolds
  <1>1. ASSUME AdminInit PROVE LinkInv /\ RevocationInv
    <2>1. \A t \in Task : task[t] = Idle
      BY <1>1 DEF AdminInit
    <2>2. \A t \in Task : task[t].sess \notin Session /\ task[t].op = "signin"
      <3>1. Idle.sess = NoSession /\ Idle.op = "signin" /\ NoSession \notin Session
        BY AdminAssumption DEF Idle, AdminAssumption
      <3> QED  BY <2>1, <3>1
    <2>3. \A s \in Session : ~Live(s)
      BY <1>1 DEF AdminInit, Live, NoSess
    <2> QED  BY <2>2, <2>3 DEF LinkInv, Linked, Halves, RevocationInv, Stands, CodeReads, ConfirmMade, Counted
  <1>2. ASSUME Typed, Typed', LinkInv, RevocationInv, [AdminNext]_adminVars PROVE LinkInv' /\ RevocationInv'
    <2>1. LinkInv'
      BY <1>2, AdminAssumption, LinkKept
    <2>2. CodeReads' /\ ConfirmMade'
      BY <1>2, <2>1, AdminAssumption, CodeReadsKept, ConfirmMadeKept
    <2>3. ASSUME NEW s \in Session, Counted(s)' PROVE Killer(s)' \/ Good(s)'
      <3>1. CASE sess[s].state # "unborn"
        BY <1>2, <2>3, <3>1, AdminAssumption, OldStands
      <3>2. CASE sess[s].state = "unborn"
        <4>1. PICK t \in Task : OpenSession(t) \/ Promote(t)
          BY <1>2, <2>3, <3>2, AdminAssumption, SessLives DEF Counted, Live
        <4> QED  BY <1>2, <2>3, <3>2, <4>1, AdminAssumption, OpenedStands, PromotedStands
      <3> QED  BY <3>1, <3>2
    <2> QED  BY <2>1, <2>2, <2>3 DEF RevocationInv, Stands
  <1>3. ASSUME RevocationInv PROVE RevocationHolds
    <2> SUFFICES ASSUME NEW s \in Session, sess[s].state = "active", ~sess[s].late, sess[s].of \notin undone,
                        ~\E t \in Task : task[t].of = sess[s].of /\ Unrevoked(t)
                 PROVE  Good(s)
      BY DEF RevocationHolds, Good
    <2>1. Counted(s) /\ ~Killer(s)
      BY DEF Counted, Live, Killer
    <2> QED  BY <1>3, <2>1 DEF RevocationInv, Stands
  <1> QED  BY <1>1, <1>2, <1>3, TypedSafety, PTL DEF AdminSpec
=============================================================================
