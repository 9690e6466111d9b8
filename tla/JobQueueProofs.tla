--------------------------- MODULE JobQueueProofs ---------------------------
(***************************************************************************)
(* Theorems about JobQueue, for every number of jobs, runners, slots and   *)
(* keys, and all leases, budgets and backoffs: leases and overlap, then    *)
(* the accounting of its permits and of the handlers it owes a call, who   *)
(* may settle a row, and that the queue with its runners, leases and       *)
(* retries implements JobContract.                                         *)
(***************************************************************************)
EXTENDS JobQueue, FiniteSetTheorems, TLAPS

-----------------------------------------------------------------------------
(* What one write to the table, or to a slot, leaves behind.                 *)

\* Writing one row of the table keeps its type and every other row.
LEMMA PutRow ==
    ASSUME RowsOK, NEW j \in Job, NEW x \in Row, rows' = [rows EXCEPT ![j] = x]
    PROVE  /\ rows' \in [Job -> Row]
           /\ \A i \in Job : rows'[i] = IF i = j THEN x ELSE rows[i]
BY DEF RowsOK

\* Writing one slot of one runner keeps the type of all and every other slot.
LEMMA PutSlot ==
    ASSUME AttemptsOK, NEW r \in Runner, NEW s \in Slot, NEW a \in Attempt,
           a.pc = "free" <=> a.job = NoJob,
           att' = [att EXCEPT ![r][s] = a]
    PROVE  /\ AttemptsOK'
           /\ \A q \in Runner, t \in Slot :
                 att'[q][t] = IF q = r /\ t = s THEN a ELSE att[q][t]
<1>1. att' \in [Runner -> [Slot -> Attempt]]
  BY DEF AttemptsOK
<1>2. \A q \in Runner, t \in Slot : att'[q][t] = IF q = r /\ t = s THEN a ELSE att[q][t]
  BY DEF AttemptsOK
<1> QED
  BY <1>1, <1>2 DEF AttemptsOK

\* The slot of an attempt that has ended.
LEMMA FreeSlotType == FreeSlot \in Attempt /\ FreeSlot.pc = "free" /\ FreeSlot.job = NoJob
BY DEF FreeSlot, Attempt, Outcome

\* An attempt moves on without losing its job.
LEMMA SlotMoves ==
    ASSUME AttemptsOK, NEW r \in Runner, NEW s \in Slot, att[r][s].pc # "free"
    PROVE  /\ att[r][s] \in Attempt
           /\ att[r][s].job \in Job
BY DEF AttemptsOK, Attempt

\* The rows Job::enqueue_on inserts have the type of a row.
LEMMA NewRowType ==
    ASSUME NEW k \in Key, NEW delay \in Nat, NEW d \in Int \cup {NoDeadline}, NEW max \in Nat
    PROVE  NewRow(k, delay, d, max) \in Row
BY DEF NewRow, Row, Status

\* Reclaiming and releasing give a row back with its type.
LEMMA GivenBackType ==
    ASSUME NEW x \in Row
    PROVE  [x EXCEPT !.status = "ready", !.owner = NoRunner, !.lease = 0] \in Row
BY DEF Row, Status

\* Every settlement leaves a row, whichever outcome it writes.
LEMMA SettledType ==
    ASSUME NEW a \in Attempt, NEW x \in Row, NEW d \in Backoff(a.n)
    PROVE  Settled(a, x, d) \in Row
<1> DEFINE released == [x EXCEPT !.owner = NoRunner, !.lease = 0]
<1>1. released \in Row
  BY DEF Row
<1>2. d \in Nat
  BY DEF Backoff
<1>3. [released EXCEPT !.status = "done"] \in Row
  BY <1>1 DEF Row, Status
<1>4. [released EXCEPT !.status = "ready", !.run_at = Period, !.attempts = 0] \in Row
  BY <1>1, ConstantsAssumption DEF Row, Status
<1>5. [released EXCEPT !.status = "failed"] \in Row
  BY <1>1 DEF Row, Status
<1>6. [released EXCEPT !.status = "ready", !.run_at = d] \in Row
  BY <1>1, <1>2 DEF Row, Status
<1> HIDE DEF released
<1>7. \/ Settled(a, x, d) = [released EXCEPT !.status = "done"]
      \/ Settled(a, x, d) = [released EXCEPT !.status = "ready", !.run_at = Period,
                                             !.attempts = 0]
      \/ Settled(a, x, d) = [released EXCEPT !.status = "failed"]
      \/ Settled(a, x, d) = [released EXCEPT !.status = "ready", !.run_at = d]
  BY DEF Settled, released
<1> QED
  BY <1>3, <1>4, <1>5, <1>6, <1>7

\* The row a claim writes.
ClaimedRow(r, j) ==
    [rows[j] EXCEPT !.status = "running", !.owner = r,
                    !.attempts = Incremented(rows[j]), !.lease = ClaimLease]

\* A claim writes a row, and takes the number of its attempt from it.
LEMMA ClaimedRowType ==
    ASSUME RowsOK, NEW j \in Job, NEW r \in Runner
    PROVE  Incremented(rows[j]) \in Nat /\ ClaimLease \in Nat /\ ClaimedRow(r, j) \in Row
<1>1. rows[j] \in Row
  BY DEF RowsOK
<1>2. Incremented(rows[j]) \in Nat
  BY <1>1 DEF Row, Incremented, Lesser
<1>3. ClaimLease \in Nat
  BY ConstantsAssumption DEF ClaimLease
<1> QED
  BY <1>1, <1>2, <1>3 DEF ClaimedRow, Row, Status

\* Permits::resize leaves a capacity no smaller than what is configured.
LEMMA ResizeType ==
    ASSUME RunnersOK, NEW r \in Runner
    PROVE  ResizedCap(r) \in Nat /\ ResizedFree(r) \in Int
<1>1. cap[r] \in Nat /\ free[r] \in Int /\ goal[r] \in Nat
  BY DEF RunnersOK
<1> QED
  BY <1>1 DEF ResizedCap, ResizedFree, Taken, Lesser, Greater

-----------------------------------------------------------------------------
(* Type correctness.                                                         *)

\* The initial state has the types of TypeOK.
LEMMA TypeInit == Init => TypeOK
<1> SUFFICES ASSUME Init PROVE TypeOK
  OBVIOUS
<1> USE ConstantsAssumption DEF Init
<1>1. NoRow \in Row
  BY DEF NoRow, Row, Status
<1>2. RowsOK
  BY <1>1 DEF RowsOK
<1>3. AttemptsOK
  BY FreeSlotType DEF AttemptsOK
<1>4. RunnersOK
  BY DEF RunnersOK, LoopPC
<1> QED
  BY <1>2, <1>3, <1>4 DEF TypeOK

\* A step of an attempt keeps the types: each writes its own slot, and a
\* settlement or an extension the attempt's row.
LEMMA TypeAttempt ==
    ASSUME TypeOK, NEW r \in Runner, NEW s \in Slot, AttemptStep(r, s)
    PROVE  TypeOK'
<1> DEFINE a == att[r][s]
<1>0. RowsOK /\ AttemptsOK /\ RunnersOK
  BY DEF TypeOK
<1>a. a.pc # "free"
  BY DEF AttemptStep, Extend, ExtendMisses, Start, Answer, Settle, SettleMisses, Abandon
<1>b. a \in Attempt /\ a.job \in Job
  BY <1>0, <1>a, SlotMoves
<1>c. rows[a.job] \in Row /\ a.job # NoJob
  BY <1>0, <1>b, ConstantsAssumption DEF RowsOK
<1>1. CASE Extend(r, s)
  <2> DEFINE span == Budget[rows[a.job].key] + Slack
             b == [a EXCEPT !.pc = "start", !.left = span]
             x == [rows[a.job] EXCEPT !.lease = span]
  <2>1. span \in Nat
    BY <1>c, ConstantsAssumption DEF Row
  <2>2. b \in Attempt /\ b.pc = "start" /\ b.job = a.job
    BY <1>b, <2>1 DEF Attempt
  <2>3. x \in Row
    BY <1>c, <2>1 DEF Row
  <2>4. att' = [att EXCEPT ![r][s] = b] /\ rows' = [rows EXCEPT ![a.job] = x]
    BY <1>1 DEF Extend
  <2> HIDE DEF a, b, x, span
  <2>5. AttemptsOK'
    BY <1>0, <1>c, <2>2, <2>4, PutSlot
  <2>6. rows' \in [Job -> Row]
    BY <1>0, <1>b, <2>3, <2>4, PutRow
  <2> QED
    BY <1>0, <1>1, <2>5, <2>6 DEF Extend, TypeOK, RowsOK, RunnersOK, cells, pool
<1>2. CASE ExtendMisses(r, s) \/ SettleMisses(r, s) \/ Abandon(r, s)
  <2>1. att' = [att EXCEPT ![r][s] = FreeSlot]
    BY <1>2 DEF ExtendMisses, SettleMisses, Abandon
  <2>2. AttemptsOK'
    BY <1>0, <2>1, PutSlot, FreeSlotType
  <2>3. RowsOK'
    BY <1>0, <1>b, <1>2 DEF ExtendMisses, SettleMisses, Abandon, RowsOK, store
  <2>4. RunnersOK'
    BY <1>0, <1>2 DEF ExtendMisses, SettleMisses, Abandon, RunnersOK, cells
  <2> QED
    BY <2>2, <2>3, <2>4 DEF TypeOK
<1>3. CASE Start(r, s)
  <2> DEFINE b == IF Passed(rows[a.job])
                  THEN [a EXCEPT !.pc = "settle", !.outcome = "Failed"]
                  ELSE [a EXCEPT !.pc = "run"]
  <2>1. b \in Attempt /\ b.pc # "free" /\ b.job = a.job
    BY <1>b DEF Attempt, Outcome
  <2>2. att' = [att EXCEPT ![r][s] = b]
    BY <1>3 DEF Start
  <2> HIDE DEF a, b
  <2>3. AttemptsOK'
    BY <1>0, <1>c, <2>1, <2>2, PutSlot
  <2> QED
    BY <1>0, <1>3, <2>3 DEF Start, TypeOK, RowsOK, RunnersOK, store, cells, pool
<1>4. ASSUME NEW o \in Outcome, Answer(r, s, o) PROVE TypeOK'
  <2> DEFINE b == [a EXCEPT !.pc = "settle", !.outcome = o]
  <2>1. b \in Attempt /\ b.pc # "free" /\ b.job = a.job
    BY <1>b DEF Attempt
  <2>2. att' = [att EXCEPT ![r][s] = b]
    BY <1>4 DEF Answer
  <2> HIDE DEF a, b
  <2>3. AttemptsOK'
    BY <1>0, <1>c, <2>1, <2>2, PutSlot
  <2> QED
    BY <1>0, <1>4, <2>3 DEF Answer, TypeOK, RowsOK, RunnersOK, store, cells, pool
<1>5. CASE Settle(r, s)
  <2>1. PICK d \in Backoff(a.n) :
          /\ rows' = [rows EXCEPT ![a.job] = Settled(a, rows[a.job], d)]
          /\ IF Retires(a, rows[a.job], d)
             THEN /\ att' = [att EXCEPT ![r][s] = [@ EXCEPT !.pc = "abandon", !.left = 0]]
                  /\ debt' = [debt EXCEPT ![a.job] = @ + 1]
                  /\ free' = free
             ELSE /\ att' = [att EXCEPT ![r][s] = FreeSlot]
                  /\ free' = [free EXCEPT ![r] = @ + 1]
                  /\ debt' = debt
    BY <1>5 DEF Settle
  <2>2. Settled(a, rows[a.job], d) \in Row
    BY <1>b, <1>c, SettledType
  <2>3. rows' \in [Job -> Row]
    BY <1>0, <1>b, <2>1, <2>2, PutRow
  <2>4. debt' \in [Job -> Int]
    BY <1>0, <1>b, <2>1 DEF RowsOK
  <2>5. free' \in [Runner -> Int]
    BY <1>0, <2>1 DEF RunnersOK
  <2>6. AttemptsOK'
    <3> DEFINE b == [a EXCEPT !.pc = "abandon", !.left = 0]
    <3>1. b \in Attempt /\ b.pc # "free" /\ b.job = a.job
      BY <1>b DEF Attempt
    <3>2. att' = [att EXCEPT ![r][s] = b] \/ att' = [att EXCEPT ![r][s] = FreeSlot]
      BY <2>1
    <3> HIDE DEF a, b
    <3> QED
      BY <1>0, <1>c, <3>1, <3>2, PutSlot, FreeSlotType
  <2> QED
    BY <1>0, <1>5, <2>3, <2>4, <2>5, <2>6 DEF Settle, TypeOK, RowsOK, RunnersOK, cells
<1> QED
  BY <1>1, <1>2, <1>3, <1>4, <1>5 DEF AttemptStep

\* A step of a runner's loop keeps the types.
LEMMA TypeLoop ==
    ASSUME TypeOK, NEW r \in Runner, LoopStep(r) \/ Exit(r)
    PROVE  TypeOK'
<1>0. RowsOK /\ AttemptsOK /\ RunnersOK
  BY DEF TypeOK
<1> USE ConstantsAssumption DEF store, cells, pool
<1>1. CASE StartRunner(r) \/ Wake(r) \/ Shutdown(r) \/ Drained(r) \/ DrainTimesOut(r)
  <2>1. RowsOK' /\ AttemptsOK'
    BY <1>0, <1>1
       DEF StartRunner, Wake, Shutdown, Drained, DrainTimesOut, RowsOK, AttemptsOK
  <2>2. RunnersOK'
    BY <1>0, <1>1 DEF StartRunner, Wake, Shutdown, Drained, DrainTimesOut, RunnersOK, LoopPC
  <2> QED
    BY <2>1, <2>2 DEF TypeOK
<1>2. CASE Reclaim(r) \/ ReleaseOwned(r)
  <2>1. \A j \in Job : rows[j] \in Row
    BY <1>0 DEF RowsOK
  <2>2. Reclaimed \in [Job -> Row] /\ Released(r) \in [Job -> Row]
    BY <2>1, GivenBackType DEF Reclaimed, Released
  <2>3. RowsOK'
    BY <1>0, <1>2, <2>2 DEF Reclaim, ReleaseOwned, RowsOK
  <2>4. AttemptsOK'
    BY <1>0, <1>2 DEF Reclaim, ReleaseOwned, AttemptsOK
  <2>5. RunnersOK'
    BY <1>0, <1>2 DEF Reclaim, ReleaseOwned, RunnersOK, LoopPC
  <2> QED
    BY <2>3, <2>4, <2>5 DEF TypeOK
<1>3. CASE DrainEnds(r)
  <2>1. RowsOK' /\ AttemptsOK'
    BY <1>0, <1>3 DEF DrainEnds, RowsOK, AttemptsOK
  <2>2. RunnersOK'
    BY <1>0, <1>3, ResizeType DEF DrainEnds, RunnersOK, LoopPC
  <2> QED
    BY <2>1, <2>2 DEF TypeOK
<1>4. ASSUME NEW k \in Key, Recover(r, k) PROVE TypeOK'
  <2>1. RowsOK'
    <3>1. CASE UNCHANGED store
      BY <1>0, <3>1 DEF RowsOK
    <3>2. CASE \E j \in Job, max \in MaxAttempts :
                 /\ rows' = [rows EXCEPT ![j] = NewRow(k, 0, NoDeadline, max)]
                 /\ debt' = [debt EXCEPT ![j] = 0]
      <4>1. PICK j \in Job, max \in MaxAttempts :
               /\ rows' = [rows EXCEPT ![j] = NewRow(k, 0, NoDeadline, max)]
               /\ debt' = [debt EXCEPT ![j] = 0]
        BY <3>2
      <4>2. NewRow(k, 0, NoDeadline, max) \in Row
        BY NewRowType
      <4>3. rows' \in [Job -> Row]
        BY <1>0, <4>1, <4>2, PutRow
      <4> QED
        BY <1>0, <4>1, <4>3 DEF RowsOK
    <3> QED
      BY <1>4, <3>1, <3>2 DEF Recover
  <2>2. AttemptsOK' /\ RunnersOK'
    BY <1>0, <1>4 DEF Recover, AttemptsOK, RunnersOK
  <2> QED
    BY <2>1, <2>2 DEF TypeOK
<1>5. ASSUME NEW s \in Slot, NEW j \in Job, Claim(r, s, j) PROVE TypeOK'
  <2> DEFINE a == [pc |-> IF Stretches(rows[j].key) THEN "claimed" ELSE "start",
                   job |-> j, n |-> Incremented(rows[j]), outcome |-> "Done",
                   left |-> IF Stretches(rows[j].key) THEN Slack
                            ELSE Budget[rows[j].key] + Slack]
  <2>1. rows[j].key \in Key
    BY <1>0 DEF RowsOK, Row
  <2>2. Budget[rows[j].key] + Slack \in Nat /\ Slack \in Nat
    BY <2>1
  <2>3. a \in Attempt /\ a.pc # "free" /\ a.job # NoJob
    BY <1>0, <2>2, ClaimedRowType DEF Attempt, Outcome
  <2>4. att' = [att EXCEPT ![r][s] = a] /\ rows' = [rows EXCEPT ![j] = ClaimedRow(r, j)]
    BY <1>5 DEF Claim, ClaimedRow
  <2> HIDE DEF a
  <2>5. AttemptsOK'
    BY <1>0, <2>3, <2>4, PutSlot
  <2>6. RowsOK'
    BY <1>0, <1>5, <2>4, ClaimedRowType, PutRow DEF RowsOK, Claim
  <2>7. RunnersOK'
    BY <1>0, <1>5, ResizeType DEF Claim, RunnersOK
  <2> QED
    BY <2>5, <2>6, <2>7 DEF TypeOK
<1>6. CASE Exit(r)
  <2>1. RowsOK'
    BY <1>0, <1>6 DEF Exit, RowsOK
  <2>2. AttemptsOK'
    BY <1>0, <1>6, FreeSlotType DEF Exit, AttemptsOK
  <2>3. RunnersOK'
    BY <1>0, <1>6 DEF Exit, RunnersOK, LoopPC
  <2> QED
    BY <2>1, <2>2, <2>3 DEF TypeOK
<1> QED
  BY <1>1, <1>2, <1>3, <1>4, <1>5, <1>6 DEF LoopStep

\* Callers, operators, the retention sweep and the clock keep the types.
LEMMA TypeOutside ==
    ASSUME TypeOK, OperatorStep \/ Tick
    PROVE  TypeOK'
<1>0. RowsOK /\ AttemptsOK /\ RunnersOK
  BY DEF TypeOK
<1> USE ConstantsAssumption DEF store, cells, pool
<1>1. ASSUME NEW j \in Job, NEW k \in Key, NEW delay \in Delays, NEW d \in Deadlines,
             NEW max \in MaxAttempts, Enqueue(j, k, delay, d, max)
      PROVE TypeOK'
  <2>1. NewRow(k, delay, d, max) \in Row
    BY NewRowType
  <2>2. RowsOK'
    BY <1>0, <1>1, <2>1, PutRow DEF Enqueue, RowsOK
  <2> QED
    BY <1>0, <1>1, <2>2 DEF Enqueue, TypeOK, AttemptsOK, RunnersOK
<1>2. ASSUME NEW reg \in Registries, NEW t \in Targets, Reload(reg, t)
      PROVE TypeOK'
  <2>1. RowsOK' /\ AttemptsOK'
    BY <1>0, <1>2 DEF Reload, RowsOK, AttemptsOK
  <2>2. RunnersOK'
    BY <1>0, <1>2 DEF Reload, RunnersOK
  <2> QED
    BY <2>1, <2>2 DEF TypeOK
<1>3. ASSUME NEW j \in Job, Cancel(j) \/ Advance(j) \/ Revive(j) \/ Cleanup(j)
      PROVE TypeOK'
  <2>1. rows[j] \in Row
    BY <1>0 DEF RowsOK
  <2>2. \E x \in Row : rows' = [rows EXCEPT ![j] = x]
    <3>1. [rows[j] EXCEPT !.status = "cancelled"] \in Row
      BY <2>1 DEF Row, Status
    <3>2. [rows[j] EXCEPT !.run_at = 0] \in Row
      BY <2>1 DEF Row
    <3>3. [rows[j] EXCEPT !.status = "ready", !.run_at = 0,
                          !.attempts = Greater(rows[j].max - 1, 0)] \in Row
      <4>1. Greater(rows[j].max - 1, 0) \in Nat
        BY <2>1 DEF Row, Greater
      <4> QED
        BY <2>1, <4>1 DEF Row, Status
    <3>4. [rows[j] EXCEPT !.status = "none", !.run_at = 0, !.attempts = 0] \in Row
      BY <2>1 DEF Row, Status
    <3> QED
      BY <1>3, <3>1, <3>2, <3>3, <3>4 DEF Cancel, Advance, Revive, Cleanup
  <2>3. rows' \in [Job -> Row]
    BY <1>0, <2>2, PutRow
  <2> QED
    BY <1>0, <1>3, <2>3
       DEF Cancel, Advance, Revive, Cleanup, TypeOK, RowsOK, AttemptsOK, RunnersOK
<1>4. CASE Tick
  <2>1. ASSUME NEW j \in Job
        PROVE [rows[j] EXCEPT
                 !.run_at = Nearer(@, 0),
                 !.deadline = IF @ = NoDeadline THEN @ ELSE Nearer(@, -1),
                 !.lease = Nearer(@, 0)] \in Row
    <3>1. rows[j] \in Row
      BY <1>0 DEF RowsOK
    <3>2. Nearer(rows[j].run_at, 0) \in Nat /\ Nearer(rows[j].lease, 0) \in Nat
      BY <3>1 DEF Row, Nearer, Greater
    <3>3. rows[j].deadline # NoDeadline => Nearer(rows[j].deadline, -1) \in Int
      BY <3>1 DEF Row, Nearer, Greater
    <3> QED
      BY <3>1, <3>2, <3>3 DEF Row
  <2>2. RowsOK'
    BY <1>0, <1>4, <2>1 DEF Tick, RowsOK
  <2>3. ASSUME NEW r \in Runner, NEW s \in Slot
        PROVE  /\ [att[r][s] EXCEPT !.left = Nearer(@, 0)] \in Attempt
               /\ [att[r][s] EXCEPT !.left = Nearer(@, 0)].pc = att[r][s].pc
               /\ [att[r][s] EXCEPT !.left = Nearer(@, 0)].job = att[r][s].job
    <3>1. att[r][s] \in Attempt
      BY <1>0 DEF AttemptsOK
    <3>2. Nearer(att[r][s].left, 0) \in Nat
      BY <3>1 DEF Attempt, Nearer, Greater
    <3> QED
      BY <3>1, <3>2 DEF Attempt
  <2>4. AttemptsOK'
    <3>1. att' = [r \in Runner |-> [s \in Slot |-> [att[r][s] EXCEPT !.left = Nearer(@, 0)]]]
      BY <1>4 DEF Tick
    <3>2. att' \in [Runner -> [Slot -> Attempt]]
      BY <2>3, <3>1
    <3>3. \A r \in Runner, s \in Slot : /\ att'[r][s].pc = att[r][s].pc
                                        /\ att'[r][s].job = att[r][s].job
      BY <2>3, <3>1
    <3> QED
      BY <1>0, <3>2, <3>3 DEF AttemptsOK
  <2>5. RunnersOK'
    BY <1>0, <1>4 DEF Tick, RunnersOK
  <2> QED
    BY <2>2, <2>4, <2>5 DEF TypeOK
<1> QED
  BY <1>1, <1>2, <1>3, <1>4 DEF OperatorStep

\* Every step keeps the types.
LEMMA TypeStep == TypeOK /\ [Next]_vars => TypeOK'
<1> SUFFICES ASSUME TypeOK, [Next]_vars PROVE TypeOK'
  OBVIOUS
<1>1. CASE UNCHANGED vars
  BY <1>1 DEF vars, TypeOK, RowsOK, AttemptsOK, RunnersOK
<1>2. CASE Next
  BY <1>2, TypeLoop, TypeAttempt, TypeOutside DEF Next
<1> QED
  BY <1>1, <1>2

\* The type invariant: every state of the queue has the types of TypeOK.
THEOREM TypeCorrect == Spec => []TypeOK
BY TypeInit, TypeStep, PTL DEF Spec

-----------------------------------------------------------------------------
(* Leases.  LeaseInv is inductive relative to TypeOK: an attempt of a runner *)
(* that has not given its leases up holds the lease of its row, and the      *)
(* lease outlasts what is left of the attempt.  NoOverlap follows, a row     *)
(* having one owner.                                                         *)

\* A row given back, or never claimed, has neither owner nor lease.
LEMMA UnheldLeased ==
    \A x : x.status = "ready" /\ x.owner = NoRunner /\ x.lease = 0 => Leased(x)
BY DEF Leased

\* A step that writes no row, and in which every attempt still at work was at
\* work before, on the same job and with as much time, keeps the lease invariant.
LEMMA NoWrite ==
    ASSUME LeaseInv, rows' = rows,
           \A q \in Runner, t \in Slot :
              Working(q, t)' => /\ Working(q, t)
                                /\ att'[q][t].job = att[q][t].job
                                /\ att'[q][t].left = att[q][t].left
                                /\ loop[q] = "released" => loop'[q] = "released"
    PROVE  LeaseInv'
<1>1. LeaseDiscipline'
  BY DEF LeaseInv, LeaseDiscipline, Leased
<1>2. AttemptHolds'
  BY DEF LeaseInv, AttemptHolds, Holds
<1>3. OneSlotPerJob'
  BY DEF LeaseInv, OneSlotPerJob
<1> QED
  BY <1>1, <1>2, <1>3 DEF LeaseInv

\* Inserting, cancelling, advancing, reviving or deleting a row that no runner
\* holds keeps the lease invariant.
LEMMA WriteUnheld ==
    ASSUME TypeOK, LeaseInv, NEW j \in Job, NEW x \in Row,
           rows[j].status # "running", rows' = [rows EXCEPT ![j] = x],
           x.status # "running", x.owner = NoRunner, x.lease = 0,
           att' = att, loop' = loop
    PROVE  LeaseInv'
<1>1. \A i \in Job : rows'[i] = IF i = j THEN x ELSE rows[i]
  BY PutRow DEF TypeOK
<1>2. LeaseDiscipline'
  BY <1>1 DEF LeaseInv, LeaseDiscipline, Leased
<1>3. AttemptHolds'
  <2> SUFFICES ASSUME Timely, NEW r \in Runner, NEW s \in Slot, Working(r, s),
                      loop[r] # "released"
               PROVE  /\ Holds(r, att[r][s].job)'
                      /\ 0 < att[r][s].left
                      /\ att[r][s].left <= rows'[att[r][s].job].lease
    BY DEF AttemptHolds, Working
  <2>1. /\ Holds(r, att[r][s].job)
        /\ 0 < att[r][s].left /\ att[r][s].left <= rows[att[r][s].job].lease
    BY DEF LeaseInv, AttemptHolds
  <2>2. att[r][s].job \in Job
    BY SlotMoves DEF TypeOK, Working
  <2> QED
    BY <1>1, <2>1, <2>2 DEF Holds
<1>4. OneSlotPerJob'
  BY DEF LeaseInv, OneSlotPerJob, Working
<1> QED
  BY <1>2, <1>3, <1>4 DEF LeaseInv

\* Rows given back to the queue keep the lease invariant when none of them is
\* held by an attempt whose runner still counts on its leases.
LEMMA GiveBack ==
    ASSUME TypeOK, LeaseInv, NEW G \in SUBSET Job,
           rows' = [j \in Job |-> IF j \in G
                                  THEN [rows[j] EXCEPT !.status = "ready", !.owner = NoRunner,
                                                       !.lease = 0]
                                  ELSE rows[j]],
           att' = att,
           \A q \in Runner, t \in Slot :
              Timely /\ Working(q, t) /\ loop'[q] # "released" =>
                 loop[q] # "released" /\ att[q][t].job \notin G
    PROVE  LeaseInv'
<1>1. \A j \in Job : rows[j] \in Row
  BY DEF TypeOK, RowsOK
<1>2. LeaseDiscipline'
  <2> SUFFICES ASSUME NEW j \in Job PROVE Leased(rows'[j])
    BY DEF LeaseDiscipline, Leased
  <2>1. CASE j \in G
    <3>1. rows'[j].status = "ready" /\ rows'[j].owner = NoRunner /\ rows'[j].lease = 0
      BY <1>1, <2>1 DEF Row
    <3> QED
      BY <3>1, UnheldLeased, Zenon
  <2>2. CASE j \notin G
    BY <2>2 DEF LeaseInv, LeaseDiscipline, Leased
  <2> QED
    BY <2>1, <2>2
<1>3. AttemptHolds'
  <2> SUFFICES ASSUME Timely, NEW r \in Runner, NEW s \in Slot, Working(r, s),
                      loop'[r] # "released"
               PROVE  /\ Holds(r, att[r][s].job)'
                      /\ 0 < att[r][s].left
                      /\ att[r][s].left <= rows'[att[r][s].job].lease
    BY DEF AttemptHolds, Working
  <2>1. att[r][s].job \in Job \ G /\ loop[r] # "released"
    BY SlotMoves DEF TypeOK, Working
  <2>2. rows'[att[r][s].job] = rows[att[r][s].job]
    BY <2>1
  <2> QED
    BY <2>1, <2>2 DEF LeaseInv, AttemptHolds, Holds
<1>4. OneSlotPerJob'
  BY DEF LeaseInv, OneSlotPerJob, Working
<1> QED
  BY <1>2, <1>3, <1>4 DEF LeaseInv

\* A claim takes a row no attempt holds, and writes a lease that covers the
\* attempt, or the wait for extend_lease.
LEMMA LeaseClaim ==
    ASSUME TypeOK, LeaseInv, NEW r \in Runner, NEW s \in Slot, NEW j \in Job, Claim(r, s, j)
    PROVE  LeaseInv'
<1> DEFINE left == IF Stretches(rows[j].key) THEN Slack ELSE Budget[rows[j].key] + Slack
           a == [pc |-> IF Stretches(rows[j].key) THEN "claimed" ELSE "start",
                 job |-> j, n |-> Incremented(rows[j]), outcome |-> "Done", left |-> left]
<1>0. RowsOK /\ AttemptsOK /\ RunnersOK
  BY DEF TypeOK
<1>1. rows[j] \in Row /\ rows[j].key \in Key /\ rows[j].status = "ready"
  BY <1>0 DEF RowsOK, Row, Claim, Eligible
<1>2. left \in Nat /\ 0 < left /\ left <= ClaimLease /\ ClaimLease \in Nat
  BY <1>1, ConstantsAssumption DEF Stretches, ClaimLease
<1>3. a \in Attempt /\ a.pc # "free" /\ a.job = j /\ a.left = left /\ j # NoJob
  BY <1>0, <1>2, ClaimedRowType, ConstantsAssumption DEF Attempt, Outcome
<1>4. att' = [att EXCEPT ![r][s] = a] /\ rows' = [rows EXCEPT ![j] = ClaimedRow(r, j)]
      /\ loop' = loop /\ loop[r] = "drain" /\ att[r][s].pc = "free"
  BY DEF Claim, ClaimedRow
<1> HIDE DEF a, left
<1>5. \A q \in Runner, t \in Slot : att'[q][t] = IF q = r /\ t = s THEN a ELSE att[q][t]
  BY <1>0, <1>3, <1>4, PutSlot
<1>6. \A i \in Job : rows'[i] = IF i = j THEN ClaimedRow(r, j) ELSE rows[i]
  BY <1>0, <1>4, ClaimedRowType, PutRow
<1>7. /\ ClaimedRow(r, j).status = "running" /\ ClaimedRow(r, j).owner = r
      /\ ClaimedRow(r, j).lease = ClaimLease
  BY <1>1 DEF ClaimedRow, Row
<1>8. \A q \in Runner, t \in Slot :
         Timely /\ Working(q, t) /\ loop[q] # "released" =>
            /\ att[q][t].job \in Job /\ att[q][t].job # j
            /\ Holds(q, att[q][t].job)
            /\ 0 < att[q][t].left /\ att[q][t].left <= rows[att[q][t].job].lease
  BY <1>0, <1>1, SlotMoves DEF LeaseInv, AttemptHolds, Holds, Working
<1>9. LeaseDiscipline'
  BY <1>6, <1>7, ConstantsAssumption DEF LeaseInv, LeaseDiscipline, Leased
<1>10. AttemptHolds'
  <2> SUFFICES ASSUME Timely, NEW q \in Runner, NEW t \in Slot, Working(q, t)',
                      loop[q] # "released"
               PROVE  /\ Holds(q, att[q][t].job)'
                      /\ 0 < att'[q][t].left
                      /\ att'[q][t].left <= rows'[att'[q][t].job].lease
    BY <1>4 DEF AttemptHolds, Holds
  <2>1. CASE q = r /\ t = s
    BY <1>2, <1>3, <1>5, <1>6, <1>7, <2>1 DEF Holds
  <2>2. CASE ~(q = r /\ t = s)
    BY <1>5, <1>6, <1>8, <2>2 DEF Holds, Working
  <2> QED
    BY <2>1, <2>2
<1>11. OneSlotPerJob'
  <2> SUFFICES ASSUME Timely, NEW q \in Runner, NEW t \in Slot, NEW u \in Slot,
                      Working(q, t)', Working(q, u)',
                      att'[q][t].job = att'[q][u].job
               PROVE  t = u
    BY DEF OneSlotPerJob
  <2>1. \A v \in Slot : Working(r, v) => att[r][v].job # j
    BY <1>4, <1>8
  <2> QED
    BY <1>3, <1>5, <2>1 DEF LeaseInv, OneSlotPerJob, Working
<1> QED
  BY <1>9, <1>10, <1>11 DEF LeaseInv

\* Extending the lease of a held row to the handler's budget covers it.
LEMMA LeaseExtend ==
    ASSUME TypeOK, LeaseInv, NEW r \in Runner, NEW s \in Slot, Extend(r, s)
    PROVE  LeaseInv'
<1> DEFINE j == att[r][s].job
           span == Budget[rows[j].key] + Slack
           a == [att[r][s] EXCEPT !.pc = "start", !.left = span]
           x == [rows[j] EXCEPT !.lease = span]
<1>0. RowsOK /\ AttemptsOK /\ RunnersOK
  BY DEF TypeOK
<1>1. att[r][s].pc = "claimed" /\ Holds(r, j)
  BY DEF Extend
<1>2. att[r][s] \in Attempt /\ j \in Job
  BY <1>0, <1>1, SlotMoves
<1>3. rows[j] \in Row /\ rows[j].key \in Key
  BY <1>0, <1>2 DEF RowsOK, Row
<1>4. span \in Nat /\ 0 < span /\ j # NoJob
  BY <1>2, <1>3, ConstantsAssumption
<1>5. a \in Attempt /\ a.pc = "start" /\ a.job = j /\ a.left = span
  BY <1>2, <1>4 DEF Attempt
<1>6. x \in Row /\ x.status = "running" /\ x.owner = r /\ x.lease = span
  BY <1>1, <1>3, <1>4 DEF Row, Holds
<1>7. att' = [att EXCEPT ![r][s] = a] /\ rows' = [rows EXCEPT ![j] = x] /\ loop' = loop
  BY DEF Extend
<1>w. Working(r, s)
  BY <1>1 DEF Working
<1> HIDE DEF a, x, j, span
<1>s. a.pc = "free" <=> a.job = NoJob
  BY <1>4, <1>5
<1>8. \A q \in Runner, t \in Slot : att'[q][t] = IF q = r /\ t = s THEN a ELSE att[q][t]
  BY <1>0, <1>5, <1>7, <1>s, PutSlot
<1>9. \A i \in Job : rows'[i] = IF i = j THEN x ELSE rows[i]
  BY <1>0, <1>2, <1>6, <1>7, PutRow
<1>10. LeaseDiscipline'
  BY <1>6, <1>9, ConstantsAssumption DEF LeaseInv, LeaseDiscipline, Leased
<1>11. AttemptHolds'
  <2> SUFFICES ASSUME Timely, NEW q \in Runner, NEW t \in Slot, Working(q, t)',
                      loop[q] # "released"
               PROVE  /\ Holds(q, att[q][t].job)'
                      /\ 0 < att'[q][t].left
                      /\ att'[q][t].left <= rows'[att'[q][t].job].lease
    BY <1>7 DEF AttemptHolds, Holds
  <2>1. CASE q = r /\ t = s
    BY <1>2, <1>4, <1>5, <1>6, <1>8, <1>9, <2>1 DEF Holds
  <2>2. CASE ~(q = r /\ t = s)
    <3>1. Working(q, t) /\ att'[q][t] = att[q][t]
      BY <1>8, <2>2 DEF Working
    <3>2. /\ Holds(q, att[q][t].job) /\ att[q][t].job \in Job
          /\ 0 < att[q][t].left /\ att[q][t].left <= rows[att[q][t].job].lease
      BY <1>0, <3>1, SlotMoves DEF LeaseInv, AttemptHolds, Working
    <3>3. att[q][t].job # j
      BY <1>1, <1>w, <2>2, <3>1, <3>2 DEF LeaseInv, OneSlotPerJob, Holds, j
    <3> QED
      BY <1>9, <3>1, <3>2, <3>3 DEF Holds
  <2> QED
    BY <2>1, <2>2
<1>12. OneSlotPerJob'
  <2> SUFFICES ASSUME Timely, NEW q \in Runner, NEW t \in Slot, NEW u \in Slot,
                      Working(q, t)', Working(q, u)',
                      att'[q][t].job = att'[q][u].job
               PROVE  t = u
    BY DEF OneSlotPerJob
  <2>1. /\ Working(q, t) /\ Working(q, u)
        /\ att'[q][t].job = att[q][t].job /\ att'[q][u].job = att[q][u].job
    BY <1>5, <1>8, <1>w DEF Working, j
  <2> QED
    BY <2>1 DEF LeaseInv, OneSlotPerJob
<1> QED
  BY <1>10, <1>11, <1>12 DEF LeaseInv

\* A settlement that lands ends the attempt at the row it gives up.
LEMMA LeaseSettle ==
    ASSUME TypeOK, LeaseInv, NEW r \in Runner, NEW s \in Slot, Settle(r, s)
    PROVE  LeaseInv'
<1> DEFINE a == att[r][s]
           j == a.job
           b == [a EXCEPT !.pc = "abandon", !.left = 0]
<1>0. RowsOK /\ AttemptsOK /\ RunnersOK
  BY DEF TypeOK
<1>1. a.pc = "settle" /\ Holds(r, j) /\ loop' = loop
  BY DEF Settle
<1>2. a \in Attempt /\ j \in Job /\ j # NoJob
  BY <1>0, <1>1, SlotMoves, ConstantsAssumption
<1>3. rows[j] \in Row
  BY <1>0, <1>2 DEF RowsOK
<1>4. PICK d \in Backoff(a.n) :
        /\ rows' = [rows EXCEPT ![j] = Settled(a, rows[j], d)]
        /\ \/ att' = [att EXCEPT ![r][s] = b]
           \/ att' = [att EXCEPT ![r][s] = FreeSlot]
  BY DEF Settle
<1> DEFINE x == Settled(a, rows[j], d)
<1>5. x \in Row
  BY <1>2, <1>3, SettledType
<1>6. x.status # "running" /\ x.owner = NoRunner /\ x.lease = 0
  BY <1>3 DEF Settled, Row
<1>7. b \in Attempt /\ b.pc = "abandon" /\ b.job = j /\ (b.pc = "free" <=> b.job = NoJob)
  BY <1>2 DEF Attempt
<1>w. Working(r, s)
  BY <1>1 DEF Working
<1> HIDE DEF a, b, j, x
<1>8. PICK c \in {b, FreeSlot} : att' = [att EXCEPT ![r][s] = c]
  BY <1>4
<1>9. c \in Attempt /\ c.pc \notin {"claimed", "start", "run", "settle"}
      /\ (c.pc = "free" <=> c.job = NoJob)
  BY <1>7, <1>8, FreeSlotType
<1>10. \A q \in Runner, t \in Slot : att'[q][t] = IF q = r /\ t = s THEN c ELSE att[q][t]
  BY <1>0, <1>8, <1>9, PutSlot
<1>11. \A i \in Job : rows'[i] = IF i = j THEN x ELSE rows[i]
  BY <1>0, <1>2, <1>4, <1>5, PutRow DEF x
<1>12. \A q \in Runner, t \in Slot :
          Working(q, t)' => /\ Working(q, t) /\ ~(q = r /\ t = s)
                            /\ att'[q][t] = att[q][t]
  BY <1>9, <1>10 DEF Working
<1>13. LeaseDiscipline'
  BY <1>6, <1>11 DEF LeaseInv, LeaseDiscipline, Leased
<1>14. AttemptHolds'
  <2> SUFFICES ASSUME Timely, NEW q \in Runner, NEW t \in Slot, Working(q, t)',
                      loop[q] # "released"
               PROVE  /\ Holds(q, att[q][t].job)'
                      /\ 0 < att'[q][t].left
                      /\ att'[q][t].left <= rows'[att'[q][t].job].lease
    BY <1>1 DEF AttemptHolds
  <2>1. Working(q, t) /\ ~(q = r /\ t = s) /\ att'[q][t] = att[q][t]
    BY <1>12
  <2>2. /\ Holds(q, att[q][t].job) /\ att[q][t].job \in Job
        /\ 0 < att[q][t].left /\ att[q][t].left <= rows[att[q][t].job].lease
    BY <1>0, <2>1, SlotMoves DEF LeaseInv, AttemptHolds, Working
  <2>3. att[q][t].job # j
    BY <1>1, <1>w, <2>1, <2>2 DEF LeaseInv, OneSlotPerJob, Holds, j, a
  <2> QED
    BY <1>11, <2>1, <2>2, <2>3 DEF Holds
<1>15. OneSlotPerJob'
  BY <1>1, <1>12 DEF LeaseInv, OneSlotPerJob
<1> QED
  BY <1>13, <1>14, <1>15 DEF LeaseInv

\* A second off the lease is a second off the attempt; with timely attempts
\* neither runs out before the attempt has ended.
LEMMA LeaseTick ==
    ASSUME TypeOK, LeaseInv, Tick
    PROVE  LeaseInv'
<1>0. RowsOK /\ AttemptsOK /\ RunnersOK
  BY DEF TypeOK
<1>1. \A j \in Job : /\ rows'[j].status = rows[j].status /\ rows'[j].owner = rows[j].owner
                     /\ rows'[j].lease = Nearer(rows[j].lease, 0) /\ rows[j].lease \in Nat
  <2> SUFFICES ASSUME NEW j \in Job
               PROVE  /\ rows'[j].status = rows[j].status /\ rows'[j].owner = rows[j].owner
                      /\ rows'[j].lease = Nearer(rows[j].lease, 0) /\ rows[j].lease \in Nat
    OBVIOUS
  <2>1. rows[j] \in Row
    BY <1>0 DEF RowsOK
  <2>2. rows'[j] = [rows[j] EXCEPT
                      !.run_at = Nearer(@, 0),
                      !.deadline = IF @ = NoDeadline THEN @ ELSE Nearer(@, -1),
                      !.lease = Nearer(@, 0)]
    BY DEF Tick
  <2> QED
    BY <2>1, <2>2 DEF Row
<1>2. \A r \in Runner, s \in Slot :
         /\ att'[r][s].pc = att[r][s].pc /\ att'[r][s].job = att[r][s].job
         /\ att'[r][s].left = Nearer(att[r][s].left, 0) /\ att[r][s].left \in Nat
  <2> SUFFICES ASSUME NEW r \in Runner, NEW s \in Slot
               PROVE  /\ att'[r][s].pc = att[r][s].pc /\ att'[r][s].job = att[r][s].job
                      /\ att'[r][s].left = Nearer(att[r][s].left, 0)
                      /\ att[r][s].left \in Nat
    OBVIOUS
  <2>1. att[r][s] \in Attempt
    BY <1>0 DEF AttemptsOK
  <2>2. att'[r][s] = [att[r][s] EXCEPT !.left = Nearer(@, 0)]
    BY DEF Tick
  <2> QED
    BY <2>1, <2>2 DEF Attempt
<1>3. loop' = loop
  BY DEF Tick
<1>4. LeaseDiscipline'
  BY <1>1 DEF LeaseInv, LeaseDiscipline, Leased, Nearer, Greater
<1>5. AttemptHolds'
  <2> SUFFICES ASSUME Timely, NEW q \in Runner, NEW t \in Slot, Working(q, t)',
                      loop[q] # "released"
               PROVE  /\ Holds(q, att[q][t].job)'
                      /\ 0 < att'[q][t].left
                      /\ att'[q][t].left <= rows'[att'[q][t].job].lease
    BY <1>3 DEF AttemptHolds
  <2>1. Working(q, t)
    BY <1>2 DEF Working
  <2>2. /\ Holds(q, att[q][t].job) /\ att[q][t].job \in Job
        /\ 0 < att[q][t].left /\ att[q][t].left <= rows[att[q][t].job].lease
    BY <1>0, <2>1, SlotMoves DEF LeaseInv, AttemptHolds, Working
  <2>3. att[q][t].left > 1
    BY <2>1 DEF Tick, Working
  <2>4. Holds(q, att[q][t].job)'
    BY <1>1, <1>2, <2>2 DEF Holds
  <2>5. 0 < att'[q][t].left /\ att'[q][t].left = att[q][t].left - 1
    BY <1>2, <2>3 DEF Nearer, Greater
  <2>6. rows'[att[q][t].job].lease = rows[att[q][t].job].lease - 1
    BY <1>1, <1>2, <2>2, <2>3 DEF Nearer, Greater
  <2> QED
    BY <1>1, <1>2, <2>2, <2>4, <2>5, <2>6
<1>6. OneSlotPerJob'
  BY <1>2, <1>3 DEF LeaseInv, OneSlotPerJob, Working
<1> QED
  BY <1>4, <1>5, <1>6 DEF LeaseInv

\* Every step keeps the lease invariant.
LEMMA LeaseStep == TypeOK /\ LeaseInv /\ [Next]_vars => LeaseInv'
<1> SUFFICES ASSUME TypeOK, LeaseInv, [Next]_vars PROVE LeaseInv'
  OBVIOUS
<1>0. RowsOK /\ AttemptsOK /\ RunnersOK
  BY DEF TypeOK
<1> USE DEF store, cells, pool
<1>1. CASE UNCHANGED vars
  BY <1>1, NoWrite DEF vars, Working
<1>2. ASSUME NEW r \in Runner, LoopStep(r) \/ Exit(r) PROVE LeaseInv'
  <2>1. CASE StartRunner(r) \/ Wake(r) \/ Shutdown(r) \/ Drained(r) \/ DrainTimesOut(r)
             \/ DrainEnds(r)
    <3>1. rows' = rows /\ att' = att
      BY <2>1 DEF StartRunner, Wake, Shutdown, Drained, DrainTimesOut, DrainEnds
    <3>2. \A q \in Runner : loop[q] = "released" => loop'[q] = "released"
      BY <1>0, <2>1
         DEF StartRunner, Wake, Shutdown, Drained, DrainTimesOut, DrainEnds, RunnersOK
    <3> QED
      BY <3>1, <3>2, NoWrite DEF Working
  <2>2. CASE Reclaim(r)
    <3>1. att' = att /\ \A q \in Runner : loop[q] = "released" <=> loop'[q] = "released"
      BY <1>0, <2>2 DEF Reclaim, RunnersOK
    <3>2. CASE rows' = rows
      BY <3>1, <3>2, NoWrite DEF Working
    <3>3. CASE rows' = Reclaimed
      <4> DEFINE G == {j \in Job : rows[j].status = "running" /\ rows[j].lease <= 0}
      <4>1. rows' = [j \in Job |-> IF j \in G
                                   THEN [rows[j] EXCEPT !.status = "ready",
                                                        !.owner = NoRunner, !.lease = 0]
                                   ELSE rows[j]]
        BY <3>3 DEF Reclaimed
      <4>2. ASSUME NEW q \in Runner, NEW t \in Slot, Timely, Working(q, t),
                   loop'[q] # "released"
            PROVE  loop[q] # "released" /\ att[q][t].job \notin G
        <5>1. loop[q] # "released"
          BY <3>1, <4>2
        <5>2. 0 < att[q][t].left /\ att[q][t].left <= rows[att[q][t].job].lease
          BY <4>2, <5>1 DEF LeaseInv, AttemptHolds
        <5>3. att[q][t].left \in Nat
          BY <1>0 DEF AttemptsOK, Attempt
        <5>4. \A j \in Job : rows[j].lease \in Nat
          BY <1>0 DEF RowsOK, Row
        <5> QED
          BY <5>1, <5>2, <5>3, <5>4
      <4> HIDE DEF G
      <4> QED
        BY <3>1, <4>1, <4>2, GiveBack DEF G
    <3> QED
      BY <2>2, <3>2, <3>3 DEF Reclaim
  <2>3. CASE ReleaseOwned(r)
    <3>1. /\ att' = att /\ loop'[r] = "released"
          /\ \A q \in Runner : q # r => loop'[q] = loop[q]
      BY <1>0, <2>3 DEF ReleaseOwned, RunnersOK
    <3>2. CASE rows' = rows
      BY <3>1, <3>2, NoWrite DEF Working
    <3>3. CASE rows' = Released(r)
      <4> DEFINE G == {j \in Job : Holds(r, j)}
      <4>1. rows' = [j \in Job |-> IF j \in G
                                   THEN [rows[j] EXCEPT !.status = "ready",
                                                        !.owner = NoRunner, !.lease = 0]
                                   ELSE rows[j]]
        BY <3>3 DEF Released
      <4>2. ASSUME NEW q \in Runner, NEW t \in Slot, Timely, Working(q, t),
                   loop'[q] # "released"
            PROVE  loop[q] # "released" /\ att[q][t].job \notin G
        <5>1. q # r /\ loop[q] # "released"
          BY <3>1, <4>2
        <5>2. Holds(q, att[q][t].job)
          BY <4>2, <5>1 DEF LeaseInv, AttemptHolds
        <5> QED
          BY <5>1, <5>2 DEF Holds
      <4> HIDE DEF G
      <4> QED
        BY <3>1, <4>1, <4>2, GiveBack DEF G
    <3> QED
      BY <2>3, <3>2, <3>3 DEF ReleaseOwned
  <2>4. ASSUME NEW k \in Key, Recover(r, k) PROVE LeaseInv'
    <3>1. att' = att /\ loop' = loop
      BY <2>4 DEF Recover
    <3>2. CASE UNCHANGED store
      BY <3>1, <3>2, NoWrite DEF Working
    <3>3. CASE \E j \in Job, max \in MaxAttempts :
                  Fresh(j) /\ rows' = [rows EXCEPT ![j] = NewRow(k, 0, NoDeadline, max)]
      <4>1. PICK j \in Job, max \in MaxAttempts :
                  Fresh(j) /\ rows' = [rows EXCEPT ![j] = NewRow(k, 0, NoDeadline, max)]
        BY <3>3
      <4>2. NewRow(k, 0, NoDeadline, max) \in Row
        BY NewRowType, ConstantsAssumption
      <4>3. /\ NewRow(k, 0, NoDeadline, max).status # "running"
            /\ NewRow(k, 0, NoDeadline, max).owner = NoRunner
            /\ NewRow(k, 0, NoDeadline, max).lease = 0
        BY DEF NewRow
      <4> QED
        BY <3>1, <4>1, <4>2, <4>3, WriteUnheld DEF Fresh
    <3> QED
      BY <2>4, <3>2, <3>3 DEF Recover
  <2>5. ASSUME NEW s \in Slot, NEW j \in Job, Claim(r, s, j) PROVE LeaseInv'
    BY <2>5, LeaseClaim
  <2>6. CASE Exit(r)
    <3>1. rows' = rows /\ \A q \in Runner : q # r => loop'[q] = loop[q] /\ att'[q] = att[q]
      BY <1>0, <2>6 DEF Exit, RunnersOK, AttemptsOK
    <3>2. \A t \in Slot : ~Working(r, t)'
      BY <1>0, <2>6, FreeSlotType DEF Exit, AttemptsOK, Working
    <3> QED
      BY <3>1, <3>2, NoWrite DEF Working
  <2> QED
    BY <1>2, <2>1, <2>2, <2>3, <2>4, <2>5, <2>6 DEF LoopStep
<1>3. ASSUME NEW r \in Runner, NEW s \in Slot, AttemptStep(r, s) PROVE LeaseInv'
  <2>1. CASE ExtendMisses(r, s) \/ SettleMisses(r, s) \/ Abandon(r, s)
    <3>1. att' = [att EXCEPT ![r][s] = FreeSlot] /\ rows' = rows /\ loop' = loop
      BY <2>1 DEF ExtendMisses, SettleMisses, Abandon
    <3>2. \A q \in Runner, t \in Slot :
             att'[q][t] = IF q = r /\ t = s THEN FreeSlot ELSE att[q][t]
      BY <1>0, <3>1, PutSlot, FreeSlotType
    <3> QED
      BY <3>1, <3>2, NoWrite, FreeSlotType DEF Working
  <2>2. ASSUME Start(r, s) \/ \E o \in Outcome : Answer(r, s, o) PROVE LeaseInv'
    <3>1. /\ att[r][s] \in Attempt /\ att[r][s].job \in Job
          /\ Working(r, s) /\ att[r][s].job # NoJob
      <4>1. att[r][s].pc \in {"start", "run"}
        BY <2>2 DEF Start, Answer
      <4>2. att[r][s].pc # "free" /\ Working(r, s)
        BY <4>1 DEF Working
      <4> QED
        BY <1>0, <4>2, SlotMoves, ConstantsAssumption
    <3>2. PICK o \in Outcome, pc \in {"run", "settle"} :
             att' = [att EXCEPT ![r][s] = [@ EXCEPT !.pc = pc, !.outcome = o]]
      <4>1. CASE Start(r, s) /\ Passed(rows[att[r][s].job])
        BY <4>1 DEF Start, Outcome
      <4>2. CASE Start(r, s) /\ ~Passed(rows[att[r][s].job])
        <5>1. att' = [att EXCEPT ![r][s] = [@ EXCEPT !.pc = "run"]]
          BY <4>2 DEF Start
        <5>2. [att[r][s] EXCEPT !.pc = "run"]
              = [att[r][s] EXCEPT !.pc = "run", !.outcome = att[r][s].outcome]
          BY <3>1 DEF Attempt
        <5>3. att[r][s].outcome \in Outcome
          BY <3>1 DEF Attempt
        <5> QED
          BY <5>1, <5>2, <5>3
      <4>3. CASE \E o \in Outcome : Answer(r, s, o)
        BY <4>3 DEF Answer
      <4> QED
        BY <2>2, <4>1, <4>2, <4>3
    <3> DEFINE a == [att[r][s] EXCEPT !.pc = pc, !.outcome = o]
    <3>3. /\ a \in Attempt /\ a.job = att[r][s].job /\ a.left = att[r][s].left
          /\ (a.pc = "free" <=> a.job = NoJob)
      BY <3>1 DEF Attempt
    <3>4. att' = [att EXCEPT ![r][s] = a]
      BY <3>2
    <3> HIDE DEF a
    <3>5. \A q \in Runner, t \in Slot : att'[q][t] = IF q = r /\ t = s THEN a ELSE att[q][t]
      BY <1>0, <3>3, <3>4, PutSlot
    <3>6. rows' = rows /\ loop' = loop
      BY <2>2 DEF Start, Answer
    <3> QED
      BY <3>1, <3>3, <3>5, <3>6, NoWrite DEF Working
  <2>3. CASE Extend(r, s)
    BY <2>3, LeaseExtend
  <2>4. CASE Settle(r, s)
    BY <2>4, LeaseSettle
  <2> QED
    BY <1>3, <2>1, <2>2, <2>3, <2>4 DEF AttemptStep
<1>4. CASE OperatorStep
  <2>1. ASSUME NEW j \in Job, NEW k \in Key, NEW delay \in Delays, NEW d \in Deadlines,
               NEW max \in MaxAttempts, Enqueue(j, k, delay, d, max)
        PROVE LeaseInv'
    <3>1. NewRow(k, delay, d, max) \in Row
      BY NewRowType, ConstantsAssumption
    <3>2. /\ NewRow(k, delay, d, max).status # "running"
          /\ NewRow(k, delay, d, max).owner = NoRunner
          /\ NewRow(k, delay, d, max).lease = 0
      BY DEF NewRow
    <3>3. /\ rows[j].status = "none" /\ att' = att /\ loop' = loop
          /\ rows' = [rows EXCEPT ![j] = NewRow(k, delay, d, max)]
      BY <2>1 DEF Enqueue, Fresh
    <3>4. rows[j].status # "running"
      BY <3>3
    <3> QED
      BY <3>1, <3>2, <3>3, <3>4, WriteUnheld
  <2>2. ASSUME NEW reg \in Registries, NEW t \in Targets, Reload(reg, t) PROVE LeaseInv'
    BY <2>2, NoWrite DEF Reload, Working
  <2>3. ASSUME NEW j \in Job, Cancel(j) \/ Advance(j) \/ Revive(j) \/ Cleanup(j)
        PROVE LeaseInv'
    <3>1. rows[j] \in Row /\ rows[j].status # "running"
      BY <1>0, <2>3 DEF RowsOK, Cancel, Advance, Revive, Cleanup, Terminal
    <3>2. rows[j].owner = NoRunner /\ rows[j].lease = 0
      <4>1. Leased(rows[j]) /\ rows[j].lease \in Nat
        BY <3>1 DEF LeaseInv, LeaseDiscipline, Row
      <4> QED
        BY <3>1, <4>1 DEF Leased
    <3>3. \E x \in Row : /\ rows' = [rows EXCEPT ![j] = x]
                         /\ x.status # "running" /\ x.owner = NoRunner /\ x.lease = 0
      <4>1. CASE Cancel(j)
        <5> DEFINE x == [rows[j] EXCEPT !.status = "cancelled"]
        <5>1. x \in Row /\ x.status # "running" /\ x.owner = NoRunner /\ x.lease = 0
          BY <3>1, <3>2 DEF Row, Status
        <5> QED
          BY <4>1, <5>1 DEF Cancel
      <4>2. CASE Advance(j)
        <5> DEFINE x == [rows[j] EXCEPT !.run_at = 0]
        <5>1. x \in Row /\ x.status # "running" /\ x.owner = NoRunner /\ x.lease = 0
          BY <3>1, <3>2 DEF Row
        <5> QED
          BY <4>2, <5>1 DEF Advance
      <4>3. CASE Revive(j)
        <5> DEFINE n == Greater(rows[j].max - 1, 0)
                   x == [rows[j] EXCEPT !.status = "ready", !.run_at = 0, !.attempts = n]
        <5>1. n \in Nat
          BY <3>1 DEF Row, Greater
        <5>2. x \in Row /\ x.status # "running" /\ x.owner = NoRunner /\ x.lease = 0
          BY <3>1, <3>2, <5>1 DEF Row, Status
        <5> QED
          BY <4>3, <5>2 DEF Revive
      <4>4. CASE Cleanup(j)
        <5> DEFINE x == [rows[j] EXCEPT !.status = "none", !.run_at = 0, !.attempts = 0]
        <5>1. x \in Row /\ x.status # "running" /\ x.owner = NoRunner /\ x.lease = 0
          BY <3>1, <3>2 DEF Row, Status
        <5> QED
          BY <4>4, <5>1 DEF Cleanup
      <4> QED
        BY <2>3, <4>1, <4>2, <4>3, <4>4
    <3>4. att' = att /\ loop' = loop
      BY <2>3 DEF Cancel, Advance, Revive, Cleanup
    <3> QED
      BY <3>1, <3>3, <3>4, WriteUnheld
  <2> QED
    BY <1>4, <2>1, <2>2, <2>3 DEF OperatorStep
<1>5. CASE Tick
  BY <1>5, LeaseTick
<1> QED
  BY <1>1, <1>2, <1>3, <1>4, <1>5 DEF Next

\* The queue starts with no lease and no attempt.
LEMMA LeaseInit == Init => LeaseInv
<1> SUFFICES ASSUME Init PROVE LeaseInv
  OBVIOUS
<1>1. \A j \in Job : rows[j].status = "none" /\ rows[j].owner = NoRunner /\ rows[j].lease = 0
  BY DEF Init, NoRow
<1>2. \A r \in Runner, s \in Slot : ~Working(r, s)
  BY FreeSlotType DEF Init, Working
<1>3. LeaseDiscipline
  BY <1>1 DEF LeaseDiscipline, Leased
<1> QED
  BY <1>2, <1>3 DEF LeaseInv, AttemptHolds, OneSlotPerJob

\* The lease invariant holds in every state.
THEOREM LeaseSafety == Spec => []LeaseInv
BY TypeInit, TypeStep, LeaseInit, LeaseStep, PTL DEF Spec

\* A row has an owner and a lease exactly while it is running.
THEOREM LeasesDisciplined == Spec => []LeaseDiscipline
<1>1. LeaseInv => LeaseDiscipline
  BY DEF LeaseInv
<1> QED
  BY <1>1, LeaseSafety, PTL

\* With timely attempts, no two of them ever work on one job, unless one belongs
\* to a process that has given its leases up.
THEOREM AttemptsDoNotOverlap == Spec => []NoOverlap
<1>1. LeaseInv => NoOverlap
  <2> SUFFICES ASSUME LeaseInv, Timely, NEW q \in Runner, NEW r \in Runner,
                      NEW s \in Slot, NEW t \in Slot, Working(q, s), Working(r, t),
                      loop[q] # "released", loop[r] # "released",
                      att[q][s].job = att[r][t].job
               PROVE  q = r /\ s = t
    BY DEF NoOverlap
  <2>1. Holds(q, att[q][s].job) /\ Holds(r, att[r][t].job)
    BY DEF LeaseInv, AttemptHolds
  <2>2. q = r
    BY <2>1 DEF Holds
  <2> QED
    BY <2>2 DEF LeaseInv, OneSlotPerJob
<1> QED
  BY <1>1, LeaseSafety, PTL


\* The attempt whose settlement lands is the one the row was last claimed for, though
\* Job::settle compares the runner's id only: its runner has no second attempt at the
\* row, and an attempt of another runner would hold the row in its place.
THEOREM ClaimantSettles == Spec => SettledByClaimant
<1> DEFINE Alone == \A r \in Runner, s \in Slot :
                       Timely /\ Settle(r, s) =>
                          \A q \in Runner, t \in Slot :
                             Working(q, t) /\ att[q][t].job = att[r][s].job /\ <<q, t>> # <<r, s>>
                             => q # r /\ loop[q] = "released"
<1>1. ASSUME LeaseInv PROVE Alone
  <2> SUFFICES ASSUME NEW r \in Runner, NEW s \in Slot, Timely, Settle(r, s),
                      NEW q \in Runner, NEW t \in Slot, Working(q, t),
                      att[q][t].job = att[r][s].job, <<q, t>> # <<r, s>>
               PROVE  q # r /\ loop[q] = "released"
    OBVIOUS
  <2>1. Working(r, s) /\ Holds(r, att[r][s].job)
    BY DEF Settle, Working
  <2>2. q # r
    BY <1>1, <2>1 DEF LeaseInv, OneSlotPerJob
  <2>3. loop[q] # "released" => Holds(q, att[q][t].job)
    BY <1>1 DEF LeaseInv, AttemptHolds
  <2> QED  BY <2>1, <2>2, <2>3 DEF Holds
<1>2. LeaseInv => [Alone]_vars
  BY <1>1
<1> QED  BY <1>2, LeaseSafety, PTL DEF SettledByClaimant

-----------------------------------------------------------------------------
(* Permits.  The permits issued are the free ones and one per busy slot; a  *)
(* runner that is not up has neither.                                       *)

Permitted(r) ==
    /\ IsFiniteSet(Busy(r))
    /\ Up(r) => free[r] >= 0 /\ free[r] + Cardinality(Busy(r)) = cap[r]
    /\ ~Up(r) => Busy(r) = {}
    /\ loop[r] = "drained" => Busy(r) = {}

PermitInv == \A r \in Runner : Permitted(r)

\* A step that frees no slot, takes none and resizes nothing.
LEMMA SamePermits ==
    ASSUME PermitInv, \A q \in Runner : Busy(q)' = Busy(q), UNCHANGED <<cap, free>>,
           \A q \in Runner : /\ Up(q)' <=> Up(q)
                             /\ loop'[q] = "drained" => loop[q] = "drained"
    PROVE  PermitInv'
  BY DEF PermitInv, Permitted

\* A slot that is written by an attempt already in it stays busy.
LEMMA SameBusy ==
    ASSUME AttemptsOK, NEW r \in Runner, NEW s \in Slot, NEW a \in Attempt, a.pc # "free", a.job # NoJob,
           att[r][s].pc # "free", att' = [att EXCEPT ![r][s] = a]
    PROVE  \A q \in Runner : Busy(q)' = Busy(q)
  <1>1. \A q \in Runner, t \in Slot : att'[q][t] = IF q = r /\ t = s THEN a ELSE att[q][t]
    BY PutSlot
  <1> QED  BY <1>1 DEF Busy

\* An attempt that ends gives its permit back.
LEMMA PermitReturned ==
    ASSUME TypeOK, PermitInv, NEW r \in Runner, NEW s \in Slot, att[r][s].pc # "free",
           att' = [att EXCEPT ![r][s] = FreeSlot], free' = [free EXCEPT ![r] = @ + 1], UNCHANGED <<cap, loop>>
    PROVE  PermitInv'
  <1>0. AttemptsOK /\ RunnersOK
    BY DEF TypeOK
  <1>1. \A q \in Runner, t \in Slot : att'[q][t] = IF q = r /\ t = s THEN FreeSlot ELSE att[q][t]
    BY <1>0, PutSlot, FreeSlotType
  <1>2. s \in Busy(r) /\ Busy(r)' = Busy(r) \ {s} /\ \A q \in Runner \ {r} : Busy(q)' = Busy(q)
    BY <1>1, FreeSlotType DEF Busy
  <1>3. IsFiniteSet(Busy(r)) /\ Up(r)
    BY <1>2 DEF PermitInv, Permitted
  <1>4. IsFiniteSet(Busy(r) \ {s}) /\ Cardinality(Busy(r) \ {s}) = Cardinality(Busy(r)) - 1
    BY <1>2, <1>3, FS_RemoveElement
  <1>5. Cardinality(Busy(r)) \in Nat
    BY <1>3, FS_CardinalityType
  <1>6. free[r] \in Int /\ cap[r] \in Nat /\ free'[r] = free[r] + 1 /\ \A q \in Runner \ {r} : free'[q] = free[q]
    BY <1>0 DEF RunnersOK
  <1>7. Permitted(r)'
    <2>1. free[r] >= 0 /\ free[r] + Cardinality(Busy(r)) = cap[r] /\ (loop[r] = "drained" => Busy(r) = {})
      BY <1>3 DEF PermitInv, Permitted
    <2>2. loop[r] # "drained"
      BY <1>2, <2>1
    <2>3. free'[r] >= 0 /\ free'[r] + Cardinality(Busy(r)') = cap'[r]
      BY <1>2, <1>4, <1>5, <1>6, <2>1
    <2> QED  BY <1>2, <1>3, <1>4, <2>2, <2>3 DEF Permitted, Up
  <1>8. ASSUME NEW q \in Runner \ {r} PROVE Permitted(q)'
    BY <1>2, <1>6 DEF PermitInv, Permitted, Up
  <1> QED  BY <1>7, <1>8 DEF PermitInv

\* Permits::resize keeps the sum, and never takes a permit that is not free.
LEMMA ResizeConserves ==
    ASSUME RunnersOK, NEW r \in Runner, free[r] >= 0, NEW n \in Nat, free[r] + n = cap[r]
    PROVE  ResizedFree(r) >= 0 /\ ResizedFree(r) + n = ResizedCap(r)
  <1>1. cap[r] \in Nat /\ free[r] \in Int /\ goal[r] \in Nat
    BY DEF RunnersOK
  <1> QED  BY <1>1 DEF ResizedCap, ResizedFree, Taken, Lesser, Greater

LEMMA PermitClaim ==
    ASSUME TypeOK, PermitInv, NEW r \in Runner, NEW s \in Slot, NEW j \in Job, Claim(r, s, j)
    PROVE  PermitInv'
  <1> DEFINE a == [pc |-> IF Stretches(rows[j].key) THEN "claimed" ELSE "start",
                   job |-> j, n |-> Incremented(rows[j]), outcome |-> "Done",
                   left |-> IF Stretches(rows[j].key) THEN Slack ELSE Budget[rows[j].key] + Slack]
  <1>0. AttemptsOK /\ RunnersOK /\ RowsOK
    BY DEF TypeOK
  <1>1. \A q \in Runner, t \in Slot : att'[q][t] = IF q = r /\ t = s THEN a ELSE att[q][t]
    BY <1>0 DEF Claim, AttemptsOK
  <1>2. s \notin Busy(r) /\ Busy(r)' = Busy(r) \cup {s} /\ \A q \in Runner \ {r} : Busy(q)' = Busy(q)
    <2>1. a.pc # "free"
      OBVIOUS
    <2> HIDE DEF a
    <2> QED  BY <1>1, <2>1 DEF Busy, Claim
  <1>3. Up(r) /\ loop[r] = "drain" /\ IsFiniteSet(Busy(r))
    BY DEF Claim, Up, PermitInv, Permitted
  <1>4. IsFiniteSet(Busy(r) \cup {s}) /\ Cardinality(Busy(r) \cup {s}) = Cardinality(Busy(r)) + 1
    BY <1>2, <1>3, FS_AddElement
  <1>5. Cardinality(Busy(r)) \in Nat
    BY <1>3, FS_CardinalityType
  <1>6. ResizedFree(r) + Cardinality(Busy(r)) = ResizedCap(r) /\ ResizedFree(r) > 0
    BY <1>0, <1>3, <1>5, ResizeConserves DEF PermitInv, Permitted, Claim
  <1>7. /\ cap'[r] = ResizedCap(r) /\ free'[r] = ResizedFree(r) - 1
        /\ \A q \in Runner \ {r} : free'[q] = free[q] /\ cap'[q] = cap[q]
        /\ loop' = loop
    BY <1>0 DEF RunnersOK, Claim
  <1>8. Permitted(r)'
    <2>1. free'[r] >= 0 /\ free'[r] + Cardinality(Busy(r)') = cap'[r]
      BY <1>0, <1>2, <1>4, <1>5, <1>6, <1>7, ResizeType
    <2> QED  BY <1>2, <1>3, <1>4, <1>7, <2>1 DEF Permitted, Up
  <1>9. ASSUME NEW q \in Runner \ {r} PROVE Permitted(q)'
    BY <1>2, <1>7 DEF PermitInv, Permitted, Up
  <1> QED  BY <1>8, <1>9 DEF PermitInv

\* The steps of a loop other than a claim.
LEMMA PermitLoop ==
    ASSUME TypeOK, PermitInv, NEW r \in Runner, LoopStep(r) \/ Exit(r)
    PROVE  PermitInv'
  <1>0. AttemptsOK /\ RunnersOK
    BY DEF TypeOK
  <1>a. loop \in [Runner -> LoopPC] /\ cap \in [Runner -> Nat] /\ free \in [Runner -> Int]
    BY <1>0 DEF RunnersOK
  <1>b. \A q \in Runner : att' = att => Busy(q)' = Busy(q)
    BY DEF Busy
  <1> USE DEF store, cells, pool
  <1>1. CASE Wake(r) \/ Reclaim(r) \/ Shutdown(r) \/ DrainTimesOut(r) \/ ReleaseOwned(r)
             \/ \E k \in Key : Recover(r, k)
    <2>1. att' = att /\ UNCHANGED <<cap, free>>
      BY <1>1 DEF Wake, Reclaim, Shutdown, DrainTimesOut, ReleaseOwned, Recover
    <2>2. \A q \in Runner : (Up(q)' <=> Up(q)) /\ (loop'[q] = "drained" => loop[q] = "drained")
      BY <1>1, <1>a DEF Wake, Reclaim, Shutdown, DrainTimesOut, ReleaseOwned, Recover, Up, LoopPC
    <2> QED  BY <1>b, <2>1, <2>2, SamePermits
  <1>2. CASE DrainEnds(r)
    <2>1. /\ att' = att /\ loop'[r] = "idle" /\ loop[r] = "drain"
          /\ cap'[r] = ResizedCap(r) /\ free'[r] = ResizedFree(r)
          /\ \A q \in Runner \ {r} : free'[q] = free[q] /\ cap'[q] = cap[q] /\ loop'[q] = loop[q]
      BY <1>2, <1>a DEF DrainEnds
    <2>2. IsFiniteSet(Busy(r)) /\ Cardinality(Busy(r)) \in Nat
      BY FS_CardinalityType DEF PermitInv, Permitted
    <2>3. free'[r] >= 0 /\ free'[r] + Cardinality(Busy(r)) = cap'[r]
      BY <1>0, <2>1, <2>2, ResizeConserves DEF PermitInv, Permitted, Up
    <2>4. Permitted(r)'
      BY <1>b, <2>1, <2>2, <2>3 DEF Permitted, Up
    <2>5. ASSUME NEW q \in Runner \ {r} PROVE Permitted(q)'
      BY <1>b, <2>1 DEF PermitInv, Permitted, Up
    <2> QED  BY <2>4, <2>5 DEF PermitInv
  <1>3. CASE StartRunner(r)
    <2>1. /\ att' = att /\ loop'[r] = "recover" /\ loop[r] = "off" /\ cap'[r] = target /\ free'[r] = target
          /\ \A q \in Runner \ {r} : free'[q] = free[q] /\ cap'[q] = cap[q] /\ loop'[q] = loop[q]
      BY <1>3, <1>a DEF StartRunner
    <2>2. Busy(r) = {} /\ target \in Nat
      BY <1>0, <2>1 DEF PermitInv, Permitted, Up, RunnersOK
    <2>3. IsFiniteSet({}) /\ Cardinality({}) = 0
      BY FS_EmptySet
    <2>4. free'[r] >= 0 /\ free'[r] + Cardinality({}) = cap'[r]
      BY <2>1, <2>2, <2>3
    <2>5. Permitted(r)'
      BY <1>b, <2>1, <2>2, <2>3, <2>4 DEF Permitted, Up
    <2>6. ASSUME NEW q \in Runner \ {r} PROVE Permitted(q)'
      BY <1>b, <2>1 DEF PermitInv, Permitted, Up
    <2> QED  BY <2>5, <2>6 DEF PermitInv
  <1>4. CASE Drained(r)
    <2>1. /\ att' = att /\ UNCHANGED <<cap, free>> /\ loop[r] = "stopping" /\ loop'[r] = "drained"
          /\ free[r] >= cap[r] /\ \A q \in Runner \ {r} : loop'[q] = loop[q]
      BY <1>4, <1>a DEF Drained
    <2>2. IsFiniteSet(Busy(r)) /\ free[r] + Cardinality(Busy(r)) = cap[r]
      BY <2>1 DEF PermitInv, Permitted, Up
    <2>3. Cardinality(Busy(r)) \in Nat
      BY <2>2, FS_CardinalityType
    <2>4. Cardinality(Busy(r)) = 0
      BY <1>a, <2>1, <2>2, <2>3
    <2>5. Busy(r) = {}
      BY <2>2, <2>4, FS_EmptySet
    <2>6. Permitted(r)'
      BY <1>b, <2>1, <2>5 DEF PermitInv, Permitted, Up
    <2>7. ASSUME NEW q \in Runner \ {r} PROVE Permitted(q)'
      BY <1>b, <2>1 DEF PermitInv, Permitted, Up
    <2> QED  BY <2>6, <2>7 DEF PermitInv
  <1>5. CASE Exit(r)
    <2>1. /\ loop'[r] = "gone" /\ att'[r] = [s \in Slot |-> FreeSlot]
          /\ \A q \in Runner \ {r} : free'[q] = free[q] /\ cap'[q] = cap[q] /\ loop'[q] = loop[q] /\ att'[q] = att[q]
      BY <1>0, <1>5, <1>a DEF Exit, AttemptsOK
    <2>2. Busy(r)' = {} /\ \A q \in Runner \ {r} : Busy(q)' = Busy(q)
      BY <2>1, FreeSlotType DEF Busy
    <2>3. IsFiniteSet({})
      BY FS_EmptySet
    <2>4. Permitted(r)'
      BY <2>1, <2>2, <2>3 DEF Permitted, Up
    <2>5. ASSUME NEW q \in Runner \ {r} PROVE Permitted(q)'
      BY <2>1, <2>2 DEF PermitInv, Permitted, Up
    <2> QED  BY <2>4, <2>5 DEF PermitInv
  <1> QED  BY <1>1, <1>2, <1>3, <1>4, <1>5, PermitClaim DEF LoopStep

\* What a step of an attempt does to its slot, to its permit and to what its
\* handler is owed: it ends, it goes on, or it has just retired its row.
LEMMA AttemptEffect ==
    ASSUME TypeOK, NEW r \in Runner, NEW s \in Slot, AttemptStep(r, s)
    PROVE  /\ att[r][s].pc # "free" /\ att[r][s].job \in Job /\ UNCHANGED <<cap, loop>>
           /\ \/ /\ att' = [att EXCEPT ![r][s] = FreeSlot]
                 /\ free' = [free EXCEPT ![r] = @ + 1]
                 /\ debt' = IF att[r][s].pc = "abandon" THEN [debt EXCEPT ![att[r][s].job] = @ - 1] ELSE debt
              \/ /\ att[r][s].pc # "abandon" /\ free' = free
                 /\ \E a \in Attempt : /\ att' = [att EXCEPT ![r][s] = a]
                                       /\ a.pc # "free" /\ a.job = att[r][s].job
                                       /\ debt' = IF a.pc = "abandon" THEN [debt EXCEPT ![a.job] = @ + 1] ELSE debt
  <1> DEFINE a == att[r][s]
  <1>0. RowsOK /\ AttemptsOK
    BY DEF TypeOK
  <1>1. a.pc # "free" /\ UNCHANGED <<cap, loop>>
    BY DEF AttemptStep, Extend, ExtendMisses, Start, Answer, Settle, SettleMisses, Abandon, pool
  <1>2. a \in Attempt /\ a.job \in Job /\ rows[a.job] \in Row
    BY <1>0, <1>1, SlotMoves DEF RowsOK
  <1> USE DEF store, pool
  <1>3. CASE ExtendMisses(r, s) \/ SettleMisses(r, s) \/ Abandon(r, s)
    BY <1>1, <1>2, <1>3 DEF ExtendMisses, SettleMisses, Abandon
  <1>4. CASE Extend(r, s)
    <2> DEFINE span == Budget[rows[a.job].key] + Slack
               b == [a EXCEPT !.pc = "start", !.left = span]
    <2>1. span \in Nat
      BY <1>2, ConstantsAssumption DEF Row
    <2>2. b \in Attempt /\ b.pc = "start" /\ b.job = a.job
      BY <1>2, <2>1 DEF Attempt
    <2>3. att' = [att EXCEPT ![r][s] = b] /\ a.pc = "claimed" /\ UNCHANGED <<debt, free>>
      BY <1>4 DEF Extend
    <2> HIDE DEF b
    <2> QED  BY <1>1, <1>2, <2>2, <2>3
  <1>5. CASE Start(r, s)
    <2> DEFINE b == IF Passed(rows[a.job]) THEN [a EXCEPT !.pc = "settle", !.outcome = "Failed"]
                    ELSE [a EXCEPT !.pc = "run"]
    <2>1. b \in Attempt /\ b.pc \in {"settle", "run"} /\ b.job = a.job
      BY <1>2 DEF Attempt, Outcome
    <2>2. att' = [att EXCEPT ![r][s] = b] /\ a.pc = "start" /\ UNCHANGED <<debt, free>>
      BY <1>5 DEF Start
    <2> HIDE DEF b
    <2> QED  BY <1>1, <1>2, <2>1, <2>2
  <1>6. ASSUME NEW o \in Outcome, Answer(r, s, o)
        PROVE  /\ a.pc # "abandon" /\ free' = free
               /\ \E b \in Attempt : /\ att' = [att EXCEPT ![r][s] = b]
                                     /\ b.pc # "free" /\ b.job = a.job
                                     /\ debt' = IF b.pc = "abandon" THEN [debt EXCEPT ![b.job] = @ + 1] ELSE debt
    <2> DEFINE b == [a EXCEPT !.pc = "settle", !.outcome = o]
    <2>1. b \in Attempt /\ b.pc = "settle" /\ b.job = a.job
      BY <1>2 DEF Attempt
    <2>2. att' = [att EXCEPT ![r][s] = b] /\ a.pc = "run" /\ UNCHANGED <<debt, free>>
      BY <1>6 DEF Answer
    <2> HIDE DEF b
    <2> QED  BY <2>1, <2>2
  <1>7. CASE Settle(r, s)
    <2> DEFINE b == [a EXCEPT !.pc = "abandon", !.left = 0]
    <2>1. b \in Attempt /\ b.pc = "abandon" /\ b.job = a.job
      BY <1>2 DEF Attempt
    <2>2. /\ a.pc = "settle"
          /\ \/ att' = [att EXCEPT ![r][s] = b] /\ debt' = [debt EXCEPT ![a.job] = @ + 1] /\ free' = free
             \/ /\ att' = [att EXCEPT ![r][s] = FreeSlot] /\ free' = [free EXCEPT ![r] = @ + 1]
                /\ debt' = debt
      BY <1>7 DEF Settle
    <2> HIDE DEF b
    <2> QED  BY <1>1, <1>2, <2>1, <2>2
  <1> QED  BY <1>1, <1>2, <1>3, <1>4, <1>5, <1>6, <1>7 DEF AttemptStep

LEMMA PermitStep == TypeOK /\ PermitInv /\ [Next]_vars => PermitInv'
  <1> SUFFICES ASSUME TypeOK, PermitInv, [Next]_vars PROVE PermitInv'
    OBVIOUS
  <1>0. AttemptsOK
    BY DEF TypeOK
  <1>1. ASSUME NEW r \in Runner, NEW s \in Slot, AttemptStep(r, s) PROVE PermitInv'
    <2>1. CASE att' = [att EXCEPT ![r][s] = FreeSlot] /\ free' = [free EXCEPT ![r] = @ + 1]
      BY <1>1, <2>1, AttemptEffect, PermitReturned
    <2>2. ASSUME NEW a \in Attempt, att' = [att EXCEPT ![r][s] = a], a.pc # "free", a.job = att[r][s].job, free' = free
          PROVE  PermitInv'
      <3>0. att[r][s].pc # "free" /\ att[r][s].job \in Job /\ UNCHANGED <<cap, loop>>
        BY <1>1, AttemptEffect
      <3>1. a.job # NoJob
        BY <2>2, <3>0, ConstantsAssumption
      <3>2. \A q \in Runner : Busy(q)' = Busy(q)
        BY <1>0, <2>2, <3>0, <3>1, SameBusy
      <3> QED  BY <2>2, <3>0, <3>2, SamePermits DEF Up
    <2> QED  BY <1>1, <2>1, <2>2, AttemptEffect
  <1>2. CASE Tick
    <2>1. \A q \in Runner, t \in Slot : att'[q][t].pc = att[q][t].pc
      <3> SUFFICES ASSUME NEW q \in Runner, NEW t \in Slot PROVE att'[q][t].pc = att[q][t].pc
        OBVIOUS
      <3>1. att'[q][t] = [att[q][t] EXCEPT !.left = Nearer(@, 0)] /\ att[q][t] \in Attempt
        BY <1>0, <1>2 DEF Tick, AttemptsOK
      <3> QED  BY <3>1 DEF Attempt
    <2>2. \A q \in Runner : Busy(q)' = Busy(q)
      BY <2>1 DEF Busy
    <2> QED  BY <1>2, <2>2, SamePermits DEF Tick, pool, Up
  <1>3. CASE UNCHANGED <<att, cap, free, loop>>
    BY <1>3, SamePermits DEF Busy, Up
  <1>4. OperatorStep \/ UNCHANGED vars => UNCHANGED <<att, cap, free, loop>>
    BY DEF OperatorStep, Enqueue, Reload, Cancel, Advance, Revive, Cleanup, vars, pool
  <1> QED  BY <1>1, <1>2, <1>3, <1>4, PermitLoop DEF Next

LEMMA PermitInit == Init => PermitInv
  <1> SUFFICES ASSUME Init, NEW r \in Runner PROVE Permitted(r)
    BY DEF PermitInv
  <1>1. Busy(r) = {} /\ loop[r] = "off"
    BY FreeSlotType DEF Init, Busy
  <1>2. IsFiniteSet({})
    BY FS_EmptySet
  <1> QED  BY <1>1, <1>2 DEF Permitted, Up

\* The accounting of permits holds in every state.
THEOREM PermitSafety == Spec => []PermitInv
  BY PermitInit, PermitStep, TypeInit, TypeStep, PTL DEF Spec

\* Permits::resize, claims, settlements and misses of a runner that is up never lose
\* or invent a permit, whatever values max_concurrent takes over its reloads.
THEOREM PermitsAreConserved == Spec => []PermitConservation
  <1>1. PermitInv => PermitConservation
    BY DEF PermitInv, Permitted, PermitConservation
  <1> QED  BY <1>1, PermitSafety, PTL

\* stop waits for the capacity issued, not for the one configured: a runner that
\* reports itself drained runs nothing, even when a shrink has not converged.
THEOREM DrainedMeansIdle == Spec => []DrainedIsIdle
  <1>1. PermitInv => DrainedIsIdle
    BY DEF PermitInv, Permitted, DrainedIsIdle
  <1> QED  BY <1>1, PermitSafety, PTL

-----------------------------------------------------------------------------
(* Retirements and the handlers they are told to.                           *)

TellInv == \A j \in Job : IsFiniteSet(Telling(j)) /\ debt[j] >= Cardinality(Telling(j))

\* Fewer calls under way, and as much owed.
LEMMA FewerTold ==
    ASSUME RowsOK, TellInv, \A j \in Job : Telling(j)' \subseteq Telling(j), debt' = debt
    PROVE  TellInv'
  <1> SUFFICES ASSUME NEW j \in Job
               PROVE  IsFiniteSet(Telling(j)') /\ debt[j] >= Cardinality(Telling(j)')
    BY DEF TellInv
  <1>1. IsFiniteSet(Telling(j)) /\ debt[j] >= Cardinality(Telling(j)) /\ debt[j] \in Int
    BY DEF TellInv, RowsOK
  <1>2. IsFiniteSet(Telling(j)') /\ Cardinality(Telling(j)') <= Cardinality(Telling(j))
    BY <1>1, FS_Subset
  <1>3. Cardinality(Telling(j)) \in Nat /\ Cardinality(Telling(j)') \in Nat
    BY <1>1, <1>2, FS_CardinalityType
  <1> QED  BY <1>1, <1>2, <1>3

\* A row is minted only once no attempt names it, so nothing is owed about it.
LEMMA MintedUntold ==
    ASSUME RowsOK, TellInv, NEW j \in Job, Fresh(j), att' = att, debt' = [debt EXCEPT ![j] = 0]
    PROVE  TellInv'
  <1>1. Telling(j)' = {} /\ \A i \in Job : Telling(i)' = Telling(i)
    BY DEF Fresh, Telling
  <1>2. IsFiniteSet({}) /\ Cardinality({}) = 0
    BY FS_EmptySet
  <1>3. debt'[j] = 0 /\ \A i \in Job \ {j} : debt'[i] = debt[i]
    BY DEF RowsOK
  <1>4. ASSUME NEW i \in Job PROVE IsFiniteSet(Telling(i)') /\ debt'[i] >= Cardinality(Telling(i)')
    <2>1. CASE i = j
      BY <1>1, <1>2, <1>3, <2>1
    <2>2. CASE i # j
      BY <1>1, <1>3, <2>2 DEF TellInv
    <2> QED  BY <2>1, <2>2
  <1> QED  BY <1>4 DEF TellInv

\* A retirement owes one call more, and the call of abandon pays it.
LEMMA TellAttempt ==
    ASSUME TypeOK, TellInv, NEW r \in Runner, NEW s \in Slot, AttemptStep(r, s)
    PROVE  TellInv'
  <1> DEFINE x == <<r, s>>
  <1>i. PICK i \in Job : i = att[r][s].job
    BY AttemptEffect
  <1>0. RowsOK /\ AttemptsOK /\ i # NoJob
    BY ConstantsAssumption DEF TypeOK
  <1>a. debt[i] \in Int /\ IsFiniteSet(Telling(i)) /\ debt[i] >= Cardinality(Telling(i))
    BY <1>0 DEF RowsOK, TellInv
  <1>b. Cardinality(Telling(i)) \in Nat
    BY <1>a, FS_CardinalityType
  <1>1. ASSUME att' = [att EXCEPT ![r][s] = FreeSlot],
               debt' = IF att[r][s].pc = "abandon" THEN [debt EXCEPT ![i] = @ - 1] ELSE debt
        PROVE  TellInv'
    <2>1. \A q \in Runner, t \in Slot : att'[q][t] = IF q = r /\ t = s THEN FreeSlot ELSE att[q][t]
      BY <1>0, <1>1 DEF AttemptsOK
    <2>2. ASSUME NEW j \in Job PROVE Telling(j)' = Telling(j) \ {x}
      <3>1. ASSUME NEW y \in Runner \X Slot PROVE y \in Telling(j)' <=> y \in Telling(j) /\ y # x
        <4>1. y[1] \in Runner /\ y[2] \in Slot /\ (y = x <=> y[1] = r /\ y[2] = s)
          OBVIOUS
        <4> QED  BY <2>1, <4>1, FreeSlotType DEF Telling
      <3> QED  BY <3>1 DEF Telling
    <2>3. CASE att[r][s].pc # "abandon"
      <3>1. \A j \in Job : Telling(j)' \subseteq Telling(j)
        BY <2>2
      <3> QED  BY <1>0, <1>1, <2>3, <3>1, FewerTold
    <2>4. CASE att[r][s].pc = "abandon"
      <3>1. x \in Telling(i) /\ \A j \in Job \ {i} : x \notin Telling(j)
        BY <1>i, <2>4 DEF Telling
      <3>2. IsFiniteSet(Telling(i) \ {x}) /\ Cardinality(Telling(i) \ {x}) = Cardinality(Telling(i)) - 1
        BY <1>a, <3>1, FS_RemoveElement
      <3>3. debt'[i] = debt[i] - 1 /\ \A j \in Job \ {i} : debt'[j] = debt[j] /\ Telling(j)' = Telling(j)
        <4>1. debt' = [debt EXCEPT ![i] = @ - 1]
          BY <1>1, <2>4
        <4>2. debt'[i] = debt[i] - 1 /\ \A j \in Job \ {i} : debt'[j] = debt[j]
          BY <1>0, <4>1 DEF RowsOK
        <4>3. \A j \in Job \ {i} : Telling(j)' = Telling(j)
          BY <2>2, <3>1
        <4> QED  BY <4>2, <4>3
      <3>4. debt'[i] >= Cardinality(Telling(i)')
        <4>1. Telling(i)' = Telling(i) \ {x}
          BY <2>2
        <4> QED  BY <1>a, <1>b, <3>2, <3>3, <4>1
      <3>5. ASSUME NEW j \in Job PROVE IsFiniteSet(Telling(j)') /\ debt'[j] >= Cardinality(Telling(j)')
        <4>1. CASE j = i
          BY <2>2, <3>2, <3>4, <4>1
        <4>2. CASE j # i
          BY <3>3, <4>2 DEF TellInv
        <4> QED  BY <4>1, <4>2
      <3> QED  BY <3>5 DEF TellInv
    <2> QED  BY <2>3, <2>4
  <1>2. ASSUME NEW a \in Attempt, att' = [att EXCEPT ![r][s] = a], a.pc # "free", a.job = i,
               att[r][s].pc # "abandon", debt' = IF a.pc = "abandon" THEN [debt EXCEPT ![i] = @ + 1] ELSE debt
        PROVE  TellInv'
    <2>1. \A q \in Runner, t \in Slot : att'[q][t] = IF q = r /\ t = s THEN a ELSE att[q][t]
      BY <1>0, <1>2, PutSlot
    <2>2. CASE a.pc # "abandon"
      <3>1. \A j \in Job : Telling(j)' \subseteq Telling(j)
        BY <2>1, <2>2 DEF Telling
      <3> QED  BY <1>0, <1>2, <2>2, <3>1, FewerTold
    <2>3. CASE a.pc = "abandon"
      <3>1. x \notin Telling(i) /\ Telling(i)' = Telling(i) \cup {x}
            /\ \A j \in Job \ {i} : Telling(j)' = Telling(j)
        BY <1>2, <2>1, <2>3 DEF Telling
      <3>2. IsFiniteSet(Telling(i) \cup {x}) /\ Cardinality(Telling(i) \cup {x}) = Cardinality(Telling(i)) + 1
        BY <1>a, <3>1, FS_AddElement
      <3>3. debt'[i] = debt[i] + 1 /\ \A j \in Job \ {i} : debt'[j] = debt[j]
        BY <1>0, <1>2, <2>3 DEF RowsOK
      <3>4. debt'[i] >= Cardinality(Telling(i)')
        BY <1>a, <1>b, <3>1, <3>2, <3>3
      <3>5. ASSUME NEW j \in Job PROVE IsFiniteSet(Telling(j)') /\ debt'[j] >= Cardinality(Telling(j)')
        <4>1. CASE j = i
          BY <3>1, <3>2, <3>4, <4>1
        <4>2. CASE j # i
          BY <3>1, <3>3, <4>2 DEF TellInv
        <4> QED  BY <4>1, <4>2
      <3> QED  BY <3>5 DEF TellInv
    <2> QED  BY <2>2, <2>3
  <1> QED  BY <1>i, <1>1, <1>2, AttemptEffect

LEMMA TellStep == TypeOK /\ TellInv /\ [Next]_vars => TellInv'
  <1> SUFFICES ASSUME TypeOK, TellInv, [Next]_vars PROVE TellInv'
    OBVIOUS
  <1>0. RowsOK /\ AttemptsOK
    BY DEF TypeOK
  <1> USE DEF store
  <1>1. ASSUME att' = att, debt' = debt PROVE TellInv'
    BY <1>0, <1>1, FewerTold DEF Telling
  <1>2. ASSUME NEW r \in Runner, LoopStep(r) \/ Exit(r) PROVE TellInv'
    <2>1. ASSUME NEW k \in Key, Recover(r, k) PROVE TellInv'
      BY <1>0, <1>1, <2>1, MintedUntold DEF Recover
    <2>2. ASSUME NEW s \in Slot, NEW j \in Job, Claim(r, s, j) PROVE TellInv'
      <3> DEFINE a == [pc |-> IF Stretches(rows[j].key) THEN "claimed" ELSE "start",
                       job |-> j, n |-> Incremented(rows[j]), outcome |-> "Done",
                       left |-> IF Stretches(rows[j].key) THEN Slack ELSE Budget[rows[j].key] + Slack]
      <3>1. \A q \in Runner, t \in Slot : att'[q][t] = IF q = r /\ t = s THEN a ELSE att[q][t]
        BY <1>0, <2>2 DEF Claim, AttemptsOK
      <3>2. a.pc # "abandon"
        OBVIOUS
      <3> HIDE DEF a
      <3>3. \A i \in Job : Telling(i)' \subseteq Telling(i)
        BY <3>1, <3>2 DEF Telling
      <3> QED  BY <1>0, <2>2, <3>3, FewerTold DEF Claim
    <2>3. CASE Exit(r)
      <3>1. /\ att'[r] = [s \in Slot |-> FreeSlot] /\ debt' = debt
            /\ \A q \in Runner \ {r} : att'[q] = att[q]
        BY <1>0, <2>3 DEF Exit, AttemptsOK
      <3>2. \A i \in Job : Telling(i)' \subseteq Telling(i)
        BY <3>1, FreeSlotType DEF Telling
      <3> QED  BY <1>0, <3>1, <3>2, FewerTold
    <2>4. CASE StartRunner(r) \/ Wake(r) \/ Reclaim(r) \/ DrainEnds(r) \/ Shutdown(r) \/ Drained(r)
               \/ DrainTimesOut(r) \/ ReleaseOwned(r)
      BY <1>1, <2>4 DEF StartRunner, Wake, Reclaim, DrainEnds, Shutdown, Drained, DrainTimesOut, ReleaseOwned
    <2> QED  BY <1>2, <2>1, <2>2, <2>3, <2>4 DEF LoopStep
  <1>3. ASSUME NEW j \in Job, NEW k \in Key, NEW delay \in Delays, NEW d \in Deadlines, NEW max \in MaxAttempts,
               Enqueue(j, k, delay, d, max)
        PROVE  TellInv'
    BY <1>0, <1>3, MintedUntold DEF Enqueue
  <1>4. CASE Tick
    <2>1. \A q \in Runner, t \in Slot : att'[q][t].pc = att[q][t].pc /\ att'[q][t].job = att[q][t].job
      <3> SUFFICES ASSUME NEW q \in Runner, NEW t \in Slot
                   PROVE  att'[q][t].pc = att[q][t].pc /\ att'[q][t].job = att[q][t].job
        OBVIOUS
      <3>1. att'[q][t] = [att[q][t] EXCEPT !.left = Nearer(@, 0)] /\ att[q][t] \in Attempt
        BY <1>0, <1>4 DEF Tick, AttemptsOK
      <3> QED  BY <3>1 DEF Attempt
    <2>2. \A i \in Job : Telling(i)' \subseteq Telling(i)
      BY <2>1 DEF Telling
    <2> QED  BY <1>0, <1>4, <2>2, FewerTold DEF Tick
  <1>5. ASSUME UNCHANGED vars \/ (\E reg \in Registries, t \in Targets : Reload(reg, t))
               \/ (\E j \in Job : Cancel(j) \/ Advance(j) \/ Revive(j) \/ Cleanup(j))
        PROVE  TellInv'
    BY <1>1, <1>5 DEF vars, Reload, Cancel, Advance, Revive, Cleanup
  <1> QED  BY <1>2, <1>3, <1>4, <1>5, TellAttempt DEF Next, OperatorStep

\* A handler is told of a retirement at most once for each time its row was retired,
\* whoever else settles, cancels, revives or deletes the row meanwhile.
THEOREM TellingFollowsRetirement == Spec => []ToldOnlyIfRetired
  <1>1. Init => TellInv
    <2> SUFFICES ASSUME Init, NEW j \in Job PROVE IsFiniteSet(Telling(j)) /\ debt[j] >= Cardinality(Telling(j))
      BY DEF TellInv
    <2>1. Telling(j) = {} /\ debt[j] = 0
      BY FreeSlotType DEF Init, Telling
    <2>2. IsFiniteSet({}) /\ Cardinality({}) = 0
      BY FS_EmptySet
    <2> QED  BY <2>1, <2>2
  <1>2. TellInv => ToldOnlyIfRetired
    BY DEF TellInv, ToldOnlyIfRetired
  <1> QED  BY <1>1, <1>2, TellStep, TypeInit, TypeStep, PTL DEF Spec

-----------------------------------------------------------------------------
(* Settlements and the contract.                                            *)

\* The rows a step may write are of the contract: what it sees of a row that is
\* claimed, given back, advanced or only aged is the same.
Unseen(j) ==
    /\ rows'[j].key = rows[j].key
    /\ Live(j)' <=> Live(j)
    /\ ~Live(j) => rows'[j].status = rows[j].status

\* One row is written, and no other.
Written(j, x) == rows' = [rows EXCEPT ![j] = x] /\ x \in Row

\* What each step does to the table.  Only the first alternative is hidden from
\* the contract; only the second settles a row, for an attempt that holds it.
Submits == \E j \in Job, k \in Key, x \in Row :
    /\ rows[j].status = "none" /\ IdentityFree(k)
    /\ Written(j, x) /\ x.key = k /\ x.status = "ready"
Settles == \E r \in Runner, s \in Slot, x \in Row :
    LET j == att[r][s].job IN
    /\ att[r][s].pc = "settle" /\ j \in Job /\ Holds(r, j)
    /\ Written(j, x) /\ x.key = rows[j].key /\ x.status \in {"done", "failed"}
Operates == \E j \in Job, x \in Row :
    /\ Written(j, x) /\ x.key = rows[j].key
    /\ \/ rows[j].status \in {"ready", "failed"} /\ x.status = "cancelled"
       \/ rows[j].status = "failed" /\ IdentityFree(rows[j].key) /\ x.status = "ready"
       \/ Terminal(j) /\ x.status = "none"
TableStep == (\A j \in Job : Unseen(j)) \/ Submits \/ Settles \/ Operates

\* A write that the contract does not see.
LEMMA UnseenWrite ==
    ASSUME RowsOK, NEW j \in Job, NEW x \in Row, rows' = [rows EXCEPT ![j] = x], x.key = rows[j].key,
           Live(j), x.status \in {"ready", "running"}
    PROVE  \A i \in Job : Unseen(i)
  <1>1. \A i \in Job : rows'[i] = IF i = j THEN x ELSE rows[i]
    BY PutRow
  <1> QED  BY <1>1 DEF Unseen, Live

\* Neither is a step that gives rows back.
LEMMA UnseenGiveBack ==
    ASSUME RowsOK, NEW G \in SUBSET Job, \A j \in G : Live(j),
           rows' = [j \in Job |-> IF j \in G THEN [rows[j] EXCEPT !.status = "ready", !.owner = NoRunner, !.lease = 0]
                                  ELSE rows[j]]
    PROVE  \A i \in Job : Unseen(i)
  <1> SUFFICES ASSUME NEW i \in Job PROVE Unseen(i)
    OBVIOUS
  <1>1. rows[i] \in Row
    BY DEF RowsOK
  <1>2. CASE i \in G
    BY <1>1, <1>2 DEF Unseen, Live, Row
  <1>3. CASE i \notin G
    BY <1>3 DEF Unseen, Live
  <1> QED  BY <1>2, <1>3

LEMMA TableSettle ==
    ASSUME TypeOK, NEW r \in Runner, NEW s \in Slot, Settle(r, s)
    PROVE  TableStep
  <1> DEFINE a == att[r][s]
  <1>0. RowsOK /\ AttemptsOK
    BY DEF TypeOK
  <1>1. a.pc = "settle" /\ Holds(r, a.job)
    BY DEF Settle
  <1>2. a \in Attempt /\ a.job \in Job /\ rows[a.job] \in Row
    BY <1>0, <1>1, SlotMoves DEF RowsOK
  <1>3. PICK d \in Backoff(a.n) : rows' = [rows EXCEPT ![a.job] = Settled(a, rows[a.job], d)]
    BY DEF Settle
  <1> DEFINE x == Settled(a, rows[a.job], d)
             released == [rows[a.job] EXCEPT !.owner = NoRunner, !.lease = 0]
  <1>4. x \in Row
    BY <1>2, SettledType
  <1>5. \/ x = [released EXCEPT !.status = "done"]
        \/ x = [released EXCEPT !.status = "ready", !.run_at = Period, !.attempts = 0]
        \/ x = [released EXCEPT !.status = "failed"]
        \/ x = [released EXCEPT !.status = "ready", !.run_at = d]
    BY DEF Settled
  <1>6. x.key = rows[a.job].key /\ x.status \in {"done", "failed", "ready"}
    BY <1>2, <1>5 DEF Row
  <1> HIDE DEF x
  <1>7. rows' = [rows EXCEPT ![a.job] = x]
    BY <1>3 DEF x
  <1>8. CASE x.status = "ready"
    BY <1>0, <1>1, <1>2, <1>4, <1>6, <1>7, <1>8, UnseenWrite DEF Holds, Live, TableStep
  <1>9. CASE x.status \in {"done", "failed"}
    BY <1>1, <1>2, <1>4, <1>6, <1>7, <1>9 DEF Written, Settles, TableStep
  <1> QED  BY <1>6, <1>8, <1>9

\* Every step is one of the four.
LEMMA Tables == TypeOK /\ [Next]_vars => TableStep
  <1> SUFFICES ASSUME TypeOK, [Next]_vars PROVE TableStep
    OBVIOUS
  <1>0. RowsOK /\ AttemptsOK
    BY DEF TypeOK
  <1> USE DEF store
  <1>1. ASSUME rows' = rows PROVE TableStep
    BY <1>1 DEF TableStep, Unseen, Live
  <1>2. ASSUME NEW r \in Runner, LoopStep(r) \/ Exit(r) PROVE TableStep
    <2>1. CASE StartRunner(r) \/ Wake(r) \/ Shutdown(r) \/ Drained(r) \/ DrainTimesOut(r) \/ DrainEnds(r) \/ Exit(r)
      BY <1>1, <2>1 DEF StartRunner, Wake, Shutdown, Drained, DrainTimesOut, DrainEnds, Exit
    <2>2. CASE Reclaim(r)
      <3> DEFINE G == {j \in Job : rows[j].status = "running" /\ rows[j].lease <= 0}
      <3>1. G \in SUBSET Job /\ \A j \in G : Live(j)
        BY DEF Live
      <3>2. Reclaimed = [j \in Job |-> IF j \in G
                           THEN [rows[j] EXCEPT !.status = "ready", !.owner = NoRunner, !.lease = 0] ELSE rows[j]]
        BY DEF Reclaimed
      <3> HIDE DEF G
      <3> QED  BY <1>0, <1>1, <2>2, <3>1, <3>2, UnseenGiveBack DEF Reclaim, TableStep
    <2>3. CASE ReleaseOwned(r)
      <3> DEFINE G == {j \in Job : Holds(r, j)}
      <3>1. G \in SUBSET Job /\ \A j \in G : Live(j)
        BY DEF Live, Holds
      <3>2. Released(r) = [j \in Job |-> IF j \in G
                             THEN [rows[j] EXCEPT !.status = "ready", !.owner = NoRunner, !.lease = 0] ELSE rows[j]]
        BY DEF Released
      <3> HIDE DEF G
      <3> QED  BY <1>0, <1>1, <2>3, <3>1, <3>2, UnseenGiveBack DEF ReleaseOwned, TableStep
    <2>4. ASSUME NEW k \in Key, Recover(r, k) PROVE TableStep
      <3>1. ASSUME NEW j \in Job, NEW max \in MaxAttempts, IdentityFree(k), Fresh(j),
                   rows' = [rows EXCEPT ![j] = NewRow(k, 0, NoDeadline, max)]
            PROVE  TableStep
        <4> DEFINE x == NewRow(k, 0, NoDeadline, max)
        <4>1. x \in Row /\ x.key = k /\ x.status = "ready"
          BY NewRowType, ConstantsAssumption DEF NewRow
        <4> HIDE DEF x
        <4> QED  BY <3>1, <4>1 DEF x, Fresh, Written, Submits, TableStep
      <3> QED  BY <1>1, <2>4, <3>1 DEF Recover
    <2>5. ASSUME NEW s \in Slot, NEW j \in Job, Claim(r, s, j) PROVE TableStep
      <3>1. ClaimedRow(r, j) \in Row /\ rows[j] \in Row
        BY <1>0, ClaimedRowType DEF RowsOK
      <3>2. ClaimedRow(r, j).key = rows[j].key /\ ClaimedRow(r, j).status = "running"
        BY <3>1 DEF ClaimedRow, Row
      <3>3. rows' = [rows EXCEPT ![j] = ClaimedRow(r, j)] /\ Live(j)
        BY <2>5 DEF Claim, ClaimedRow, Eligible, Live
      <3> QED  BY <1>0, <3>1, <3>2, <3>3, UnseenWrite DEF TableStep
    <2> QED  BY <1>2, <2>1, <2>2, <2>3, <2>4, <2>5 DEF LoopStep
  <1>3. ASSUME NEW r \in Runner, NEW s \in Slot, AttemptStep(r, s) PROVE TableStep
    <2>1. CASE ExtendMisses(r, s) \/ SettleMisses(r, s) \/ Abandon(r, s) \/ Start(r, s)
               \/ \E o \in Outcome : Answer(r, s, o)
      BY <1>1, <2>1 DEF ExtendMisses, SettleMisses, Abandon, Start, Answer
    <2>2. CASE Extend(r, s)
      <3> DEFINE j == att[r][s].job
                 span == Budget[rows[j].key] + Slack
                 x == [rows[j] EXCEPT !.lease = span]
      <3>1. j \in Job /\ rows[j] \in Row /\ rows[j].status = "running"
        BY <1>0, <2>2, SlotMoves DEF Extend, Holds, RowsOK
      <3>2. span \in Nat
        BY <3>1, ConstantsAssumption DEF Row
      <3>3. x \in Row /\ x.key = rows[j].key /\ x.status = "running"
        BY <3>1, <3>2 DEF Row
      <3>4. rows' = [rows EXCEPT ![j] = x] /\ Live(j)
        BY <2>2, <3>1 DEF Extend, Live
      <3> HIDE DEF x, j
      <3> QED  BY <1>0, <3>1, <3>3, <3>4, UnseenWrite DEF TableStep
    <2> QED  BY <1>3, <2>1, <2>2, TableSettle DEF AttemptStep
  <1>4. ASSUME NEW j \in Job, NEW k \in Key, NEW delay \in Delays, NEW d \in Deadlines, NEW max \in MaxAttempts,
               Enqueue(j, k, delay, d, max)
        PROVE  TableStep
    <2> DEFINE x == NewRow(k, delay, d, max)
    <2>1. x \in Row /\ x.key = k /\ x.status = "ready"
      BY NewRowType, ConstantsAssumption DEF NewRow
    <2> HIDE DEF x
    <2> QED  BY <1>4, <2>1 DEF x, Enqueue, Fresh, Written, Submits, TableStep
  <1>5. ASSUME NEW j \in Job, Cancel(j) \/ Advance(j) \/ Revive(j) \/ Cleanup(j)
        PROVE  TableStep
    <2>0. rows[j] \in Row
      BY <1>0 DEF RowsOK
    <2>1. CASE Cancel(j)
      <3> DEFINE x == [rows[j] EXCEPT !.status = "cancelled"]
      <3>1. x \in Row /\ x.key = rows[j].key /\ x.status = "cancelled"
        BY <2>0 DEF Row, Status
      <3> HIDE DEF x
      <3> QED  BY <2>1, <3>1 DEF x, Cancel, Written, Operates, TableStep
    <2>2. CASE Advance(j)
      <3> DEFINE x == [rows[j] EXCEPT !.run_at = 0]
      <3>1. x \in Row /\ x.key = rows[j].key /\ x.status = "ready"
        BY <2>0, <2>2 DEF Row, Advance
      <3>2. rows' = [rows EXCEPT ![j] = x] /\ Live(j)
        BY <2>2 DEF Advance, Live
      <3> HIDE DEF x
      <3> QED  BY <1>0, <3>1, <3>2, UnseenWrite DEF TableStep
    <2>3. CASE Revive(j)
      <3> DEFINE n == Greater(rows[j].max - 1, 0)
                 x == [rows[j] EXCEPT !.status = "ready", !.run_at = 0, !.attempts = n]
      <3>1. n \in Nat
        BY <2>0 DEF Row, Greater
      <3>2. x \in Row /\ x.key = rows[j].key /\ x.status = "ready"
        BY <2>0, <3>1 DEF Row, Status
      <3>3. rows' = [rows EXCEPT ![j] = x]
        BY <2>3 DEF Revive
      <3> HIDE DEF x
      <3> QED  BY <2>3, <3>2, <3>3 DEF Revive, Written, Operates, TableStep
    <2>4. CASE Cleanup(j)
      <3> DEFINE x == [rows[j] EXCEPT !.status = "none", !.run_at = 0, !.attempts = 0]
      <3>1. x \in Row /\ x.key = rows[j].key /\ x.status = "none"
        BY <2>0 DEF Row, Status
      <3> HIDE DEF x
      <3> QED  BY <2>4, <3>1 DEF x, Cleanup, Written, Operates, TableStep
    <2> QED  BY <1>5, <2>1, <2>2, <2>3, <2>4
  <1>6. CASE Tick
    <2> SUFFICES ASSUME NEW j \in Job PROVE Unseen(j)
      BY DEF TableStep
    <2>1. rows'[j] = [rows[j] EXCEPT !.run_at = Nearer(@, 0),
                                     !.deadline = IF @ = NoDeadline THEN @ ELSE Nearer(@, -1),
                                     !.lease = Nearer(@, 0)] /\ rows[j] \in Row
      BY <1>0, <1>6 DEF Tick, RowsOK
    <2>2. rows'[j].key = rows[j].key /\ rows'[j].status = rows[j].status
      BY <2>1 DEF Row
    <2> QED  BY <2>2 DEF Unseen, Live
  <1>7. CASE UNCHANGED vars \/ \E reg \in Registries, t \in Targets : Reload(reg, t)
    BY <1>1, <1>7 DEF vars, Reload
  <1> QED  BY <1>2, <1>3, <1>4, <1>5, <1>6, <1>7 DEF Next, OperatorStep

\* The queue, its runners, leases, crashes and retries implement JobContract: what a
\* caller sees of a job is queued until it is settled, at most one live job has an
\* identity, only a failed one comes back, and only one that has settled is forgotten.
THEOREM QueueKeepsContract == Spec => ImplementsContract
  <1>1. Init => Contract!Init
    BY ConstantsAssumption DEF Init, NoRow, Live, Contract!Init
  <1>2. ASSUME TypeOK, TableStep PROVE [Contract!Next]_(Contract!cvars)
    <2>0. \A i \in Job, x \in Row : Written(i, x) => \A h \in Job : rows'[h] = IF h = i THEN x ELSE rows[h]
      BY <1>2 DEF TypeOK, RowsOK, Written
    <2>a. ASSUME NEW k, IdentityFree(k) PROVE Contract!Unclaimed(k)
      <3>1. \A j \in Job : rows[j].status # "queued"
        BY <1>2 DEF TypeOK, RowsOK, Row, Status
      <3> QED  BY <2>a, <3>1 DEF Contract!Unclaimed, IdentityFree
    <2>1. CASE \A j \in Job : Unseen(j)
      BY <2>1 DEF Unseen, Live, Contract!cvars
    <2>2. ASSUME NEW j \in Job, NEW k \in Key, NEW x \in Row, rows[j].status = "none", IdentityFree(k),
                 Written(j, x), x.key = k, x.status = "ready"
          PROVE  Contract!Submit(j, k)
      BY <2>0, <2>a, <2>2 DEF Contract!Submit, Live
    <2>3. ASSUME NEW j \in Job, NEW x \in Row, rows[j].status = "running",
                 Written(j, x), x.key = rows[j].key, x.status \in {"done", "failed"}
          PROVE  Contract!Finish(j)
      BY <2>0, <2>3 DEF Contract!Finish, Live
    <2>4. ASSUME NEW j \in Job, NEW x \in Row, rows[j].status \in {"ready", "failed"},
                 Written(j, x), x.key = rows[j].key, x.status = "cancelled"
          PROVE  Contract!Cancel(j)
      BY <2>0, <2>4 DEF Contract!Cancel, Live
    <2>5. ASSUME NEW j \in Job, NEW x \in Row, rows[j].status = "failed", IdentityFree(rows[j].key),
                 Written(j, x), x.key = rows[j].key, x.status = "ready"
          PROVE  Contract!Revive(j)
      BY <2>0, <2>a, <2>5 DEF Contract!Revive, Live
    <2>6. ASSUME NEW j \in Job, NEW x \in Row, Terminal(j), Written(j, x), x.key = rows[j].key, x.status = "none"
          PROVE  Contract!Forget(j)
      BY <2>0, <2>6 DEF Contract!Forget, Terminal, Live
    <2>7. CASE Submits
      BY <2>2, <2>7 DEF Submits, Contract!Next
    <2>8. CASE Settles
      BY <2>3, <2>8 DEF Settles, Holds, Contract!Next
    <2>9. CASE Operates
      BY <2>4, <2>5, <2>6, <2>9 DEF Operates, Contract!Next
    <2> QED  BY <1>2, <2>1, <2>7, <2>8, <2>9 DEF TableStep
  <1>3. TypeOK /\ [Next]_vars => [Contract!Next]_(Contract!cvars)
    BY <1>2, Tables
  <1> QED  BY <1>1, <1>3, TypeInit, TypeStep, PTL DEF Spec, ImplementsContract, Contract!Spec
=============================================================================
