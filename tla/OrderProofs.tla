----------------------------- MODULE OrderProofs -----------------------------
(***************************************************************************)
(* Theorems about OrderLifecycle, for any sets of authorizations,          *)
(* challenges, rows and attempts, and with every mishap allowed.           *)
(***************************************************************************)
EXTENDS OrderLifecycle, TLAPS

-----------------------------------------------------------------------------
(* Attempts.                                                                *)

\* An attempt that answers is at its settlement, whatever its row is about.
LEMMA AnswerOK ==
    ASSUME AttemptsOK, NEW w \in Worker, att[w].pc # "free",
           NEW o \in {"Done", "Failed", "Retry"}, Answer(w, o), ident' = ident
    PROVE  AttemptsOK'
  BY DEF AttemptsOK, Attempt, AttemptPC, Answer, Work

\* An attempt may go to a step of its own handler.
LEMMA GotoOK ==
    ASSUME AttemptsOK, NEW w \in Worker, att[w].pc # "free",
           NEW pc \in {"probe", "check", "sign", "refuse", "announce"},
           pc = "probe" => Work(w) \in Chall,
           pc # "probe" => Work(w) = Order,
           Goto(w, pc), ident' = ident
    PROVE  AttemptsOK'
  BY DEF AttemptsOK, Attempt, AttemptPC, Goto, Work

\* An attempt may retire its row.
LEMMA RetireOK ==
    ASSUME AttemptsOK, NEW w \in Worker, att[w].pc # "free", Retire(w), ident' = ident
    PROVE  AttemptsOK'
  BY DEF AttemptsOK, Attempt, AttemptPC, Retire, Idle, Work

\* An attempt may end.
LEMMA IdleOK ==
    ASSUME AttemptsOK, NEW w \in Worker, att' = [att EXCEPT ![w] = Idle], ident' = ident
    PROVE  AttemptsOK'
  BY DEF AttemptsOK, Attempt, AttemptPC, Idle, Work

\* A row is minted for no attempt that is running.
LEMMA EnqueueOK ==
    ASSUME QueueOK, AttemptsOK, NEW k \in Key, Enqueue(k), UNCHANGED att
    PROVE  QueueOK' /\ AttemptsOK'
  <1>1. CASE UNCHANGED queue
    BY <1>1 DEF queue, QueueOK, AttemptsOK, Work
  <1>2. ASSUME NEW j \in Job, \A w \in Worker : att[w].job # j, Queue!Submit(j, k),
               tries' = [tries EXCEPT ![j] = 0], holder' = holder
        PROVE  QueueOK' /\ AttemptsOK'
    <2>1. /\ phase' = [phase EXCEPT ![j] = "queued"]
          /\ ident' = [ident EXCEPT ![j] = k]
      BY <1>2 DEF Queue!Submit
    <2>2. QueueOK'
      BY <1>2, <2>1 DEF QueueOK, Queue!Phase
    <2>3. \A w \in Worker : ident'[att[w].job] = ident[att[w].job] \/ att[w].job = NoJob
      BY <1>2, <2>1 DEF QueueOK, AttemptsOK, Attempt
    <2>4. AttemptsOK'
      BY <2>3 DEF AttemptsOK, Work
    <2> QED  BY <2>2, <2>4
  <1> QED  BY <1>1, <1>2 DEF Enqueue

\* A row in the hands of an attempt keeps its subject.
LEMMA WorkOK ==
    ASSUME QueueOK, AttemptsOK, NEW w \in Worker, att[w].pc # "free"
    PROVE  att[w].job \in Job /\ Work(w) \in Key
  BY DEF QueueOK, AttemptsOK, Attempt, Work

\* What a statement of the validation transactions can leave behind.
LEMMA CommitOK ==
    ASSUME LifecycleAssumption, SubjectOK, NEW c \in Chall, UNCHANGED <<account, expired>>,
           CommitValidation(c) \/ CommitValidationFailure(c)
    PROVE  SubjectOK'
  BY DEF LifecycleAssumption, SubjectOK, CommitValidation, CommitValidationFailure, ChallVerdict,
         AuthzVerdict, OrderReady, OrderInvalid, ChallStatus, AuthzStatus, OrderStatus

-----------------------------------------------------------------------------
(* Type correctness.                                                        *)

LEMMA InitTyped == ASSUME LifecycleAssumption, Init PROVE TypeOK
  BY DEF LifecycleAssumption, Init, TypeOK, SubjectOK, LedgerOK, QueueOK, AttemptsOK, Attempt,
         AttemptPC, Idle, Work, OrderStatus, AuthzStatus, ChallStatus, Queue!Phase, Key, Requests

LEMMA RequestTyped ==
    ASSUME LifecycleAssumption, TypeOK, RequestStep
    PROVE  TypeOK'
  <1> USE DEF TypeOK
  <1>1. ASSUME UNCHANGED <<queue, att>> PROVE QueueOK' /\ AttemptsOK'
    BY <1>1 DEF queue, QueueOK, AttemptsOK, Work
  <1>2. ASSUME NEW r \in Requests, Read(r) PROVE TypeOK'
    BY <1>1, <1>2 DEF Read, subject, ledger, SubjectOK, LedgerOK
  <1>3. ASSUME NEW c \in Chall, ReadTrigger(c) PROVE TypeOK'
    <2>1. <<"trigger", c>> \in Requests  BY DEF Requests
    <2> QED  BY <1>2, <1>3, <2>1 DEF ReadTrigger
  <1>4. ASSUME NEW a \in Authz, ReadDeactivate(a) PROVE TypeOK'
    <2>1. <<"deactivate", a>> \in Requests  BY DEF Requests
    <2> QED  BY <1>2, <1>4, <2>1 DEF ReadDeactivate
  <1>5. CASE ReadFinalize
    <2>1. <<"finalize", Order>> \in Requests  BY DEF Requests
    <2> QED  BY <1>2, <1>5, <2>1 DEF ReadFinalize
  <1>6. ASSUME NEW c \in Chall, ClaimChallenge(c) PROVE TypeOK'
    <2>1. SubjectOK' /\ LedgerOK' /\ (req \subseteq Requests)' /\ (owing \in BOOLEAN)'
      BY <1>6 DEF ClaimChallenge, Writes, subject, ledger, SubjectOK, LedgerOK, ChallStatus
    <2>2. c \in Key  BY DEF Key
    <2>3. QueueOK' /\ AttemptsOK'
      BY <1>1, <1>6, <2>2, EnqueueOK DEF ClaimChallenge
    <2> QED  BY <2>1, <2>3
  <1>7. ASSUME NEW a \in Authz, Deactivate(a) PROVE TypeOK'
    BY <1>1, <1>7 DEF Deactivate, Writes, ledger, SubjectOK, LedgerOK, OrderPending, OrderStatus,
                      AuthzStatus
  <1>8. CASE Finalize
    <2>1. SubjectOK' /\ LedgerOK' /\ (req \subseteq Requests)' /\ (owing \in BOOLEAN)'
      BY <1>8 DEF Finalize, Writes, ledger, SubjectOK, LedgerOK, OrderStatus
    <2>2. Order \in Key  BY DEF Key
    <2>3. QueueOK' /\ AttemptsOK'
      BY <1>1, <1>8, <2>2, EnqueueOK DEF Finalize
    <2> QED  BY <2>1, <2>3
  <1>9. ASSUME NEW r \in req, RequestFails(r) PROVE TypeOK'
    BY <1>1, <1>9 DEF RequestFails, subject, ledger, SubjectOK, LedgerOK
  <1>10. CASE DeactivateAccount
    BY <1>1, <1>10 DEF DeactivateAccount, ledger, SubjectOK, LedgerOK
  <1> QED  BY <1>3, <1>4, <1>5, <1>6, <1>7, <1>8, <1>9, <1>10 DEF RequestStep

LEMMA WorkerTyped ==
    ASSUME LifecycleAssumption, TypeOK, NEW w \in Worker, WorkerStep(w)
    PROVE  TypeOK'
  <1> USE DEF TypeOK
  <1>1. ASSUME UNCHANGED queue PROVE QueueOK' /\ ident' = ident
    BY <1>1 DEF queue, QueueOK
  <1>2. ASSUME UNCHANGED <<subject, ledger, req, owing>>
        PROVE  SubjectOK' /\ LedgerOK' /\ (req \subseteq Requests)' /\ (owing \in BOOLEAN)'
    BY <1>2 DEF subject, ledger, SubjectOK, LedgerOK
  <1>3. ASSUME NEW j \in Job, Take(w, j) PROVE TypeOK'
    <2>1. QueueOK'
      BY <1>3 DEF LifecycleAssumption, Take, QueueOK, Lesser
    <2>2. AttemptsOK'
      BY <1>3 DEF LifecycleAssumption, Take, AttemptsOK, Attempt, AttemptPC, Idle, Work
    <2> QED  BY <1>2, <1>3, <2>1, <2>2 DEF Take
  <1>4. CASE Load(w)
    <2>1. Work(w) \in Key  BY <1>4, WorkOK DEF Load
    <2>2. CASE Answer(w, "Failed") \/ Answer(w, "Done")
      BY <1>1, <1>2, <1>4, <2>2, AnswerOK DEF Load
    <2>3. CASE Goto(w, IF Work(w) = Order THEN "check" ELSE "probe")
      BY <1>1, <1>2, <1>4, <2>1, <2>3, GotoOK DEF Load, Key
    <2> QED  BY <1>4, <2>2, <2>3 DEF Load
  <1>5. CASE Validate(w)
    <2>1. Work(w) \in Chall  BY <1>5 DEF Validate, AttemptsOK
    <2>2. SubjectOK'  BY <1>5, <2>1, CommitOK DEF Validate
    <2>3. AttemptsOK'  BY <1>1, <1>5, AnswerOK DEF Validate
    <2> QED  BY <1>1, <1>5, <2>2, <2>3 DEF Validate, ledger, LedgerOK
  <1>6. CASE CheckAuthority(w)
    <2>1. Work(w) = Order  BY <1>6 DEF CheckAuthority, AttemptsOK
    <2> QED  BY <1>1, <1>2, <1>6, <2>1, GotoOK DEF CheckAuthority
  <1>7. CASE Sign(w)
    <2>1. Work(w) = Order  BY <1>7 DEF Sign, AttemptsOK
    <2>2. SubjectOK' /\ LedgerOK' /\ (req \subseteq Requests)' /\ (owing \in BOOLEAN)'
      BY <1>7 DEF Sign, subject, SubjectOK, LedgerOK
    <2>3. CASE att' = [att EXCEPT ![w] = [@ EXCEPT !.pc = "record", !.cert = signed']]
      <3>1. AttemptsOK'
        BY <1>1, <1>7, <2>1, <2>2, <2>3 DEF Sign, AttemptsOK, Attempt, AttemptPC, LedgerOK, Work
      <3> QED  BY <1>1, <1>7, <2>2, <3>1 DEF Sign
    <2>4. CASE Answer(w, "Failed")
      BY <1>1, <1>7, <2>2, <2>4, AnswerOK DEF Sign
    <2>5. CASE Goto(w, "refuse")
      BY <1>1, <1>7, <2>1, <2>2, <2>5, GotoOK DEF Sign
    <2> QED  BY <1>7, <2>3, <2>4, <2>5 DEF Sign
  <1>8. CASE Refuse(w)
    <2>1. AttemptsOK'  BY <1>1, <1>8, AnswerOK DEF Refuse
    <2> QED  BY <1>1, <1>8, <2>1 DEF Refuse, ledger, SubjectOK, LedgerOK, OrderInvalid, OrderStatus
  <1>9. CASE Record(w)
    <2>1. Work(w) = Order  BY <1>9 DEF Record, AttemptsOK
    <2>2. AttemptsOK'  BY <1>1, <1>9, <2>1, GotoOK DEF Record
    <2>3. att[w].cert \in Nat  BY DEF AttemptsOK, Attempt
    <2> QED
      BY <1>1, <1>9, <2>2, <2>3 DEF Record, SubjectOK, LedgerOK, OrderFinalized, OrderStatus
  <1>10. CASE Interrupted(w)
    BY <1>1, <1>2, <1>10, AnswerOK DEF Interrupted
  <1>11. CASE Settle(w)
    <2>1. att[w].job \in Job  BY <1>11, WorkOK DEF Settle
    <2>2. QueueOK' /\ ident' = ident
      BY <1>11, <2>1 DEF Settle, QueueOK, Queue!Finish, Queue!Phase
    <2>3. AttemptsOK'
      BY <1>11, <2>2, IdleOK, RetireOK DEF Settle
    <2> QED  BY <1>2, <1>11, <2>2, <2>3 DEF Settle
  <1>12. CASE SettleMisses(w)
    BY <1>1, <1>2, <1>12, IdleOK DEF SettleMisses
  <1>13. CASE Abandon(w)
    <2>1. AttemptsOK'  BY <1>1, <1>13, IdleOK DEF Abandon
    <2>2. SubjectOK'
      <3>1. CASE Work(w) \in Chall /\ CommitValidationFailure(Work(w))
        BY <1>13, <3>1, CommitOK DEF Abandon
      <3>2. CASE UNCHANGED <<authz, chall>> /\ order' \in {order, OrderInvalid}
        BY <1>13, <3>2 DEF Abandon, SubjectOK, OrderInvalid, OrderStatus
      <3> QED  BY <1>13, <3>1, <3>2 DEF Abandon
    <2> QED  BY <1>1, <1>13, <2>1, <2>2 DEF Abandon, ledger, LedgerOK
  <1>14. CASE Crash(w)
    <2>1. QueueOK' /\ ident' = ident  BY <1>14 DEF Crash, QueueOK
    <2> QED  BY <1>2, <1>14, <2>1, IdleOK DEF Crash
  <1>15. CASE AbandonLost(w)
    BY <1>1, <1>2, <1>15, IdleOK DEF AbandonLost
  <1>16. CASE Announce(w)
    <2>1. AttemptsOK'  BY <1>1, <1>16, AnswerOK DEF Announce
    <2>2. att[w].cert \in Nat  BY DEF AttemptsOK, Attempt
    <2> QED  BY <1>1, <1>16, <2>1, <2>2 DEF Announce, subject, SubjectOK, LedgerOK
  <1> QED  BY <1>3, <1>4, <1>5, <1>6, <1>7, <1>8, <1>9, <1>10, <1>11, <1>12, <1>13, <1>14, <1>15,
              <1>16
           DEF WorkerStep

LEMMA OperatorTyped ==
    ASSUME LifecycleAssumption, TypeOK, OperatorStep
    PROVE  TypeOK'
  <1> USE DEF TypeOK
  <1>1. ASSUME UNCHANGED <<ident, att>> PROVE AttemptsOK'
    BY <1>1 DEF AttemptsOK, Work
  <1>2. ASSUME UNCHANGED <<subject, ledger>> PROVE SubjectOK' /\ LedgerOK'
    BY <1>2 DEF subject, ledger, SubjectOK, LedgerOK
  <1>3. ASSUME UNCHANGED queue PROVE QueueOK' /\ ident' = ident
    BY <1>3 DEF queue, QueueOK
  <1>4. ASSUME NEW j \in Job, CancelRow(j) PROVE TypeOK'
    BY <1>1, <1>2, <1>4 DEF CancelRow, QueueOK, Queue!Cancel, Queue!Phase
  <1>5. ASSUME NEW j \in Job, Revive(j) PROVE TypeOK'
    BY <1>1, <1>2, <1>5 DEF LifecycleAssumption, Revive, QueueOK, Queue!Revive, Queue!Phase
  <1>6. ASSUME NEW j \in Job, Forget(j) PROVE TypeOK'
    BY <1>1, <1>2, <1>6 DEF Forget, QueueOK, Queue!Forget, Queue!Phase
  <1>7. ASSUME NEW j \in Job, LoseLease(j) PROVE TypeOK'
    BY <1>1, <1>2, <1>7 DEF LoseLease, QueueOK
  <1>8. ASSUME NEW c \in Chall, Recover(c) PROVE TypeOK'
    <2>1. c \in Key  BY DEF Key
    <2> QED  BY <1>2, <1>8, <2>1, EnqueueOK DEF Recover
  <1>9. CASE AbandonOrder
    BY <1>1, <1>3, <1>9 DEF AbandonOrder, ledger, SubjectOK, LedgerOK, OrderInvalid, OrderStatus
  <1>10. CASE CancelLost
    BY <1>1, <1>2, <1>3, <1>10 DEF CancelLost
  <1>11. CASE DeleteOrder \/ CleanupOrder
    <2>1. Removed  BY <1>11 DEF DeleteOrder, CleanupOrder
    <2> QED  BY <1>1, <1>3, <2>1 DEF Removed, ledger, SubjectOK, LedgerOK, OrderStatus,
                                    AuthzStatus, ChallStatus
  <1>12. CASE Expire
    BY <1>1, <1>3, <1>12 DEF Expire, ledger, SubjectOK, LedgerOK
  <1> QED  BY <1>4, <1>5, <1>6, <1>7, <1>8, <1>9, <1>10, <1>11, <1>12 DEF OperatorStep

\* TypeOK is an invariant: whatever the requests, the attempts and the operator
\* do, an attempt only ever reaches a step of the handler of its own row's kind.
THEOREM TypeCorrect == Spec => []TypeOK
  <1>1. Init => TypeOK  BY InitTyped, LifecycleAssumption
  <1>2. TypeOK /\ [Next]_vars => TypeOK'
    <2> SUFFICES ASSUME TypeOK, [Next]_vars PROVE TypeOK'  OBVIOUS
    <2>1. CASE Next
      BY <2>1, LifecycleAssumption, RequestTyped, WorkerTyped, OperatorTyped DEF Next
    <2>2. CASE UNCHANGED vars
      BY <2>2 DEF vars, subject, ledger, queue, TypeOK, SubjectOK, LedgerOK, QueueOK, AttemptsOK,
                  Work
    <2> QED  BY <2>1, <2>2
  <1> QED  BY <1>1, <1>2, PTL DEF Spec

-----------------------------------------------------------------------------
(* Safety.  Every step moves the order, its authorizations and challenges   *)
(* in one of these ways, whoever takes it.                                  *)

Claims == \E c \in Chall :
    /\ chall[c] = "pending"
    /\ chall' = [chall EXCEPT ![c] = "processing"] /\ UNCHANGED <<order, authz>>
Withdraws == \E a \in Authz :
    /\ Deactivatable(a)
    /\ authz' = [authz EXCEPT ![a] = "deactivated"]
    /\ order' = OrderPending /\ chall' = chall
Decides == \E c \in Chall : CommitValidation(c) \/ CommitValidationFailure(c)
Finalizes == order = "ready" /\ order' = "processing" /\ UNCHANGED <<authz, chall>>
Refuses == order' = OrderInvalid /\ UNCHANGED <<authz, chall>>
Issues == \E w \in Worker : Record(w)
Vanishes == (order # "valid" \/ cert = 0) /\ Removed

Move == \/ UNCHANGED <<order, authz, chall>>
        \/ Claims \/ Withdraws \/ Decides \/ Finalizes \/ Refuses \/ Issues \/ Vanishes

LEMMA Moves ==
    ASSUME TypeOK, [Next]_vars
    PROVE  Move
  <1>1. CASE RequestStep
    <2>1. ASSUME NEW c \in Chall, ClaimChallenge(c) PROVE Claims \/ UNCHANGED <<order, authz, chall>>
      BY <2>1 DEF ClaimChallenge, Claims, Claimable, subject
    <2>2. ASSUME NEW a \in Authz, Deactivate(a)
          PROVE  Withdraws \/ UNCHANGED <<order, authz, chall>>
      BY <2>2 DEF Deactivate, Withdraws
    <2>3. ASSUME Finalize PROVE Finalizes \/ UNCHANGED <<order, authz, chall>>
      BY <2>3 DEF Finalize, Finalizes
    <2>4. ASSUME \/ \E c \in Chall : ReadTrigger(c)
                 \/ \E a \in Authz : ReadDeactivate(a)
                 \/ ReadFinalize \/ DeactivateAccount
                 \/ \E r \in req : RequestFails(r)
          PROVE  UNCHANGED <<order, authz, chall>>
      BY <2>4 DEF ReadTrigger, ReadDeactivate, ReadFinalize, Read, DeactivateAccount,
                  RequestFails, subject
    <2> QED  BY <1>1, <2>1, <2>2, <2>3, <2>4 DEF RequestStep, Move
  <1>2. ASSUME NEW w \in Worker, WorkerStep(w) PROVE Move
    <2>1. ASSUME Validate(w) PROVE Decides
      <3>1. Work(w) \in Chall  BY <2>1 DEF Validate, TypeOK, AttemptsOK
      <3> QED  BY <2>1, <3>1 DEF Validate, Decides
    <2>2. ASSUME Refuse(w) PROVE Refuses
      BY <2>2 DEF Refuse, Refuses
    <2>3. ASSUME Record(w) PROVE Issues
      BY <2>3 DEF Issues
    <2>4. ASSUME Abandon(w) PROVE Decides \/ Refuses \/ UNCHANGED <<order, authz, chall>>
      BY <2>4 DEF Abandon, Decides, Refuses
    <2>5. ASSUME \/ \E j \in Job : Take(w, j)
                 \/ Load(w) \/ CheckAuthority(w) \/ Sign(w) \/ Announce(w) \/ Interrupted(w) \/ Settle(w)
                 \/ SettleMisses(w) \/ Crash(w) \/ AbandonLost(w)
          PROVE  UNCHANGED <<order, authz, chall>>
      BY <2>5 DEF Take, Load, CheckAuthority, Sign, Announce, Interrupted, Settle, SettleMisses, Crash,
                  AbandonLost, subject
    <2> QED  BY <1>2, <2>1, <2>2, <2>3, <2>4, <2>5 DEF WorkerStep, Move
  <1>3. CASE OperatorStep
    <2>1. ASSUME AbandonOrder PROVE Refuses \/ UNCHANGED <<order, authz, chall>>
      BY <2>1 DEF AbandonOrder, Refuses
    <2>2. ASSUME DeleteOrder \/ CleanupOrder PROVE Vanishes
      BY <2>2 DEF DeleteOrder, CleanupOrder, LiveCertificate, Vanishes
    <2>3. ASSUME \/ \E j \in Job : CancelRow(j) \/ Revive(j) \/ Forget(j) \/ LoseLease(j)
                 \/ \E c \in Chall : Recover(c)
                 \/ CancelLost \/ Expire
          PROVE  UNCHANGED <<order, authz, chall>>
      BY <2>3 DEF CancelRow, Revive, Forget, LoseLease, Recover, CancelLost, Expire, subject
    <2> QED  BY <1>3, <2>1, <2>2, <2>3 DEF OperatorStep, Move
  <1>4. CASE UNCHANGED vars
    BY <1>4 DEF vars, subject, Move
  <1> QED  BY <1>1, <1>2, <1>3, <1>4 DEF Next

-----------------------------------------------------------------------------
(* Readiness.                                                               *)

LEMMA ReadyStep ==
    ASSUME LifecycleAssumption, SubjectOK, ReadyIsDerived, Move
    PROVE  ReadyIsDerived'
  <1>1. CASE UNCHANGED <<order, authz>>
    BY <1>1 DEF ReadyIsDerived
  <1>2. CASE Withdraws
    BY <1>2 DEF Withdraws, Deactivatable, OrderPending, ReadyIsDerived, SubjectOK
  <1>3. ASSUME NEW c \in Chall, CommitValidation(c) PROVE ReadyIsDerived'
    <2>1. Of[c] \in Authz  BY DEF LifecycleAssumption
    <2>2. CASE Carries(c)
      BY <1>3, <2>1, <2>2 DEF CommitValidation, Carries, AuthzVerdict, OrderReady, ReadyIsDerived,
                              SubjectOK
    <2>3. CASE ~Carries(c)
      BY <1>3, <2>1, <2>3 DEF CommitValidation, ReadyIsDerived, SubjectOK
    <2> QED  BY <2>2, <2>3
  <1>4. ASSUME NEW c \in Chall, CommitValidationFailure(c) PROVE ReadyIsDerived'
    <2>1. CASE Carries(c)
      BY <1>4, <2>1 DEF CommitValidationFailure, OrderInvalid, ReadyIsDerived, SubjectOK
    <2>2. CASE ~Carries(c)
      BY <1>4, <2>2 DEF CommitValidationFailure, ReadyIsDerived, SubjectOK
    <2> QED  BY <2>1, <2>2
  <1>5. CASE Finalizes \/ Refuses \/ Issues
    BY <1>5 DEF Finalizes, Refuses, Issues, Record, OrderInvalid, OrderFinalized, ReadyIsDerived
  <1>6. CASE Vanishes
    BY <1>6 DEF Vanishes, Removed, ReadyIsDerived
  <1> QED  BY <1>1, <1>2, <1>3, <1>4, <1>5, <1>6 DEF Move, Claims, Decides

\* While an order is open it is `ready` exactly when all its authorizations are
\* `valid`, for any number of them: commit_validation's promotion and
\* deactivate_authz's demotion keep the derived column in step.
THEOREM Readiness == Spec => []ReadyIsDerived
  <1>1. Init => ReadyIsDerived
    BY LifecycleAssumption DEF LifecycleAssumption, Init, ReadyIsDerived
  <1>2. TypeOK /\ ReadyIsDerived /\ [Next]_vars => ReadyIsDerived'
    BY LifecycleAssumption, Moves, ReadyStep DEF TypeOK
  <1> QED  BY <1>1, <1>2, TypeCorrect, PTL DEF Spec

-----------------------------------------------------------------------------
(* Certificates.                                                            *)

\* An attempt about to record has a certificate to record.
RecordsOne == \A w \in Worker : att[w].pc = "record" => att[w].cert # 0

CertInv == ValidHasCertificate /\ RecordsOne

LEMMA RecordsStep ==
    ASSUME TypeOK, RecordsOne, [Next]_vars
    PROVE  RecordsOne'
  <1> USE DEF RecordsOne
  <1>1. ASSUME UNCHANGED att PROVE RecordsOne'  BY <1>1
  <1>2. ASSUME NEW w \in Worker, NEW x, att' = [att EXCEPT ![w] = x], x.pc # "record"
        PROVE  RecordsOne'
    BY <1>2 DEF TypeOK, AttemptsOK
  <1>3. ASSUME NEW w \in Worker, NEW o, Answer(w, o) PROVE RecordsOne'
    BY <1>3 DEF Answer, TypeOK, AttemptsOK, Attempt
  <1>4. ASSUME NEW w \in Worker, NEW pc, Goto(w, pc), pc # "record" PROVE RecordsOne'
    BY <1>4 DEF Goto, TypeOK, AttemptsOK, Attempt
  <1>5. ASSUME NEW w \in Worker, att' = [att EXCEPT ![w] = Idle] PROVE RecordsOne'
    BY <1>5 DEF Idle, TypeOK, AttemptsOK, Attempt
  <1>6. ASSUME NEW w \in Worker, WorkerStep(w) PROVE RecordsOne'
    <2>1. ASSUME NEW j \in Job, Take(w, j) PROVE RecordsOne'
      BY <2>1 DEF Take, Idle, TypeOK, AttemptsOK, Attempt
    <2>2. CASE Load(w) \/ CheckAuthority(w)
      BY <1>3, <1>4, <2>2 DEF Load, CheckAuthority
    <2>3. CASE Sign(w)
      <3>1. CASE att' = [att EXCEPT ![w] = [@ EXCEPT !.pc = "record", !.cert = signed']]
                 /\ signed' = signed + 1
        BY <3>1 DEF TypeOK, AttemptsOK, Attempt, LedgerOK
      <3> QED  BY <1>3, <1>4, <2>3, <3>1 DEF Sign
    <2>4. CASE Validate(w) \/ Refuse(w) \/ Record(w) \/ Announce(w) \/ Interrupted(w)
      BY <1>3, <1>4, <2>4 DEF Validate, Refuse, Record, Announce, Interrupted
    <2>5. CASE Settle(w)
      <3>1. ASSUME Retire(w) PROVE RecordsOne'
        BY <3>1 DEF Retire, Idle, TypeOK, AttemptsOK, Attempt
      <3> QED  BY <1>5, <2>5, <3>1 DEF Settle
    <2>6. CASE SettleMisses(w) \/ Abandon(w) \/ Crash(w) \/ AbandonLost(w)
      BY <1>5, <2>6 DEF SettleMisses, Abandon, Crash, AbandonLost
    <2> QED  BY <1>6, <2>1, <2>2, <2>3, <2>4, <2>5, <2>6 DEF WorkerStep
  <1>7. CASE RequestStep
    BY <1>1, <1>7 DEF RequestStep, ReadTrigger, ReadDeactivate, ReadFinalize, Read, ClaimChallenge,
                      Deactivate, Finalize, RequestFails, DeactivateAccount
  <1>8. CASE OperatorStep
    BY <1>1, <1>8 DEF OperatorStep, CancelRow, Revive, Forget, LoseLease, Recover, AbandonOrder,
                      CancelLost, DeleteOrder, CleanupOrder, Removed, Expire
  <1>9. CASE UNCHANGED vars
    BY <1>1, <1>9 DEF vars
  <1> QED  BY <1>6, <1>7, <1>8, <1>9 DEF Next

\* Only a record writes the certificate.
LEMMA Kept ==
    ASSUME [Next]_vars
    PROVE  cert' = cert \/ Issues
  <1>1. CASE RequestStep
    BY <1>1 DEF RequestStep, ReadTrigger, ReadDeactivate, ReadFinalize, Read, ClaimChallenge,
                Deactivate, Finalize, RequestFails, DeactivateAccount, ledger
  <1>2. ASSUME NEW w \in Worker, WorkerStep(w) PROVE cert' = cert \/ Record(w)
    BY <1>2 DEF WorkerStep, Take, Load, Validate, CheckAuthority, Sign, Refuse, Announce, Interrupted,
                Settle, SettleMisses, Abandon, Crash, AbandonLost, ledger
  <1>3. CASE OperatorStep
    BY <1>3 DEF OperatorStep, CancelRow, Revive, Forget, LoseLease, Recover, AbandonOrder,
                CancelLost, DeleteOrder, CleanupOrder, Removed, Expire, ledger
  <1>4. CASE UNCHANGED vars
    BY <1>4 DEF vars, ledger
  <1> QED  BY <1>1, <1>2, <1>3, <1>4 DEF Next, Issues

LEMMA CertStep ==
    ASSUME LifecycleAssumption, TypeOK, CertInv, [Next]_vars
    PROVE  CertInv'
  <1>1. RecordsOne'  BY RecordsStep DEF CertInv
  <1>2. CASE Issues
    BY <1>1, <1>2 DEF Issues, Record, OrderFinalized, CertInv, RecordsOne, ValidHasCertificate
  <1>3. CASE ~Issues
    <2>1. cert' = cert /\ Move  BY <1>3, Kept, Moves
    <2>2. order' = "valid" <=> order = "valid"
      BY <1>3, <2>1 DEF Move, Claims, Withdraws, Decides, Finalizes, Refuses, Vanishes, Removed,
                        CommitValidation, CommitValidationFailure, OrderReady, OrderPending,
                        OrderInvalid, CertInv, ValidHasCertificate
    <2> QED  BY <1>1, <2>1, <2>2 DEF CertInv, ValidHasCertificate
  <1> QED  BY <1>2, <1>3

LEMMA CertSafety == Spec => []CertInv
  <1>1. Init => CertInv
    BY DEF Init, Idle, CertInv, ValidHasCertificate, RecordsOne
  <1>2. TypeOK /\ CertInv /\ [Next]_vars => CertInv'
    BY LifecycleAssumption, CertStep
  <1> QED  BY <1>1, <1>2, TypeCorrect, PTL DEF Spec

\* An order is `valid` exactly when its row holds a certificate, with attempts
\* overlapping, rows revived and the order deleted under a signature: what
\* Order::delete and the retention sweep rely on to spare it.
THEOREM CertificateRecorded == Spec => []ValidHasCertificate
  <1>1. CertInv => ValidHasCertificate  BY DEF CertInv
  <1> QED  BY <1>1, CertSafety, PTL

\* No step takes back a verdict: the guards of the statements suffice against
\* every stale read, redelivery and late sibling; only the deletion of an order
\* with no certificate needs more, ValidHasCertificate.
THEOREM VerdictsAreFinal == Spec => VerdictsStand
  <1>1. ASSUME TypeOK, CertInv, Move PROVE VerdictsKept
    <2> USE <1>1 DEF VerdictsKept, TypeOK, SubjectOK
    <2>1. CASE UNCHANGED <<order, authz, chall>>
      BY <2>1
    <2>2. CASE Claims
      BY <2>2 DEF Claims
    <2>3. CASE Withdraws
      BY <2>3 DEF Withdraws, Deactivatable, OrderPending
    <2>4. ASSUME NEW c \in Chall, CommitValidation(c) \/ CommitValidationFailure(c)
          PROVE  VerdictsKept
      BY <2>4 DEF CommitValidation, CommitValidationFailure, Carries, ChallVerdict, AuthzVerdict,
                  OrderReady, OrderInvalid, Undecided
    <2>5. CASE Finalizes \/ Refuses
      BY <2>5 DEF Finalizes, Refuses, OrderInvalid
    <2>6. CASE Issues
      BY <2>6 DEF Issues, Record, OrderFinalized
    <2>7. CASE Vanishes
      BY <2>7 DEF Vanishes, Removed, CertInv, ValidHasCertificate
    <2> QED  BY <2>1, <2>2, <2>3, <2>4, <2>5, <2>6, <2>7 DEF Move, Decides
  <1>2. TypeOK /\ CertInv /\ [Next]_vars => [VerdictsKept]_vars
    BY <1>1, Moves
  <1> QED  BY <1>2, TypeCorrect, CertSafety, PTL DEF Spec, VerdictsStand

-----------------------------------------------------------------------------
(* Queued work.                                                             *)

\* Nothing goes back to waiting for its claim.
LEMMA ClaimsPersist ==
    ASSUME TypeOK, Move
    PROVE  /\ order' \in {"pending", "ready"} => order \in {"pending", "ready"}
           /\ \A c \in Chall : chall'[c] = "pending" => chall[c] = "pending"
  <1>1. CASE UNCHANGED <<order, authz, chall>> \/ Claims \/ Withdraws \/ Finalizes \/ Refuses
    BY <1>1 DEF Claims, Withdraws, Finalizes, Refuses, OrderPending, OrderInvalid, TypeOK, SubjectOK
  <1>2. CASE Decides
    BY <1>2 DEF Decides, CommitValidation, CommitValidationFailure, ChallVerdict, OrderReady,
                OrderInvalid, TypeOK, SubjectOK
  <1>3. CASE Issues
    BY <1>3 DEF Issues, Record, OrderFinalized
  <1>4. CASE Vanishes
    BY <1>4 DEF Vanishes, Removed
  <1> QED  BY <1>1, <1>2, <1>3, <1>4 DEF Move

\* A step queues work, or keeps the rows it leaves unsettled as they were.
Outstanding(j) == phase[j] \in {"queued", "failed"}
RowsKept == \A j \in Job : Outstanding(j)' => Outstanding(j) /\ ident'[j] = ident[j]
Queues == \E k \in Key : /\ Enqueue(k)
                         /\ IF k = Order THEN order' = "processing" ELSE chall'[k] = "processing"

LEMMA RowSteps ==
    ASSUME LifecycleAssumption, TypeOK, [Next]_vars
    PROVE  RowsKept \/ Queues
  <1>1. ASSUME UNCHANGED <<phase, ident>> PROVE RowsKept
    BY <1>1 DEF RowsKept, Outstanding
  <1>2. ASSUME NEW j \in Job, NEW p, phase' = [phase EXCEPT ![j] = p], ident' = ident,
               Outstanding(j) \/ p \notin {"queued", "failed"}
        PROVE  RowsKept
    BY <1>2 DEF RowsKept, Outstanding, TypeOK, QueueOK
  <1>3. CASE RequestStep
    <2>1. ASSUME NEW c \in Chall, ClaimChallenge(c) PROVE RowsKept \/ Queues
      <3>1. CASE UNCHANGED queue  BY <1>1, <3>1 DEF queue
      <3>2. CASE Enqueue(c) /\ chall' = [chall EXCEPT ![c] = "processing"]
        BY <3>2 DEF Queues, Key, LifecycleAssumption, TypeOK, SubjectOK
      <3> QED  BY <2>1, <3>1, <3>2 DEF ClaimChallenge
    <2>2. CASE Finalize
      <3>1. CASE UNCHANGED queue  BY <1>1, <3>1 DEF queue
      <3>2. CASE Enqueue(Order) /\ order' = "processing"
        BY <3>2 DEF Queues, Key
      <3> QED  BY <2>2, <3>1, <3>2 DEF Finalize
    <2>3. ASSUME \/ \E c \in Chall : ReadTrigger(c)
                 \/ \E a \in Authz : ReadDeactivate(a) \/ Deactivate(a)
                 \/ ReadFinalize \/ DeactivateAccount
                 \/ \E r \in req : RequestFails(r)
          PROVE  RowsKept
      BY <1>1, <2>3 DEF ReadTrigger, ReadDeactivate, ReadFinalize, Read, Deactivate,
                        DeactivateAccount, RequestFails, queue
    <2> QED  BY <1>3, <2>1, <2>2, <2>3 DEF RequestStep
  <1>4. ASSUME NEW w \in Worker, WorkerStep(w) PROVE RowsKept
    <2>1. CASE Settle(w)
      <3>1. att[w].job \in Job  BY <2>1, WorkOK DEF Settle, TypeOK
      <3> QED  BY <1>1, <1>2, <2>1, <3>1 DEF Settle, Queue!Finish, Outstanding
    <2>2. CASE ~Settle(w)
      BY <1>1, <1>4, <2>2 DEF WorkerStep, Take, Load, Validate, CheckAuthority, Sign, Refuse,
                              Record, Announce, Interrupted, SettleMisses, Abandon, Crash, AbandonLost, queue
    <2> QED  BY <2>1, <2>2
  <1>5. CASE OperatorStep
    <2>1. ASSUME NEW j \in Job, CancelRow(j) \/ Revive(j) \/ Forget(j) PROVE RowsKept
      BY <1>2, <2>1 DEF CancelRow, Revive, Forget, Queue!Cancel, Queue!Revive, Queue!Forget,
                        Outstanding
    <2>2. ASSUME NEW c \in Chall, Recover(c) PROVE Queues
      BY <2>2 DEF Recover, Queues, Key, subject, LifecycleAssumption
    <2>3. ASSUME \/ \E j \in Job : LoseLease(j)
                 \/ AbandonOrder \/ CancelLost \/ DeleteOrder \/ CleanupOrder \/ Expire
          PROVE  RowsKept
      BY <1>1, <2>3 DEF LoseLease, AbandonOrder, CancelLost, DeleteOrder, CleanupOrder, Removed,
                        Expire, queue
    <2> QED  BY <1>5, <2>1, <2>2, <2>3 DEF OperatorStep
  <1>6. CASE UNCHANGED vars
    BY <1>1, <1>6 DEF vars, queue
  <1> QED  BY <1>3, <1>4, <1>5, <1>6 DEF Next

\* No queued or failed row is about an order or a challenge that has not been
\* claimed, so that Order::claim_for_finalize_on and claim_for_validation_on,
\* which enqueue in their own transaction, are never refused for an older row.
THEOREM QueuedWorkIsClaimed == Spec => []QueuedIsClaimed
  <1>1. Init => QueuedIsClaimed
    BY DEF Init, QueuedIsClaimed
  <1>2. ASSUME TypeOK, QueuedIsClaimed, [Next]_vars PROVE QueuedIsClaimed'
    <2>1. /\ order' \in {"pending", "ready"} => order \in {"pending", "ready"}
          /\ \A c \in Chall : chall'[c] = "pending" => chall[c] = "pending"
      BY <1>2, Moves, ClaimsPersist
    <2>2. \A j \in Job : ident[j] \in Key
      BY <1>2 DEF TypeOK, QueueOK
    <2>3. CASE RowsKept
      BY <1>2, <2>1, <2>2, <2>3 DEF RowsKept, Outstanding, QueuedIsClaimed, Key
    <2>4. ASSUME NEW k \in Key, Enqueue(k),
                 IF k = Order THEN order' = "processing" ELSE chall'[k] = "processing"
          PROVE  QueuedIsClaimed'
      <3>1. CASE UNCHANGED queue
        BY <1>2, <2>1, <2>2, <3>1 DEF queue, QueuedIsClaimed, Key
      <3>2. ASSUME NEW j \in Job, Queue!Submit(j, k) PROVE QueuedIsClaimed'
        BY <1>2, <2>1, <2>2, <2>4, <3>2 DEF Queue!Submit, QueuedIsClaimed, Key, TypeOK, QueueOK
      <3> QED  BY <2>4, <3>1, <3>2 DEF Enqueue
    <2> QED  BY <1>2, <2>3, <2>4, RowSteps, LifecycleAssumption DEF Queues
  <1>3. TypeOK /\ QueuedIsClaimed /\ [Next]_vars => QueuedIsClaimed'
    BY <1>2
  <1> QED  BY <1>1, <1>3, TypeCorrect, PTL DEF Spec

-----------------------------------------------------------------------------
(* While leases hold, one attempt at a time works on the order, so that one *)
(* certificate is recorded, and it is the one announced.                    *)

LeasesHold == "overlap" \notin Mishaps

Working(w) == att[w].pc \notin {"free", "abandon"}
OnOrder(w) == att[w].pc \in {"check", "sign", "refuse", "record"}

LeaseHeld == \A w \in Worker : Working(w) => phase[att[w].job] = "queued" /\ holder[att[w].job] = w
OneQueued == \A i, j \in Job : phase[i] = "queued" /\ phase[j] = "queued" /\ ident[i] = ident[j] => i = j
NotIssued == \A w \in Worker : OnOrder(w) => order # "valid"
AnnouncesHeld ==
    \A w \in Worker : att[w].pc = "announce" /\ order # "none" => cert # 0 /\ att[w].cert = cert
AnnouncedOnce == order # "none" => announced \subseteq {cert} \ {0}

IssueInv == LeaseHeld /\ OneQueued /\ NotIssued /\ AnnouncesHeld /\ AnnouncedOnce

\* What a worker's step may do to its attempt, other than take a row or crash: a
\* working attempt was at work before, on the same row; at a step of the order's
\* handler it was before, unless it has just seen the order `processing`.
LEMMA AttemptSteps ==
    ASSUME TypeOK, NEW w \in Worker, WorkerStep(w), ~\E j \in Job : Take(w, j)
    PROVE  /\ \A v \in Worker \ {w} : att'[v] = att[v]
           /\ Working(w)' => Working(w) /\ att'[w].job = att[w].job
           /\ OnOrder(w)' => (OnOrder(w) /\ att[w].pc # "record") \/ (order = "processing" /\ order' = order)
           /\ att'[w].pc = "abandon" => Settle(w) /\ att'[w].job = att[w].job
           /\ att'[w].pc = "announce" => Record(w) /\ att'[w].cert = att[w].cert
  <1>0. att[w] \in Attempt
    BY DEF TypeOK, AttemptsOK
  <1> USE DEF Working, OnOrder
  <1>1. ASSUME NEW o, Answer(w, o)
        PROVE  /\ \A v \in Worker \ {w} : att'[v] = att[v]
               /\ att'[w].pc = "settle" /\ att'[w].job = att[w].job
    BY <1>0, <1>1 DEF Answer, TypeOK, AttemptsOK, Attempt
  <1>2. ASSUME NEW pc, Goto(w, pc)
        PROVE  /\ \A v \in Worker \ {w} : att'[v] = att[v]
               /\ att'[w].pc = pc /\ att'[w].job = att[w].job /\ att'[w].cert = att[w].cert
    BY <1>0, <1>2 DEF Goto, TypeOK, AttemptsOK, Attempt
  <1>3. ASSUME att' = [att EXCEPT ![w] = Idle]
        PROVE  (\A v \in Worker \ {w} : att'[v] = att[v]) /\ att'[w].pc = "free"
    BY <1>3 DEF Idle, TypeOK, AttemptsOK
  <1>4. CASE Load(w)
    BY <1>1, <1>2, <1>4 DEF Load, subject
  <1>5. CASE Validate(w) \/ Refuse(w) \/ Announce(w) \/ Interrupted(w)
    BY <1>1, <1>5 DEF Validate, Refuse, Announce, Interrupted
  <1>6. CASE CheckAuthority(w) \/ Record(w)
    BY <1>2, <1>6 DEF CheckAuthority, Record
  <1>7. CASE Sign(w)
    <2>1. CASE att' = [att EXCEPT ![w] = [@ EXCEPT !.pc = "record", !.cert = signed']]
      BY <1>0, <1>7, <2>1 DEF Sign, TypeOK, AttemptsOK, Attempt
    <2> QED  BY <1>1, <1>2, <1>7, <2>1 DEF Sign
  <1>8. CASE Settle(w)
    <2>1. ASSUME Retire(w)
          PROVE  /\ \A v \in Worker \ {w} : att'[v] = att[v]
                 /\ att'[w].pc = "abandon" /\ att'[w].job = att[w].job
      BY <2>1 DEF Retire, Idle, TypeOK, AttemptsOK
    <2> QED  BY <1>3, <1>8, <2>1 DEF Settle
  <1>9. CASE SettleMisses(w) \/ Abandon(w) \/ Crash(w) \/ AbandonLost(w)
    BY <1>3, <1>9 DEF SettleMisses, Abandon, Crash, AbandonLost
  <1> QED  BY <1>4, <1>5, <1>6, <1>7, <1>8, <1>9 DEF WorkerStep

\* Only a worker's step changes an attempt.
LEMMA AttemptsLeft ==
    ASSUME RequestStep \/ OperatorStep \/ UNCHANGED vars
    PROVE  att' = att
  <1>1. CASE RequestStep
    BY <1>1 DEF RequestStep, ReadTrigger, ReadDeactivate, ReadFinalize, Read, ClaimChallenge,
                Deactivate, Finalize, RequestFails, DeactivateAccount
  <1>2. CASE OperatorStep
    BY <1>2 DEF OperatorStep, CancelRow, Revive, Forget, LoseLease, Recover, AbandonOrder,
                CancelLost, DeleteOrder, CleanupOrder, Removed, Expire
  <1>3. CASE UNCHANGED vars
    BY <1>3 DEF vars
  <1> QED  BY <1>1, <1>2, <1>3

LEMMA TakeSteps ==
    ASSUME TypeOK, NEW w \in Worker, NEW j \in Job, Take(w, j)
    PROVE  /\ \A v \in Worker \ {w} : att'[v] = att[v]
           /\ att'[w].job = j /\ att'[w].pc = "load"
  BY DEF Take, Idle, TypeOK, AttemptsOK, Attempt

\* Queueing keeps the leases that are held.
LEMMA EnqueueHeld ==
    ASSUME TypeOK, LeaseHeld, OneQueued, NEW k \in Key, Enqueue(k), att' = att
    PROVE  LeaseHeld' /\ OneQueued'
  <1> USE DEF LeaseHeld, OneQueued, Working
  <1>1. CASE UNCHANGED queue
    BY <1>1 DEF queue
  <1>2. ASSUME NEW j \in Job, \A w \in Worker : att[w].job # j, Queue!Submit(j, k), holder' = holder
        PROVE  LeaseHeld' /\ OneQueued'
    <2>1. /\ phase[j] = "none" /\ \A i \in Job : phase[i] = "queued" => ident[i] # k
          /\ phase' = [phase EXCEPT ![j] = "queued"] /\ ident' = [ident EXCEPT ![j] = k]
      BY <1>2 DEF Queue!Submit, Queue!Unclaimed
    <2>2. \A i \in Job : /\ phase'[i] = IF i = j THEN "queued" ELSE phase[i]
                         /\ ident'[i] = IF i = j THEN k ELSE ident[i]
      BY <2>1 DEF TypeOK, QueueOK
    <2>3. \A w \in Worker : Working(w) => att[w].job \in Job
      BY DEF TypeOK, AttemptsOK, Attempt
    <2> QED  BY <1>2, <2>1, <2>2, <2>3
  <1> QED  BY <1>1, <1>2 DEF Enqueue

LEMMA HeldStep ==
    ASSUME LifecycleAssumption, LeasesHold, TypeOK, LeaseHeld, OneQueued, [Next]_vars
    PROVE  LeaseHeld' /\ OneQueued'
  <1> USE DEF LeaseHeld, OneQueued
  <1>a. \A w \in Worker : Working(w) => att[w].job \in Job
    BY DEF TypeOK, AttemptsOK, Attempt, Working
  <1>1. ASSUME NEW w \in Worker, WorkerStep(w), ~\E j \in Job : Take(w, j), UNCHANGED <<phase, ident>>,
               holder' = holder \/ (~Working(w)' /\ \A j \in Job : holder[j] # w => holder'[j] = holder[j])
        PROVE  LeaseHeld' /\ OneQueued'
    BY <1>a, <1>1, AttemptSteps DEF Working
  <1>2. ASSUME NEW w \in Worker, NEW j \in Job, Take(w, j)
        PROVE  LeaseHeld' /\ OneQueued'
    <2>1. /\ phase[j] = "queued" /\ holder[j] = NoWorker /\ UNCHANGED <<phase, ident>>
          /\ holder' = [holder EXCEPT ![j] = w]
      BY <1>2 DEF Take
    <2>2. holder'[j] = w /\ \A i \in Job : i # j => holder'[i] = holder[i]
      BY <2>1 DEF TypeOK, QueueOK
    <2>3. \A v \in Worker : v # NoWorker
      BY DEF LifecycleAssumption
    <2>4. \A v \in Worker \ {w} : Working(v) => att[v].job # j
      BY <2>1, <2>3
    <2>5. att'[w].job = j /\ \A v \in Worker \ {w} : att'[v] = att[v]
      BY <1>2, TakeSteps
    <2> QED  BY <1>a, <2>1, <2>2, <2>4, <2>5 DEF Working
  <1>3. ASSUME NEW w \in Worker, Settle(w)
        PROVE  LeaseHeld' /\ OneQueued'
    <2>1. att[w].job \in Job /\ Working(w)
      BY <1>3, WorkOK DEF Settle, Working, TypeOK
    <2>2. /\ holder[att[w].job] = w /\ ident' = ident
          /\ phase' = phase \/ \E p \in {"done", "failed"} : phase' = [phase EXCEPT ![att[w].job] = p]
          /\ holder' = [holder EXCEPT ![att[w].job] = NoWorker]
      BY <1>3 DEF Settle, Holds, LeasesHold, Queue!Finish
    <2>3. ~Working(w)' /\ \A v \in Worker \ {w} : att'[v] = att[v]
      <3>1. CASE att' = [att EXCEPT ![w] = Idle]
        BY <3>1 DEF Working, Idle, TypeOK, AttemptsOK
      <3>2. CASE Retire(w)
        BY <3>2 DEF Retire, Working, Idle, TypeOK, AttemptsOK
      <3> QED  BY <1>3, <3>1, <3>2 DEF Settle
    <2>4. \A i \in Job : i # att[w].job => phase'[i] = phase[i] /\ holder'[i] = holder[i]
      BY <2>1, <2>2 DEF TypeOK, QueueOK
    <2>5. \A i \in Job : phase'[i] = "queued" => phase[i] = "queued"
      BY <2>1, <2>2 DEF TypeOK, QueueOK
    <2>6. \A v \in Worker \ {w} : Working(v) => att[v].job # att[w].job
      BY <2>1, <2>2
    <2> QED  BY <1>a, <2>2, <2>3, <2>4, <2>5, <2>6 DEF Working
  <1>4. ASSUME NEW w \in Worker, Crash(w)
        PROVE  LeaseHeld' /\ OneQueued'
    <2>1. UNCHANGED <<phase, ident>> /\ ~Working(w)' /\ \A j \in Job : holder[j] # w => holder'[j] = holder[j]
      BY <1>4 DEF Crash, Working, Idle, TypeOK, AttemptsOK
    <2>2. ~\E j \in Job : Take(w, j)
      BY <1>4 DEF Crash, Take
    <2>3. WorkerStep(w)
      BY <1>4 DEF WorkerStep
    <2> QED  BY <1>1, <2>1, <2>2, <2>3
  <1>5. ASSUME NEW w \in Worker, WorkerStep(w), ~\E j \in Job : Take(w, j), ~Settle(w), ~Crash(w)
        PROVE  LeaseHeld' /\ OneQueued'
    <2>1. UNCHANGED queue
      BY <1>5 DEF WorkerStep, Load, Validate, CheckAuthority, Sign, Refuse, Record, Announce, Interrupted,
                  SettleMisses, Abandon, AbandonLost
    <2> QED  BY <1>1, <1>5, <2>1 DEF queue
  <1>6. ASSUME NEW j \in Job, CancelRow(j) \/ Forget(j)
        PROVE  LeaseHeld' /\ OneQueued'
    <2>1. /\ UNCHANGED <<ident, holder, att>>
          /\ phase[j] = "queued" => holder[j] = NoWorker
          /\ \E p \in {"cancelled", "none"} : phase' = [phase EXCEPT ![j] = p]
      BY <1>6 DEF CancelRow, Forget, Queue!Cancel, Queue!Forget
    <2> QED  BY <1>a, <2>1 DEF Working, TypeOK, QueueOK, LifecycleAssumption
  <1>7. ASSUME NEW j \in Job, Revive(j)
        PROVE  LeaseHeld' /\ OneQueued'
    <2>1. /\ UNCHANGED <<ident, holder, att>> /\ phase[j] = "failed"
          /\ \A i \in Job : phase[i] = "queued" => ident[i] # ident[j]
          /\ phase' = [phase EXCEPT ![j] = "queued"]
      BY <1>7 DEF Revive, Queue!Revive, Queue!Unclaimed
    <2> QED  BY <1>a, <2>1 DEF Working, TypeOK, QueueOK
  <1>8. ASSUME NEW k \in Key, Enqueue(k), att' = att
        PROVE  LeaseHeld' /\ OneQueued'
    BY <1>8, EnqueueHeld
  <1>9. ASSUME UNCHANGED queue, att' = att
        PROVE  LeaseHeld' /\ OneQueued'
    BY <1>9 DEF queue, Working
  <1>10. CASE RequestStep
    <2>1. \A c \in Chall : c \in Key
      BY DEF Key
    <2>2. Order \in Key
      BY DEF Key
    <2> QED  BY <1>8, <1>9, <1>10, <2>1, <2>2
             DEF RequestStep, ReadTrigger, ReadDeactivate, ReadFinalize, Read, ClaimChallenge,
                 Deactivate, Finalize, RequestFails, DeactivateAccount
  <1>11. CASE OperatorStep
    <2>1. \A c \in Chall : c \in Key
      BY DEF Key
    <2> QED  BY <1>6, <1>7, <1>8, <1>9, <1>11, <2>1
             DEF OperatorStep, LoseLease, LeasesHold, Recover, AbandonOrder, CancelLost, DeleteOrder,
                 CleanupOrder, Removed, Expire
  <1>12. CASE UNCHANGED vars
    BY <1>9, <1>12 DEF vars
  <1> QED  BY <1>2, <1>3, <1>4, <1>5, <1>10, <1>11, <1>12 DEF Next

\* At most one attempt is at a step of the order's handler.
LEMMA OneOnOrder ==
    ASSUME TypeOK, LeaseHeld, OneQueued, NEW v \in Worker, NEW w \in Worker, OnOrder(v), OnOrder(w)
    PROVE  v = w
  <1>1. Working(v) /\ Working(w) /\ Work(v) = Order /\ Work(w) = Order
    BY DEF OnOrder, Working, TypeOK, AttemptsOK
  <1>2. att[v].job \in Job /\ att[w].job \in Job
    BY <1>1, WorkOK DEF TypeOK, Working
  <1>3. att[v].job = att[w].job
    BY <1>1, <1>2 DEF LeaseHeld, OneQueued, Work
  <1> QED  BY <1>1, <1>3 DEF LeaseHeld

\* An attempt at a step of the order's handler was so before the step, and did not
\* record; or it has just seen the order `processing`.
LEMMA OnOrderSince ==
    ASSUME TypeOK, [Next]_vars, NEW w \in Worker, OnOrder(w)'
    PROVE  (OnOrder(w) /\ ~Record(w)) \/ (order = "processing" /\ order' = order)
  <1>1. ASSUME NEW v \in Worker, NEW j \in Job, Take(v, j)
        PROVE  OnOrder(w) /\ ~Record(w)
    <2>1. att'[v].pc = "load" /\ \A u \in Worker \ {v} : att'[u] = att[u]
      BY <1>1, TakeSteps
    <2>2. v # w /\ att'[w] = att[w]
      BY <2>1 DEF OnOrder
    <2>3. ~Record(w)
      BY <2>2 DEF Record, Goto, OnOrder, TypeOK, AttemptsOK, Attempt
    <2> QED  BY <2>2, <2>3 DEF OnOrder
  <1>2. ASSUME NEW v \in Worker, WorkerStep(v), ~\E j \in Job : Take(v, j)
        PROVE  (OnOrder(w) /\ ~Record(w)) \/ (order = "processing" /\ order' = order)
    <2>1. CASE v = w
      BY <1>2, <2>1, AttemptSteps DEF Record
    <2>2. CASE v # w
      <3>1. att'[w] = att[w]
        BY <1>2, <2>2, AttemptSteps
      <3>2. ~Record(w)
        BY <3>1 DEF Record, Goto, OnOrder, TypeOK, AttemptsOK, Attempt
      <3> QED  BY <3>1, <3>2 DEF OnOrder
    <2> QED  BY <2>1, <2>2
  <1>3. ASSUME RequestStep \/ OperatorStep \/ UNCHANGED vars
        PROVE  OnOrder(w) /\ ~Record(w)
    <2>1. att' = att
      BY <1>3, AttemptsLeft
    <2>2. ~Record(w)
      BY <2>1 DEF Record, Goto, OnOrder, TypeOK, AttemptsOK, Attempt
    <2> QED  BY <2>1, <2>2 DEF OnOrder
  <1> QED  BY <1>1, <1>2, <1>3 DEF Next

\* Only a record makes an order valid.
LEMMA ValidByRecord ==
    ASSUME TypeOK, Move, order' = "valid", order # "valid"
    PROVE  Issues
  BY DEF Move, Claims, Withdraws, Decides, Finalizes, Refuses, Vanishes, Removed,
         CommitValidation, CommitValidationFailure, OrderReady, OrderPending, OrderInvalid

\* Only announcing a certificate adds it to the announced.
LEMMA AnnouncedSince ==
    ASSUME [Next]_vars
    PROVE  announced' = announced \/ \E w \in Worker : Announce(w)
  <1>1. CASE RequestStep
    BY <1>1 DEF RequestStep, ReadTrigger, ReadDeactivate, ReadFinalize, Read, ClaimChallenge,
                Deactivate, Finalize, RequestFails, DeactivateAccount, ledger
  <1>2. ASSUME NEW w \in Worker, WorkerStep(w) PROVE announced' = announced \/ Announce(w)
    BY <1>2 DEF WorkerStep, Take, Load, Validate, CheckAuthority, Sign, Refuse, Record, Interrupted,
                Settle, SettleMisses, Abandon, Crash, AbandonLost, ledger
  <1>3. CASE OperatorStep
    BY <1>3 DEF OperatorStep, CancelRow, Revive, Forget, LoseLease, Recover, AbandonOrder,
                CancelLost, DeleteOrder, CleanupOrder, Removed, Expire, ledger
  <1>4. CASE UNCHANGED vars
    BY <1>4 DEF vars, ledger
  <1> QED  BY <1>1, <1>2, <1>3, <1>4 DEF Next

\* An attempt about to announce has just recorded, or was about to before.
LEMMA AnnouncesSince ==
    ASSUME TypeOK, [Next]_vars, NEW w \in Worker, att'[w].pc = "announce"
    PROVE  att'[w] = att[w] \/ (Record(w) /\ att'[w].cert = att[w].cert)
  <1>1. ASSUME NEW v \in Worker, NEW j \in Job, Take(v, j) PROVE att'[w] = att[w]
    <2>1. att'[v].pc = "load" /\ \A u \in Worker \ {v} : att'[u] = att[u]
      BY <1>1, TakeSteps
    <2> QED  BY <2>1
  <1>2. ASSUME NEW v \in Worker, WorkerStep(v), ~\E j \in Job : Take(v, j)
        PROVE  att'[w] = att[w] \/ (Record(w) /\ att'[w].cert = att[w].cert)
    BY <1>2, AttemptSteps
  <1> QED  BY <1>1, <1>2, AttemptsLeft DEF Next

\* A deleted order stays deleted.
LEMMA NoneIsFinal ==
    ASSUME TypeOK, Move, order = "none"
    PROVE  order' = "none"
  BY DEF Move, Claims, Withdraws, Decides, Finalizes, Refuses, Vanishes, Removed, Issues, Record, OrderFinalized,
         CommitValidation, CommitValidationFailure, OrderReady, OrderPending, OrderInvalid

LEMMA IssueStep ==
    ASSUME LifecycleAssumption, LeasesHold, TypeOK, CertInv, IssueInv, [Next]_vars
    PROVE  IssueInv'
  <1> USE DEF IssueInv
  <1>0. Move
    BY Moves
  <1>1. LeaseHeld' /\ OneQueued'
    BY HeldStep
  <1>2. NotIssued'
    <2> SUFFICES ASSUME NEW w \in Worker, OnOrder(w)', order' = "valid"
                 PROVE  FALSE
      BY DEF NotIssued
    <2>1. OnOrder(w) /\ ~Record(w) /\ order # "valid"
      BY OnOrderSince DEF NotIssued
    <2>2. PICK v \in Worker : Record(v)
      BY <1>0, <2>1, ValidByRecord DEF Issues
    <2>3. v = w
      BY <2>1, <2>2, OneOnOrder DEF Record, OnOrder
    <2> QED  BY <2>1, <2>2, <2>3
  <1>3. ASSUME NEW w \in Worker, Record(w) PROVE cert = 0 /\ att[w].cert # 0
    BY <1>3 DEF Record, OnOrder, NotIssued, CertInv, RecordsOne, ValidHasCertificate
  <1>4. AnnouncesHeld'
    <2> SUFFICES ASSUME NEW w \in Worker, att'[w].pc = "announce", order' # "none"
                 PROVE  cert' # 0 /\ att'[w].cert = cert'
      BY DEF AnnouncesHeld
    <2>1. order # "none"
      BY <1>0, NoneIsFinal
    <2>2. CASE Record(w) /\ att'[w].cert = att[w].cert
      BY <1>3, <2>1, <2>2 DEF Record
    <2>3. CASE att'[w] = att[w]
      <3>1. cert # 0 /\ att[w].cert = cert
        BY <2>1, <2>3 DEF AnnouncesHeld
      <3>2. cert' = cert
        BY <1>3, <3>1, Kept DEF Issues
      <3> QED  BY <2>3, <3>1, <3>2
    <2> QED  BY <2>2, <2>3, AnnouncesSince
  <1>5. AnnouncedOnce'
    <2>1. ASSUME NEW w \in Worker, Announce(w) PROVE AnnouncedOnce'
      BY <2>1 DEF Announce, subject, AnnouncesHeld, AnnouncedOnce
    <2>2. ASSUME announced' = announced, order' # "none" PROVE announced' \subseteq {cert'} \ {0}
      <3>1. order # "none"
        BY <1>0, <2>2, NoneIsFinal
      <3> QED  BY <1>3, <2>2, <3>1, Kept DEF Issues, AnnouncedOnce
    <2> QED  BY <2>1, <2>2, AnnouncedSince DEF AnnouncedOnce
  <1> QED  BY <1>1, <1>2, <1>4, <1>5

\* While leases hold, the invariant does.
LEMMA IssueSafety == LeasesHold => (Spec => []IssueInv)
  <1> SUFFICES ASSUME LeasesHold PROVE Spec => []IssueInv
    OBVIOUS
  <1>1. Init => IssueInv
    BY DEF Init, Idle, IssueInv, LeaseHeld, OneQueued, NotIssued, AnnouncesHeld, AnnouncedOnce,
           Working, OnOrder
  <1>2. TypeOK /\ CertInv /\ IssueInv /\ [Next]_vars => IssueInv'
    BY LifecycleAssumption, IssueStep
  <1> QED  BY <1>1, <1>2, TypeCorrect, CertSafety, PTL DEF Spec

\* While leases hold, what is announced as issued is what the order's row holds:
\* a redelivered, cancelled or revived row never records a second certificate.
THEOREM AnnouncedIsRevocable == LeasesHold => (Spec => []AnnouncedIsHeld)
  <1> SUFFICES ASSUME LeasesHold PROVE Spec => []AnnouncedIsHeld
    OBVIOUS
  <1>1. IssueInv => AnnouncedIsHeld
    BY DEF IssueInv, AnnouncedOnce, AnnouncedIsHeld
  <1> QED  BY <1>1, IssueSafety, PTL

\* While leases hold, Order::finalize, whose UPDATE has no guard, never replaces a
\* certificate that the order's row already holds.
THEOREM CertificateIsKept == LeasesHold => (Spec => CertificateKept)
  <1> SUFFICES ASSUME LeasesHold PROVE Spec => CertificateKept
    OBVIOUS
  <1>1. ASSUME TypeOK, CertInv, IssueInv, [Next]_vars, cert # 0
        PROVE  cert' = cert
    <2>1. ASSUME NEW w \in Worker, Record(w) PROVE FALSE
      BY <1>1, <2>1 DEF Record, OnOrder, IssueInv, NotIssued, CertInv, ValidHasCertificate
    <2> QED  BY <1>1, <2>1, Kept DEF Issues
  <1>2. TypeOK /\ CertInv /\ IssueInv /\ [Next]_vars => [cert # 0 => cert' = cert]_vars
    BY <1>1
  <1> QED  BY <1>2, IssueSafety, TypeCorrect, CertSafety, PTL DEF Spec, CertificateKept

-----------------------------------------------------------------------------
(* What a client reads of the order, whatever happens to leases and rows.   *)

\* The order an attempt works on has been claimed.
Begun == \A w \in Worker : OnOrder(w) => order \notin {"pending", "ready"}
AllDecided == order = "processing" => \A a \in Authz : authz[a] # "pending"

ClaimInv == Begun /\ AllDecided

LEMMA BegunStep ==
    ASSUME TypeOK, Begun, [Next]_vars
    PROVE  Begun'
  BY Moves, ClaimsPersist, OnOrderSince DEF Begun

\* An order in `processing` has no authorization left to decide.
LEMMA DecidedStep ==
    ASSUME TypeOK, LifecycleAssumption, ReadyIsDerived, AllDecided, [Next]_vars
    PROVE  AllDecided'
  <1>1. Move
    BY Moves
  <1>2. \A a \in Authz : authz'[a] = "pending" => authz[a] = "pending"
    <2>1. CASE UNCHANGED authz
      BY <2>1
    <2>2. CASE Withdraws \/ Decides \/ Vanishes
      BY <2>2 DEF Withdraws, Decides, Vanishes, Removed, CommitValidation, CommitValidationFailure,
                  Carries, AuthzVerdict, TypeOK, SubjectOK
    <2> QED  BY <1>1, <2>1, <2>2 DEF Move, Claims, Finalizes, Refuses, Issues, Record
  <1>3. order' = "processing" => order = "processing" \/ Finalizes
    BY <1>1 DEF Move, Claims, Withdraws, OrderPending, Decides, CommitValidation, OrderReady,
                CommitValidationFailure, OrderInvalid, Refuses, Issues, Record, OrderFinalized,
                Vanishes, Removed
  <1>4. CASE Finalizes
    BY <1>2, <1>4 DEF Finalizes, ReadyIsDerived, AllDecided
  <1> QED  BY <1>2, <1>3, <1>4 DEF AllDecided

LEMMA ClaimSafety == Spec => []ClaimInv
  <1>1. Init => ClaimInv
    BY DEF Init, Idle, ClaimInv, Begun, AllDecided, OnOrder
  <1>2. TypeOK /\ ReadyIsDerived /\ ClaimInv /\ [Next]_vars => ClaimInv'
    BY LifecycleAssumption, BegunStep, DecidedStep DEF ClaimInv
  <1> QED  BY <1>1, <1>2, TypeCorrect, Readiness, PTL DEF Spec

\* An open order fails only with one of its authorizations.
LEMMA FailsOpen ==
    ASSUME TypeOK, Begun, [Next]_vars, Refuses, ~Decides
    PROVE  order' = order \/ order = "processing"
  <1>1. CASE RequestStep
    BY <1>1 DEF RequestStep, ReadTrigger, ReadDeactivate, ReadFinalize, Read, ClaimChallenge,
                Deactivate, OrderPending, Finalize, RequestFails, DeactivateAccount, subject, Refuses, OrderInvalid
  <1>2. ASSUME NEW w \in Worker, WorkerStep(w)
        PROVE  order' = order \/ order = "processing"
    <2>1. CASE Refuse(w) \/ Record(w)
      BY <2>1 DEF Refuse, Record, Refuses, OrderInvalid, OrderFinalized, Begun, OnOrder
    <2>2. CASE Validate(w)
      <3>1. Work(w) \in Chall
        BY <2>2 DEF Validate, TypeOK, AttemptsOK
      <3> QED  BY <2>2, <3>1 DEF Validate, Decides
    <2>3. CASE Abandon(w)
      BY <2>3 DEF Abandon, Decides
    <2> QED  BY <1>2, <2>1, <2>2, <2>3 DEF WorkerStep, Take, Load, CheckAuthority, Sign, Announce, Interrupted,
                Settle, SettleMisses, Crash, AbandonLost, subject
  <1>3. CASE OperatorStep
    BY <1>3 DEF OperatorStep, CancelRow, Revive, Forget, LoseLease, Recover, AbandonOrder,
                CancelLost, DeleteOrder, CleanupOrder, Removed, Refuses, OrderInvalid, Expire, subject
  <1>4. CASE UNCHANGED vars
    BY <1>4 DEF vars, subject
  <1> QED  BY <1>1, <1>2, <1>3, <1>4 DEF Next

\* A step that records no certificate is one of AcmeOrder, or leaves what a client
\* reads alone.
LEMMA AcmeMove ==
    ASSUME LifecycleAssumption, TypeOK, CertInv, ClaimInv, [Next]_vars, ~Issues
    PROVE  [Acme!Next]_(Acme!avars)
  <1> USE DEF TypeOK, SubjectOK, ClaimInv
  <1>0. Move
    BY Moves
  <1>1. cert' = cert
    BY Kept
  <1>2. CASE UNCHANGED <<order, authz>>
    BY <1>1, <1>2 DEF Acme!avars
  <1>3. ASSUME NEW a \in Authz, Deactivatable(a), authz' = [authz EXCEPT ![a] = "deactivated"],
               order' = OrderPending
        PROVE  [Acme!Next]_(Acme!avars)
    <2>1. Acme!Withdraw(a)
      BY <1>1, <1>3 DEF Acme!Withdraw, Deactivatable, OrderPending
    <2> QED  BY <2>1 DEF Acme!Next
  <1>4. ASSUME NEW c \in Chall, CommitValidation(c) \/ CommitValidationFailure(c)
        PROVE  [Acme!Next]_(Acme!avars)
    <2>1. Of[c] \in Authz
      BY DEF LifecycleAssumption
    <2>2. CASE ~Carries(c)
      <3>1. UNCHANGED <<order, authz>>
        BY <1>4, <2>1, <2>2 DEF CommitValidation, CommitValidationFailure
      <3> QED  BY <1>2, <3>1
    <2>3. CASE Carries(c) /\ CommitValidation(c)
      <3>1. Acme!Prove(Of[c])
        BY <1>1, <2>1, <2>3 DEF Acme!Prove, Acme!Proven, Carries, CommitValidation, AuthzVerdict, OrderReady
      <3> QED  BY <2>1, <3>1 DEF Acme!Next
    <2>4. CASE Carries(c) /\ CommitValidationFailure(c)
      <3>1. order # "processing"
        BY <2>1, <2>4 DEF Carries, AllDecided
      <3>2. Acme!Refute(Of[c])
        BY <1>1, <2>1, <2>4, <3>1 DEF Acme!Refute, Carries, CommitValidationFailure, AuthzVerdict, OrderInvalid
      <3> QED  BY <2>1, <3>2 DEF Acme!Next
    <2> QED  BY <1>4, <2>2, <2>3, <2>4
  <1>5. CASE Finalizes
    <2>1. Acme!Request
      BY <1>1, <1>5 DEF Acme!Request, Finalizes
    <2> QED  BY <2>1 DEF Acme!Next
  <1>6. CASE Refuses /\ ~Decides
    <2>1. order' = order \/ order = "processing"
      BY <1>6, FailsOpen
    <2>2. CASE order = "processing"
      <3>1. Acme!Fail
        BY <1>1, <1>6, <2>2 DEF Acme!Fail, Refuses, OrderInvalid
      <3> QED  BY <3>1 DEF Acme!Next
    <2> QED  BY <1>2, <1>6, <2>1, <2>2 DEF Refuses
  <1>7. CASE Vanishes
    <2>1. Acme!Remove
      BY <1>1, <1>7 DEF Acme!Remove, Vanishes, Removed, CertInv, ValidHasCertificate
    <2> QED  BY <2>1 DEF Acme!Next
  <1> QED  BY <1>0, <1>2, <1>3, <1>4, <1>5, <1>6, <1>7 DEF Move, Claims, Withdraws, Decides

\* A record is the order's issue, its reissue, or nothing a client sees.
LEMMA RecordShows ==
    ASSUME TypeOK, CertInv, ClaimInv, NEW w \in Worker, Record(w)
    PROVE  /\ order \in {"processing", "invalid", "valid", "none"}
           /\ order = "processing" => Acme!Issue
           /\ order = "invalid" => Reissue
           /\ order \in {"valid", "none"} => UNCHANGED Acme!avars
  <1>0. order \notin {"pending", "ready"}
    BY DEF Record, OnOrder, ClaimInv, Begun
  <1>1. att[w].pc = "record" /\ att[w].cert # 0 /\ order \in {"processing", "invalid", "valid", "none"}
    BY <1>0 DEF Record, CertInv, RecordsOne, TypeOK, SubjectOK, OrderStatus
  <1>2. authz' = authz /\ order' = OrderFinalized /\ cert' = IF order = "none" THEN cert ELSE att[w].cert
    BY DEF Record
  <1> QED  BY <1>1, <1>2 DEF OrderFinalized, Acme!Issue, Reissue, Acme!avars, CertInv, ValidHasCertificate

\* Under every mishap at once, lost leases, crashes, cancelled, revived and deleted
\* rows: the status columns a client reads follow AcmeOrder, except that an order
\* already `invalid` may become `valid` with its certificate, by the record of an
\* attempt at work on it, whose UPDATE has no guard.
THEOREM OrderDepartsByReissue == Spec => AcmeUnlessReissued
  <1>1. Init => Acme!Init
    BY DEF Init, Acme!Init
  <1>2. TypeOK /\ CertInv /\ ClaimInv /\ [Next]_vars => [Acme!Next \/ Reissue]_(Acme!avars)
    <2> SUFFICES ASSUME TypeOK, CertInv, ClaimInv, [Next]_vars
                 PROVE  [Acme!Next \/ Reissue]_(Acme!avars)
      OBVIOUS
    <2>1. CASE ~Issues
      BY <2>1, LifecycleAssumption, AcmeMove
    <2>2. CASE Issues
      BY <2>2, RecordShows DEF Issues, Acme!Next
    <2> QED  BY <2>1, <2>2
  <1> QED  BY <1>1, <1>2, ClaimSafety, TypeCorrect, CertSafety, PTL DEF Spec, AcmeUnlessReissued

-----------------------------------------------------------------------------
(* While leases hold and no failed row is revived, what a client reads of   *)
(* the order follows AcmeOrder.                                             *)

NoRevival == LeasesHold /\ "revive" \notin Mishaps

\* Someone has retired the order's row, and has yet to tell the order.
Abandoning == owing \/ \E w \in Worker : att[w].pc = "abandon" /\ Work(w) = Order

OrderInWork == \A w \in Worker : OnOrder(w) => order \in {"processing", "none"}
RetiredStays == Abandoning => order \notin {"pending", "ready"} /\ Queue!Unclaimed(Order)

AcmeInv == OrderInWork /\ RetiredStays /\ ClaimInv

\* What may end the processing of an order.
LEMMA Deciders ==
    ASSUME TypeOK, [Next]_vars, order = "processing", order' # "processing"
    PROVE  \/ \E w \in Worker : Refuse(w) \/ Record(w)
           \/ Abandoning \/ Removed
           \/ \E c \in Chall : Carries(c)
  <1>1. CASE RequestStep
    BY <1>1 DEF RequestStep, ReadTrigger, ReadDeactivate, ReadFinalize, Read, ClaimChallenge,
                Deactivate, OrderPending, Finalize, RequestFails, DeactivateAccount, subject
  <1>2. ASSUME NEW w \in Worker, WorkerStep(w)
        PROVE  \/ Refuse(w) \/ Record(w) \/ Abandoning \/ \E c \in Chall : Carries(c)
    <2>1. CASE Validate(w)
      <3>1. Work(w) \in Chall
        BY <2>1 DEF Validate, TypeOK, AttemptsOK
      <3> QED  BY <2>1, <3>1 DEF Validate, CommitValidation, CommitValidationFailure
    <2>2. CASE Abandon(w)
      BY <2>2 DEF Abandon, Abandoning, CommitValidationFailure
    <2> QED  BY <1>2, <2>1, <2>2 DEF WorkerStep, Take, Load, CheckAuthority, Sign, Announce, Interrupted,
                Settle, SettleMisses, Crash, AbandonLost, subject
  <1>3. CASE OperatorStep
    BY <1>3 DEF OperatorStep, CancelRow, Revive, Forget, LoseLease, Recover, AbandonOrder, Abandoning,
                CancelLost, DeleteOrder, CleanupOrder, Expire, subject
  <1>4. CASE UNCHANGED vars
    BY <1>4 DEF vars, subject
  <1> QED  BY <1>1, <1>2, <1>3, <1>4 DEF Next

\* While the order is being worked on it stays `processing`, unless it is deleted.
LEMMA InWorkStep ==
    ASSUME TypeOK, IssueInv, AcmeInv, [Next]_vars
    PROVE  OrderInWork'
  <1> SUFFICES ASSUME NEW w \in Worker, OnOrder(w)'
               PROVE  order' \in {"processing", "none"}
    BY DEF OrderInWork
  <1>1. CASE order = "processing" /\ order' = order
    BY <1>1
  <1>2. CASE OnOrder(w) /\ ~Record(w)
    <2>1. CASE order = "none"
      BY <2>1, Moves, NoneIsFinal
    <2>2. CASE order = "processing" /\ order' # "processing"
      <3>1. ASSUME NEW v \in Worker, Refuse(v) \/ Record(v) PROVE FALSE
        <4>1. v = w
          BY <1>2, <3>1, OneOnOrder DEF IssueInv, OnOrder, Refuse, Record
        <4> QED  BY <1>2, <3>1, <4>1 DEF Refuse, Answer, OnOrder, TypeOK, AttemptsOK, Attempt
      <3>2. ~Abandoning
        <4>1. Work(w) = Order /\ att[w].job \in Job /\ phase[att[w].job] = "queued"
          BY <1>2, WorkOK DEF OnOrder, Working, IssueInv, LeaseHeld, TypeOK, AttemptsOK
        <4> QED  BY <4>1 DEF AcmeInv, RetiredStays, Queue!Unclaimed, Work
      <3>3. \A c \in Chall : ~Carries(c)
        BY <2>2, LifecycleAssumption DEF AcmeInv, ClaimInv, AllDecided, Carries, LifecycleAssumption
      <3> QED  BY <2>2, <3>1, <3>2, <3>3, Deciders DEF Removed
    <2> QED  BY <1>2, <2>1, <2>2 DEF AcmeInv, OrderInWork
  <1> QED  BY <1>1, <1>2, OnOrderSince

\* A row for the order is queued by its finalization alone.
LEMMA OrderQueued ==
    ASSUME LifecycleAssumption, NoRevival, TypeOK, [Next]_vars, ~Finalizes,
           NEW j \in Job, phase'[j] = "queued", ident'[j] = Order
    PROVE  phase[j] = "queued" /\ ident[j] = Order
  <1>1. ASSUME NEW c \in Chall, Enqueue(c) PROVE phase[j] = "queued" /\ ident[j] = Order
    <2>1. ASSUME NEW i \in Job, Queue!Submit(i, c) PROVE phase[j] = "queued" /\ ident[j] = Order
      BY <2>1 DEF Queue!Submit, TypeOK, QueueOK, LifecycleAssumption
    <2>2. CASE UNCHANGED queue
      BY <2>2 DEF queue
    <2> QED  BY <1>1, <2>1, <2>2 DEF Enqueue
  <1>2. CASE UNCHANGED <<phase, ident>>
    BY <1>2
  <1>3. ASSUME NEW i \in Job, NEW p, p # "queued", phase' = [phase EXCEPT ![i] = p], ident' = ident
        PROVE  phase[j] = "queued" /\ ident[j] = Order
    BY <1>3 DEF TypeOK, QueueOK
  <1>4. CASE RequestStep
    BY <1>1, <1>2, <1>4 DEF RequestStep, ReadTrigger, ReadDeactivate, ReadFinalize, Read, ClaimChallenge,
                Deactivate, Finalize, Finalizes, RequestFails, DeactivateAccount, queue
  <1>5. ASSUME NEW w \in Worker, WorkerStep(w) PROVE phase[j] = "queued" /\ ident[j] = Order
    <2>1. CASE Settle(w)
      <3>1. att[w].job \in Job
        BY <2>1, WorkOK DEF Settle, TypeOK
      <3> QED  BY <1>2, <1>3, <2>1, <3>1 DEF Settle, Queue!Finish
    <2> QED  BY <1>2, <1>5, <2>1 DEF WorkerStep, Take, Load, Validate, CheckAuthority, Sign, Refuse, Record, Announce,
                Interrupted, SettleMisses, Abandon, Crash, AbandonLost, queue
  <1>6. CASE OperatorStep
    <2>1. ASSUME NEW i \in Job, CancelRow(i) \/ Forget(i) PROVE phase[j] = "queued" /\ ident[j] = Order
      BY <1>3, <2>1 DEF CancelRow, Forget, Queue!Cancel, Queue!Forget
    <2> QED  BY <1>1, <1>2, <1>6, <2>1 DEF OperatorStep, Revive, LoseLease, Recover, AbandonOrder,
                CancelLost, DeleteOrder, CleanupOrder, Removed, Expire, queue, NoRevival
  <1>7. CASE UNCHANGED vars
    BY <1>2, <1>7 DEF vars, queue
  <1> QED  BY <1>4, <1>5, <1>6, <1>7 DEF Next

\* The row in the hands of an attempt keeps its subject.
LEMMA SubjectKept ==
    ASSUME TypeOK, [Next]_vars, NEW w \in Worker, att[w].pc # "free"
    PROVE  ident'[att[w].job] = ident[att[w].job]
  <1>1. ASSUME NEW k, Enqueue(k) PROVE ident'[att[w].job] = ident[att[w].job]
    <2>1. ASSUME NEW j \in Job, \A v \in Worker : att[v].job # j, Queue!Submit(j, k)
          PROVE  ident'[att[w].job] = ident[att[w].job]
      BY <2>1 DEF Queue!Submit, TypeOK, QueueOK
    <2>2. CASE UNCHANGED queue
      BY <2>2 DEF queue
    <2> QED  BY <1>1, <2>1, <2>2 DEF Enqueue
  <1>2. CASE RequestStep
    BY <1>1, <1>2 DEF RequestStep, ReadTrigger, ReadDeactivate, ReadFinalize, Read, ClaimChallenge,
                Deactivate, Finalize, RequestFails, DeactivateAccount, queue
  <1>3. ASSUME NEW v \in Worker, WorkerStep(v) PROVE ident' = ident
    BY <1>3 DEF WorkerStep, Take, Load, Validate, CheckAuthority, Sign, Refuse, Record, Announce,
                Interrupted, Settle, Queue!Finish, SettleMisses, Abandon, Crash, AbandonLost, queue
  <1>4. CASE OperatorStep
    BY <1>1, <1>4 DEF OperatorStep, CancelRow, Queue!Cancel, Revive, Queue!Revive, Forget, Queue!Forget,
                LoseLease, Recover, AbandonOrder, CancelLost, DeleteOrder, CleanupOrder, Removed,
                Expire, queue
  <1>5. CASE UNCHANGED vars
    BY <1>5 DEF vars, queue
  <1> QED  BY <1>2, <1>3, <1>4, <1>5 DEF Next

\* An order is owed its abandonment by the retirement of its queued row.
LEMMA Retires ==
    ASSUME TypeOK, [Next]_vars, Abandoning', ~Abandoning
    PROVE  /\ order' = order /\ ident' = ident
           /\ \E j \in Job, p \in Queue!Phase \ {"queued"} :
                 phase[j] = "queued" /\ ident[j] = Order /\ phase' = [phase EXCEPT ![j] = p]
  <1>1. ASSUME NEW w \in Worker, Settle(w), att'[w].pc = "abandon", Work(w) = Order
        PROVE  /\ order' = order /\ ident' = ident
               /\ \E j \in Job, p \in Queue!Phase \ {"queued"} :
                     phase[j] = "queued" /\ ident[j] = Order /\ phase' = [phase EXCEPT ![j] = p]
    <2>1. att[w].job \in Job
      BY <1>1, WorkOK DEF Settle, TypeOK
    <2>2. Queue!Finish(att[w].job)
      BY <1>1 DEF Settle, Idle, TypeOK, AttemptsOK
    <2> QED  BY <1>1, <2>1, <2>2 DEF Settle, Queue!Finish, Queue!Phase, Work, subject
  <1>2. ASSUME NEW w \in Worker, att'[w].pc = "abandon", Work(w)' = Order
        PROVE  Settle(w) /\ Work(w) = Order
    <2>1. att'[w] # att[w] \/ att[w].pc # "abandon"
      BY <1>2, SubjectKept DEF Abandoning, Work
    <2>2. \E v \in Worker : WorkerStep(v)
      BY <1>2, <2>1, SubjectKept, AttemptsLeft DEF Next, Abandoning, Work
    <2>3. PICK v \in Worker : WorkerStep(v)
      BY <2>2
    <2>4. ASSUME NEW j \in Job, Take(v, j) PROVE FALSE
      <3>1. att'[v].pc = "load" /\ \A u \in Worker \ {v} : att'[u] = att[u]
        BY <2>4, TakeSteps
      <3> QED  BY <1>2, <2>1, <3>1
    <2>5. v = w
      BY <1>2, <2>1, <2>3, <2>4, AttemptSteps
    <2>6. Settle(w) /\ att'[w].job = att[w].job
      BY <1>2, <2>3, <2>4, <2>5, AttemptSteps
    <2>7. ident' = ident
      BY <2>6 DEF Settle, Queue!Finish
    <2> QED  BY <1>2, <2>6, <2>7 DEF Work
  <1>3. ASSUME owing' PROVE \E j \in Job : CancelRow(j) /\ phase[j] = "queued" /\ ident[j] = Order
    <2>1. ~owing
      BY DEF Abandoning
    <2>2. CASE RequestStep
      BY <1>3, <2>1, <2>2 DEF RequestStep, ReadTrigger, ReadDeactivate, ReadFinalize, Read, ClaimChallenge,
                  Deactivate, Finalize, RequestFails, DeactivateAccount
    <2>3. ASSUME NEW w \in Worker, WorkerStep(w) PROVE FALSE
      BY <1>3, <2>1, <2>3 DEF WorkerStep, Take, Load, Validate, CheckAuthority, Sign, Refuse, Record, Announce,
                  Interrupted, Settle, SettleMisses, Abandon, Crash, AbandonLost
    <2>4. CASE OperatorStep
      BY <1>3, <2>1, <2>4 DEF OperatorStep, CancelRow, Revive, Forget, LoseLease, Recover, AbandonOrder,
                  CancelLost, DeleteOrder, CleanupOrder, Removed, Expire
    <2>5. CASE UNCHANGED vars
      BY <1>3, <2>1, <2>5 DEF vars
    <2> QED  BY <2>2, <2>3, <2>4, <2>5 DEF Next
  <1>4. CASE owing'
    BY <1>3, <1>4 DEF CancelRow, Queue!Cancel, Queue!Phase, subject
  <1> QED  BY <1>1, <1>2, <1>4 DEF Abandoning

\* A retired row of the order is not queued again before the order is told.
LEMMA RetiredStep ==
    ASSUME LifecycleAssumption, NoRevival, TypeOK, QueuedIsClaimed, OneQueued, RetiredStays, [Next]_vars
    PROVE  RetiredStays'
  <1> SUFFICES ASSUME Abandoning'
               PROVE  order' \notin {"pending", "ready"} /\ Queue!Unclaimed(Order)'
    BY DEF RetiredStays
  <1>1. CASE Abandoning
    <2>1. order \notin {"pending", "ready"} /\ \A j \in Job : phase[j] = "queued" => ident[j] # Order
      BY <1>1 DEF RetiredStays, Queue!Unclaimed
    <2>2. order' \notin {"pending", "ready"} /\ ~Finalizes
      BY <2>1, Moves, ClaimsPersist DEF Finalizes
    <2>3. \A j \in Job : phase'[j] = "queued" => ident'[j] # Order
      BY <2>1, <2>2, OrderQueued
    <2> QED  BY <2>2, <2>3 DEF Queue!Unclaimed
  <1>2. CASE ~Abandoning
    <2>1. order' = order /\ ident' = ident
      BY <1>2, Retires
    <2>2. PICK j \in Job, p \in Queue!Phase \ {"queued"} :
             phase[j] = "queued" /\ ident[j] = Order /\ phase' = [phase EXCEPT ![j] = p]
      BY <1>2, Retires
    <2>3. order \notin {"pending", "ready"}
      BY <2>2 DEF QueuedIsClaimed
    <2>4. \A i \in Job : phase'[i] = "queued" => ident[i] # Order
      BY <2>2 DEF OneQueued, TypeOK, QueueOK
    <2> QED  BY <2>1, <2>3, <2>4 DEF Queue!Unclaimed
  <1> QED  BY <1>1, <1>2

LEMMA AcmeSafety == NoRevival => (Spec => []AcmeInv)
  <1> SUFFICES ASSUME NoRevival PROVE Spec => []AcmeInv
    OBVIOUS
  <1>1. Init => AcmeInv
    BY DEF Init, Idle, AcmeInv, OrderInWork, RetiredStays, Abandoning, ClaimInv, Begun, AllDecided, OnOrder
  <1>2. TypeOK /\ QueuedIsClaimed /\ ReadyIsDerived /\ IssueInv /\ AcmeInv /\ [Next]_vars => AcmeInv'
    BY LifecycleAssumption, InWorkStep, RetiredStep, BegunStep, DecidedStep DEF AcmeInv, ClaimInv, IssueInv
  <1>3. Spec => []IssueInv
    BY IssueSafety DEF NoRevival
  <1> QED  BY <1>1, <1>2, <1>3, TypeCorrect, QueuedWorkIsClaimed, Readiness, PTL DEF Spec

\* While leases hold and no failed row is revived there is no reissue.
LEMMA AcmeStep ==
    ASSUME LifecycleAssumption, TypeOK, CertInv, AcmeInv, [Next]_vars
    PROVE  [Acme!Next]_(Acme!avars)
  <1>1. CASE ~Issues
    BY <1>1, AcmeMove DEF AcmeInv
  <1>2. ASSUME NEW w \in Worker, Record(w) PROVE [Acme!Next]_(Acme!avars)
    <2>1. order \in {"processing", "none"}
      BY <1>2 DEF Record, OnOrder, AcmeInv, OrderInWork
    <2> QED  BY <1>2, <2>1, RecordShows DEF AcmeInv, Acme!Next
  <1> QED  BY <1>1, <1>2 DEF Issues

\* While leases hold and no failed row is revived, the status columns follow the
\* state machine of RFC 8555 section 7.1.6 as AcmeOrder has it: an order is issued
\* or failed only from `processing`, by the one attempt at work on it, or by
\* whoever retired its row, never by both.
THEOREM OrderFollowsAcme == NoRevival => (Spec => ImplementsAcme)
  <1> SUFFICES ASSUME NoRevival PROVE Spec => Acme!Spec
    BY DEF ImplementsAcme
  <1>1. Init => Acme!Init
    BY DEF Init, Acme!Init
  <1>2. TypeOK /\ CertInv /\ AcmeInv /\ [Next]_vars => [Acme!Next]_(Acme!avars)
    BY LifecycleAssumption, AcmeStep
  <1>3. Spec => []AcmeInv
    BY AcmeSafety
  <1> QED  BY <1>1, <1>2, <1>3, TypeCorrect, CertSafety, PTL DEF Spec, Acme!Spec
=============================================================================
