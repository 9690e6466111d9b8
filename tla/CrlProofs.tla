------------------------------ MODULE CrlProofs ------------------------------
(***************************************************************************)
(* Theorems about CrlStore, for any number of certificates, processes and  *)
(* tasks, and with every failure allowed.                                  *)
(***************************************************************************)
EXTENDS CrlStore, TLAPS

-----------------------------------------------------------------------------
(* Type correctness.                                                        *)

\* An idle task is well typed, and about no serial.
LEMMA IdleTyped == Idle \in TaskState /\ Idle.job # "revoke"
  BY DEF Idle, TaskState, PC

\* A step of one task that leaves it well typed.
LEMMA OneTask ==
    ASSUME TasksOK, NEW t \in Task, NEW x \in TaskState, x.job = "revoke" => x.serial \in Serial,
           Becomes(t, x)
    PROVE  TasksOK'
  BY DEF TasksOK, Becomes

\* The tables start empty and the tasks idle.
LEMMA InitTyped == ASSUME CrlAssumption, Init PROVE TypeOK
  BY IdleTyped DEF CrlAssumption, Init, TypeOK, TasksOK, TablesOK, QueueOK, ProcessOK, NoCrl, Crl

\* The ledger route keeps the types.
LEMMA RouteTyped ==
    ASSUME CrlAssumption, TypeOK, NEW s \in Serial,
           Ask(s) \/ AskForCrl(s) \/ \E when \in 0 .. MaxTime : Record(s, when)
    PROVE  TypeOK'
  <1>0. 0 .. MaxTime \subseteq Nat  BY DEF CrlAssumption
  <1>1. UNCHANGED <<now, ready, mutex, file, flock, task, acked>> /\ asks' \in Nat
    <2>1. CASE Ask(s)  BY <2>1 DEF Ask, TypeOK, disk, tables
    <2>2. CASE AskForCrl(s)  BY <2>2 DEF AskForCrl, TypeOK, disk, tables
    <2>3. ASSUME NEW when \in 0 .. MaxTime, Record(s, when)
          PROVE  UNCHANGED <<now, ready, mutex, file, flock, task, acked>> /\ asks' \in Nat
      BY <2>3 DEF Record, TypeOK, disk, tables
    <2> QED  BY <2>1, <2>2, <2>3
  <1>2. TasksOK' /\ ProcessOK' /\ now' \in Nat /\ asks' \in Nat
    BY <1>1 DEF TypeOK, TasksOK, ProcessOK
  <1>3. TablesOK'
    BY <1>0, <1>1 DEF Ask, AskForCrl, Record, TypeOK, TablesOK, tables, Inserted, Stamped
  <1>4. /\ <<"record", s, now>> \in {"record", "ask"} \X Serial \X Nat
        /\ <<"ask", s, 0>> \in {"record", "ask"} \X Serial \X Nat
    BY DEF TypeOK
  <1>5. req' \subseteq req \cup {<<"record", s, now>>, <<"ask", s, 0>>}
    BY DEF Ask, AskForCrl, Record
  <1>6. QueueOK'
    BY <1>4, <1>5 DEF Ask, AskForCrl, Record, TypeOK, QueueOK
  <1> QED  BY <1>2, <1>3, <1>6 DEF TypeOK

\* What a step makes of its task.
LEMMA StepTasks ==
    ASSUME CrlAssumption, TypeOK, NEW t \in Task, Step(t) \/ ExportFails(t) \/ Fail(t)
    PROVE  TasksOK'
  <1> DEFINE me == task[t]
  <1>0. /\ me \in TaskState
        /\ me.job = "revoke" => me.serial \in Serial
        /\ now \in Nat /\ crl \in Crl /\ rows \in SUBSET Serial
    BY DEF TypeOK, TasksOK, TablesOK
  <1>a. ASSUME NEW x \in TaskState, x.job = me.job, x.serial = me.serial, Becomes(t, x)
        PROVE  TasksOK'
    BY <1>0, <1>a, OneTask DEF TypeOK
  <1>b. ASSUME Becomes(t, Idle) PROVE TasksOK'
    BY <1>b, IdleTyped, OneTask DEF TypeOK
  <1>c. ASSUME NEW pc \in PC, Goto(t, pc) PROVE TasksOK'
    BY <1>0, <1>a, <1>c DEF Goto, TaskState
  <1>d. ASSUME NEW pc \in PC, NEW n \in Nat, NEW c \in Int, NEW u \in Int,
               Becomes(t, [me EXCEPT !.pc = pc, !.at = n, !.cut = c, !.upto = u])
        PROVE  TasksOK'
    <2>1. [me EXCEPT !.pc = pc, !.at = n, !.cut = c, !.upto = u] \in TaskState
      BY <1>0 DEF TaskState
    <2> QED  BY <1>0, <1>a, <1>d, <2>1 DEF TaskState
  <1>1. CASE EnsureInitialized(t)
    <2>1. CASE Begin(t)
      <3> DEFINE n == IF me.job = "refresh" THEN now ELSE me.at
      <3>1. n \in Nat /\ Becomes(t, [me EXCEPT !.pc = "begin", !.at = n])
        BY <1>0, <2>1 DEF Begin, TaskState
      <3>2. [me EXCEPT !.pc = "begin", !.at = n] \in TaskState
        BY <1>0, <3>1 DEF TaskState, PC
      <3> QED  BY <1>0, <1>a, <3>1, <3>2 DEF TaskState
    <2>2. CASE Goto(t, "first")  BY <1>c, <2>2 DEF PC
    <2> QED  BY <1>1, <2>1, <2>2 DEF EnsureInitialized
  <1>2. CASE FirstSign(t)  BY <1>0, <1>a, <1>2 DEF FirstSign, TaskState, PC
  <1>3. CASE InsertInitial(t)  BY <1>0, <1>a, <1>3 DEF InsertInitial, TaskState, PC
  <1>4. CASE RecordRevocation(t)  BY <1>0, <1>a, <1>4 DEF RecordRevocation, TaskState, PC
  <1>5. CASE ReadBounds(t)
    <2>1. Earlier(me.at - Skew, ThisUpdate(crl)) \in Int /\ ThisUpdate(crl) + Skew \in Int
      BY <1>0 DEF Earlier, ThisUpdate, CrlAssumption, Crl, TaskState
    <2>2. \E pc \in PC : Becomes(t, [me EXCEPT !.pc = pc, !.at = 0,
                              !.cut = Earlier(me.at - Skew, ThisUpdate(crl)),
                              !.upto = ThisUpdate(crl) + Skew])
      BY <1>5 DEF ReadBounds, PC
    <2> QED  BY <1>d, <2>1, <2>2
  <1>6. CASE CountExpired(t)  BY <1>c, <1>6 DEF CountExpired, PC
  <1>7. CASE CheckListed(t)  BY <1>0, <1>a, <1>c, <1>7 DEF CheckListed, TaskState, PC
  <1>8. CASE Lock(t)  BY <1>0, <1>a, <1>8 DEF Lock, CrlAssumption, TaskState, PC
  <1>9. CASE PruneExpired(t)
    <2>0. "snapshot" \in PC /\ 0 \in Int  BY DEF PC
    <2>1. [me EXCEPT !.pc = "snapshot", !.cut = 0, !.upto = 0] \in TaskState
      BY <1>0, <2>0 DEF TaskState
    <2> QED  BY <1>0, <1>a, <1>9, <2>1 DEF PruneExpired, TaskState
  <1>10. CASE Snapshot(t)  BY <1>0, <1>a, <1>c, <1>10 DEF Snapshot, Crl, TaskState, PC
  <1>11. CASE Sign(t)  BY <1>0, <1>a, <1>11 DEF Sign, TaskState, PC
  <1>12. CASE ReplaceIfNumber(t)
    <2>1. ASSUME NEW pc \in PC, NEW tries \in Nat, Spent(t, pc, tries) PROVE TasksOK'
      <3>1. [me EXCEPT !.pc = pc, !.tries = tries, !.ret = "end", !.number = 0, !.rows = {},
                       !.built = 0] \in TaskState
        BY <1>0, <2>1 DEF TaskState
      <3> QED  BY <1>0, <1>a, <2>1, <3>1 DEF Spent, TaskState
    <2>2. me.tries > 1 => me.tries - 1 \in Nat  BY <1>0 DEF TaskState
    <2> QED  BY <2>1, <2>2, <1>12 DEF ReplaceIfNumber, PC
  <1>13. CASE ExportRead(t)  BY <1>0, <1>a, <1>13 DEF ExportRead, Crl, TaskState, PC
  <1>14. CASE ExportWrite(t)  BY <1>0, <1>a, <1>b, <1>14 DEF ExportWrite, Exported, TaskState, PC
  <1>15. CASE ExportFails(t)  BY <1>0, <1>a, <1>b, <1>15 DEF ExportFails, Exported, TaskState, PC
  <1>16. CASE End(t)
    <2>1. CASE me.job = "refresh"  BY <1>b, <1>16, <2>1 DEF End
    <2>2. CASE me.job = "revoke"
      <3>1. [me EXCEPT !.pc = "stamp", !.tries = 0] \in TaskState  BY <1>0 DEF TaskState, PC
      <3>2. Becomes(t, [me EXCEPT !.pc = "stamp", !.tries = 0])  BY <1>16, <2>2 DEF End
      <3> QED  BY <1>0, <1>a, <3>1, <3>2 DEF TaskState
    <2>3. CASE me.job \notin {"refresh", "revoke"}
      <3> DEFINE pc == IF me.passes + 1 = MaxPasses THEN "retry" ELSE "init"
      <3>0. me.passes + 1 \in Nat /\ pc \in PC  BY <1>0 DEF TaskState, PC
      <3>1. [me EXCEPT !.passes = @ + 1, !.tries = 0, !.pc = pc] \in TaskState
        <4> HIDE DEF pc
        <4> QED  BY <1>0, <3>0 DEF TaskState
      <3>2. Becomes(t, [me EXCEPT !.passes = @ + 1, !.tries = 0, !.pc = pc])
        BY <1>16, <2>3 DEF End
      <3> QED  BY <1>0, <1>a, <3>1, <3>2 DEF TaskState
    <2> QED  BY <2>1, <2>2, <2>3
  <1>17. CASE Stamp(t)  BY <1>b, <1>17 DEF Stamp
  <1>18. CASE Settle(t)  BY <1>b, <1>18 DEF Settle
  <1>19. CASE Fail(t)
    <2>1. [Idle EXCEPT !.pc = "retry", !.job = "republish"] \in TaskState
      BY IdleTyped DEF TaskState, PC
    <2>2. ASSUME Becomes(t, [Idle EXCEPT !.pc = "retry", !.job = "republish"]) PROVE TasksOK'
      BY <2>1, <2>2, OneTask DEF TypeOK, Idle
    <2> QED  BY <1>19, <1>b, <2>2 DEF Fail
  <1> QED
    BY <1>1, <1>2, <1>3, <1>4, <1>5, <1>6, <1>7, <1>8, <1>9, <1>10,
       <1>11, <1>12, <1>13, <1>14, <1>15, <1>16, <1>17, <1>18, <1>19 DEF Step

\* What a step does besides.
LEMMA StepShared ==
    ASSUME CrlAssumption, TypeOK, NEW t \in Task, Step(t) \/ ExportFails(t) \/ Fail(t)
    PROVE  TablesOK' /\ QueueOK' /\ ProcessOK' /\ now' \in Nat /\ asks' \in Nat
  <1>0. /\ TablesOK /\ QueueOK /\ ProcessOK /\ now \in Nat /\ asks \in Nat
        /\ task[t] \in TaskState
        /\ task[t].job = "revoke" => task[t].serial \in Serial
    BY DEF TypeOK, TasksOK
  <1>1. ASSUME UNCHANGED tables, UNCHANGED acked PROVE TablesOK'
    BY <1>0, <1>1 DEF TablesOK, tables
  <1>2. ASSUME UNCHANGED door PROVE QueueOK'
    BY <1>0, <1>2 DEF QueueOK, door
  <1>3. ASSUME ready' \subseteq ready \cup {Home[t]}, mutex' \in [Instance -> Task \cup {NoTask}],
               file' \in Nat, flock' \in Task \cup {NoTask}
        PROVE  ProcessOK'
    BY <1>0, <1>3 DEF ProcessOK, CrlAssumption
  <1>4. Unlocked(t) \in [Instance -> Task \cup {NoTask}] /\ Unflocked(t) \in Task \cup {NoTask}
    BY <1>0 DEF Unlocked, Unflocked, ProcessOK, CrlAssumption
  <1>5. now' \in Nat /\ asks' \in Nat
    BY <1>0 DEF Step, EnsureInitialized, FirstSign, InsertInitial, RecordRevocation, ReadBounds,
                CountExpired, CheckListed, Lock, PruneExpired, Snapshot, Sign, ReplaceIfNumber,
                ExportRead, ExportWrite, ExportFails, End, Stamp, Settle, Fail
  <1>6. ProcessOK'
    <2>1. CASE EnsureInitialized(t)
      BY <1>0, <1>3, <2>1 DEF EnsureInitialized, ProcessOK, disk
    <2>2. CASE Lock(t)
      BY <1>0, <1>3, <2>2 DEF Lock, ProcessOK, disk, CrlAssumption
    <2>3. CASE ExportRead(t)
      BY <1>0, <1>3, <2>3 DEF ExportRead, ProcessOK
    <2>4. CASE ExportWrite(t) \/ ExportFails(t)
      BY <1>0, <1>3, <1>4, <2>4 DEF ExportWrite, ExportFails, Exported, ProcessOK, TaskState
    <2>5. CASE End(t) \/ Fail(t)
      BY <1>0, <1>3, <1>4, <2>5 DEF End, Fail, ProcessOK, disk
    <2>6. CASE UNCHANGED <<ready, mutex, disk>>
      BY <1>0, <1>3, <2>6 DEF ProcessOK, disk
    <2> QED
      BY <2>1, <2>2, <2>3, <2>4, <2>5, <2>6 DEF Step, FirstSign, InsertInitial, RecordRevocation,
         ReadBounds, CountExpired, CheckListed, PruneExpired, Snapshot, Sign, ReplaceIfNumber,
         Stamp, Settle
  <1>7. QueueOK'
    <2>1. CASE Settle(t)
      <3>1. CASE UNCHANGED regen  BY <1>2, <2>1, <3>1 DEF Settle, door
      <3>2. ASSUME NEW live \in BOOLEAN, regen' = [live |-> live, by |-> NoTask] PROVE QueueOK'
        BY <1>0, <2>1, <3>2 DEF Settle, QueueOK
      <3> QED  BY <2>1, <3>1, <3>2 DEF Settle
    <2>2. CASE UNCHANGED door
      BY <1>2, <2>2
    <2> QED
      BY <2>1, <2>2 DEF Step, EnsureInitialized, Begin, FirstSign, InsertInitial, RecordRevocation,
         ReadBounds, CountExpired, CheckListed, Lock, PruneExpired, Snapshot, Sign,
         ReplaceIfNumber, ExportRead, ExportWrite, ExportFails, End, Stamp, Fail
  <1>8. TablesOK'
    <2>1. CASE InsertInitial(t)
      BY <1>0, <2>1 DEF InsertInitial, TablesOK, Crl, CrlAssumption, TaskState
    <2>2. CASE RecordRevocation(t)
      BY <1>0, <2>2 DEF RecordRevocation, Inserted, Stamped, TablesOK, TaskState
    <2>3. CASE PruneExpired(t)
      BY <1>0, <2>3 DEF PruneExpired, TablesOK
    <2>4. CASE ReplaceIfNumber(t)
      BY <1>0, <2>4 DEF ReplaceIfNumber, TablesOK, Crl, TaskState
    <2>5. CASE End(t) \/ Stamp(t)
      <3>1. t \in Task /\ (End(t) /\ task[t].job = "revoke" => task[t].serial \in Serial)
        BY <1>0
      <3>2. Stamp(t) => task[t].serial \in Serial
        BY <1>0 DEF Stamp, TypeOK
      <3> QED  BY <1>0, <2>5, <3>1, <3>2 DEF End, Stamp, TablesOK, tables
    <2>6. CASE UNCHANGED <<tables, acked>>
      BY <1>1, <2>6
    <2> QED
      BY <2>1, <2>2, <2>3, <2>4, <2>5, <2>6 DEF Step, EnsureInitialized, FirstSign, ReadBounds,
         CountExpired, CheckListed, Lock, Snapshot, Sign, ExportRead, ExportWrite, ExportFails,
         Settle, Fail
  <1> QED  BY <1>5, <1>6, <1>7, <1>8

\* Every step keeps the types.
LEMMA NextTyped == ASSUME CrlAssumption, TypeOK, [Next]_vars PROVE TypeOK'
  <1> USE DEF TypeOK
  <1>1. CASE UNCHANGED vars
    BY <1>1 DEF vars, tables, door, disk, TasksOK, TablesOK, QueueOK, ProcessOK
  <1>2. ASSUME NEW s \in Serial,
               Ask(s) \/ AskForCrl(s) \/ \E when \in 0 .. MaxTime : Record(s, when)
        PROVE  TypeOK'
    BY <1>2, RouteTyped
  <1>3. CASE Dropped \/ SeedSweep \/ LoseSweep
    BY <1>3 DEF Dropped, SeedSweep, LoseSweep, tables, disk, TasksOK, TablesOK, QueueOK, ProcessOK
  <1>4. ASSUME NEW t \in Task, Refreshes(t) \/ StartRegenerate(t) PROVE TypeOK'
    <2>1. ASSUME NEW job \in {"refresh", "republish"},
                 Becomes(t, [Idle EXCEPT !.pc = "init", !.job = job])
          PROVE  TasksOK'
      <3>1. [Idle EXCEPT !.pc = "init", !.job = job] \in TaskState
        BY IdleTyped DEF TaskState, PC
      <3>2. [Idle EXCEPT !.pc = "init", !.job = job].job # "revoke"
        BY DEF Idle
      <3> QED  BY <2>1, <3>1, <3>2, OneTask
    <2>2. TasksOK'  BY <1>4, <2>1 DEF Refreshes, StartRegenerate
    <2>3. QueueOK'
      BY <1>4 DEF Refreshes, StartRegenerate, QueueOK, door
    <2> QED
      BY <1>4, <2>2, <2>3 DEF Refreshes, StartRegenerate, tables, disk, TablesOK, ProcessOK
  <1>5. ASSUME NEW t \in Task, NEW s \in Serial, StartRevoke(t, s) PROVE TypeOK'
    <2> DEFINE x == [Idle EXCEPT !.pc = "init", !.job = "revoke", !.serial = s, !.at = now]
    <2>1. x \in TaskState /\ x.serial \in Serial
      BY IdleTyped DEF Idle, TaskState, PC
    <2>2. TasksOK'  BY <1>5, <2>1, OneTask DEF StartRevoke
    <2> QED
      BY <1>5, <2>2 DEF StartRevoke, tables, door, disk, TablesOK, QueueOK, ProcessOK
  <1>6. ASSUME NEW t \in Task, Step(t) \/ ExportFails(t) \/ Fail(t) PROVE TypeOK'
    BY <1>6, StepTasks, StepShared
  <1>7. ASSUME NEW i \in Instance, Crash(i) PROVE TypeOK'
    <2>1. TasksOK'
      BY <1>7, IdleTyped DEF Crash, TasksOK
    <2>2. ProcessOK'
      BY <1>7 DEF Crash, ProcessOK
    <2> QED  BY <1>7, <2>1, <2>2 DEF Crash, tables, door, TablesOK, QueueOK
  <1>8. CASE Lapse \/ Tick
    BY <1>8 DEF Lapse, Tick, tables, door, disk, TasksOK, TablesOK, QueueOK, ProcessOK
  <1> QED  BY <1>1, <1>2, <1>3, <1>4, <1>5, <1>6, <1>7, <1>8 DEF Next, StartRefresh, StoreFirstCrls

\* Every table, row, lock and task of the CRL code stays in its type.
THEOREM TypeCorrect == Spec => []TypeOK
  <1>1. Init => TypeOK  BY CrlAssumption, InitTyped
  <1>2. TypeOK /\ [Next]_vars => TypeOK'  BY CrlAssumption, NextTyped
  <1> QED  BY <1>1, <1>2, PTL DEF Spec

-----------------------------------------------------------------------------
(* The inductive invariant.                                                 *)

\* What every step does to the tables: time and the CRL only advance, and no
\* serial leaves the ledger or the CRL unless it has lapsed.
Advances ==
    /\ now <= now'
    /\ crl' = crl \/ crl.number < crl'.number
    /\ crl.built <= crl'.built
    /\ \A s \in Serial : Kept(s) => Kept(s)'
    /\ \A s \in Serial : Shown(s) => Shown(s)'

\* Lapsed only grows with the moment a CRL was built.
LEMMA LapsedGrows ==
    ASSUME CrlAssumption, TypeOK, TypeOK', crl.built <= crl'.built,
           NEW s \in Serial, Lapsed(s, crl)
    PROVE  Lapsed(s, crl')
  BY DEF CrlAssumption, TypeOK, TablesOK, Crl, Lapsed, ThisUpdate

\* A step that stores no CRL and deletes no row.
LEMMA QuietAdvances ==
    ASSUME CrlAssumption, TypeOK, now' \in Nat, now <= now', crl' = crl, rows \subseteq rows'
    PROVE  Advances
  BY DEF CrlAssumption, TypeOK, TablesOK, Crl, Advances, Kept, Shown

\* A task that stays as it is loses nothing it knows to an advance.
LEMMA Untouched ==
    ASSUME CrlAssumption, TypeOK, TypeOK', NEW t \in Task, TaskInv(t), Advances,
           task'[t] = task[t]
    PROVE  TaskInv(t)'
  <1> DEFINE me == task[t]
  <1>0. /\ me \in TaskState /\ now \in Nat /\ now' \in Nat /\ crl \in Crl /\ crl' \in Crl
        /\ me.job = "revoke" => me.serial \in Serial
        /\ me.rows \subseteq Serial
    BY DEF TypeOK, TasksOK, TablesOK, TaskState
  <1>1. \A s \in Serial : Lapsed(s, crl) => Lapsed(s, crl')
    BY LapsedGrows DEF Advances
  <1>2. crl.number <= crl'.number /\ ThisUpdate(crl) <= ThisUpdate(crl')
    BY <1>0 DEF Advances, ThisUpdate, Crl, CrlAssumption
  <1>3. /\ Past(t)' => crl'.number > 0
        /\ me.built <= now'
        /\ me.pc \in {"count", "check", "prune"} => me.job = "refresh"
    BY <1>0, <1>2 DEF TaskInv, Past, Advances, TaskState, Crl
  <1>4. me.pc \in {"count", "check", "lock", "prune"} /\ me.job = "refresh"
          => me.cut <= ThisUpdate(crl')
    BY <1>0, <1>2 DEF TaskInv, TaskState, ThisUpdate, Crl, CrlAssumption
  <1>5. me.pc \in {"sign", "store"} =>
          /\ me.number <= crl'.number
          /\ \A s \in me.rows : Kept(s)'
    BY <1>0, <1>2 DEF TaskInv, Advances, TaskState, Crl
  <1>6. me.pc \in {"sign", "store"} /\ me.number = crl'.number => crl' = crl
    BY <1>0, <1>2 DEF TaskInv, Advances, TaskState, Crl
  <1>7. me.pc \in {"sign", "store"} /\ me.number = crl'.number =>
          \A s \in crl'.lists \ me.rows : Lapsed(s, crl')
    BY <1>6 DEF TaskInv
  <1>8. me.pc = "store" /\ me.number = crl'.number => crl'.built <= me.built
    BY <1>6 DEF TaskInv
  <1>9. me.job = "revoke" =>
          /\ me.pc \in {"lock", "snapshot", "stamp"} => Kept(me.serial)'
          /\ me.pc \in {"sign", "store"} =>
                /\ Kept(me.serial)'
                /\ me.serial \in me.rows \/ Lapsed(me.serial, crl')
          /\ Published(t)' => Kept(me.serial)' /\ Shown(me.serial)'
    BY <1>0, <1>1 DEF TaskInv, Advances, Published
  <1> QED  BY <1>3, <1>4, <1>5, <1>7, <1>8, <1>9 DEF TaskInv

\* An idle task relies on nothing.
LEMMA IdleHolds ==
    ASSUME TypeOK', NEW t \in Task, task'[t] = Idle
    PROVE  TaskInv(t)'
  BY DEF TypeOK, TaskInv, Past, Published, Idle

\* A step that stores no CRL and deletes no row.
Quiet == now <= now' /\ crl' = crl /\ rows \subseteq rows'

\* Only three actions store a CRL or delete a row.
LEMMA Steps ==
    ASSUME CrlAssumption, TypeOK, [Next]_vars
    PROVE  \/ Quiet
           \/ \E t \in Task : InsertInitial(t) \/ PruneExpired(t) \/ ReplaceIfNumber(t)
  <1>0. now \in Nat  BY DEF TypeOK
  <1>1. ASSUME UNCHANGED <<now, crl>>, rows \subseteq rows' PROVE Quiet
    BY <1>0, <1>1 DEF Quiet
  <1>2. ASSUME NEW t \in Task, Step(t)
        PROVE  Quiet \/ InsertInitial(t) \/ PruneExpired(t) \/ ReplaceIfNumber(t)
    BY <1>1, <1>2 DEF Step, EnsureInitialized, FirstSign, RecordRevocation, Inserted, ReadBounds,
       CountExpired, CheckListed, Lock, Snapshot, Sign, ExportRead, ExportWrite, End, Stamp,
       Settle, tables
  <1>3. ASSUME NEW t \in Task,
               \/ Refreshes(t) \/ StartRegenerate(t) \/ ExportFails(t) \/ Fail(t)
               \/ \E s \in Serial : StartRevoke(t, s)
        PROVE  Quiet
    BY <1>1, <1>3 DEF Refreshes, StartRegenerate, StartRevoke, ExportFails, Fail, tables
  <1>4. ASSUME NEW s \in Serial,
               Ask(s) \/ AskForCrl(s) \/ \E when \in 0 .. MaxTime : Record(s, when)
        PROVE  Quiet
    BY <1>1, <1>4 DEF Ask, AskForCrl, Record, Inserted, tables
  <1>5. CASE Dropped \/ SeedSweep \/ LoseSweep \/ Lapse \/ \E i \in Instance : Crash(i)
    BY <1>1, <1>5 DEF Dropped, SeedSweep, LoseSweep, Lapse, Crash, tables
  <1>6. CASE Tick  BY <1>0, <1>6 DEF Tick, Quiet, tables
  <1>7. CASE UNCHANGED vars  BY <1>1, <1>7 DEF vars, tables
  <1> QED  BY <1>2, <1>3, <1>4, <1>5, <1>6, <1>7 DEF Next, StartRefresh, StoreFirstCrls

\* Every step advances.
LEMMA NextAdvances ==
    ASSUME CrlAssumption, TypeOK, TypeOK', CrlInv, [Next]_vars
    PROVE  Advances
  <1>0. /\ now \in Nat /\ now' \in Nat /\ crl \in Crl /\ crl' \in Crl
        /\ rows \subseteq Serial /\ SidecarNumber \in Nat
    BY DEF TypeOK, TablesOK, CrlAssumption
  <1>1. CASE Quiet
    BY <1>0, <1>1, QuietAdvances DEF Quiet
  <1>2. ASSUME NEW t \in Task, InsertInitial(t) PROVE Advances
    <2>1. CASE crl.number > 0
      <3>1. crl' = crl /\ rows' = rows /\ now' = now
        BY <1>0, <1>2, <2>1 DEF InsertInitial, Crl
      <3> QED  BY <1>0, <3>1, QuietAdvances
    <2>2. CASE crl.number = 0
      <3>1. /\ crl = NoCrl /\ now' = now /\ rows \subseteq rows'
            /\ crl'.number = SidecarNumber + 1 /\ crl'.built = task[t].built
        BY <1>0, <1>2, <2>2 DEF InsertInitial, CrlInv
      <3>2. crl.built = 0 /\ crl.lists = {} /\ crl.number < crl'.number
        BY <1>0, <2>2, <3>1 DEF NoCrl
      <3>3. crl.built <= crl'.built
        BY <1>0, <3>2 DEF Crl
      <3>4. \A s \in Serial : Lapsed(s, crl) => Lapsed(s, crl')
        BY <3>3, LapsedGrows
      <3> QED  BY <1>0, <3>1, <3>2, <3>3, <3>4 DEF Advances, Kept, Shown
    <2> QED  BY <1>0, <2>1, <2>2 DEF Crl
  <1>3. ASSUME NEW t \in Task, PruneExpired(t) PROVE Advances
    <2>1. TaskInv(t) /\ task[t] \in TaskState
      BY DEF CrlInv, TypeOK, TasksOK
    <2>2. task[t].cut <= ThisUpdate(crl)
      BY <1>3, <2>1 DEF TaskInv, PruneExpired
    <2>3. \A s \in rows \ rows' : Lapsed(s, crl)
      BY <1>0, <1>3, <2>1, <2>2 DEF PruneExpired, Prunable, Lapsed, ThisUpdate, TaskState, Crl,
                              CrlAssumption
    <2>4. now' = now /\ crl' = crl
      BY <1>3 DEF PruneExpired
    <2> QED  BY <1>0, <2>3, <2>4 DEF Advances, Kept, Shown, Crl
  <1>4. ASSUME NEW t \in Task, ReplaceIfNumber(t) PROVE Advances
    <2>0. TaskInv(t) /\ task[t] \in TaskState /\ now' = now /\ rows' = rows
      BY <1>4 DEF CrlInv, TypeOK, TasksOK, ReplaceIfNumber
    <2>1. CASE crl' = crl
      BY <1>0, <2>0, <2>1, QuietAdvances
    <2>2. CASE /\ crl.number = task[t].number
               /\ crl' = [number |-> crl.number + 1, lists |-> task[t].rows, built |-> task[t].built]
      <3>1. /\ crl.built <= task[t].built
            /\ \A s \in crl.lists \ task[t].rows : Lapsed(s, crl)
        BY <1>4, <2>0, <2>2 DEF TaskInv, ReplaceIfNumber
      <3>2. crl.built <= crl'.built /\ crl.number < crl'.number
        BY <1>0, <2>2, <3>1 DEF Crl
      <3>3. \A s \in Serial : Lapsed(s, crl) => Lapsed(s, crl')
        BY <3>2, LapsedGrows
      <3>4. crl.lists \subseteq Serial /\ crl'.lists = task[t].rows
        BY <1>0, <2>2 DEF Crl
      <3> QED  BY <1>0, <2>0, <3>1, <3>2, <3>3, <3>4 DEF Advances, Kept, Shown
    <2> QED  BY <1>4, <2>1, <2>2 DEF ReplaceIfNumber
  <1> QED  BY <1>1, <1>2, <1>3, <1>4, Steps

\* The stored CRL is no younger than the clock and lists what is recorded.
StoredInv ==
    /\ crl.number = 0 => crl = NoCrl /\ ready = {}
    /\ crl.built <= now
    /\ \A s \in crl.lists : Kept(s)

\* An instance is initialised once a CRL is stored.
LEMMA ReadyGrows ==
    ASSUME TypeOK, [Next]_vars, ~(crl.number > 0)
    PROVE  ready' \subseteq ready
  <1>1. ASSUME NEW t \in Task, EnsureInitialized(t), Home[t] \notin ready PROVE ready' = ready
    BY <1>1 DEF EnsureInitialized, Begin
  <1>2. ASSUME NEW t \in Task, EnsureInitialized(t) PROVE ready' \subseteq ready
    BY <1>1, <1>2 DEF EnsureInitialized
  <1>3. ASSUME NEW t \in Task, Step(t) PROVE ready' \subseteq ready
    BY <1>2, <1>3 DEF Step, FirstSign, InsertInitial, RecordRevocation, ReadBounds, CountExpired,
       CheckListed, Lock, PruneExpired, Snapshot, Sign, ReplaceIfNumber, ExportRead, ExportWrite,
       End, Stamp, Settle
  <1>4. CASE ~\E t \in Task : Step(t)
    BY <1>4 DEF Next, Ask, AskForCrl, Record, Dropped, SeedSweep, LoseSweep, StartRefresh,
       StoreFirstCrls, Refreshes, StartRegenerate, StartRevoke, ExportFails, Fail, Crash, Lapse, Tick, vars
  <1> QED  BY <1>3, <1>4

\* Every step keeps the stored CRL within the ledger.
LEMMA StoredHolds ==
    ASSUME CrlAssumption, TypeOK, TypeOK', CrlInv, [Next]_vars
    PROVE  StoredInv'
  <1>0. /\ now \in Nat /\ now' \in Nat /\ crl \in Crl /\ crl' \in Crl
        /\ SidecarNumber \in Nat /\ Advances
    BY NextAdvances DEF TypeOK, TablesOK, CrlAssumption
  <1>1. CASE crl' = crl
    <2>1. \A s \in crl'.lists : Kept(s)'
      BY <1>0, <1>1 DEF CrlInv, Advances, Crl
    <2>2. crl.number = 0 => ready' \subseteq ready
      BY <1>0, ReadyGrows DEF Crl
    <2> QED  BY <1>0, <1>1, <2>1, <2>2 DEF CrlInv, Advances, StoredInv, Crl
  <1>2. ASSUME NEW t \in Task, InsertInitial(t), crl' # crl PROVE StoredInv'
    <2>1. TaskInv(t) /\ now' = now
      BY <1>2 DEF CrlInv, InsertInitial
    <2>2. /\ crl'.number = SidecarNumber + 1 /\ crl'.lists = Sidecar
          /\ crl'.built = task[t].built /\ rows' = rows \cup Sidecar
      BY <1>2 DEF InsertInitial
    <2> QED  BY <1>0, <2>1, <2>2 DEF StoredInv, TaskInv, Kept
  <1>3. ASSUME NEW t \in Task, ReplaceIfNumber(t), crl' # crl PROVE StoredInv'
    <2>1. TaskInv(t) /\ now' = now /\ task[t] \in TaskState
      BY <1>3 DEF CrlInv, ReplaceIfNumber, TypeOK, TasksOK
    <2>2. /\ crl'.number = crl.number + 1 /\ crl'.lists = task[t].rows
          /\ crl'.built = task[t].built /\ task[t].pc = "store"
      BY <1>3 DEF ReplaceIfNumber
    <2>3. \A s \in task[t].rows : s \in Serial /\ Kept(s)
      BY <2>1, <2>2 DEF TaskInv, TaskState
    <2>4. \A s \in crl'.lists : Kept(s)'
      BY <1>0, <2>2, <2>3 DEF Advances
    <2>5. crl'.number # 0  BY <1>0, <2>2 DEF Crl
    <2>6. crl'.built <= now'  BY <2>1, <2>2 DEF TaskInv
    <2> QED  BY <2>4, <2>5, <2>6 DEF StoredInv
  <1>4. ASSUME NEW t \in Task, PruneExpired(t) PROVE crl' = crl
    BY <1>4 DEF PruneExpired
  <1> QED  BY <1>1, <1>2, <1>3, <1>4, Steps DEF Quiet

\* A step leaves its own task with what the next one relies on.
LEMMA StepHolds ==
    ASSUME CrlAssumption, TypeOK, TypeOK', CrlInv, Advances, NEW t \in Task,
           Step(t) \/ ExportFails(t) \/ Fail(t)
    PROVE  TaskInv(t)'
  <1> DEFINE me == task[t]
             it == task'[t]
  <1>0. /\ me \in TaskState /\ TaskInv(t)
        /\ now \in Nat /\ crl \in Crl /\ crl' \in Crl /\ rows \subseteq Serial
        /\ me.job = "revoke" => me.serial \in Serial
    BY DEF TypeOK, TasksOK, TablesOK, CrlInv
  <1>a. ASSUME NEW x, Becomes(t, x) PROVE it = x
    BY <1>a DEF Becomes, TypeOK, TasksOK
  <1>b. ASSUME Becomes(t, Idle) PROVE TaskInv(t)'
    BY <1>a, <1>b, IdleHolds
  <1>c. ASSUME UNCHANGED <<rows, crl>> PROVE \A s : Kept(s) = Kept(s)' /\ Shown(s) = Shown(s)'
    BY <1>c DEF Kept, Shown
  <1>s. PICK k : k = me.serial  OBVIOUS
  <1>d. ASSUME it.pc \in {"init", "first", "insert", "done", "retry"}, it.built <= now'
        PROVE  TaskInv(t)'
    BY <1>d DEF TaskInv, Past, Published
  <1>e. ASSUME it.pc = "begin" \/ (it.pc \in {"export", "write"} /\ it.ret # "end"),
               it.built <= now', crl'.number > 0
        PROVE  TaskInv(t)'
    BY <1>e DEF TaskInv, Past, Published
  <1>1. CASE EnsureInitialized(t)
    <2>1. /\ me.built <= now'
          /\ UNCHANGED <<crl, now>>
      BY <1>0, <1>1 DEF EnsureInitialized, Begin, TaskInv, tables
    <2>2. CASE Begin(t) /\ crl.number > 0
      <3>1. \E n : it = [me EXCEPT !.pc = "begin", !.at = n]  BY <1>a, <2>2 DEF Begin
      <3>2. it.pc = "begin" /\ it.built = me.built  BY <1>0, <3>1 DEF TaskState
      <3> QED  BY <1>e, <2>1, <2>2, <3>2
    <2>3. CASE Goto(t, "first")
      <3>1. it = [me EXCEPT !.pc = "first"]  BY <1>a, <2>3 DEF Goto
      <3>2. it.pc = "first" /\ it.built = me.built  BY <1>0, <3>1 DEF TaskState
      <3> QED  BY <1>d, <2>1, <3>2
    <2>4. Home[t] \in ready => crl.number > 0
      BY <1>0 DEF CrlInv, Crl
    <2> QED  BY <1>1, <2>2, <2>3, <2>4 DEF EnsureInitialized
  <1>2. CASE FirstSign(t)
    <2>1. it = [me EXCEPT !.pc = "insert", !.built = now] /\ now' = now
      BY <1>2, <1>a DEF FirstSign
    <2>2. it.pc = "insert" /\ it.built = now  BY <1>0, <2>1 DEF TaskState
    <2> QED  BY <1>0, <1>d, <2>1, <2>2
  <1>3. CASE InsertInitial(t)
    <2>0. now' = now  BY <1>3 DEF InsertInitial
    <2>1. CASE crl.number = 0
      <3>1. /\ it = [me EXCEPT !.pc = "export", !.ret = "init", !.built = 0]
            /\ crl'.number = SidecarNumber + 1
        BY <1>3, <1>a, <2>1 DEF InsertInitial
      <3>2. it.pc = "export" /\ it.ret = "init" /\ it.built = 0  BY <1>0, <3>1 DEF TaskState
      <3>3. crl'.number > 0  BY <3>1 DEF CrlAssumption
      <3> QED  BY <1>0, <1>e, <2>0, <3>2, <3>3
    <2>2. CASE crl.number > 0
      <3>1. it = [me EXCEPT !.pc = "init", !.built = 0]
        BY <1>0, <1>3, <1>a, <2>2 DEF InsertInitial, Crl
      <3>2. it.pc = "init" /\ it.built = 0  BY <1>0, <3>1 DEF TaskState
      <3> QED  BY <1>0, <1>d, <2>0, <3>2
    <2> QED  BY <1>3, <2>1, <2>2 DEF InsertInitial
  <1>4. CASE RecordRevocation(t)
    <2>1. it = [me EXCEPT !.pc = "lock", !.at = 0]
      BY <1>4, <1>a DEF RecordRevocation
    <2>2. it.pc = "lock" /\ it.job = "revoke" /\ it.serial = me.serial /\ it.built = me.built
      BY <1>0, <1>4, <2>1 DEF TaskState, RecordRevocation
    <2>3. crl' = crl /\ now' = now /\ me.serial \in rows' /\ me.pc = "begin"
      BY <1>4 DEF RecordRevocation, Inserted
    <2>4. crl'.number > 0 /\ me.built <= now'
      BY <1>0, <2>3 DEF TaskInv, Past
    <2>5. Kept(k)'
      BY <1>s, <2>3 DEF Kept
    <2> QED  BY <1>s, <2>2, <2>4, <2>5 DEF TaskInv, Past, Published
  <1>5. CASE ReadBounds(t)
    <2>1. UNCHANGED <<now, crl>> /\ me.pc = "begin" /\ me.job = "refresh"
      BY <1>5 DEF ReadBounds, tables
    <2>2. /\ it.pc \in {"lock", "count"} /\ it.job = me.job /\ it.built = me.built
          /\ it.cut = Earlier(me.at - Skew, ThisUpdate(crl))
      BY <1>0, <1>5, <1>a DEF ReadBounds, TaskState
    <2>3. it.cut <= ThisUpdate(crl')
      BY <1>0, <2>1, <2>2 DEF Earlier, ThisUpdate, Crl, CrlAssumption, TaskState
    <2>4. crl'.number > 0 /\ it.built <= now'
      BY <1>0, <2>1, <2>2 DEF TaskInv, Past
    <2> QED  BY <2>1, <2>2, <2>3, <2>4 DEF TaskInv, Past, Published
  <1>6. CASE CountExpired(t)
    <2>1. UNCHANGED <<now, crl>> /\ me.pc = "count"
      BY <1>6 DEF CountExpired, tables
    <2>2. /\ it.pc \in {"lock", "check"} /\ it.job = me.job /\ it.built = me.built
          /\ it.cut = me.cut
      BY <1>0, <1>6, <1>a DEF CountExpired, Goto, TaskState
    <2>3. me.job = "refresh" /\ me.cut <= ThisUpdate(crl') /\ crl'.number > 0 /\ me.built <= now'
      BY <1>0, <2>1 DEF TaskInv, Past
    <2> QED  BY <2>2, <2>3 DEF TaskInv, Past, Published
  <1>7. CASE CheckListed(t)
    <2>1. UNCHANGED <<now, crl>> /\ me.pc \in {"check", "begin"}
      BY <1>7 DEF CheckListed, tables
    <2>2. /\ it.job = me.job /\ it.built = me.built /\ it.cut = me.cut
          /\ \/ it.pc = "export" /\ it.ret = "idle"
             \/ it.pc = "lock" /\ (me.pc = "check" \/ me.job = "republish")
             \/ it.pc = "done"
      BY <1>0, <1>7, <1>a DEF CheckListed, Goto, TaskState
    <2>3. /\ me.pc = "check" => me.job = "refresh" /\ me.cut <= ThisUpdate(crl')
          /\ crl'.number > 0 /\ me.built <= now'
      BY <1>0, <2>1 DEF TaskInv, Past
    <2>4. CASE it.pc = "lock"
      BY <2>2, <2>3, <2>4 DEF TaskInv, Past, Published
    <2> QED  BY <1>d, <1>e, <2>2, <2>3, <2>4
  <1>8. CASE Lock(t)
    <2>1. UNCHANGED <<now, rows, crl>> /\ me.pc = "lock"
      BY <1>8 DEF Lock, tables
    <2>2. /\ it.job = me.job /\ it.built = me.built /\ it.cut = me.cut /\ it.serial = me.serial
          /\ \/ it.pc = "prune" /\ me.job = "refresh"
             \/ it.pc = "snapshot" /\ me.job # "refresh"
      BY <1>0, <1>8, <1>a DEF Lock, TaskState
    <2>3. /\ me.job = "refresh" => me.cut <= ThisUpdate(crl')
          /\ crl'.number > 0 /\ me.built <= now'
          /\ me.job = "revoke" => Kept(k)
      BY <1>0, <1>s, <2>1 DEF TaskInv, Past
    <2>4. me.job = "revoke" => Kept(k)'
      BY <1>c, <2>1, <2>3
    <2> QED  BY <1>s, <2>2, <2>3, <2>4 DEF TaskInv, Past, Published
  <1>9. CASE PruneExpired(t)
    <2>1. UNCHANGED <<now, crl>> /\ me.pc = "prune"
      BY <1>9 DEF PruneExpired
    <2>2. it.job = me.job /\ it.built = me.built /\ it.pc = "snapshot"
      BY <1>0, <1>9, <1>a DEF PruneExpired, TaskState
    <2>3. me.job = "refresh" /\ crl'.number > 0 /\ me.built <= now'
      BY <1>0, <2>1 DEF TaskInv, Past
    <2> QED  BY <2>2, <2>3 DEF TaskInv, Past, Published
  <1>10. CASE Snapshot(t)
    <2>1. UNCHANGED <<now, rows, crl>> /\ me.pc = "snapshot"
      BY <1>10 DEF Snapshot, tables
    <2>2. /\ crl'.number > 0 /\ me.built <= now'
          /\ me.job = "revoke" => Kept(k)
      BY <1>0, <1>s, <2>1 DEF TaskInv, Past
    <2>3. me.job = "revoke" => Kept(k)'
      BY <1>c, <2>1, <2>2
    <2>4. CASE me.job = "revoke" /\ me.serial \in crl.lists /\ Goto(t, "end")
      <3>1. it.job = me.job /\ it.built = me.built /\ it.serial = me.serial /\ it.pc = "end"
        BY <1>0, <1>a, <2>4 DEF Goto, TaskState
      <3>2. Shown(k)'  BY <1>s, <2>1, <2>4 DEF Shown
      <3> QED  BY <1>s, <2>2, <2>3, <2>4, <3>1, <3>2 DEF TaskInv, Past, Published
    <2>5. CASE Becomes(t, [task[t] EXCEPT !.pc = "sign", !.number = crl.number, !.rows = rows])
      <3>1. /\ it.job = me.job /\ it.built = me.built /\ it.serial = me.serial /\ it.pc = "sign"
            /\ it.number = crl.number /\ it.rows = rows
        BY <1>0, <1>a, <2>5 DEF TaskState
      <3>2. \A s \in rows : Kept(s)'  BY <2>1 DEF Kept
      <3>3. \A s \in crl'.lists \ rows : Lapsed(s, crl')
        BY <2>1 DEF CrlInv, Kept
      <3>4. me.job = "revoke" => k \in rows \/ Lapsed(k, crl')
        BY <2>1, <2>2 DEF Kept
      <3>5. crl.number <= crl'.number  BY <1>0, <2>1 DEF Crl
      <3> QED  BY <1>s, <2>1, <2>2, <2>3, <3>1, <3>2, <3>3, <3>4, <3>5 DEF TaskInv, Past, Published
    <2> QED  BY <1>10, <2>4, <2>5 DEF Snapshot
  <1>11. CASE Sign(t)
    <2>1. UNCHANGED <<now, rows, crl>> /\ me.pc = "sign"
      BY <1>11 DEF Sign, tables
    <2>2. /\ it.job = me.job /\ it.built = now /\ it.serial = me.serial /\ it.pc = "store"
          /\ it.number = me.number /\ it.rows = me.rows
      BY <1>0, <1>11, <1>a DEF Sign, TaskState
    <2>3. /\ crl'.number > 0 /\ me.number <= crl'.number /\ crl'.built <= now /\ now <= now'
          /\ \A s \in me.rows : Kept(s)
          /\ me.number = crl'.number => \A s \in crl'.lists \ me.rows : Lapsed(s, crl')
          /\ me.job = "revoke" => Kept(k) /\ (k \in me.rows \/ Lapsed(k, crl'))
      BY <1>0, <1>s, <2>1 DEF TaskInv, Past, CrlInv
    <2>4. /\ \A s \in me.rows : Kept(s)'
          /\ me.job = "revoke" => Kept(k)'
      BY <1>c, <2>1, <2>3
    <2> QED  BY <1>s, <2>2, <2>3, <2>4 DEF TaskInv, Past, Published
  <1>12. CASE ReplaceIfNumber(t)
    <2>1. UNCHANGED <<now, rows>> /\ me.pc = "store"
      BY <1>12 DEF ReplaceIfNumber
    <2>2. /\ crl.number > 0
          /\ me.job = "revoke" => Kept(k) /\ k \in Serial /\ (k \in me.rows \/ Lapsed(k, crl))
      BY <1>0, <1>s, <2>1 DEF TaskInv, Past
    <2>3. me.job = "revoke" => Kept(k)'
      BY <2>2 DEF Advances
    <2>4. CASE /\ crl' = [number |-> crl.number + 1, lists |-> task[t].rows, built |-> task[t].built]
               /\ Spent(t, "export", 0)
      <3>1. /\ it.job = me.job /\ it.built = 0 /\ it.serial = me.serial /\ it.pc = "export"
            /\ it.ret = "end"
        BY <1>0, <1>a, <2>4 DEF Spent, TaskState
      <3>2. crl'.number > 0 /\ crl'.lists = me.rows
        BY <1>0, <2>2, <2>4 DEF Crl
      <3>3. me.job = "revoke" => k \in me.rows \/ Lapsed(k, crl')
        BY <2>2, LapsedGrows DEF Advances
      <3>4. me.job = "revoke" => Shown(k)'
        BY <3>2, <3>3 DEF Shown
      <3> QED  BY <1>0, <1>s, <2>1, <2>3, <3>1, <3>2, <3>4 DEF TaskInv, Past, Published
    <2>5. CASE crl' = crl /\ Spent(t, "snapshot", me.tries - 1)
      <3>1. it.job = me.job /\ it.built = 0 /\ it.serial = me.serial /\ it.pc = "snapshot"
        BY <1>0, <1>a, <2>5 DEF Spent, TaskState
      <3> QED  BY <1>0, <1>s, <2>1, <2>2, <2>3, <2>5, <3>1 DEF TaskInv, Past, Published
    <2> QED  BY <1>12, <2>4, <2>5 DEF ReplaceIfNumber
  <1>13. CASE ExportRead(t)
    <2>1. UNCHANGED <<now, rows, crl>> /\ me.pc = "export"
      BY <1>13 DEF ExportRead, tables
    <2>2. /\ it.job = me.job /\ it.built = me.built /\ it.serial = me.serial /\ it.pc = "write"
          /\ it.ret = me.ret
      BY <1>0, <1>13, <1>a DEF ExportRead, TaskState
    <2>3. /\ crl'.number > 0 /\ me.built <= now'
          /\ me.job = "revoke" /\ me.ret = "end" => Kept(k) /\ Shown(k)
      BY <1>0, <1>s, <2>1 DEF TaskInv, Past, Published
    <2>4. me.job = "revoke" /\ me.ret = "end" => Kept(k)' /\ Shown(k)'
      BY <1>c, <2>1, <2>3
    <2> QED  BY <1>s, <2>2, <2>3, <2>4 DEF TaskInv, Past, Published
  <1>14. CASE ExportWrite(t) \/ ExportFails(t)
    <2>1. UNCHANGED <<now, rows, crl>> /\ me.pc \in {"export", "write"}
      BY <1>14 DEF ExportWrite, ExportFails, tables
    <2>2. CASE me.ret = "idle"
      BY <1>14, <1>b, <2>2 DEF ExportWrite, ExportFails, Exported
    <2>3. CASE me.ret # "idle"
      <3>1. it = [me EXCEPT !.pc = me.ret, !.ret = "idle", !.number = 0]
        BY <1>14, <1>a, <2>3 DEF ExportWrite, ExportFails, Exported
      <3>2. /\ it.job = me.job /\ it.built = me.built /\ it.serial = me.serial /\ it.pc = me.ret
            /\ me.ret \in {"init", "end"}
        BY <1>0, <2>3, <3>1 DEF TaskState
      <3>3. /\ crl'.number > 0 /\ me.built <= now'
            /\ me.job = "revoke" /\ me.ret = "end" => Kept(k) /\ Shown(k)
        BY <1>0, <1>s, <2>1 DEF TaskInv, Past, Published
      <3>4. me.job = "revoke" /\ me.ret = "end" => Kept(k)' /\ Shown(k)'
        BY <1>c, <2>1, <3>3
      <3> QED  BY <1>s, <3>2, <3>3, <3>4 DEF TaskInv, Past, Published
    <2> QED  BY <2>2, <2>3
  <1>15. CASE End(t)
    <2>1. UNCHANGED <<now, rows, crl>> /\ me.pc = "end"
      BY <1>15 DEF End, tables
    <2>2. CASE me.job = "refresh"  BY <1>15, <1>b, <2>2 DEF End
    <2>3. CASE me.job = "revoke"
      <3>1. it = [me EXCEPT !.pc = "stamp", !.tries = 0]
        BY <1>15, <1>a, <2>3 DEF End
      <3>2. it.job = me.job /\ it.built = me.built /\ it.serial = me.serial /\ it.pc = "stamp"
        BY <1>0, <3>1 DEF TaskState
      <3>3. crl'.number > 0 /\ me.built <= now' /\ Kept(k)
        BY <1>0, <1>s, <2>1, <2>3 DEF TaskInv, Past, Published
      <3>4. Kept(k)'  BY <1>c, <2>1, <3>3
      <3> QED  BY <1>s, <3>2, <3>3, <3>4 DEF TaskInv, Past, Published
    <2>4. CASE me.job \notin {"refresh", "revoke"}
      <3>1. it.pc \in {"retry", "init"} /\ it.built = me.built
        BY <1>0, <1>15, <1>a, <2>4 DEF End, TaskState
      <3>2. it.built <= now'  BY <1>0, <2>1, <3>1 DEF TaskInv
      <3> QED  BY <1>d, <3>1, <3>2
    <2> QED  BY <2>2, <2>3, <2>4
  <1>16. CASE Stamp(t) \/ Settle(t)
    BY <1>16, <1>b DEF Stamp, Settle
  <1>17. CASE Fail(t)
    <2>1. it = Idle \/ (it.pc = "retry" /\ it.built = 0)
      BY <1>17, <1>a DEF Fail, Idle
    <2>2. now' = now  BY <1>17 DEF Fail
    <2> QED  BY <1>0, <1>d, <2>1, <2>2, IdleHolds
  <1> QED
    BY <1>1, <1>2, <1>3, <1>4, <1>5, <1>6, <1>7, <1>8, <1>9, <1>10, <1>11, <1>12, <1>13, <1>14,
       <1>15, <1>16, <1>17 DEF Step

\* Only the task that takes a step changes, unless its process dies.
LEMMA OthersStay ==
    ASSUME CrlAssumption, TypeOK, [Next]_vars, NEW t \in Task
    PROVE  \/ task'[t] = task[t] \/ task'[t] = Idle
           \/ Step(t) \/ ExportFails(t) \/ Fail(t)
           \/ Refreshes(t) \/ StartRegenerate(t) \/ \E s \in Serial : StartRevoke(t, s)
  <1>0. \A u \in Task : \A x : Becomes(u, x) /\ u # t => task'[t] = task[t]
    BY DEF Becomes, TypeOK, TasksOK
  <1>1. ASSUME NEW u \in Task, u # t, Step(u) \/ ExportFails(u) \/ Fail(u)
        PROVE  task'[t] = task[t]
    BY <1>0, <1>1 DEF Step, EnsureInitialized, Begin, FirstSign, InsertInitial, RecordRevocation,
       ReadBounds, CountExpired, CheckListed, Lock, PruneExpired, Snapshot, Sign, ReplaceIfNumber,
       Spent, ExportRead, ExportWrite, ExportFails, Exported, End, Stamp, Settle, Fail, Goto
  <1>2. ASSUME NEW u \in Task, u # t,
               Refreshes(u) \/ StartRegenerate(u) \/ \E s \in Serial : StartRevoke(u, s)
        PROVE  task'[t] = task[t]
    BY <1>0, <1>2 DEF Refreshes, StartRegenerate, StartRevoke
  <1>3. ASSUME NEW i \in Instance, Crash(i) PROVE task'[t] = task[t] \/ task'[t] = Idle
    BY <1>3 DEF Crash
  <1>4. CASE \/ \E s \in Serial : \/ Ask(s) \/ AskForCrl(s)
                                  \/ \E when \in 0 .. MaxTime : Record(s, when)
             \/ Dropped \/ SeedSweep \/ LoseSweep \/ Lapse \/ Tick \/ UNCHANGED vars
    BY <1>4 DEF Ask, AskForCrl, Record, Dropped, SeedSweep, LoseSweep, Lapse, Tick, vars
  <1> QED  BY <1>1, <1>2, <1>3, <1>4 DEF Next, StartRefresh, StoreFirstCrls

\* A task that starts relies on nothing yet.
LEMMA StartHolds ==
    ASSUME TypeOK, TypeOK', NEW t \in Task,
           Refreshes(t) \/ StartRegenerate(t) \/ \E s \in Serial : StartRevoke(t, s)
    PROVE  TaskInv(t)'
  <1>1. task'[t].pc = "init" /\ task'[t].built = 0
    <2>1. ASSUME NEW x, Becomes(t, x) PROVE task'[t] = x
      BY <2>1 DEF Becomes, TypeOK, TasksOK
    <2>2. CASE Refreshes(t)  BY <2>1, <2>2 DEF Refreshes, Idle
    <2>3. CASE StartRegenerate(t)
      <3>1. Becomes(t, [Idle EXCEPT !.pc = "init", !.job = "republish"])
        BY <2>3 DEF StartRegenerate
      <3>2. task'[t] = [Idle EXCEPT !.pc = "init", !.job = "republish"]  BY <2>1, <3>1
      <3> QED  BY <3>2 DEF Idle
    <2>4. ASSUME NEW s \in Serial, StartRevoke(t, s)
          PROVE  task'[t].pc = "init" /\ task'[t].built = 0
      BY <2>1, <2>4 DEF StartRevoke, Idle
    <2> QED  BY <2>2, <2>3, <2>4
  <1>2. now' \in Nat  BY DEF TypeOK
  <1> QED  BY <1>1, <1>2 DEF TaskInv, Past, Published

\* The invariant is inductive: whatever the tasks of any number of processes
\* read of the ledger and the CRL before a signature, a lock or a crash, what
\* they go on to do with it is still right, or loses the swap.
THEOREM CrlSafety == Spec => []CrlInv
  <1>1. Init => CrlInv
    BY CrlAssumption DEF Init, CrlInv, NoCrl, TaskInv, Past, Published, Idle
  <1>2. ASSUME TypeOK, TypeOK', CrlInv, [Next]_vars PROVE CrlInv'
    <2>1. Advances /\ StoredInv'
      BY <1>2, CrlAssumption, NextAdvances, StoredHolds
    <2>2. ASSUME NEW t \in Task PROVE TaskInv(t)'
      <3>1. TaskInv(t)  BY <1>2 DEF CrlInv
      <3> QED
        BY <1>2, <2>1, <3>1, CrlAssumption, OthersStay, Untouched, IdleHolds, StepHolds, StartHolds
    <2> QED  BY <2>1, <2>2 DEF CrlInv, StoredInv
  <1>3. TypeOK /\ TypeOK' /\ CrlInv /\ [Next]_vars => CrlInv'
    BY <1>2
  <1> QED  BY <1>1, <1>3, TypeCorrect, PTL DEF Spec

-----------------------------------------------------------------------------
(* What follows.                                                            *)

\* StoredCrl::replace_if_number and insert_initial: a CRL number is used once,
\* and the numbers follow one another, however many instances store at once.
THEOREM NumbersAreUsedOnce == Spec => NumbersGrow
  <1> DEFINE Grow == crl' # crl => \/ crl'.number = crl.number + 1
                                   \/ crl.number = 0 /\ crl'.number = SidecarNumber + 1
  <1>1. ASSUME TypeOK, [Next]_vars PROVE Grow
    <2>1. ASSUME NEW t \in Task, InsertInitial(t) PROVE Grow
      BY <2>1 DEF InsertInitial
    <2>2. ASSUME NEW t \in Task, PruneExpired(t) \/ ReplaceIfNumber(t) PROVE Grow
      BY <2>2 DEF PruneExpired, ReplaceIfNumber
    <2> QED  BY <1>1, <2>1, <2>2, Steps, CrlAssumption DEF Quiet
  <1>2. TypeOK /\ [Next]_vars => [Grow]_vars
    BY <1>1
  <1> QED  BY <1>2, TypeCorrect, PTL DEF Spec, NumbersGrow

\* RFC 5280, 3.3, as Prune and regenerate keep it: an entry leaves the CRL only
\* when the CRL it leaves was issued beyond the certificate's validity.
THEOREM EntriesAreKept == Spec => EntryKept
  <1> DEFINE Leaves == \A s \in crl.lists \ crl'.lists : Lapsed(s, crl)
  <1>1. ASSUME TypeOK, CrlInv, [Next]_vars PROVE Leaves
    <2>1. ASSUME NEW t \in Task, InsertInitial(t) PROVE Leaves
      BY <1>1, <2>1 DEF InsertInitial, CrlInv, NoCrl
    <2>2. ASSUME NEW t \in Task, ReplaceIfNumber(t) PROVE Leaves
      <3>1. TaskInv(t)  BY <1>1 DEF CrlInv
      <3> QED  BY <2>2, <3>1 DEF ReplaceIfNumber, TaskInv
    <2>3. ASSUME NEW t \in Task, PruneExpired(t) PROVE Leaves
      BY <2>3 DEF PruneExpired
    <2> QED  BY <1>1, <2>1, <2>2, <2>3, Steps, CrlAssumption DEF Quiet
  <1>2. TypeOK /\ CrlInv /\ [Next]_vars => [Leaves]_vars
    BY <1>1
  <1> QED  BY <1>2, TypeCorrect, CrlSafety, PTL DEF Spec, EntryKept

\* LocalCa::revoke answers Ok only when a stored CRL lists the serial, and every
\* CRL stored after it does, until the certificate lapses.
THEOREM AcknowledgedIsListed == Spec => []AckedIsListed
  <1>1. Init => AckedIsListed
    BY DEF Init, AckedIsListed
  <1>2. ASSUME TypeOK, TypeOK', CrlInv, AckedIsListed, [Next]_vars PROVE AckedIsListed'
    <2>1. Advances /\ acked \subseteq Serial
      BY <1>2, CrlAssumption, NextAdvances DEF TypeOK, TablesOK
    <2>2. \A s \in acked : Shown(s)'
      BY <1>2, <2>1 DEF AckedIsListed, Shown, Advances
    <2>3. \A s \in acked' \ acked : Shown(s)'
      <3>1. ASSUME NEW t \in Task, End(t), NEW s \in acked' \ acked PROVE Shown(s)'
        <4>1. TaskInv(t) /\ s = task[t].serial /\ task[t].job = "revoke" /\ task[t].pc = "end"
          BY <1>2, <3>1 DEF CrlInv, End
        <4>2. Shown(s) /\ s \in Serial
          BY <1>2, <4>1 DEF TaskInv, Published, TypeOK, TasksOK
        <4> QED  BY <2>1, <4>2 DEF Advances
      <3>2. CASE ~\E t \in Task : End(t)
        BY <1>2, <3>2 DEF Next, Step, EnsureInitialized, FirstSign, InsertInitial,
           RecordRevocation, ReadBounds, CountExpired, CheckListed, Lock, PruneExpired, Snapshot,
           Sign, ReplaceIfNumber, ExportRead, ExportWrite, ExportFails, Stamp, Settle, Fail, Ask,
           AskForCrl, Record, Dropped, SeedSweep, LoseSweep, StartRefresh, StoreFirstCrls, Refreshes,
           StartRegenerate, StartRevoke, Crash, Lapse, Tick, vars
      <3> QED  BY <3>1, <3>2
    <2> QED  BY <2>2, <2>3 DEF AckedIsListed, Shown
  <1>3. TypeOK /\ TypeOK' /\ CrlInv /\ AckedIsListed /\ [Next]_vars => AckedIsListed'
    BY <1>2
  <1> QED  BY <1>1, <1>3, TypeCorrect, CrlSafety, PTL DEF Spec

\* Rows and order stamps are written only under a stored CRL, and together.
LEMMA Writes ==
    ASSUME TypeOK, CrlInv, [Next]_vars
    PROVE  \/ rows' \subseteq rows /\ revoked' = revoked
           \/ /\ crl.number > 0
              /\ \A s \in revoked' \ revoked : s \in Serial /\ (Kept(s) \/ s \in rows')
           \/ \E t \in Task : InsertInitial(t)
  <1> DEFINE Still == rows' \subseteq rows /\ revoked' = revoked
             Written == /\ crl.number > 0
                        /\ \A s \in revoked' \ revoked : s \in Serial /\ (Kept(s) \/ s \in rows')
  <1>1. ASSUME NEW s \in Serial, NEW when \in 0 .. MaxTime, Record(s, when) PROVE Still \/ Written
    BY <1>1 DEF Record, Inserted, tables
  <1>2. ASSUME NEW t \in Task, RecordRevocation(t) \/ Stamp(t) PROVE Written
    <2>1. TaskInv(t) /\ (task[t].job = "revoke" => task[t].serial \in Serial)
      BY DEF CrlInv, TypeOK, TasksOK
    <2>2. crl.number > 0
      BY <1>2, <2>1 DEF TaskInv, Past, RecordRevocation, Stamp
    <2>3. Stamp(t) => Kept(task[t].serial) /\ task[t].serial \in Serial
      BY <2>1 DEF TaskInv, Stamp
    <2> QED  BY <1>2, <2>2, <2>3 DEF RecordRevocation, Stamp
  <1>3. ASSUME NEW t \in Task, Step(t), ~RecordRevocation(t), ~Stamp(t), ~InsertInitial(t)
        PROVE  Still
    BY <1>3 DEF Step, EnsureInitialized, FirstSign, ReadBounds, CountExpired, CheckListed, Lock,
       PruneExpired, Snapshot, Sign, ReplaceIfNumber, ExportRead, ExportWrite, End, Settle, tables
  <1>4. CASE /\ ~\E t \in Task : Step(t)
             /\ ~\E s \in Serial, when \in 0 .. MaxTime : Record(s, when)
    BY <1>4 DEF Next, Ask, AskForCrl, Dropped, SeedSweep, LoseSweep, StartRefresh, StoreFirstCrls,
       Refreshes, StartRegenerate, StartRevoke, ExportFails, Fail, Crash, Lapse, Tick, vars, tables
  <1> QED  BY <1>1, <1>2, <1>3, <1>4

\* set_revoked goes with the ledger row, by both routes: an order never says
\* revoked of a certificate no CRL will list.
THEOREM RevokedOrdersAreRecorded == Spec => []RevokedIsRecorded
  <1>1. Init => RevokedIsRecorded
    BY DEF Init, RevokedIsRecorded
  <1>2. ASSUME TypeOK, TypeOK', CrlInv, RevokedIsRecorded, [Next]_vars PROVE RevokedIsRecorded'
    <2>1. Advances /\ revoked \subseteq Serial
      BY <1>2, CrlAssumption, NextAdvances DEF TypeOK, TablesOK
    <2>2. \A s \in revoked : Kept(s)'
      BY <1>2, <2>1 DEF RevokedIsRecorded, Kept, Advances
    <2>3. ASSUME NEW t \in Task, InsertInitial(t) PROVE revoked' = revoked
      BY <2>3 DEF InsertInitial
    <2>4. \A s \in revoked' \ revoked : Kept(s)'
      <3>1. \A s \in revoked' \ revoked : s \in Serial /\ (Kept(s) \/ s \in rows')
        BY <1>2, <2>3, Writes
      <3>2. \A s : s \in rows' => Kept(s)'  BY DEF Kept
      <3> QED  BY <2>1, <3>1, <3>2 DEF Advances
    <2> QED  BY <2>2, <2>4 DEF RevokedIsRecorded, Kept
  <1>3. TypeOK /\ TypeOK' /\ CrlInv /\ RevokedIsRecorded /\ [Next]_vars => RevokedIsRecorded'
    BY <1>2
  <1> QED  BY <1>1, <1>3, TypeCorrect, CrlSafety, PTL DEF Spec

\* initialize imports the sidecar in the transaction of the first CRL, before
\* anything else is recorded under the issuer, whoever wins that insert.
THEOREM ImportComesFirst == Spec => []Imported
  <1>1. Init => Imported
    BY DEF Init, Imported, NoCrl
  <1>2. ASSUME TypeOK, TypeOK', CrlInv, Imported, [Next]_vars PROVE Imported'
    <2>0. /\ Advances /\ crl \in Crl /\ crl' \in Crl /\ Sidecar \subseteq Serial
          /\ SidecarNumber \in Nat
      BY <1>2, CrlAssumption, NextAdvances DEF TypeOK, TablesOK, CrlAssumption
    <2>1. CASE crl.number > 0
      <3>1. crl'.number > 0  BY <2>0, <2>1 DEF Advances, Crl
      <3>2. \A s \in Sidecar : Kept(s)'
        BY <1>2, <2>0, <2>1 DEF Imported, Kept, Advances
      <3> QED  BY <2>0, <3>1, <3>2 DEF Imported, Kept, Crl
    <2>2. ASSUME NEW t \in Task, InsertInitial(t), crl.number = 0 PROVE Imported'
      <3>1. crl'.number = SidecarNumber + 1 /\ Sidecar \subseteq rows'
        BY <2>2 DEF InsertInitial
      <3> QED  BY <2>0, <3>1 DEF Imported
    <2>3. CASE crl.number = 0 /\ ~\E t \in Task : InsertInitial(t)
      <3>1. rows' \subseteq rows /\ revoked' = revoked
        BY <1>2, <2>0, <2>3, Writes DEF Crl
      <3>2. crl'.number = 0
        <4>1. ASSUME NEW t \in Task, ReplaceIfNumber(t) \/ PruneExpired(t) PROVE FALSE
          <5>1. TaskInv(t)  BY <1>2 DEF CrlInv
          <5> QED  BY <2>3, <4>1, <5>1 DEF TaskInv, Past, ReplaceIfNumber, PruneExpired
        <4> QED  BY <1>2, <2>3, <4>1, Steps, CrlAssumption DEF Quiet
      <3> QED  BY <1>2, <2>3, <3>1, <3>2 DEF Imported
    <2> QED  BY <2>0, <2>1, <2>2, <2>3 DEF Crl
  <1>3. TypeOK /\ TypeOK' /\ CrlInv /\ Imported /\ [Next]_vars => Imported'
    BY <1>2
  <1> QED  BY <1>1, <1>3, TypeCorrect, CrlSafety, PTL DEF Spec

-----------------------------------------------------------------------------
(* The export.                                                              *)

\* Whoever is about to write the file holds the lock, and what it read is no
\* older than the file and no newer than the table.
ExportInv ==
    /\ file <= crl.number
    /\ \A t \in Task : task[t].pc = "write" =>
          flock = t /\ file <= task[t].number /\ task[t].number <= crl.number

\* The steps that neither take the export lock nor let go of it.
LEMMA Unlocking ==
    ASSUME CrlAssumption, TypeOK, [Next]_vars
    PROVE  \/ /\ UNCHANGED <<file, flock>>
              /\ \A u \in Task : task'[u].pc = "write" => task'[u] = task[u]
           \/ \E t \in Task : ExportRead(t) \/ ExportWrite(t) \/ ExportFails(t) \/ Fail(t)
           \/ \E i \in Instance : Crash(i)
  <1> DEFINE Apart == /\ UNCHANGED <<file, flock>>
                      /\ \A u \in Task : task'[u].pc = "write" => task'[u] = task[u]
  <1>0. \A t \in Task : task[t] \in TaskState
    BY DEF TypeOK, TasksOK
  <1>1. ASSUME NEW t \in Task, NEW x, Becomes(t, x), x.pc # "write", UNCHANGED disk PROVE Apart
    BY <1>1 DEF Becomes, disk, TypeOK, TasksOK
  <1>2. ASSUME UNCHANGED task, UNCHANGED disk PROVE Apart
    BY <1>2 DEF disk
  <1>3. ASSUME NEW t \in Task, Step(t) PROVE Apart \/ ExportRead(t) \/ ExportWrite(t)
    <2>1. CASE EnsureInitialized(t) \/ CountExpired(t) \/ CheckListed(t)
      BY <1>0, <1>1, <2>1 DEF EnsureInitialized, Begin, CountExpired, CheckListed, Goto, TaskState
    <2>2. CASE FirstSign(t) \/ InsertInitial(t) \/ RecordRevocation(t) \/ ReadBounds(t)
      BY <1>0, <1>1, <2>2 DEF FirstSign, InsertInitial, RecordRevocation, ReadBounds, TaskState
    <2>3. CASE Lock(t) \/ PruneExpired(t) \/ Snapshot(t) \/ Sign(t) \/ ReplaceIfNumber(t)
      BY <1>0, <1>1, <2>3 DEF Lock, PruneExpired, Snapshot, Sign, ReplaceIfNumber, Spent, Goto,
                              TaskState
    <2>4. CASE Stamp(t) \/ Settle(t)
      BY <1>1, <2>4 DEF Stamp, Settle, Idle
    <2>5. CASE End(t)
      <3>1. CASE task[t].job = "refresh"  BY <1>1, <2>5, <3>1 DEF End, Idle
      <3>2. CASE task[t].job = "revoke"  BY <1>0, <1>1, <2>5, <3>2 DEF End, TaskState
      <3>3. CASE task[t].job \notin {"refresh", "revoke"}
        BY <1>0, <1>1, <2>5, <3>3 DEF End, TaskState
      <3> QED  BY <3>1, <3>2, <3>3
    <2> QED  BY <1>3, <2>1, <2>2, <2>3, <2>4, <2>5 DEF Step
  <1>4. ASSUME NEW t \in Task,
               Refreshes(t) \/ StartRegenerate(t) \/ \E s \in Serial : StartRevoke(t, s)
        PROVE  Apart
    <2>1. \E x : Becomes(t, x) /\ x.pc = "init"
      <3>1. CASE Refreshes(t)
        <4>1. Becomes(t, [Idle EXCEPT !.pc = "init", !.job = "refresh"])
          BY <3>1 DEF Refreshes
        <4>2. [Idle EXCEPT !.pc = "init", !.job = "refresh"].pc = "init"  BY DEF Idle
        <4> QED  BY <4>1, <4>2
      <3>2. CASE StartRegenerate(t)
        <4>1. Becomes(t, [Idle EXCEPT !.pc = "init", !.job = "republish"])
          BY <3>2 DEF StartRegenerate
        <4>2. [Idle EXCEPT !.pc = "init", !.job = "republish"].pc = "init"  BY DEF Idle
        <4> QED  BY <4>1, <4>2
      <3>3. ASSUME NEW s \in Serial, StartRevoke(t, s)
            PROVE  \E x : Becomes(t, x) /\ x.pc = "init"
        <4> DEFINE x == [Idle EXCEPT !.pc = "init", !.job = "revoke", !.serial = s, !.at = now]
        <4>1. Becomes(t, x)  BY <3>3 DEF StartRevoke
        <4>2. x.pc = "init"  BY DEF Idle
        <4> QED  BY <4>1, <4>2
      <3> QED  BY <1>4, <3>1, <3>2, <3>3
    <2>2. UNCHANGED disk
      BY <1>4 DEF Refreshes, StartRegenerate, StartRevoke
    <2> QED  BY <1>1, <2>1, <2>2
  <1>5. ASSUME NEW s \in Serial,
               Ask(s) \/ AskForCrl(s) \/ \E when \in 0 .. MaxTime : Record(s, when)
        PROVE  Apart
    BY <1>2, <1>5 DEF Ask, AskForCrl, Record
  <1>6. CASE Dropped \/ SeedSweep \/ LoseSweep \/ Lapse \/ Tick \/ UNCHANGED vars
    BY <1>2, <1>6 DEF Dropped, SeedSweep, LoseSweep, Lapse, Tick, vars
  <1> QED  BY <1>3, <1>4, <1>5, <1>6 DEF Next, StartRefresh, StoreFirstCrls

\* Every step keeps the export in order.
LEMMA ExportStep ==
    ASSUME CrlAssumption, TypeOK, TypeOK', Advances, ExportInv, [Next]_vars
    PROVE  ExportInv' /\ file <= file'
  <1>0. /\ file \in Nat /\ crl \in Crl /\ crl' \in Crl /\ crl.number <= crl'.number
        /\ \A t \in Task : task[t] \in TaskState
    BY DEF TypeOK, ProcessOK, TablesOK, TasksOK, Advances, Crl
  <1>1. CASE /\ UNCHANGED <<file, flock>>
             /\ \A u \in Task : task'[u].pc = "write" => task'[u] = task[u]
    BY <1>0, <1>1 DEF ExportInv, Crl, TaskState
  <1>2. ASSUME NEW t \in Task, ExportRead(t) PROVE ExportInv' /\ file <= file'
    <2>1. /\ flock = NoTask /\ flock' = t /\ UNCHANGED <<file, crl>>
          /\ task' = [task EXCEPT ![t] = [task[t] EXCEPT !.pc = "write", !.number = crl.number]]
      BY <1>2 DEF ExportRead, Becomes, tables
    <2>2. \A u \in Task : task[u].pc # "write"
      BY <2>1 DEF ExportInv, CrlAssumption
    <2>3. \A u \in Task : task'[u].pc = "write" => u = t
      BY <2>1, <2>2 DEF TypeOK, TasksOK
    <2>4. task'[t].number = crl.number
      BY <1>0, <2>1 DEF TypeOK, TasksOK, TaskState
    <2> QED  BY <1>0, <2>1, <2>3, <2>4 DEF ExportInv, Crl
  <1>3. ASSUME NEW t \in Task, ExportWrite(t) \/ ExportFails(t) \/ Fail(t)
        PROVE  ExportInv' /\ file <= file'
    <2>1. /\ flock' = Unflocked(t) /\ crl' = crl
          /\ file' = file \/ (task[t].pc = "write" /\ file' = task[t].number)
      BY <1>3 DEF ExportWrite, ExportFails, Fail, Exported, tables
    <2>2. \E x : Becomes(t, x) /\ x.pc # "write"
      <3>1. CASE Exported(t)
        <4>1. CASE task[t].ret = "idle"
          <5>1. Becomes(t, Idle) /\ Idle.pc # "write"  BY <3>1, <4>1 DEF Exported, Idle
          <5> QED  BY <5>1
        <4>2. CASE task[t].ret # "idle"
          <5> DEFINE x == [task[t] EXCEPT !.pc = task[t].ret, !.ret = "idle", !.number = 0]
          <5>1. Becomes(t, x)  BY <3>1, <4>2 DEF Exported
          <5>2. x.pc # "write"  BY <1>0 DEF TaskState
          <5> QED  BY <5>1, <5>2
        <4> QED  BY <4>1, <4>2
      <3>2. CASE Fail(t)
        <4> DEFINE x == IF task[t].job = "republish"
                        THEN [Idle EXCEPT !.pc = "retry", !.job = "republish"] ELSE Idle
        <4>1. Becomes(t, x)  BY <3>2 DEF Fail
        <4>2. x.pc # "write"  BY DEF Idle
        <4> HIDE DEF x
        <4> QED  BY <4>1, <4>2
      <3> QED  BY <1>3, <3>1, <3>2 DEF ExportWrite, ExportFails
    <2>3. \A u \in Task : task'[u].pc = "write" => u # t /\ task'[u] = task[u]
      BY <2>2 DEF Becomes, TypeOK, TasksOK
    <2>4. file <= file' /\ file' <= crl'.number
      BY <1>0, <2>1 DEF ExportInv, Crl, TaskState
    <2>5. ASSUME NEW u \in Task, task'[u].pc = "write"
          PROVE  flock' = u /\ file' <= task'[u].number /\ task'[u].number <= crl'.number
      <3>1. task[u].pc = "write" /\ u # t /\ task'[u] = task[u]  BY <2>3, <2>5
      <3>2. flock = u /\ task[t].pc # "write"  BY <3>1 DEF ExportInv
      <3> QED  BY <2>1, <3>1, <3>2 DEF ExportInv, Unflocked
    <2> QED  BY <2>4, <2>5 DEF ExportInv
  <1>4. ASSUME NEW i \in Instance, Crash(i) PROVE ExportInv' /\ file <= file'
    <2>1. UNCHANGED <<file, crl>>  BY <1>4 DEF Crash, tables
    <2>2. ASSUME NEW u \in Task, task'[u].pc = "write"
          PROVE  flock' = u /\ task'[u] = task[u]
      <3>1. Home[u] # i /\ task'[u] = task[u]  BY <1>4, <2>2 DEF Crash, Idle
      <3>2. flock = u  BY <2>2, <3>1 DEF ExportInv
      <3> QED  BY <1>4, <3>1, <3>2 DEF Crash
    <2> QED  BY <1>0, <2>1, <2>2 DEF ExportInv
  <1> QED  BY <1>1, <1>2, <1>3, <1>4, Unlocking

\* try_export reads the stored CRL under the lock it writes under, so that the
\* file at crl_path never goes back, whichever instance exports last.
THEOREM ExportNeverGoesBack == Spec => ExportMonotone
  <1>1. Init => ExportInv
    BY DEF Init, ExportInv, NoCrl, Idle
  <1>2. TypeOK /\ TypeOK' /\ CrlInv /\ ExportInv /\ [Next]_vars => ExportInv' /\ file <= file'
    BY CrlAssumption, NextAdvances, ExportStep
  <1>3. TypeOK /\ TypeOK' /\ CrlInv /\ ExportInv /\ [Next]_vars => [file' >= file]_vars
    BY <1>2 DEF TypeOK, ProcessOK
  <1> QED  BY <1>1, <1>2, <1>3, TypeCorrect, CrlSafety, PTL DEF Spec, ExportMonotone
=============================================================================
