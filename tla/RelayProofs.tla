----------------------------- MODULE RelayProofs -----------------------------
(***************************************************************************)
(* Theorems about RelayFlow, for any number of rows, attempts, upstream    *)
(* orders and authorizations, any budgets, and any mishaps together unless *)
(* the property itself excepts them.                                       *)
(***************************************************************************)
EXTENDS RelayFlow, TLAPS

-----------------------------------------------------------------------------
(* Type correctness, and that a mapping row and an attempt about to write   *)
(* one name an upstream order that was opened.                              *)

LocalOK == /\ order \in {"processing", "valid", "invalid", "none"}
           /\ cert \in 0..MaxUp /\ announced \in 0..2
           /\ map \in [status : {"none", "processing", "valid", "invalid"}, up : 0..MaxUp]
           /\ map.status # "none" => map.up \in Upstream
RemoteOK == /\ ups \in [Upstream -> UpStatus]
            /\ proof \in [Upstream -> [Authz -> {"pending", "triggered", "valid", "invalid"}]]
ServedOK == token \in [Authz -> -1..(PollTimeout + Margin)] /\ dropping \subseteq Authz
WorldOK == /\ strategy \in Strategies /\ mishaps \in Scenarios
           /\ mounted \in BOOLEAN /\ expired \in BOOLEAN
QueueOK == /\ phase \in [Job -> Queue!Phase] /\ ident \in [Job -> Key] /\ blind \subseteq Job
           /\ tries \in [Job -> 0..MaxAttempts] /\ holder \in [Job -> Worker \cup {NoWorker}]
OwingOK == owing \in {"nothing", "issue", "relay", "mapping"}

\* An attempt at a row about k.
Placed(x, k) == /\ x.pc = "free" <=> x.job = NoJob
                /\ x.pc \in IssuePC => k = "issue"
                /\ x.pc = "create" => x.up \in Upstream
                /\ x.pc \in RelayPC => k = "relay" /\ x.up \in Upstream
                /\ x.pc \in {"publish", "trigger", "await", "retract"} => x.at \in Authz
AttOK == /\ att \in [Worker -> Attempt]
         /\ \A w \in Worker : Placed(att[w], Work(w))

Typed == LocalOK /\ RemoteOK /\ ServedOK /\ WorldOK /\ QueueOK /\ OwingOK /\ AttOK

\* One attempt moves on, its row as it was.
LEMMA MovedOK ==
    ASSUME AttOK, NEW w \in Worker, NEW x \in Attempt, Placed(x, Work(w)), x.job = att[w].job,
           att' = [att EXCEPT ![w] = x], ident' = ident
    PROVE  AttOK'
  BY DEF AttOK, Work

LEMMA AnswerOK ==
    ASSUME AttOK, NEW w \in Worker, att[w].pc # "free",
           NEW o \in {"Done", "Failed", "Retry"}, Answer(w, o), ident' = ident
    PROVE  AttOK'
  <1> DEFINE x == [att[w] EXCEPT !.pc = "settle", !.outcome = o]
  <1>1. x \in Attempt /\ x.job = att[w].job /\ x.pc = "settle"
    BY DEF AttOK, Attempt, AttemptPC
  <1>2. Placed(x, Work(w))
    BY <1>1 DEF AttOK, Placed, IssuePC, RelayPC
  <1>3. att' = [att EXCEPT ![w] = x]
    BY DEF Answer
  <1> QED  BY <1>1, <1>2, <1>3, MovedOK

LEMMA GotoOK ==
    ASSUME AttOK, NEW w \in Worker, att[w].pc # "free", NEW pc \in AttemptPC \ {"free", "load"},
           pc \in IssuePC => Work(w) = "issue",
           pc \in RelayPC => Work(w) = "relay" /\ att[w].up \in Upstream, pc # "create",
           pc \in {"publish", "trigger", "await", "retract"} => att[w].at \in Authz,
           Goto(w, pc), ident' = ident
    PROVE  AttOK'
  <1> DEFINE x == [att[w] EXCEPT !.pc = pc]
  <1>1. x \in Attempt /\ x.job = att[w].job /\ x.pc = pc /\ x.up = att[w].up /\ x.at = att[w].at
    BY DEF AttOK, Attempt
  <1>2. Placed(x, Work(w))
    BY <1>1 DEF AttOK, Placed
  <1>3. att' = [att EXCEPT ![w] = x]
    BY DEF Goto
  <1> QED  BY <1>1, <1>2, <1>3, MovedOK

LEMMA IdleOK ==
    ASSUME RelayAssumption, AttOK, NEW w \in Worker, att' = [att EXCEPT ![w] = Idle], ident' = ident
    PROVE  AttOK'
  <1>1. Idle \in Attempt
    BY DEF RelayAssumption, Attempt, AttemptPC, Idle
  <1>2. \A k : Placed(Idle, k)
    BY DEF Placed, Idle, IssuePC, RelayPC
  <1> QED  BY <1>1, <1>2 DEF AttOK, Work

\* A row is minted for no attempt that is running.
LEMMA EnqueueOK ==
    ASSUME RelayAssumption, QueueOK, AttOK, EnqueueRelay
    PROVE  /\ QueueOK'
           /\ \A w \in Worker : att[w].pc # "free" => Work(w) = ident'[att[w].job]
  <1>1. CASE UNCHANGED queue
    BY <1>1 DEF queue, QueueOK, Work
  <1>2. ASSUME NEW j \in Job, \A w \in Worker : att[w].job # j, Queue!Submit(j, "relay"),
               blind' \in {blind \ {j}, blind \cup {j}}, tries' = [tries EXCEPT ![j] = 0], holder' = holder
        PROVE  /\ QueueOK'
               /\ \A w \in Worker : att[w].pc # "free" => Work(w) = ident'[att[w].job]
    <2>1. phase' = [phase EXCEPT ![j] = "queued"] /\ ident' = [ident EXCEPT ![j] = "relay"]
      BY <1>2 DEF Queue!Submit
    <2>2. QueueOK'
      BY <1>2, <2>1 DEF QueueOK, Queue!Phase, Key, RelayAssumption
    <2>3. \A w \in Worker : att[w].pc # "free" => Work(w) = ident'[att[w].job]
      BY <1>2, <2>1 DEF QueueOK, Work
    <2> QED  BY <2>2, <2>3
  <1> QED  BY <1>1, <1>2 DEF EnqueueRelay

\* An attempt that is running has a row.
LEMMA WorkOK ==
    ASSUME QueueOK, AttOK, NEW w \in Worker, att[w].pc # "free"
    PROVE  att[w].job \in Job /\ Work(w) \in Key
  BY DEF QueueOK, AttOK, Placed, Attempt, Work

LEMMA MappingOK ==
    ASSUME LocalOK, NEW s \in {"valid", "invalid"}
    PROVE  /\ MappingMarked(s) \in [status : {"none", "processing", "valid", "invalid"}, up : 0..MaxUp]
           /\ MappingMarked(s).status # "none" => MappingMarked(s).up \in Upstream
  BY DEF LocalOK, MappingMarked

LEMMA InitTyped == ASSUME RelayAssumption, Init PROVE Typed
  <1>1. LocalOK /\ OwingOK
    BY DEF RelayAssumption, Init, LocalOK, OwingOK, NoMapping
  <1>2. RemoteOK /\ ServedOK
    BY DEF RelayAssumption, Init, RemoteOK, ServedOK, UpStatus
  <1>6. WorldOK
    BY DEF Init, WorldOK
  <1>3. QueueOK
    BY DEF RelayAssumption, Init, QueueOK, Queue!Phase, Key
  <1>4. Idle \in Attempt /\ \A k : Placed(Idle, k)
    BY DEF RelayAssumption, Attempt, AttemptPC, Idle, Placed, IssuePC, RelayPC
  <1>5. AttOK
    BY <1>4 DEF Init, AttOK
  <1> QED  BY <1>1, <1>2, <1>3, <1>5, <1>6 DEF Typed

LEMMA IssueTyped ==
    ASSUME RelayAssumption, Typed, NEW w \in Worker, IssueStep(w)
    PROVE  Typed'
  <1> USE DEF Typed
  <1>q. ASSUME UNCHANGED <<world, queue, owing>> PROVE WorldOK' /\ QueueOK' /\ OwingOK' /\ ident' = ident
    BY <1>q DEF world, queue, WorldOK, QueueOK, OwingOK
  <1>l. ASSUME UNCHANGED local PROVE LocalOK'
    BY <1>l DEF local, LocalOK
  <1>r. ASSUME UNCHANGED remote PROVE RemoteOK'
    BY <1>r DEF remote, RemoteOK
  <1>s. ASSUME UNCHANGED served PROVE ServedOK'
    BY <1>s DEF served, ServedOK
  <1>p. /\ att[w] \in Attempt /\ Placed(att[w], Work(w))
        /\ \A pc \in {"find", "open", "requeue", "refuse"} :
              pc \in AttemptPC \ {"free", "load"} /\ pc \in IssuePC /\ pc \notin RelayPC
              /\ pc \notin {"publish", "trigger", "await", "retract"}
    BY DEF AttOK, AttemptPC, IssuePC, RelayPC
  <1>u. \A u \in Upstream : u \in 0..MaxUp
    BY DEF Upstream, RelayAssumption
  <1>1. CASE LoadIssue(w)
    <2>1. AttOK'
      <3>1. ident' = ident /\ att[w].pc # "free"
        BY <1>1 DEF LoadIssue, queue
      <3>2. CASE \E o \in {"Done", "Failed", "Retry"} : Answer(w, o)
        BY <3>1, <3>2, AnswerOK
      <3>3. CASE \E pc \in {"find", "refuse"} : Goto(w, pc)
        BY <1>1, <1>p, <3>1, <3>3, GotoOK DEF LoadIssue
      <3> QED  BY <1>1, <3>2, <3>3 DEF LoadIssue
    <2> QED  BY <1>1, <1>q, <1>l, <1>r, <1>s, <2>1 DEF LoadIssue
  <1>2. CASE FindMapping(w)
    <2>1. AttOK'
      <3>1. ident' = ident /\ att[w].pc # "free" /\ Work(w) = "issue"
        BY <1>2, <1>p DEF FindMapping, queue, Placed, IssuePC
      <3>2. \E pc \in {"open", "requeue"} : Goto(w, pc)
        BY <1>2 DEF FindMapping
      <3> QED  BY <1>p, <3>1, <3>2, GotoOK
    <2> QED  BY <1>2, <1>q, <1>l, <1>r, <1>s, <2>1 DEF FindMapping
  <1>3. CASE OpenOrder(w)
    <2>0. ident' = ident /\ att[w].pc # "free" /\ Work(w) = "issue"
      BY <1>3, <1>p DEF OpenOrder, queue, Placed, IssuePC
    <2>1. ASSUME NEW u \in Upstream, ups' = [ups EXCEPT ![u] = "pending"],
                 att' = [att EXCEPT ![w] = [@ EXCEPT !.pc = "create", !.up = u]]
          PROVE  AttOK' /\ RemoteOK'
      <3> DEFINE x == [att[w] EXCEPT !.pc = "create", !.up = u]
      <3>1. x \in Attempt /\ x.job = att[w].job /\ x.pc = "create" /\ x.up = u
        BY <1>p, <1>u DEF Attempt, AttemptPC, IssuePC
      <3>2. Placed(x, Work(w))
        BY <1>p, <2>0, <3>1 DEF Placed, RelayPC
      <3>3. att' = [att EXCEPT ![w] = x]
        BY <2>1
      <3>4. AttOK'
        BY <2>0, <3>1, <3>2, <3>3, MovedOK
      <3>5. RemoteOK'
        BY <1>3, <2>1 DEF OpenOrder, RemoteOK, UpStatus
      <3> QED  BY <3>4, <3>5
    <2>2. ASSUME Goto(w, "refuse"), ups' = ups PROVE AttOK' /\ RemoteOK'
      <3>1. AttOK'
        BY <1>p, <2>0, <2>2, GotoOK
      <3> QED  BY <1>3, <2>2, <3>1 DEF OpenOrder, RemoteOK
    <2> QED  BY <1>3, <1>q, <1>l, <1>s, <2>1, <2>2 DEF OpenOrder
  <1>4. CASE CreateMapping(w)
    <2>0. ident' = ident /\ att[w].pc # "free" /\ Work(w) = "issue"
      BY <1>4, <1>p DEF CreateMapping, queue, Placed, IssuePC
    <2>1. AttOK'
      BY <1>4, <1>p, <2>0, AnswerOK, GotoOK DEF CreateMapping
    <2>2. att[w].up \in 0..MaxUp /\ att[w].up \in Upstream
      BY <1>4, <1>p DEF CreateMapping, Attempt, Placed
    <2>3. LocalOK'
      BY <1>4, <2>2 DEF CreateMapping, MappingCreated, LocalOK
    <2> QED  BY <1>4, <1>q, <1>r, <1>s, <2>1, <2>3 DEF CreateMapping
  <1>5. CASE Requeue(w)
    <2>1. QueueOK' /\ \A v \in Worker : att[v].pc # "free" => Work(v) = ident'[att[v].job]
      BY <1>5, EnqueueOK DEF Requeue
    <2> DEFINE x == [att[w] EXCEPT !.pc = "settle", !.outcome = "Done"]
    <2>2. x \in Attempt /\ x.pc = "settle" /\ x.job = att[w].job
      BY <1>p DEF Attempt, AttemptPC
    <2>3. Placed(x, ident'[att[w].job])
      BY <1>5, <1>p, <2>2 DEF Requeue, Placed, IssuePC, RelayPC
    <2>4. att' = [att EXCEPT ![w] = x]
      BY <1>5 DEF Requeue, Answer
    <2>5. \A v \in Worker : v # w => Placed(att[v], ident'[att[v].job])
      BY <2>1 DEF AttOK, Placed, IssuePC, RelayPC
    <2>6. AttOK'
      BY <2>2, <2>3, <2>4, <2>5 DEF AttOK, Work
    <2>7. WorldOK' /\ OwingOK'
      BY <1>5 DEF Requeue, world, WorldOK, OwingOK
    <2> QED  BY <1>5, <1>l, <1>r, <1>s, <2>1, <2>6, <2>7 DEF Requeue
  <1>6. CASE Refuse(w)
    <2>1. AttOK'
      BY <1>6, AnswerOK DEF Refuse, queue
    <2>2. LocalOK'
      BY <1>6 DEF Refuse, OrderInvalid, LocalOK
    <2> QED  BY <1>6, <1>q, <1>r, <1>s, <2>1, <2>2 DEF Refuse
  <1> QED  BY <1>1, <1>2, <1>3, <1>4, <1>5, <1>6 DEF IssueStep

\* The steps of RelayJob::run.
LEMMA RelayTyped ==
    ASSUME RelayAssumption, Typed, NEW w \in Worker, RelayStep(w)
    PROVE  Typed'
  <1> USE DEF Typed
  <1>q. ASSUME UNCHANGED <<world, queue, owing>> PROVE WorldOK' /\ QueueOK' /\ OwingOK' /\ ident' = ident
    BY <1>q DEF world, queue, WorldOK, QueueOK, OwingOK
  <1>l. ASSUME UNCHANGED local PROVE LocalOK'
    BY <1>l DEF local, LocalOK
  <1>r. ASSUME UNCHANGED remote PROVE RemoteOK'
    BY <1>r DEF remote, RemoteOK
  <1>s. ASSUME UNCHANGED served PROVE ServedOK'
    BY <1>s DEF served, ServedOK
  <1>p. att[w] \in Attempt /\ Placed(att[w], Work(w))
    BY DEF AttOK
  <1>w. att[w].pc \in RelayPC => Work(w) = "relay" /\ att[w].up \in Upstream /\ att[w].pc # "free"
    BY <1>p DEF Placed, RelayPC
  <1>a. ASSUME NEW o \in {"Done", "Failed", "Retry"}, Answer(w, o), att[w].pc \in RelayPC, ident' = ident
        PROVE  AttOK'
    BY <1>a, <1>w, AnswerOK
  <1>g. ASSUME NEW pc \in {"ready", "valid", "answer", "finalize", "fetch", "record", "settle"},
               Goto(w, pc), ident' = ident, att[w].pc \in RelayPC
        PROVE  AttOK'
    <2>1. pc \in AttemptPC \ {"free", "load"} /\ pc \notin IssuePC
          /\ pc \notin {"publish", "trigger", "await", "retract"} /\ pc # "create"
      BY DEF AttemptPC, IssuePC, RelayPC
    <2> QED  BY <1>g, <1>w, <2>1, GotoOK
  <1>h. ASSUME NEW x \in Attempt, x.job = att[w].job, x.pc \in {"poll", "publish", "trigger", "await", "retract"},
               x.up \in Upstream, x.pc # "poll" => x.at \in Authz,
               Work(w) = "relay", att[w].pc # "free", att' = [att EXCEPT ![w] = x], ident' = ident
        PROVE  AttOK'
    <2>1. Placed(x, Work(w))
      BY <1>h, <1>p DEF Placed, IssuePC, RelayPC
    <2> QED  BY <1>h, <2>1, MovedOK
  <1>t. ASSUME NEW pc \in {"publish", "trigger", "await", "retract"}, att[w].pc = pc
        PROVE  att[w].pc \in RelayPC /\ att[w].at \in Authz
    BY <1>t, <1>p DEF Placed, RelayPC
  <1>1. CASE LoadRelay(w)
    <2>1. ident' = ident /\ att[w].pc # "free" /\ Work(w) = "relay"
      BY <1>1 DEF LoadRelay, queue
    <2>2. ASSUME map.status # "none", att' = [att EXCEPT ![w] = [@ EXCEPT !.pc = "poll", !.up = map.up]]
          PROVE  AttOK'
      <3> DEFINE x == [att[w] EXCEPT !.pc = "poll", !.up = map.up]
      <3>1. map.up \in Upstream /\ map.up \in 0..MaxUp
        BY <2>2 DEF LocalOK
      <3>2. x \in Attempt /\ x.job = att[w].job /\ x.pc = "poll" /\ x.up = map.up
        BY <1>p, <3>1 DEF Attempt, AttemptPC, RelayPC
      <3>3. att' = [att EXCEPT ![w] = x]
        BY <2>2
      <3> HIDE DEF x
      <3> QED  BY <1>h, <2>1, <3>1, <3>2, <3>3
    <2>3. ASSUME NEW o \in {"Failed", "Retry"}, Answer(w, o) PROVE AttOK'
      BY <2>1, <2>3, AnswerOK
    <2>4. AttOK'
      BY <1>1, <2>2, <2>3 DEF LoadRelay
    <2> QED  BY <1>1, <1>q, <1>l, <1>r, <1>s, <2>4 DEF LoadRelay
  <1>2. CASE PollUntil(w)
    <2>1. att[w].pc \in RelayPC /\ ident' = ident
      BY <1>2 DEF PollUntil, RelayPC, queue
    <2>2. ASSUME ups[att[w].up] \in Wanted[att[w].pc] PROVE Onwards[ups[att[w].up]] \in {"answer", "finalize", "fetch"}
      BY <1>2, <2>2 DEF PollUntil, Wanted, Onwards
    <2>3. AttOK'
      BY <1>2, <1>a, <1>g, <2>1, <2>2 DEF PollUntil
    <2> QED  BY <1>2, <1>q, <1>l, <1>r, <1>s, <2>3 DEF PollUntil
  <1>3. CASE AnswerNext(w)
    <2>1. att[w].pc \in RelayPC /\ ident' = ident
      BY <1>3 DEF AnswerNext, RelayPC, queue
    <2>2. ASSUME NEW a \in Authz, NEW pc \in {"trigger", "publish"},
                 att' = [att EXCEPT ![w] = [@ EXCEPT !.at = a, !.pc = pc]]
          PROVE  AttOK'
      <3> DEFINE x == [att[w] EXCEPT !.at = a, !.pc = pc]
      <3>1. x \in Attempt /\ x.job = att[w].job /\ x.pc = pc /\ x.up = att[w].up /\ x.at = a
        BY <1>p DEF Attempt, AttemptPC, RelayPC
      <3>2. att' = [att EXCEPT ![w] = x]
        BY <2>2
      <3> HIDE DEF x
      <3> QED  BY <1>h, <1>w, <2>1, <3>1, <3>2
    <2>3. AttOK'
      BY <1>3, <1>g, <2>1, <2>2 DEF AnswerNext
    <2> QED  BY <1>3, <1>q, <1>l, <1>r, <1>s, <2>3 DEF AnswerNext
  <1>4. CASE Publish(w)
    <2>1. att[w].pc \in RelayPC /\ ident' = ident /\ att[w].at \in Authz
      BY <1>4, <1>t DEF Publish, queue
    <2>2. AttOK'
      <3>1. "trigger" \in AttemptPC \ {"free", "load"} /\ "trigger" \notin IssuePC
        BY DEF AttemptPC, IssuePC, RelayPC
      <3> QED  BY <1>4, <1>w, <2>1, <3>1, GotoOK DEF Publish
    <2>3. PollTimeout + Margin \in -1..(PollTimeout + Margin)
      BY DEF RelayAssumption
    <2>4. ServedOK'
      BY <1>4, <2>3 DEF Publish, Published, ServedOK
    <2> QED  BY <1>4, <1>q, <1>l, <1>r, <2>2, <2>4 DEF Publish
  <1>5. CASE Trigger(w)
    <2>1. att[w].pc \in RelayPC /\ ident' = ident /\ att[w].at \in Authz
      BY <1>5, <1>t DEF Trigger, queue
    <2>2. AttOK'
      <3>1. "await" \in AttemptPC \ {"free", "load"} /\ "await" \notin IssuePC
        BY DEF AttemptPC, IssuePC, RelayPC
      <3> QED  BY <1>5, <1>w, <2>1, <3>1, GotoOK DEF Trigger
    <2>3. RemoteOK'
      BY <1>5, <1>w, <2>1 DEF Trigger, RemoteOK
    <2> QED  BY <1>5, <1>q, <1>l, <1>s, <2>2, <2>3 DEF Trigger
  <1>6. CASE AwaitAuthz(w) \/ AwaitFails(w)
    <2>1. att[w].pc \in RelayPC /\ ident' = ident /\ att[w].at \in Authz
      BY <1>6, <1>t DEF AwaitAuthz, AwaitFails, queue
    <2>2. PICK o \in {"Done", "Failed", "Retry"} :
             att' = [att EXCEPT ![w] = [@ EXCEPT !.pc = "retract", !.outcome = o]]
      BY <1>6 DEF AwaitAuthz, AwaitFails
    <2> DEFINE x == [att[w] EXCEPT !.pc = "retract", !.outcome = o]
    <2>3. x \in Attempt /\ x.job = att[w].job /\ x.pc = "retract" /\ x.up = att[w].up /\ x.at = att[w].at
      BY <1>p DEF Attempt, AttemptPC, RelayPC
    <2>4. att' = [att EXCEPT ![w] = x]
      BY <2>2
    <2> HIDE DEF x
    <2>5. AttOK'
      BY <1>h, <1>w, <2>1, <2>3, <2>4
    <2> QED  BY <1>6, <1>q, <1>l, <1>r, <1>s, <2>5 DEF AwaitAuthz, AwaitFails
  <1>7. CASE Retract(w)
    <2>1. att[w].pc \in RelayPC /\ ident' = ident /\ att[w].at \in Authz
      BY <1>7, <1>t DEF Retract, queue
    <2>2. AttOK'
      BY <1>7, <1>g, <2>1 DEF Retract
    <2>3. -1 \in -1..(PollTimeout + Margin)
      BY DEF RelayAssumption
    <2>4. ServedOK'
      BY <1>7, <2>3 DEF Retract, Retracted, ServedOK
    <2> QED  BY <1>7, <1>q, <1>l, <1>r, <2>2, <2>4 DEF Retract
  <1>8. CASE PostFinalize(w)
    <2>1. att[w].pc \in RelayPC /\ ident' = ident
      BY <1>8 DEF PostFinalize, RelayPC, queue
    <2>2. AttOK'
      BY <1>8, <1>a, <1>g, <2>1 DEF PostFinalize
    <2>3. RemoteOK'
      BY <1>8, <1>w, <2>1 DEF PostFinalize, RemoteOK, UpStatus
    <2> QED  BY <1>8, <1>q, <1>l, <1>s, <2>2, <2>3 DEF PostFinalize
  <1>9. CASE FetchChain(w)
    <2>1. att[w].pc \in RelayPC /\ ident' = ident
      BY <1>9 DEF FetchChain, RelayPC, queue
    <2>2. AttOK'
      BY <1>9, <1>g, <2>1 DEF FetchChain
    <2>3. LocalOK'
      BY <1>9, MappingOK DEF FetchChain, LocalOK
    <2> QED  BY <1>9, <1>q, <1>r, <1>s, <2>2, <2>3 DEF FetchChain
  <1>10. CASE Record(w)
    <2>1. att[w].pc \in RelayPC /\ ident' = ident
      BY <1>10 DEF Record, RelayPC, queue
    <2>2. AttOK'
      BY <1>10, <1>a, <2>1 DEF Record
    <2>3. att[w].up \in 0..MaxUp
      BY <1>p DEF Attempt
    <2>4. Lesser(announced + 1, 2) \in 0..2
      BY DEF Lesser, LocalOK
    <2>5. LocalOK'
      BY <1>10, <2>3, <2>4 DEF Record, LocalOK
    <2> QED  BY <1>10, <1>q, <1>r, <1>s, <2>2, <2>5 DEF Record
  <1> QED  BY <1>1, <1>2, <1>3, <1>4, <1>5, <1>6, <1>7, <1>8, <1>9, <1>10 DEF RelayStep

\* How an attempt begins and ends.
LEMMA EndTyped ==
    ASSUME RelayAssumption, Typed, NEW w \in Worker, EndStep(w) \/ \E j \in Job : Take(w, j)
    PROVE  Typed'
  <1> USE DEF Typed
  <1>l. ASSUME UNCHANGED local PROVE LocalOK'
    BY <1>l DEF local, LocalOK
  <1>r. ASSUME UNCHANGED remote PROVE RemoteOK'
    BY <1>r DEF remote, RemoteOK
  <1>s. ASSUME UNCHANGED served PROVE ServedOK'
    BY <1>s DEF served, ServedOK
  <1>o. ASSUME UNCHANGED <<world, owing>> PROVE WorldOK' /\ OwingOK'
    BY <1>o DEF world, WorldOK, OwingOK
  <1>q. ASSUME UNCHANGED queue PROVE QueueOK' /\ ident' = ident
    BY <1>q DEF queue, QueueOK
  <1>1. ASSUME NEW j \in Job, Take(w, j) PROVE Typed'
    <2> DEFINE x == [Idle EXCEPT !.pc = "load", !.job = j, !.left = PollTimeout]
    <2>0. 0 \in 0..MaxUp /\ PollTimeout \in 0..PollTimeout
      BY DEF RelayAssumption
    <2>1. x \in Attempt /\ x.pc = "load" /\ x.job = j
      BY <2>0 DEF Attempt, AttemptPC, Idle
    <2>2. Placed(x, ident[j])
      BY <2>1 DEF Placed, IssuePC, RelayPC, RelayAssumption
    <2>3. att' = [att EXCEPT ![w] = x] /\ ident' = ident
      BY <1>1 DEF Take
    <2>4. AttOK'
      BY <2>1, <2>2, <2>3 DEF AttOK, Work
    <2>5. \A n \in 0..MaxAttempts : Lesser(n + 1, MaxAttempts) \in 0..MaxAttempts
      BY DEF Lesser, RelayAssumption
    <2>6. QueueOK'
      BY <1>1, <2>5 DEF Take, QueueOK
    <2> QED  BY <1>1, <1>l, <1>r, <1>s, <1>o, <2>4, <2>6 DEF Take
  <1>2. CASE Interrupted(w) \/ Refused(w)
    <2>1. att[w].pc # "free" /\ ident' = ident
      BY <1>2 DEF Interrupted, Refused, AtUpstream, queue
    <2>2. AttOK'
      BY <1>2, <2>1, AnswerOK DEF Interrupted, Refused
    <2> QED  BY <1>2, <1>l, <1>r, <1>s, <1>o, <1>q, <2>2 DEF Interrupted, Refused
  <1>3. CASE Timeout(w)
    <2>1. AttOK'
      BY <1>3, <1>q, AnswerOK DEF Timeout
    <2>2. ServedOK'
      BY <1>3 DEF Timeout, ServedOK, AttOK, Placed
    <2> QED  BY <1>3, <1>l, <1>r, <1>o, <1>q, <2>1, <2>2 DEF Timeout
  <1>4. CASE Settle(w)
    <2>1. att[w].job \in Job
      BY <1>4, WorkOK DEF Settle
    <2>2. ident' = ident /\ QueueOK'
      BY <1>4, <2>1 DEF Settle, QueueOK, Queue!Finish, Queue!Phase
    <2>3. "abandon" \in AttemptPC \ {"free", "load"} /\ "abandon" \notin IssuePC /\ "abandon" \notin RelayPC
      BY DEF AttemptPC, IssuePC, RelayPC
    <2>4. AttOK'
      BY <1>4, <2>2, <2>3, IdleOK, GotoOK DEF Settle
    <2> QED  BY <1>4, <1>l, <1>r, <1>s, <1>o, <2>2, <2>4 DEF Settle
  <1>5. CASE SettleMisses(w)
    BY <1>5, <1>l, <1>r, <1>s, <1>o, <1>q, IdleOK DEF SettleMisses
  <1>6. CASE AbandonIssue(w) \/ AbandonRelay(w)
    <2>1. ident' = ident /\ att[w].pc # "free"
      BY <1>6 DEF AbandonIssue, AbandonRelay, queue
    <2>2. "unmap" \in AttemptPC \ {"free", "load"} /\ "unmap" \notin IssuePC /\ "unmap" \notin RelayPC
      BY DEF AttemptPC, IssuePC, RelayPC
    <2>3. AttOK'
      BY <1>6, <2>1, <2>2, IdleOK, GotoOK DEF AbandonIssue, AbandonRelay
    <2>4. LocalOK'
      BY <1>6 DEF AbandonIssue, AbandonRelay, OrderInvalid, LocalOK
    <2> QED  BY <1>6, <1>r, <1>s, <1>o, <1>q, <2>3, <2>4 DEF AbandonIssue, AbandonRelay
  <1>7. CASE AbandonMapping(w)
    <2>1. LocalOK'
      BY <1>7, MappingOK DEF AbandonMapping, LocalOK
    <2> QED  BY <1>7, <1>r, <1>s, <1>o, <1>q, <2>1, IdleOK DEF AbandonMapping
  <1>8. CASE Crash(w)
    <2>1. QueueOK' /\ ident' = ident
      BY <1>8 DEF Crash, QueueOK
    <2>2. ServedOK'
      BY <1>8 DEF Crash, ServedOK
    <2> QED  BY <1>8, <1>l, <1>r, <1>o, <2>1, <2>2, IdleOK DEF Crash
  <1> QED  BY <1>1, <1>2, <1>3, <1>4, <1>5, <1>6, <1>7, <1>8 DEF EndStep

\* The upstream, the operator, time and the sweeps.
LEMMA WorldTyped ==
    ASSUME RelayAssumption, Typed, UpstreamStep \/ OperatorStep
    PROVE  Typed'
  <1> USE DEF Typed
  <1>l. ASSUME UNCHANGED local PROVE LocalOK'
    BY <1>l DEF local, LocalOK
  <1>r. ASSUME UNCHANGED remote PROVE RemoteOK'
    BY <1>r DEF remote, RemoteOK
  <1>s. ASSUME UNCHANGED served PROVE ServedOK'
    BY <1>s DEF served, ServedOK
  <1>o. ASSUME UNCHANGED world PROVE WorldOK'
    BY <1>o DEF world, WorldOK
  <1>w. ASSUME UNCHANGED owing PROVE OwingOK'
    BY <1>w DEF OwingOK
  <1>q. ASSUME UNCHANGED queue PROVE QueueOK' /\ ident' = ident
    BY <1>q DEF queue, QueueOK
  <1>a. ASSUME UNCHANGED <<ident, att>> PROVE AttOK'
    BY <1>a DEF AttOK, Work
  <1>1. ASSUME NEW u \in Upstream, NEW a \in Authz, UpValidate(u, a) PROVE Typed'
    <2>1. RemoteOK'
      <3>1. PICK p \in {"valid", "invalid"} :
               /\ proof' = [proof EXCEPT ![u][a] = p]
               /\ ups' = [ups EXCEPT ![u] = IF p = "invalid" THEN "invalid"
                            ELSE IF \A b \in Authz : proof'[u][b] = "valid" THEN "ready" ELSE @]
        BY <1>1 DEF UpValidate
      <3>2. proof' \in [Upstream -> [Authz -> {"pending", "triggered", "valid", "invalid"}]]
        BY <3>1 DEF RemoteOK
      <3>3. ups' \in [Upstream -> UpStatus]
        BY <3>1 DEF RemoteOK, UpStatus
      <3> QED  BY <3>2, <3>3 DEF RemoteOK
    <2> QED  BY <1>1, <1>l, <1>s, <1>o, <1>w, <1>q, <1>a, <2>1 DEF UpValidate
  <1>2. ASSUME NEW u \in Upstream, UpSign(u) PROVE Typed'
    <2>1. RemoteOK'
      BY <1>2 DEF UpSign, RemoteOK, UpStatus
    <2> QED  BY <1>2, <1>l, <1>s, <1>o, <1>w, <1>q, <1>a, <2>1 DEF UpSign
  <1>3. ASSUME NEW j \in Job, CancelRow(j) PROVE Typed'
    <2>1. QueueOK' /\ ident' = ident
      BY <1>3 DEF CancelRow, Queue!Cancel, Queue!Phase, QueueOK
    <2>2. OwingOK'
      BY <1>3 DEF CancelRow, OwingOK, QueueOK, Key
    <2> QED  BY <1>3, <1>l, <1>r, <1>s, <1>o, <1>a, <2>1, <2>2 DEF CancelRow
  <1>4. ASSUME NEW j \in Job, Revive(j) PROVE Typed'
    <2>1. MaxAttempts - 1 \in 0..MaxAttempts
      BY DEF RelayAssumption
    <2>2. QueueOK' /\ ident' = ident
      BY <1>4, <2>1 DEF Revive, Queue!Revive, Queue!Phase, QueueOK
    <2> QED  BY <1>4, <1>l, <1>r, <1>s, <1>o, <1>w, <1>a, <2>2 DEF Revive
  <1>5. ASSUME NEW j \in Job, Forget(j) \/ LoseLease(j) PROVE Typed'
    <2>1. QueueOK' /\ ident' = ident
      BY <1>5 DEF Forget, Queue!Forget, Queue!Phase, LoseLease, QueueOK
    <2> QED  BY <1>5, <1>l, <1>r, <1>s, <1>o, <1>w, <1>a, <2>1 DEF Forget, LoseLease
  <1>6. ASSUME NEW a \in Authz, DroppedRetraction(a) PROVE Typed'
    <2>1. -1 \in -1..(PollTimeout + Margin)
      BY DEF RelayAssumption
    <2>2. ServedOK'
      BY <1>6, <2>1 DEF DroppedRetraction, Retracted, ServedOK
    <2> QED  BY <1>6, <1>l, <1>r, <1>o, <1>w, <1>q, <1>a, <2>2 DEF DroppedRetraction
  <1>7. CASE CancelAbandons
    <2>1. LocalOK' /\ OwingOK'
      BY <1>7 DEF CancelAbandons, OrderInvalid, LocalOK, OwingOK
    <2> QED  BY <1>7, <1>r, <1>s, <1>o, <1>q, <1>a, <2>1 DEF CancelAbandons
  <1>8. CASE CancelUnmaps
    <2>1. LocalOK' /\ OwingOK'
      BY <1>8, MappingOK DEF CancelUnmaps, LocalOK, OwingOK
    <2> QED  BY <1>8, <1>r, <1>s, <1>o, <1>q, <1>a, <2>1 DEF CancelUnmaps
  <1>9. CASE CancelLost
    <2>1. OwingOK'
      BY <1>9 DEF CancelLost, OwingOK
    <2> QED  BY <1>9, <1>l, <1>r, <1>s, <1>o, <1>q, <1>a, <2>1 DEF CancelLost
  <1>10. CASE DeleteOrder
    <2>1. NoMapping.status = "none" /\ NoMapping \in [status : {"none", "processing", "valid", "invalid"}, up : 0..MaxUp]
      BY DEF NoMapping, RelayAssumption
    <2>2. LocalOK'
      BY <1>10, <2>1 DEF DeleteOrder, LocalOK
    <2> QED  BY <1>10, <1>r, <1>s, <1>o, <1>w, <1>q, <1>a, <2>2 DEF DeleteOrder
  <1>11. CASE Recover
    <2>1. QueueOK' /\ \A v \in Worker : att[v].pc # "free" => Work(v) = ident'[att[v].job]
      BY <1>11, EnqueueOK DEF Recover
    <2>2. \A v \in Worker : Placed(att[v], ident'[att[v].job])
      BY <2>1 DEF AttOK, Placed, IssuePC, RelayPC
    <2>3. AttOK'
      BY <1>11, <2>2 DEF Recover, AttOK, Work
    <2> QED  BY <1>11, <1>l, <1>r, <1>s, <1>o, <1>w, <2>1, <2>3 DEF Recover
  <1>12. CASE Reload \/ Expire
    <2>1. WorldOK'
      BY <1>12 DEF Reload, Expire, WorldOK
    <2> QED  BY <1>12, <1>l, <1>r, <1>s, <1>w, <1>q, <1>a, <2>1 DEF Reload, Expire
  <1>13. CASE Tick
    <2>1. ServedOK'
      <3>1. \A n \in -1..(PollTimeout + Margin) : n > 0 => n - 1 \in -1..(PollTimeout + Margin)
        BY DEF RelayAssumption
      <3> QED  BY <1>13, <3>1 DEF Tick, ServedOK
    <2>2. ASSUME NEW v \in Worker
          PROVE  att'[v] \in Attempt /\ Placed(att'[v], Work(v))
      <3>1. att[v] \in Attempt /\ Placed(att[v], Work(v))
        BY DEF AttOK
      <3>2. CASE att[v].pc = "free"
        BY <1>13, <3>1, <3>2 DEF Tick
      <3>3. CASE att[v].pc # "free"
        <4>1. att[v].left - 1 \in 0..PollTimeout /\ att'[v] = [att[v] EXCEPT !.left = att[v].left - 1]
          BY <1>13, <3>1, <3>3 DEF Tick, Attempt, RelayAssumption
        <4>2. /\ att'[v] \in Attempt /\ att'[v].pc = att[v].pc /\ att'[v].job = att[v].job
              /\ att'[v].up = att[v].up /\ att'[v].at = att[v].at
          BY <3>1, <4>1 DEF Attempt
        <4> QED  BY <3>1, <4>2 DEF Placed
      <3> QED  BY <3>2, <3>3
    <2>3. \A v \in Worker : att'[v].job = att[v].job
      BY <1>13 DEF Tick, AttOK, Attempt
    <2>4. ident' = ident /\ att' = [v \in Worker |-> att'[v]]
      BY <1>13 DEF Tick, queue
    <2>5. AttOK'
      BY <2>2, <2>3, <2>4 DEF AttOK, Work
    <2> QED  BY <1>13, <1>l, <1>r, <1>o, <1>w, <1>q, <2>1, <2>5 DEF Tick
  <1>14. CASE CleanupTokens
    <2>1. -1 \in -1..(PollTimeout + Margin)
      BY DEF RelayAssumption
    <2>2. ServedOK'
      BY <1>14, <2>1 DEF CleanupTokens, ServedOK
    <2> QED  BY <1>14, <1>l, <1>r, <1>o, <1>w, <1>q, <1>a, <2>2 DEF CleanupTokens
  <1> QED  BY <1>1, <1>2, <1>3, <1>4, <1>5, <1>6, <1>7, <1>8, <1>9, <1>10, <1>11, <1>12, <1>13, <1>14
           DEF UpstreamStep, OperatorStep

LEMMA TypedSafety == Spec => []Typed
  <1>1. Init => Typed
    BY RelayAssumption, InitTyped
  <1>2. Typed /\ [Next]_vars => Typed'
    <2> SUFFICES ASSUME Typed, [Next]_vars PROVE Typed'
      OBVIOUS
    <2>1. CASE Next
      BY <2>1, RelayAssumption, IssueTyped, RelayTyped, EndTyped, WorldTyped DEF Next, WorkerStep
    <2>2. CASE UNCHANGED vars
      BY <2>2 DEF vars, local, remote, served, world, queue, Typed, LocalOK, RemoteOK, ServedOK,
                  WorldOK, QueueOK, OwingOK, AttOK, Work
    <2> QED  BY <2>1, <2>2
  <1> QED  BY <1>1, <1>2, PTL DEF Spec

\* TypeOK is an invariant, whatever the upstream answers and however jobs are
\* redelivered: an attempt at RelayJob::run always names an upstream order that
\* was opened.  It needs more than TypeOK: the mapping row names one, too.
THEOREM TypeCorrect == Spec => []TypeOK
  <1>1. Typed => TypeOK
    BY DEF Typed, TypeOK, LocalOK, RemoteOK, ServedOK, WorldOK, QueueOK, OwingOK, AttOK, Placed
  <1> QED  BY <1>1, TypedSafety, PTL

-----------------------------------------------------------------------------
(* What a step does to the attempts and to the order.                       *)

Working(w) == att[w].pc \notin {"free", "abandon", "unmap"}
Succeeded(w) == att[w].pc = "settle" /\ att[w].outcome = "Done"

\* An attempt at a step of RelayJob::run goes on with the upstream order it has,
\* or has just read it from the mapping row.
KeepsUpstream(w) ==
    att'[w].pc \in RelayPC =>
        \/ att[w].pc \in RelayPC /\ att'[w].up = att[w].up
        \/ map.status # "none" /\ att'[w].up = map.up /\ map' = map

\* A challenge is posed after its token is published, and stays the same one.
KeepsChallenge(w) ==
    /\ att'[w].pc = "trigger" => (att'[w].at = att[w].at /\ Publish(w)) \/ strategy = "bypass"
    /\ att'[w].pc = "await" => att'[w].at = att[w].at /\ Trigger(w)

\* What a worker's step does to its attempt, other than take a row.
LEMMA AttemptSteps ==
    ASSUME Typed, NEW w \in Worker, IssueStep(w) \/ RelayStep(w) \/ EndStep(w)
    PROVE  /\ \A v \in Worker \ {w} : att'[v] = att[v]
           /\ Working(w)' => Working(w) /\ att'[w].job = att[w].job /\ att'[w].left = att[w].left
           /\ KeepsUpstream(w) /\ KeepsChallenge(w)
           /\ att[w].pc = "settle" => ~Working(w)'
           /\ att'[w].pc = "abandon" => Settle(w)
           /\ Succeeded(w)' => Requeue(w) \/ order' # "processing"
  <1>0. att[w] \in Attempt /\ att \in [Worker -> Attempt]
    BY DEF Typed, AttOK
  <1> USE DEF Working, Succeeded, KeepsUpstream, KeepsChallenge, RelayPC
  <1>1. ASSUME NEW o, Answer(w, o)
        PROVE  /\ \A v \in Worker \ {w} : att'[v] = att[v]
               /\ att'[w].pc = "settle" /\ att'[w].job = att[w].job
               /\ att'[w].left = att[w].left /\ att'[w].outcome = o
    BY <1>0, <1>1 DEF Answer, Attempt
  <1>2. ASSUME NEW pc, Goto(w, pc)
        PROVE  /\ \A v \in Worker \ {w} : att'[v] = att[v]
               /\ att'[w].pc = pc /\ att'[w].job = att[w].job
               /\ att'[w].left = att[w].left /\ att'[w].outcome = att[w].outcome
               /\ att'[w].up = att[w].up /\ att'[w].at = att[w].at
    BY <1>0, <1>2 DEF Goto, Attempt
  <1>3. ASSUME att' = [att EXCEPT ![w] = Idle]
        PROVE  (\A v \in Worker \ {w} : att'[v] = att[v]) /\ att'[w].pc = "free"
    BY <1>0, <1>3 DEF Idle
  <1>4. CASE LoadIssue(w)
    BY <1>1, <1>2, <1>4 DEF LoadIssue, local
  <1>5. CASE FindMapping(w)
    BY <1>2, <1>5 DEF FindMapping
  <1>6. CASE OpenOrder(w)
    <2>1. ASSUME NEW u \in Upstream, att' = [att EXCEPT ![w] = [@ EXCEPT !.pc = "create", !.up = u]]
          PROVE  /\ \A v \in Worker \ {w} : att'[v] = att[v]
                 /\ att'[w].pc = "create" /\ att'[w].job = att[w].job /\ att'[w].left = att[w].left
      BY <1>0, <2>1 DEF Attempt
    <2>2. Goto(w, "refuse") \/ \E u \in Upstream : att' = [att EXCEPT ![w] = [@ EXCEPT !.pc = "create", !.up = u]]
      BY <1>6 DEF OpenOrder
    <2>3. att[w].pc = "open"
      BY <1>6 DEF OpenOrder
    <2>4. /\ \A v \in Worker \ {w} : att'[v] = att[v]
          /\ att'[w].pc \in {"create", "refuse"} /\ att'[w].job = att[w].job /\ att'[w].left = att[w].left
      BY <1>2, <2>1, <2>2
    <2> QED  BY <2>3, <2>4
  <1>7. CASE CreateMapping(w)
    BY <1>1, <1>2, <1>7 DEF CreateMapping
  <1>8. CASE Requeue(w)
    BY <1>1, <1>8 DEF Requeue
  <1>9. CASE Refuse(w)
    BY <1>1, <1>9 DEF Refuse, OrderInvalid
  <1>10. CASE LoadRelay(w)
    <2>1. ASSUME att' = [att EXCEPT ![w] = [@ EXCEPT !.pc = "poll", !.up = map.up]]
          PROVE  /\ \A v \in Worker \ {w} : att'[v] = att[v]
                 /\ att'[w].pc = "poll" /\ att'[w].job = att[w].job /\ att'[w].left = att[w].left
                 /\ att'[w].up = map.up
      BY <1>0, <2>1 DEF Attempt
    <2> QED  BY <1>1, <1>10, <2>1 DEF LoadRelay, local
  <1>11. CASE PollUntil(w)
    <2>1. ups[att[w].up] \in Wanted[att[w].pc] => Onwards[ups[att[w].up]] \in {"answer", "finalize", "fetch"}
      BY <1>11 DEF PollUntil, Wanted, Onwards
    <2> QED  BY <1>1, <1>2, <1>11, <2>1 DEF PollUntil
  <1>12. CASE AnswerNext(w)
    <2>1. ASSUME NEW a \in Authz, NEW pc \in {"publish", "trigger"},
                 att' = [att EXCEPT ![w] = [@ EXCEPT !.at = a, !.pc = pc]]
          PROVE  /\ \A v \in Worker \ {w} : att'[v] = att[v]
                 /\ att'[w].pc = pc /\ att'[w].job = att[w].job /\ att'[w].left = att[w].left
                 /\ att'[w].up = att[w].up
      BY <1>0, <2>1 DEF Attempt
    <2>2. \/ Goto(w, "ready")
          \/ \E a \in Authz : att' = [att EXCEPT ![w] = [@ EXCEPT !.at = a, !.pc = "publish"]]
          \/ /\ strategy = "bypass"
             /\ \E a \in Authz : att' = [att EXCEPT ![w] = [@ EXCEPT !.at = a, !.pc = "trigger"]]
      BY <1>12 DEF AnswerNext
    <2>3. att[w].pc = "answer"
      BY <1>12 DEF AnswerNext
    <2>4. /\ \A v \in Worker \ {w} : att'[v] = att[v]
          /\ att'[w].pc \in {"publish", "ready"} \/ (att'[w].pc = "trigger" /\ strategy = "bypass")
          /\ att'[w].job = att[w].job /\ att'[w].left = att[w].left /\ att'[w].up = att[w].up
      BY <1>2, <2>1, <2>2
    <2> QED  BY <2>3, <2>4
  <1>13. CASE Publish(w) \/ Trigger(w)
    BY <1>2, <1>13 DEF Publish, Trigger
  <1>14. CASE AwaitAuthz(w) \/ AwaitFails(w)
    <2>1. ASSUME NEW o, att' = [att EXCEPT ![w] = [@ EXCEPT !.pc = "retract", !.outcome = o]]
          PROVE  /\ \A v \in Worker \ {w} : att'[v] = att[v]
                 /\ att'[w].pc = "retract" /\ att'[w].job = att[w].job /\ att'[w].left = att[w].left
                 /\ att'[w].up = att[w].up
      BY <1>0, <2>1 DEF Attempt
    <2> QED  BY <1>14, <2>1 DEF AwaitAuthz, AwaitFails
  <1>15. CASE Retract(w)
    BY <1>2, <1>15 DEF Retract
  <1>16. CASE PostFinalize(w) \/ FetchChain(w)
    BY <1>1, <1>2, <1>16 DEF PostFinalize, FetchChain
  <1>17. CASE Record(w)
    BY <1>1, <1>17 DEF Record
  <1>18. CASE Interrupted(w) \/ Refused(w) \/ Timeout(w)
    BY <1>1, <1>18 DEF Interrupted, Refused, Timeout, AtUpstream
  <1>19. CASE Settle(w)
    BY <1>2, <1>3, <1>19 DEF Settle
  <1>20. CASE SettleMisses(w) \/ AbandonIssue(w) \/ AbandonMapping(w) \/ Crash(w)
    BY <1>3, <1>20 DEF SettleMisses, AbandonIssue, AbandonMapping, Crash
  <1>21. CASE AbandonRelay(w)
    BY <1>2, <1>3, <1>21 DEF AbandonRelay
  <1> QED  BY <1>4, <1>5, <1>6, <1>7, <1>8, <1>9, <1>10, <1>11, <1>12, <1>13, <1>14, <1>15, <1>16,
              <1>17, <1>18, <1>19, <1>20, <1>21 DEF IssueStep, RelayStep, EndStep

LEMMA TakeSteps ==
    ASSUME Typed, NEW w \in Worker, NEW j \in Job, Take(w, j)
    PROVE  /\ \A v \in Worker \ {w} : att'[v] = att[v]
           /\ att'[w].job = j /\ att'[w].pc = "load"
  BY DEF Take, Idle, Typed, AttOK, Attempt

\* Time only takes from what is left of an attempt, and nothing else but a
\* worker's step changes one.
LEMMA AttemptsLeft ==
    ASSUME Typed, UpstreamStep \/ OperatorStep \/ UNCHANGED vars
    PROVE  \/ att' = att
           \/ Tick /\ \A v \in Worker : /\ att'[v].pc = att[v].pc /\ att'[v].job = att[v].job
                                        /\ att'[v].outcome = att[v].outcome
                                        /\ att'[v].up = att[v].up /\ att'[v].at = att[v].at
                                        /\ att[v].pc # "free" => att'[v].left = att[v].left - 1
  <1>1. CASE Tick
    BY <1>1 DEF Tick, Typed, AttOK, Attempt
  <1>2. CASE OperatorStep /\ ~Tick
    BY <1>2 DEF OperatorStep, CancelRow, Revive, Forget, LoseLease, DroppedRetraction, CancelAbandons,
                CancelUnmaps, CancelLost, DeleteOrder, Recover, Reload, Expire, CleanupTokens
  <1>3. CASE UpstreamStep
    BY <1>3 DEF UpstreamStep, UpSign, UpValidate
  <1>4. CASE UNCHANGED vars
    BY <1>4 DEF vars
  <1> QED  BY <1>1, <1>2, <1>3, <1>4

LEMMA MappingKept ==
    ASSUME NEW s \in {"valid", "invalid"}, LocalOK, map.status # "none"
    PROVE  MappingMarked(s).status # "none" /\ MappingMarked(s).up = map.up
  BY DEF LocalOK, MappingMarked

\* The order never goes back to `processing`, a mapping row goes only with its
\* order, and a certificate is recorded from an attempt's upstream order.
LEMMA OrderSteps ==
    ASSUME Typed, [Next]_vars
    PROVE  /\ order' = "processing" => order = "processing"
           /\ order' # "none" => order # "none"
           /\ order' # "none" /\ map.status # "none" => map'.status # "none" /\ map'.up = map.up
           /\ order' = "valid" => \/ order = "valid" /\ cert' = cert
                                  \/ /\ \E w \in Worker : att[w].pc = "record" /\ cert' = att[w].up
                                     /\ map' = map
  <1>k. \A s \in {"valid", "invalid"} : map.status # "none" =>
           MappingMarked(s).status # "none" /\ MappingMarked(s).up = map.up
    BY MappingKept DEF Typed
  <1>1. ASSUME NEW w \in Worker, IssueStep(w) PROVE
             /\ order' \in {order, OrderInvalid} /\ cert' = cert
             /\ map' \in {map, MappingCreated(att[w].up)}
    BY <1>1 DEF IssueStep, LoadIssue, FindMapping, OpenOrder, CreateMapping, Requeue, Refuse, local
  <1>2. ASSUME NEW w \in Worker, RelayStep(w) PROVE
             \/ order' = order /\ cert' = cert /\ map' \in {map, MappingMarked("valid")}
             \/ order # "none" /\ order' = "valid" /\ map' = map /\ att[w].pc = "record" /\ cert' = att[w].up
    BY <1>2 DEF RelayStep, LoadRelay, PollUntil, AnswerNext, Publish, Trigger, AwaitAuthz, AwaitFails,
                Retract, PostFinalize, FetchChain, Record, local
  <1>3. ASSUME NEW w \in Worker, EndStep(w) \/ \E j \in Job : Take(w, j) PROVE
             /\ order' \in {order, OrderInvalid} /\ cert' = cert
             /\ map' \in {map, MappingMarked("invalid")}
    BY <1>3 DEF EndStep, Take, Interrupted, Refused, Timeout, Settle, SettleMisses, AbandonIssue,
                AbandonRelay, AbandonMapping, Crash, local
  <1>4. ASSUME UpstreamStep PROVE UNCHANGED local
    BY <1>4 DEF UpstreamStep, UpSign, UpValidate
  <1>5. ASSUME OperatorStep PROVE
             \/ /\ order' \in {order, OrderInvalid} /\ cert' = cert
                /\ map' \in {map, MappingMarked("invalid")}
             \/ order' = "none"
    BY <1>5 DEF OperatorStep, CancelRow, Revive, Forget, LoseLease, DroppedRetraction, CancelAbandons,
                CancelUnmaps, CancelLost, DeleteOrder, Recover, Reload, Expire, Tick, CleanupTokens, local
  <1>6. ASSUME UNCHANGED vars PROVE UNCHANGED local
    BY <1>6 DEF vars
  <1>c. ASSUME NEW u, map.status # "none" PROVE MappingCreated(u) = map
    BY <1>c DEF MappingCreated
  <1> QED  BY <1>k, <1>1, <1>2, <1>3, <1>4, <1>5, <1>6, <1>c
           DEF Next, WorkerStep, OrderInvalid, local

-----------------------------------------------------------------------------
(* The certificate of an order is that of the upstream order its mapping    *)
(* row names, because every attempt that relays took its upstream order     *)
(* from that row, and the row never names another.                          *)

RelaysMapped == order # "none" => \A w \in Worker : att[w].pc \in RelayPC =>
                                       map.status # "none" /\ att[w].up = map.up
MapInv == RelaysMapped /\ CertificateIsMapped

LEMMA MapStep == ASSUME Typed, MapInv, [Next]_vars PROVE MapInv'
  <1> USE DEF MapInv, RelaysMapped
  <1>1. ASSUME NEW v \in Worker, att'[v].pc \in RelayPC
        PROVE  \/ att[v].pc \in RelayPC /\ att'[v].up = att[v].up
               \/ map.status # "none" /\ att'[v].up = map.up /\ map' = map
    <2>1. ASSUME NEW w \in Worker, IssueStep(w) \/ RelayStep(w) \/ EndStep(w)
          PROVE  KeepsUpstream(v)
      BY <2>1, AttemptSteps DEF KeepsUpstream
    <2>2. ASSUME NEW w \in Worker, NEW j \in Job, Take(w, j)
          PROVE  KeepsUpstream(v)
      BY <2>2, TakeSteps DEF KeepsUpstream, RelayPC
    <2>3. CASE UpstreamStep \/ OperatorStep \/ UNCHANGED vars
      BY <1>1, <2>3, AttemptsLeft
    <2> QED  BY <1>1, <2>1, <2>2, <2>3 DEF KeepsUpstream, Next, WorkerStep
  <1>2. RelaysMapped'
    BY <1>1, OrderSteps
  <1>3. CertificateIsMapped'
    BY OrderSteps DEF CertificateIsMapped, RelayPC
  <1> QED  BY <1>2, <1>3

\* However often signer_issue and relay are redelivered, at whatever step an
\* attempt dies or loses its lease, the certificate record_issuance stores is that
\* of the upstream order the order's one mapping row names.
THEOREM CertificateComesMapped == Spec => []CertificateIsMapped
  <1>1. Init => MapInv
    BY DEF Init, Idle, MapInv, RelaysMapped, CertificateIsMapped, RelayPC
  <1>2. Typed /\ MapInv /\ [Next]_vars => MapInv'
    BY MapStep
  <1>3. MapInv => CertificateIsMapped
    BY DEF MapInv
  <1> QED  BY <1>1, <1>2, <1>3, TypedSafety, PTL DEF Spec

-----------------------------------------------------------------------------
(* Between the two jobs the order is never dropped.  A live row is not      *)
(* enough: it must not be one whose attempt has already answered Done.      *)

Doomed(j) == \E w \in Worker : Succeeded(w) /\ att[w].job = j
Live == \E j \in Job : phase[j] = "queued" /\ ~Doomed(j)
Told == \/ \E w \in Worker : att[w].pc = "abandon"
        \/ owing \in Key
        \/ mishaps \cap {"untold", "reload"} # {}

InHand == order = "processing" => Live \/ Told
RelayDone == \A w \in Worker : Succeeded(w) /\ Work(w) = "relay" => order # "processing"
Mounted == mounted \/ "reload" \in mishaps
FlowInv == InHand /\ RelayDone /\ Mounted

\* The environment of a behaviour stays, but for a reload.
LEMMA WorldSteps ==
    ASSUME [Next]_vars
    PROVE  /\ strategy' = strategy /\ mishaps' = mishaps
           /\ mounted' = mounted \/ "reload" \in mishaps
  <1>1. ASSUME NEW w \in Worker, WorkerStep(w) PROVE UNCHANGED world
    <2>1. CASE IssueStep(w) \/ \E j \in Job : Take(w, j)
      BY <2>1 DEF IssueStep, LoadIssue, FindMapping, OpenOrder, CreateMapping, Requeue, Refuse, Take
    <2>2. CASE RelayStep(w)
      BY <2>2 DEF RelayStep, LoadRelay, PollUntil, AnswerNext, Publish, Trigger, AwaitAuthz, AwaitFails,
                  Retract, PostFinalize, FetchChain, Record
    <2>3. CASE EndStep(w)
      BY <2>3 DEF EndStep, Interrupted, Refused, Timeout, Settle, SettleMisses, AbandonIssue,
                  AbandonRelay, AbandonMapping, Crash
    <2> QED  BY <1>1, <2>1, <2>2, <2>3 DEF WorkerStep
  <1>2. ASSUME UpstreamStep PROVE UNCHANGED world
    BY <1>2 DEF UpstreamStep, UpSign, UpValidate
  <1>3. ASSUME OperatorStep, ~Reload PROVE UNCHANGED <<strategy, mishaps, mounted>>
    BY <1>3 DEF OperatorStep, CancelRow, Revive, Forget, LoseLease, DroppedRetraction, CancelAbandons,
                CancelUnmaps, CancelLost, DeleteOrder, Recover, Expire, Tick, CleanupTokens, world
  <1>4. ASSUME Reload PROVE UNCHANGED <<strategy, mishaps>> /\ "reload" \in mishaps
    BY <1>4 DEF Reload
  <1> QED  BY <1>1, <1>2, <1>3, <1>4 DEF Next, vars, world

\* A step that neither takes, settles, cancels, revives, forgets, queues nor
\* loses a row leaves the queue alone.
LEMMA QueueSteps ==
    ASSUME [Next]_vars
    PROVE  \/ UNCHANGED queue
           \/ EnqueueRelay
           \/ \E w \in Worker : Settle(w) \/ Crash(w) \/ \E j \in Job : Take(w, j)
           \/ \E j \in Job : CancelRow(j) \/ Revive(j) \/ Forget(j) \/ LoseLease(j)
  <1>1. ASSUME NEW w \in Worker, IssueStep(w) PROVE UNCHANGED queue \/ EnqueueRelay
    BY <1>1 DEF IssueStep, LoadIssue, FindMapping, OpenOrder, CreateMapping, Requeue, Refuse
  <1>2. ASSUME NEW w \in Worker, RelayStep(w) PROVE UNCHANGED queue
    BY <1>2 DEF RelayStep, LoadRelay, PollUntil, AnswerNext, Publish, Trigger, AwaitAuthz, AwaitFails,
                Retract, PostFinalize, FetchChain, Record
  <1>3. ASSUME NEW w \in Worker, EndStep(w), ~Settle(w), ~Crash(w) PROVE UNCHANGED queue
    BY <1>3 DEF EndStep, Interrupted, Refused, Timeout, SettleMisses, AbandonIssue,
                AbandonRelay, AbandonMapping
  <1>4. ASSUME UpstreamStep PROVE UNCHANGED queue
    BY <1>4 DEF UpstreamStep, UpSign, UpValidate
  <1>5. ASSUME OperatorStep, ~\E j \in Job : CancelRow(j) \/ Revive(j) \/ Forget(j) \/ LoseLease(j)
        PROVE  UNCHANGED queue \/ EnqueueRelay
    BY <1>5 DEF OperatorStep, DroppedRetraction, CancelAbandons, CancelUnmaps, CancelLost, DeleteOrder,
                Recover, Reload, Expire, Tick, CleanupTokens
  <1> QED  BY <1>1, <1>2, <1>3, <1>4, <1>5 DEF Next, WorkerStep, vars

\* No row an attempt names changes what it is about.
LEMMA WorkKept ==
    ASSUME RelayAssumption, Typed, [Next]_vars, NEW v \in Worker, att[v].pc # "free"
    PROVE  ident'[att[v].job] = Work(v)
  <1>1. CASE EnqueueRelay
    BY <1>1, EnqueueOK DEF Typed
  <1>2. CASE ident' = ident
    BY <1>2 DEF Work
  <1>3. EnqueueRelay \/ ident' = ident
    BY QueueSteps DEF queue, Settle, Queue!Finish, Crash, Take, CancelRow, Queue!Cancel, Revive, Queue!Revive,
                      Forget, Queue!Forget, LoseLease
  <1> QED  BY <1>1, <1>2, <1>3

\* A row is settled by the attempt that holds it, or taken off by the operator.
LEMMA RowSteps ==
    ASSUME Typed, [Next]_vars, NEW j \in Job, phase[j] = "queued", phase'[j] # "queued"
    PROVE  (\E w \in Worker : Settle(w) /\ att[w].job = j) \/ CancelRow(j)
  <1>1. ASSUME NEW w \in Worker, Settle(w) PROVE att[w].job = j
    BY <1>1 DEF Settle, Queue!Finish, Typed, QueueOK
  <1>2. ASSUME NEW i \in Job, CancelRow(i) \/ Revive(i) \/ Forget(i) \/ LoseLease(i) PROVE CancelRow(j)
    BY <1>2 DEF CancelRow, Queue!Cancel, Revive, Queue!Revive, Forget, Queue!Forget, LoseLease, Typed, QueueOK
  <1>3. ~EnqueueRelay
    BY DEF EnqueueRelay, Queue!Submit, queue, Typed, QueueOK
  <1>4. \A w \in Worker : ~Crash(w) /\ \A i \in Job : ~Take(w, i)
    BY DEF Crash, Take
  <1>5. phase' # phase
    OBVIOUS
  <1> QED  BY <1>1, <1>2, <1>3, <1>4, <1>5, QueueSteps DEF queue

\* signer_issue is done only once a row for the relay is live.
LEMMA RequeueLive ==
    ASSUME RelayAssumption, Typed, RelayDone, order = "processing", NEW w \in Worker, Requeue(w)
    PROVE  Live'
  <1>0. /\ att[w].pc = "requeue" /\ Work(w) = "issue" /\ att[w].job \in Job /\ att[w] \in Attempt
    BY WorkOK DEF Requeue, Typed, AttOK, Placed, IssuePC
  <1>1. /\ \A v \in Worker \ {w} : att'[v] = att[v]
        /\ att'[w].job = att[w].job
    BY <1>0 DEF Requeue, Answer, Typed, AttOK, Attempt
  <1>2. ASSUME NEW j \in Job, \A v \in Worker : att[v].job # j, Queue!Submit(j, "relay")
        PROVE  Live'
    <2>1. phase'[j] = "queued"
      BY <1>2 DEF Queue!Submit, Typed, QueueOK
    <2>2. ~Doomed(j)'
      BY <1>1, <1>2 DEF Doomed
    <2> QED  BY <2>1, <2>2 DEF Live
  <1>3. ASSUME ~Queue!Unclaimed("relay"), UNCHANGED queue
        PROVE  Live'
    <2>1. PICK j \in Job : phase[j] = "queued" /\ ident[j] = "relay"
      BY <1>3 DEF Queue!Unclaimed
    <2>2. ~Doomed(j)'
      BY <1>0, <1>1, <2>1 DEF Doomed, RelayDone, Succeeded, Work
    <2> QED  BY <1>3, <2>1, <2>2 DEF Live, queue
  <1> QED  BY <1>2, <1>3 DEF Requeue, EnqueueRelay

\* An attempt that has succeeded has just requeued or settled the order, unless
\* it had before.
LEMMA SucceededSince ==
    ASSUME Typed, [Next]_vars, NEW w \in Worker, Succeeded(w)'
    PROVE  (Succeeded(w) /\ att'[w].job = att[w].job) \/ Requeue(w) \/ order' # "processing"
  <1>1. ASSUME NEW v \in Worker, IssueStep(v) \/ RelayStep(v) \/ EndStep(v)
        PROVE  (Succeeded(w) /\ att'[w].job = att[w].job) \/ Requeue(w) \/ order' # "processing"
    BY <1>1, AttemptSteps DEF Succeeded
  <1>2. ASSUME NEW v \in Worker, NEW j \in Job, Take(v, j)
        PROVE  Succeeded(w) /\ att'[w].job = att[w].job
    BY <1>2, TakeSteps DEF Succeeded
  <1>3. ASSUME UpstreamStep \/ OperatorStep \/ UNCHANGED vars
        PROVE  Succeeded(w) /\ att'[w].job = att[w].job
    BY <1>3, AttemptsLeft DEF Succeeded
  <1> QED  BY <1>1, <1>2, <1>3 DEF Next, WorkerStep

\* A retirement is told to its handler unless the process dies first.
LEMMA AbandonSteps ==
    ASSUME Typed, Mounted, [Next]_vars, NEW w \in Worker, att[w].pc = "abandon"
    PROVE  \/ att'[w].pc = "abandon" \/ order' # "processing"
           \/ mishaps \cap {"untold", "reload"} # {}
  <1>1. ASSUME IssueStep(w) \/ RelayStep(w) PROVE FALSE
    BY <1>1 DEF IssueStep, LoadIssue, FindMapping, OpenOrder, CreateMapping, Requeue, Refuse,
                RelayStep, LoadRelay, PollUntil, AnswerNext, Publish, Trigger, AwaitAuthz, AwaitFails,
                Retract, PostFinalize, FetchChain, Record
  <1>2. ASSUME EndStep(w)
        PROVE  order' # "processing" \/ mishaps \cap {"untold", "reload"} # {}
    <2>1. CASE AbandonIssue(w)
      BY <2>1 DEF AbandonIssue, OrderInvalid
    <2>2. CASE AbandonRelay(w)
      BY <2>2 DEF AbandonRelay, OrderInvalid, Mounted
    <2>3. CASE Crash(w)
      BY <2>3 DEF Crash
    <2>4. ~(Interrupted(w) \/ Refused(w) \/ Timeout(w) \/ Settle(w) \/ SettleMisses(w) \/ AbandonMapping(w))
      BY DEF Interrupted, Refused, Timeout, Settle, SettleMisses, AbandonMapping, AtUpstream
    <2> QED  BY <1>2, <2>1, <2>2, <2>3, <2>4 DEF EndStep
  <1>3. ASSUME NEW v \in Worker \ {w}, IssueStep(v) \/ RelayStep(v) \/ EndStep(v)
        PROVE  att'[w].pc = "abandon"
    BY <1>3, AttemptSteps
  <1>4. ASSUME NEW v \in Worker, NEW j \in Job, Take(v, j)
        PROVE  att'[w].pc = "abandon"
    <2>1. v # w
      BY <1>4 DEF Take
    <2> QED  BY <1>4, <2>1, TakeSteps
  <1>5. ASSUME UpstreamStep \/ OperatorStep \/ UNCHANGED vars
        PROVE  att'[w].pc = "abandon"
    BY <1>5, AttemptsLeft
  <1> QED  BY <1>1, <1>2, <1>3, <1>4, <1>5 DEF Next, WorkerStep

\* A cancellation is seen through unless the process dies first.
LEMMA OwingSteps ==
    ASSUME [Next]_vars, owing \in Key
    PROVE  owing' = owing \/ order' # "processing" \/ "untold" \in mishaps
  <1>1. ASSUME NEW w \in Worker, WorkerStep(w) PROVE owing' = owing
    <2>1. CASE IssueStep(w) \/ \E j \in Job : Take(w, j)
      BY <2>1 DEF IssueStep, LoadIssue, FindMapping, OpenOrder, CreateMapping, Requeue, Refuse, Take
    <2>2. CASE RelayStep(w)
      BY <2>2 DEF RelayStep, LoadRelay, PollUntil, AnswerNext, Publish, Trigger, AwaitAuthz, AwaitFails,
                  Retract, PostFinalize, FetchChain, Record
    <2>3. CASE EndStep(w)
      BY <2>3 DEF EndStep, Interrupted, Refused, Timeout, Settle, SettleMisses, AbandonIssue,
                  AbandonRelay, AbandonMapping, Crash
    <2> QED  BY <1>1, <2>1, <2>2, <2>3 DEF WorkerStep
  <1>2. ASSUME UpstreamStep PROVE owing' = owing
    BY <1>2 DEF UpstreamStep, UpSign, UpValidate
  <1>3. ASSUME CancelAbandons PROVE order' # "processing"
    BY <1>3 DEF CancelAbandons, OrderInvalid
  <1>4. ASSUME OperatorStep, ~CancelAbandons PROVE owing' = owing \/ "untold" \in mishaps
    BY <1>4 DEF OperatorStep, CancelRow, Revive, Forget, LoseLease, DroppedRetraction,
                CancelUnmaps, CancelLost, DeleteOrder, Recover, Reload, Expire, Tick, CleanupTokens, Key
  <1> QED  BY <1>1, <1>2, <1>3, <1>4 DEF Next, vars

LEMMA FlowStep ==
    ASSUME RelayAssumption, Typed, FlowInv, [Next]_vars
    PROVE  FlowInv'
  <1> USE DEF FlowInv
  <1>1. Mounted'
    BY WorldSteps DEF Mounted
  <1>2. RelayDone'
    <2> SUFFICES ASSUME NEW w \in Worker, Succeeded(w)', Work(w)' = "relay" PROVE order' # "processing"
      BY DEF RelayDone
    <2>1. CASE Succeeded(w) /\ att'[w].job = att[w].job
      <3>1. Work(w) = "relay"
        BY <2>1, WorkKept DEF Succeeded, Work
      <3> QED  BY <2>1, <3>1, OrderSteps DEF RelayDone
    <2>2. CASE Requeue(w)
      <3>1. att[w].pc # "free" /\ Work(w) = "issue" /\ att'[w].job = att[w].job
        BY <2>2 DEF Requeue, Answer, Typed, AttOK, Placed, IssuePC, Attempt
      <3> QED  BY <3>1, WorkKept DEF Work
    <2> QED  BY <2>1, <2>2, SucceededSince
  <1>3. InHand'
    <2> SUFFICES ASSUME order' = "processing" PROVE Live' \/ Told'
      BY DEF InHand
    <2>1. order = "processing" /\ mishaps' = mishaps
      BY OrderSteps, WorldSteps
    <2>2. CASE Live
      <3>1. PICK j \in Job : phase[j] = "queued" /\ ~Doomed(j)
        BY <2>2 DEF Live
      <3>2. ASSUME NEW w \in Worker, Requeue(w) PROVE Live'
        BY <2>1, <3>2, RequeueLive
      <3>3. CASE phase'[j] = "queued" /\ ~\E w \in Worker : Requeue(w)
        <4>1. ~Doomed(j)'
          BY <3>1, <3>3, SucceededSince DEF Doomed
        <4> QED  BY <3>3, <4>1 DEF Live
      <3>4. ASSUME NEW w \in Worker, Settle(w), att[w].job = j, phase'[j] # "queued" PROVE Told'
        <4>1. att[w].outcome # "Done"
          BY <3>1, <3>4 DEF Doomed, Succeeded, Settle
        <4>2. Goto(w, "abandon")
          BY <3>1, <3>4, <4>1 DEF Settle
        <4>3. att'[w].pc = "abandon"
          BY <4>2 DEF Goto, Typed, AttOK, Attempt
        <4> QED  BY <4>3 DEF Told
      <3>5. CASE CancelRow(j)
        <4>1. owing' = ident[j] /\ ident[j] \in Key
          BY <3>1, <3>5 DEF CancelRow, Typed, QueueOK
        <4> QED  BY <4>1 DEF Told
      <3> QED  BY <3>1, <3>2, <3>3, <3>4, <3>5, RowSteps
    <2>3. ASSUME mishaps \cap {"untold", "reload"} # {} PROVE Told'
      BY <2>1, <2>3 DEF Told
    <2>4. ASSUME NEW w \in Worker, att[w].pc = "abandon" PROVE Told'
      <3>1. att'[w].pc = "abandon" \/ mishaps \cap {"untold", "reload"} # {}
        BY <2>4, AbandonSteps
      <3>2. CASE att'[w].pc = "abandon"
        BY <3>2 DEF Told
      <3> QED  BY <2>3, <3>1, <3>2
    <2>5. ASSUME owing \in Key PROVE Told'
      <3>1. owing' = owing \/ "untold" \in mishaps
        BY <2>5, OwingSteps
      <3>2. CASE owing' = owing
        BY <2>5, <3>2 DEF Told
      <3> QED  BY <2>3, <3>1, <3>2
    <2> QED  BY <2>1, <2>2, <2>3, <2>4, <2>5 DEF InHand, Told
  <1> QED  BY <1>1, <1>2, <1>3

\* From signer_issue's answer to the relay's, an order that is `processing` has a
\* live row, or a retirement or a cancellation about to abandon it.  The invariant
\* must know which live rows are about to be retired as Done, and that a relay
\* row's attempt answers Done only with the order settled.
THEOREM OrderIsNeverBetween == Spec => []NeverBetween
  <1>1. ASSUME Init PROVE FlowInv
    <2>1. \A w \in Worker : ~Succeeded(w)
      BY <1>1 DEF Init, Succeeded, Idle
    <2>2. First \in Job /\ phase[First] = "queued"
      BY <1>1, RelayAssumption DEF Init, RelayAssumption
    <2>3. Live
      BY <2>1, <2>2 DEF Live, Doomed
    <2> QED  BY <1>1, <2>1, <2>3 DEF Init, FlowInv, InHand, RelayDone, Mounted
  <1>2. Typed /\ FlowInv /\ [Next]_vars => FlowInv'
    BY RelayAssumption, FlowStep
  <1>3. FlowInv => NeverBetween
    BY DEF FlowInv, InHand, Live, Told, NeverBetween, Coming
  <1> QED  BY <1>1, <1>2, <1>3, TypedSafety, PTL DEF Spec

-----------------------------------------------------------------------------
(* While leases hold, one attempt at a time relays, and no retraction is    *)
(* pending while it does.                                                   *)

Calm == mishaps \cap {"overlap", "late"} = {}

LeaseHeld == \A w \in Worker : Working(w) => phase[att[w].job] = "queued" /\ holder[att[w].job] = w
OneQueued == \A i, j \in Job : phase[i] = "queued" /\ phase[j] = "queued" /\ ident[i] = ident[j] => i = j

Relaying(w) == Working(w) /\ att[w].pc # "settle" /\ Work(w) = "relay"
NoneDropping == \A w \in Worker : Relaying(w) => dropping = {}
TokenLasts == \A w \in Worker : att[w].pc \in {"trigger", "await"} /\ strategy # "bypass" =>
                                    token[att[w].at] >= att[w].left + Margin
ServeInv == OneQueued /\ (Calm => LeaseHeld /\ NoneDropping /\ TokenLasts)

LEMMA HeldStep ==
    ASSUME RelayAssumption, Typed, OneQueued, [Next]_vars
    PROVE  OneQueued' /\ (LeaseHeld /\ "overlap" \notin mishaps => LeaseHeld')
  <1> DEFINE Held == OneQueued' /\ (LeaseHeld /\ "overlap" \notin mishaps => LeaseHeld')
  <1> USE DEF LeaseHeld, OneQueued
  <1>a. \A w \in Worker : Working(w) => att[w].job \in Job
    BY WorkOK DEF Typed, Working
  <1>n. \A w \in Worker : w # NoWorker
    BY DEF RelayAssumption
  <1>w. ASSUME NEW w \in Worker, Working(w)', ~\E j \in Job : Take(w, j)
        PROVE  Working(w) /\ att'[w].job = att[w].job
    <2>1. ASSUME NEW v \in Worker, IssueStep(v) \/ RelayStep(v) \/ EndStep(v)
          PROVE  Working(w) /\ att'[w].job = att[w].job
      BY <1>w, <2>1, AttemptSteps DEF Working
    <2>2. ASSUME NEW v \in Worker, NEW j \in Job, Take(v, j)
          PROVE  Working(w) /\ att'[w].job = att[w].job
      BY <1>w, <2>2, TakeSteps DEF Working
    <2>3. ASSUME UpstreamStep \/ OperatorStep \/ UNCHANGED vars
          PROVE  Working(w) /\ att'[w].job = att[w].job
      BY <1>w, <2>3, AttemptsLeft DEF Working
    <2> QED  BY <2>1, <2>2, <2>3 DEF Next, WorkerStep
  <1>t. ASSUME NEW w \in Worker, NEW j \in Job, Take(w, j) PROVE Held
    <2>1. /\ phase[j] = "queued" /\ holder[j] = NoWorker /\ UNCHANGED <<phase, ident>>
          /\ holder' = [holder EXCEPT ![j] = w]
      BY <1>t DEF Take
    <2>2. holder'[j] = w /\ \A i \in Job : i # j => holder'[i] = holder[i]
      BY <2>1 DEF Typed, QueueOK
    <2>3. att'[w].job = j /\ \A v \in Worker \ {w} : att'[v] = att[v]
      BY <1>t, TakeSteps
    <2> QED  BY <1>a, <1>n, <2>1, <2>2, <2>3 DEF Working
  <1>1. ASSUME ~\E w \in Worker, j \in Job : Take(w, j), UNCHANGED queue PROVE Held
    BY <1>w, <1>1 DEF queue
  <1>2. ASSUME ~\E w \in Worker, j \in Job : Take(w, j), NEW j \in Job,
               \A w \in Worker : att[w].job # j, Queue!Submit(j, "relay"), holder' = holder
        PROVE  Held
    <2>1. /\ phase[j] = "none" /\ \A i \in Job : phase[i] = "queued" => ident[i] # "relay"
          /\ phase' = [phase EXCEPT ![j] = "queued"] /\ ident' = [ident EXCEPT ![j] = "relay"]
      BY <1>2 DEF Queue!Submit, Queue!Unclaimed
    <2>2. \A i \in Job : /\ phase'[i] = IF i = j THEN "queued" ELSE phase[i]
                         /\ ident'[i] = IF i = j THEN "relay" ELSE ident[i]
      BY <2>1 DEF Typed, QueueOK
    <2>3. OneQueued'
      BY <2>1, <2>2
    <2>4. LeaseHeld => LeaseHeld'
      BY <1>a, <1>w, <1>2, <2>2
    <2> QED  BY <2>3, <2>4
  <1>3. ASSUME NEW w \in Worker, Settle(w) PROVE Held
    <2>1. att[w].job \in Job /\ ~\E v \in Worker, j \in Job : Take(v, j)
      BY <1>3, WorkOK DEF Settle, Take, Typed, QueueOK
    <2>2. /\ holder[att[w].job] = w /\ ident' = ident
          /\ phase' = phase \/ \E p \in {"done", "failed"} : phase' = [phase EXCEPT ![att[w].job] = p]
          /\ holder' = [holder EXCEPT ![att[w].job] = NoWorker]
      BY <1>3 DEF Settle, Queue!Finish
    <2>3. ~Working(w)'
      BY <1>3 DEF Settle, Goto, Working, Idle, Typed, AttOK, Attempt
    <2>4. \A i \in Job : i # att[w].job => phase'[i] = phase[i] /\ holder'[i] = holder[i]
      BY <2>1, <2>2 DEF Typed, QueueOK
    <2>5. \A i \in Job : phase'[i] = "queued" => phase[i] = "queued"
      BY <2>1, <2>2 DEF Typed, QueueOK
    <2> QED  BY <1>a, <1>w, <2>1, <2>2, <2>3, <2>4, <2>5
  <1>4. ASSUME NEW w \in Worker, Crash(w) PROVE Held
    <2>1. UNCHANGED <<phase, ident>> /\ ~Working(w)' /\ \A j \in Job : holder[j] # w => holder'[j] = holder[j]
      BY <1>4 DEF Crash, Working, Idle, Typed, AttOK
    <2>2. ~\E v \in Worker, j \in Job : Take(v, j)
      <3>1. \A v \in Worker, j \in Job : Take(v, j) => att'[v].pc = "load" /\ \A u \in Worker \ {v} : att'[u] = att[u]
        BY TakeSteps
      <3>2. att'[w].pc = "free" /\ att[w].pc # "free"
        BY <1>4 DEF Crash, Idle, Typed, AttOK
      <3> QED  BY <3>1, <3>2
    <2> QED  BY <1>a, <1>w, <2>1, <2>2
  <1>5. ASSUME NEW j \in Job, CancelRow(j) \/ Forget(j) PROVE Held
    <2>1. /\ UNCHANGED <<ident, holder, att>>
          /\ phase[j] = "queued" => holder[j] = NoWorker
          /\ \E p \in {"cancelled", "none"} : phase' = [phase EXCEPT ![j] = p]
      BY <1>5 DEF CancelRow, Forget, Queue!Cancel, Queue!Forget
    <2> QED  BY <1>a, <1>n, <2>1 DEF Working, Typed, QueueOK
  <1>6. ASSUME NEW j \in Job, Revive(j) PROVE Held
    <2>1. /\ UNCHANGED <<ident, holder, att>> /\ phase[j] = "failed"
          /\ \A i \in Job : phase[i] = "queued" => ident[i] # ident[j]
          /\ phase' = [phase EXCEPT ![j] = "queued"]
      BY <1>6 DEF Revive, Queue!Revive, Queue!Unclaimed
    <2> QED  BY <1>a, <2>1 DEF Working, Typed, QueueOK
  <1>7. ASSUME NEW j \in Job, LoseLease(j) PROVE Held
    BY <1>7 DEF LoseLease
  <1>8. ASSUME EnqueueRelay, ~\E w \in Worker, j \in Job : Take(w, j) PROVE Held
    BY <1>1, <1>2, <1>8 DEF EnqueueRelay
  <1>9. Held
    BY <1>t, <1>1, <1>3, <1>4, <1>5, <1>6, <1>7, <1>8, QueueSteps
  <1> QED  BY <1>9

\* At most one attempt relays.
LEMMA OneRelays ==
    ASSUME Typed, LeaseHeld, OneQueued, NEW v \in Worker, NEW w \in Worker, Relaying(v), Relaying(w)
    PROVE  v = w
  <1>1. att[v].job \in Job /\ att[w].job \in Job
    BY WorkOK DEF Relaying, Working, Typed
  <1>2. att[v].job = att[w].job
    BY <1>1 DEF LeaseHeld, OneQueued, Relaying, Work
  <1> QED  BY <1>2 DEF LeaseHeld, Relaying

LEMMA RelayPCRelays == ASSUME Typed, NEW w \in Worker, att[w].pc \in RelayPC PROVE Relaying(w)
  BY DEF Typed, AttOK, Placed, RelayPC, Relaying, Working

\* Only a dropped attempt leaves a retraction to the runtime.
LEMMA DroppingSteps ==
    ASSUME [Next]_vars
    PROVE  dropping' \subseteq dropping \/ \E w \in Worker : Timeout(w)
  <1>1. ASSUME NEW w \in Worker, WorkerStep(w), ~Timeout(w) PROVE dropping' \subseteq dropping
    <2>1. CASE IssueStep(w) \/ \E j \in Job : Take(w, j)
      BY <2>1 DEF IssueStep, LoadIssue, FindMapping, OpenOrder, CreateMapping, Requeue, Refuse, Take, served
    <2>2. CASE RelayStep(w)
      BY <2>2 DEF RelayStep, LoadRelay, PollUntil, AnswerNext, Publish, Trigger, AwaitAuthz, AwaitFails,
                  Retract, PostFinalize, FetchChain, Record, served
    <2>3. CASE EndStep(w)
      BY <1>1, <2>3 DEF EndStep, Interrupted, Refused, Settle, SettleMisses, AbandonIssue,
                  AbandonRelay, AbandonMapping, Crash, served
    <2> QED  BY <1>1, <2>1, <2>2, <2>3 DEF WorkerStep
  <1>2. ASSUME UpstreamStep PROVE dropping' = dropping
    BY <1>2 DEF UpstreamStep, UpSign, UpValidate, served
  <1>3. ASSUME OperatorStep PROVE dropping' \subseteq dropping
    BY <1>3 DEF OperatorStep, CancelRow, Revive, Forget, LoseLease, DroppedRetraction, CancelAbandons,
                CancelUnmaps, CancelLost, DeleteOrder, Recover, Reload, Expire, Tick, CleanupTokens, served
  <1> QED  BY <1>1, <1>2, <1>3 DEF Next, vars, served

\* An attempt that relays did so before, on the same row, or has just taken one.
LEMMA RelayingSince ==
    ASSUME RelayAssumption, Typed, [Next]_vars, NEW v \in Worker, Relaying(v)'
    PROVE  Relaying(v) \/ \E j \in Job : Take(v, j)
  <1>1. ASSUME Working(v), att'[v].job = att[v].job, att[v].pc # "settle" PROVE Relaying(v)
    <2>1. ident'[att[v].job] = "relay"
      BY <1>1 DEF Relaying, Work
    <2> QED  BY <1>1, <2>1, WorkKept DEF Relaying, Working
  <1>2. ASSUME NEW w \in Worker, IssueStep(w) \/ RelayStep(w) \/ EndStep(w)
        PROVE  Relaying(v)
    BY <1>1, <1>2, AttemptSteps DEF Relaying, Working
  <1>3. ASSUME NEW w \in Worker, NEW j \in Job, Take(w, j), w # v
        PROVE  Relaying(v)
    BY <1>1, <1>3, TakeSteps DEF Relaying, Working
  <1>4. ASSUME UpstreamStep \/ OperatorStep \/ UNCHANGED vars
        PROVE  Relaying(v)
    BY <1>1, <1>4, AttemptsLeft DEF Relaying, Working
  <1> QED  BY <1>2, <1>3, <1>4 DEF Next, WorkerStep

LEMMA DroppingStep ==
    ASSUME RelayAssumption, Typed, Calm, LeaseHeld, OneQueued, NoneDropping, [Next]_vars
    PROVE  NoneDropping'
  <1> SUFFICES ASSUME NEW v \in Worker, Relaying(v)' PROVE dropping' = {}
    BY DEF NoneDropping
  <1>1. ASSUME NEW j \in Job, Take(v, j) PROVE dropping' = {}
    BY <1>1 DEF Take, Calm, served
  <1>2. ASSUME Relaying(v) PROVE dropping' = {}
    <2>1. ASSUME NEW w \in Worker, Timeout(w) PROVE FALSE
      <3>1. Relaying(w)
        BY <2>1 DEF Timeout, Relaying, Working
      <3>2. w = v
        BY <1>2, <3>1, OneRelays
      <3>3. att'[v].pc = "settle"
        BY <2>1, <3>2 DEF Timeout, Answer, Typed, AttOK, Attempt
      <3> QED  BY <3>3 DEF Relaying
    <2> QED  BY <1>2, <2>1, DroppingSteps DEF NoneDropping
  <1> QED  BY <1>1, <1>2, RelayingSince

LEMMA TokenStep ==
    ASSUME RelayAssumption, Typed, Calm, LeaseHeld, OneQueued, NoneDropping, TokenLasts, [Next]_vars
    PROVE  TokenLasts'
  <1> SUFFICES ASSUME NEW v \in Worker, att'[v].pc \in {"trigger", "await"}, strategy' # "bypass"
               PROVE  token'[att'[v].at] >= att'[v].left + Margin
    BY DEF TokenLasts
  <1>s. strategy # "bypass"
    BY WorldSteps
  <1>a. /\ token \in [Authz -> -1..(PollTimeout + Margin)]
        /\ att \in [Worker -> Attempt] /\ att[v].left \in 0..PollTimeout
        /\ PollTimeout \in Nat /\ Margin \in Nat \ {0}
    BY DEF Typed, ServedOK, AttOK, Attempt, RelayAssumption
  <1>b. att[v].pc \in {"publish", "trigger", "await"} => att[v].at \in Authz /\ token[att[v].at] \in Int
    BY <1>a DEF Typed, AttOK, Placed
  <1>c. ASSUME NEW w \in Worker, att[v].pc \in {"trigger", "await"}, Publish(w) \/ Retract(w)
        PROVE  w = v
    BY <1>c, RelayPCRelays, OneRelays DEF Publish, Retract, RelayPC
  <1>d. ASSUME att[v].pc \in {"trigger", "await"} PROVE dropping = {}
    BY <1>d, RelayPCRelays DEF NoneDropping, RelayPC
  <1>1. CASE Publish(v)
    <2>1. token'[att[v].at] = PollTimeout + Margin
      BY <1>1, <1>a, <1>b DEF Publish, Published
    <2>2. att'[v].at = att[v].at /\ att'[v].left = att[v].left
      BY <1>1, <1>a DEF Publish, Goto, Attempt
    <2> QED  BY <1>a, <2>1, <2>2
  <1>2. CASE Trigger(v)
    <2>1. att[v].pc = "trigger" /\ token' = token
      BY <1>2 DEF Trigger, served
    <2>2. att'[v].at = att[v].at /\ att'[v].left = att[v].left
      BY <1>2, <1>a DEF Trigger, Goto, Attempt
    <2> QED  BY <1>s, <2>1, <2>2 DEF TokenLasts
  <1>3. ASSUME NEW w \in Worker, IssueStep(w) \/ RelayStep(w) \/ EndStep(w), ~Publish(v), ~Trigger(v)
        PROVE  token'[att'[v].at] >= att'[v].left + Margin
    <2>1. w # v
      BY <1>3, <1>s, AttemptSteps DEF KeepsChallenge
    <2>2. att'[v] = att[v]
      BY <1>3, <2>1, AttemptSteps
    <2>3. ~Publish(w) /\ ~Retract(w)
      BY <1>c, <2>1, <2>2
    <2>4. token' = token
      BY <1>3, <2>3 DEF IssueStep, LoadIssue, FindMapping, OpenOrder, CreateMapping, Requeue, Refuse,
                  RelayStep, LoadRelay, PollUntil, AnswerNext, Trigger, AwaitAuthz, AwaitFails,
                  PostFinalize, FetchChain, Record, EndStep, Interrupted, Refused, Timeout, Settle,
                  SettleMisses, AbandonIssue, AbandonRelay, AbandonMapping, Crash, served
    <2> QED  BY <1>s, <2>2, <2>4 DEF TokenLasts
  <1>4. ASSUME NEW w \in Worker, NEW j \in Job, Take(w, j)
        PROVE  token'[att'[v].at] >= att'[v].left + Margin
    <2>1. att'[v] = att[v] /\ token' = token
      BY <1>4, TakeSteps DEF Take, served
    <2> QED  BY <1>s, <2>1 DEF TokenLasts
  <1>5. ASSUME att' = att, token' = token
        PROVE  token'[att'[v].at] >= att'[v].left + Margin
    BY <1>5, <1>s DEF TokenLasts
  <1>6. CASE Tick
    <2>1. /\ att'[v].pc = att[v].pc /\ att'[v].at = att[v].at /\ att'[v].left = att[v].left - 1
      BY <1>6, <1>a DEF Tick, Attempt
    <2>2. token[att[v].at] >= att[v].left + Margin /\ att[v].at \in Authz /\ token[att[v].at] \in Int
      BY <1>s, <1>b, <2>1 DEF TokenLasts
    <2>3. token'[att[v].at] \in {token[att[v].at], token[att[v].at] - 1}
      BY <1>6, <2>2 DEF Tick
    <2> QED  BY <1>a, <2>1, <2>2, <2>3
  <1>7. CASE CleanupTokens
    <2>1. att' = att
      BY <1>7 DEF CleanupTokens
    <2>2. token[att[v].at] >= att[v].left + Margin /\ att[v].at \in Authz /\ token[att[v].at] \in Int
      BY <1>s, <1>b, <2>1 DEF TokenLasts
    <2>3. token[att[v].at] # 0
      BY <1>a, <2>2
    <2>4. token'[att[v].at] = token[att[v].at]
      BY <1>7, <2>2, <2>3 DEF CleanupTokens
    <2> QED  BY <2>1, <2>2, <2>4
  <1>8. ASSUME NEW a \in Authz, DroppedRetraction(a) PROVE FALSE
    BY <1>8, <1>d DEF DroppedRetraction
  <1>9. ASSUME UpstreamStep \/ UNCHANGED vars PROVE att' = att /\ token' = token
    BY <1>9 DEF UpstreamStep, UpSign, UpValidate, vars, served
  <1>10. ASSUME OperatorStep, ~Tick, ~CleanupTokens, ~\E a \in Authz : DroppedRetraction(a)
         PROVE  att' = att /\ token' = token
    BY <1>10 DEF OperatorStep, CancelRow, Revive, Forget, LoseLease, CancelAbandons,
                 CancelUnmaps, CancelLost, DeleteOrder, Recover, Reload, Expire, served
  <1> QED  BY <1>1, <1>2, <1>3, <1>4, <1>5, <1>6, <1>7, <1>8, <1>9, <1>10 DEF Next, WorkerStep

\* While leases hold and a dropped attempt's DELETE is not overtaken, a token (or
\* TXT record) that an attempt awaits is served until the attempt's budget ends:
\* token_ttl outlasts poll_timeout whatever earlier attempts published or left to
\* retract.  It rests on one attempt relaying at a time.
THEOREM AwaitedTokenIsServed == Spec => []AwaitedIsServed
  <1>1. ASSUME Init PROVE ServeInv
    BY <1>1 DEF Init, Idle, ServeInv, OneQueued, LeaseHeld, NoneDropping, TokenLasts, Relaying, Working
  <1>2. ASSUME Typed, ServeInv, [Next]_vars PROVE ServeInv'
    <2>1. OneQueued' /\ (Calm /\ LeaseHeld => LeaseHeld')
      BY <1>2, RelayAssumption, HeldStep DEF ServeInv, Calm
    <2>2. Calm' => Calm
      BY <1>2, WorldSteps DEF Calm
    <2>3. ASSUME Calm PROVE LeaseHeld' /\ NoneDropping' /\ TokenLasts'
      BY <1>2, <2>1, <2>3, RelayAssumption, DroppingStep, TokenStep DEF ServeInv
    <2> QED  BY <2>1, <2>2, <2>3 DEF ServeInv
  <1>3. ASSUME Typed, ServeInv PROVE AwaitedIsServed
    <2> SUFFICES ASSUME Calm, NEW w \in Worker, att[w].pc = "await", strategy # "bypass"
                 PROVE  Servable(att[w].at)
      BY DEF AwaitedIsServed, Calm
    <2>1. token[att[w].at] >= att[w].left + Margin
      BY <1>3 DEF ServeInv, TokenLasts
    <2>2. att[w].left \in Nat /\ att[w].at \in Authz /\ token[att[w].at] \in Int /\ Margin \in Nat \ {0}
      BY <1>3, RelayAssumption DEF Typed, AttOK, Placed, Attempt, ServedOK, RelayAssumption
    <2> QED  BY <2>1, <2>2 DEF Servable
  <1> QED  BY <1>1, <1>2, <1>3, TypedSafety, PTL DEF Spec
=============================================================================
