----------------------------- MODULE ReloadProofs -----------------------------
(***************************************************************************)
(* Theorems about Reload, for any profiles, listeners and configurations,  *)
(* any number of edits, signals and restarts, and readers between any two  *)
(* sends of a reload.                                                      *)
(***************************************************************************)
EXTENDS Reload, TLAPS

-----------------------------------------------------------------------------
(* The order of the sends.                                                  *)

Cells == {"notifiers", "registry", "sockets", "router"}

\* What may be left of PublishOrder.
Suffix == {<<"notifiers", "registry", "sockets", "router">>, <<"registry", "sockets", "router">>,
           <<"sockets", "router">>, <<"router">>, <<>>}

Without(s, x) == \A i \in 1..Len(s) : s[i] # x

\* A send takes what it sends from what is left, and nothing else.
LEMMA SuffixSend ==
    ASSUME NEW s \in Suffix, s # <<>>
    PROVE  /\ Tail(s) \in Suffix /\ Head(s) \in Cells
           /\ \A x : Without(Tail(s), x) <=> Without(s, x) \/ x = Head(s)
  <1>1. CASE s = <<"notifiers", "registry", "sockets", "router">>
    <2>1. Tail(s) = <<"registry", "sockets", "router">> /\ Head(s) = "notifiers"
      BY <1>1
    <2> QED  BY <1>1, <2>1 DEF Suffix, Cells, Without
  <1>2. CASE s = <<"registry", "sockets", "router">>
    <2>1. Tail(s) = <<"sockets", "router">> /\ Head(s) = "registry"
      BY <1>2
    <2> QED  BY <1>2, <2>1 DEF Suffix, Cells, Without
  <1>3. CASE s = <<"sockets", "router">>
    <2>1. Tail(s) = <<"router">> /\ Head(s) = "sockets"
      BY <1>3
    <2> QED  BY <1>3, <2>1 DEF Suffix, Cells, Without
  <1>4. CASE s = <<"router">>
    <2>1. Tail(s) = <<>> /\ Head(s) = "router"
      BY <1>4
    <2> QED  BY <1>4, <2>1 DEF Suffix, Cells, Without
  <1> QED  BY <1>1, <1>2, <1>3, <1>4 DEF Suffix

\* The router is sent last, when the notifiers have been.
LEMMA RouterLast ==
    ASSUME NEW s \in Suffix, Without(s, "router")
    PROVE  s = <<>>
  <1>1. CASE s = <<"notifiers", "registry", "sockets", "router">>
    BY <1>1 DEF Without
  <1>2. CASE s = <<"registry", "sockets", "router">>
    BY <1>2 DEF Without
  <1>3. CASE s = <<"sockets", "router">>
    BY <1>3 DEF Without
  <1>4. CASE s = <<"router">>
    BY <1>4 DEF Without
  <1> QED  BY <1>1, <1>2, <1>3, <1>4 DEF Suffix

LEMMA AllToSend == \A x \in Cells : ~Without(PublishOrder, x)
  BY DEF Cells, Without, PublishOrder

LEMMA NoneToSend == \A x : Without(<<>>, x)
  BY DEF Without

\* The last element of a queue of commands, as commands come and are taken.
LEMMA LastAppended ==
    ASSUME NEW S, NEW s \in Seq(S), NEW x \in S
    PROVE  /\ Append(s, x) \in Seq(S) /\ Append(s, x) # <<>>
           /\ Len(Append(s, x)) = Len(s) + 1 /\ Append(s, x)[Len(s) + 1] = x
  OBVIOUS

LEMMA LastKept ==
    ASSUME NEW S, NEW s \in Seq(S), s # <<>>
    PROVE  /\ Tail(s) \in Seq(S) /\ Head(s) \in S /\ Len(Tail(s)) = Len(s) - 1
           /\ s[Len(s)] = IF Tail(s) = <<>> THEN Head(s) ELSE Tail(s)[Len(s) - 1]
  <1>1. Tail(s) \in Seq(S) /\ Len(Tail(s)) = Len(s) - 1 /\ Head(s) \in S /\ Head(s) = s[1]
    OBVIOUS
  <1>2. \A i \in 1..(Len(s) - 1) : Tail(s)[i] = s[i + 1]
    OBVIOUS
  <1>3. Tail(s) = <<>> => Len(s) = 1
    BY <1>1
  <1>4. Tail(s) # <<>> => Len(s) - 1 \in 1..(Len(s) - 1) /\ Len(s) \in Nat
    BY <1>1
  <1> QED  BY <1>1, <1>2, <1>3, <1>4

-----------------------------------------------------------------------------
(* Type correctness.                                                        *)

Address == {c.at[l] : c \in Configs, l \in Listener}

SupOK == /\ sup \in [pc : {"idle", "load", "build", "publish"}, next : Version \cup {NoVersion},
                     left : Suffix, mounted : SUBSET Profile]
         /\ sup.pc \in {"build", "publish"} <=> sup.next \in Version
FilesOK == /\ file \in Version /\ applied \in Version /\ view \in Version
           /\ cell \in [WatchCell -> Version] /\ judged \in 0..file.ed
           /\ signal \in BOOLEAN /\ signalled \in BOOLEAN /\ recovered \in BOOLEAN
SocketsOK == orders \in [Listener -> Seq(Address)] /\ serving \in [Listener -> Address]
CallOK == call = NoCall \/ (call \in [under : Version, profile : Profile]
                            /\ call.profile \in call.under.conf.profiles)
RowStatus == {"none", "ready", "start", "send", "failed", "absent"}
RowOK(r) == /\ r \in [st : RowStatus, by : Version \cup {NoVersion}]
            /\ r.st \in {"start", "send"} => r.by \in Version /\ HasDigest(r.by)
DigestOK == /\ digest = [p \in Profile |-> digest[p]]
            /\ \A p \in Profile : RowOK(digest[p])
NoteOK == note = NoNote \/ note \in [st : {"queued", "lost"}, slot : Target, ed : Nat,
                                     tries : 1..DeliveryTries, by : Nat]

Typed == SupOK /\ FilesOK /\ SocketsOK /\ CallOK /\ DigestOK /\ NoteOK

\* A version has one edit number, and what it says is a configuration.
LEMMA VersionOK ==
    ASSUME ReloadAssumption, NEW v \in Version
    PROVE  /\ v.ed \in 1..MaxEdits /\ v.ed \in Nat /\ v.conf \in Configs
           /\ v.conf.profiles \subseteq Profile /\ v.conf.slots \subseteq Target
           /\ v.conf.digest \subseteq Profile
           /\ v.conf.at \in [Listener -> Address] /\ v # NoVersion
  <1>1. v.ed \in 1..MaxEdits /\ v.ed \in Nat /\ v.conf \in Configs /\ v # NoVersion
    BY DEF Version, NoVersion, ReloadAssumption
  <1>2. /\ v.conf.at = [l \in Listener |-> v.conf.at[l]]
        /\ v.conf.profiles \subseteq Profile /\ v.conf.slots \subseteq Target
        /\ v.conf.digest \subseteq Profile
    BY <1>1 DEF ReloadAssumption
  <1>3. \A l \in Listener : v.conf.at[l] \in Address
    BY <1>1 DEF Address
  <1> QED  BY <1>1, <1>2, <1>3

LEMMA RestOK == Resting \in [pc : {"idle", "load", "build", "publish"}, next : Version \cup {NoVersion},
                             left : Suffix, mounted : SUBSET Profile]
  BY DEF Resting, Suffix

\* Dispatching keeps the note's type.
LEMMA DispatchOK ==
    ASSUME ReloadAssumption, NoteOK, NEW v \in Version, NEW ps, Dispatch(v, ps)
    PROVE  NoteOK'
  BY VersionOK DEF Dispatch, Targets, NoteOK, ReloadAssumption

\* The rows that nobody has claimed.
LEMMA IdleRowsOK == RowOK(NoDigest) /\ RowOK(Ready) /\ RowOK(Failed) /\ RowOK(Absent)
  BY DEF RowOK, RowStatus, Ready, Failed, Absent, NoDigest

\* Queueing the rows of a version's digest keeps every row's type.
LEMMA ReconciledOK ==
    ASSUME NEW rows, NEW v, NEW refused, \A p \in Profile : RowOK(rows[p])
    PROVE  /\ Reconciled(rows, v, refused) = [p \in Profile |-> Reconciled(rows, v, refused)[p]]
           /\ \A p \in Profile : RowOK(Reconciled(rows, v, refused)[p])
  BY IdleRowsOK DEF Reconciled

LEMMA InitTyped == ASSUME ReloadAssumption, ReloadInit PROVE Typed
  <1>1. file \in Version
    BY DEF ReloadInit, ReloadAssumption, Version
  <1>2. file.conf.at \in [Listener -> Address]
    BY <1>1, VersionOK
  <1>3. SupOK
    BY RestOK DEF ReloadInit, SupOK, Resting, NoVersion, Version
  <1>4. FilesOK
    <2>1. file.ed \in Nat /\ judged = file.ed
      BY <1>1, VersionOK DEF ReloadInit
    <2>2. judged \in 0..file.ed
      BY <2>1
    <2>3. /\ applied = file /\ view = file /\ cell = [x \in WatchCell |-> file]
          /\ signal \in BOOLEAN /\ signalled \in BOOLEAN /\ recovered \in BOOLEAN
      BY DEF ReloadInit
    <2> QED  BY <1>1, <2>2, <2>3 DEF FilesOK
  <1>5. SocketsOK
    BY <1>2 DEF ReloadInit, SocketsOK
  <1>6. CallOK /\ NoteOK
    BY DEF ReloadInit, CallOK, NoteOK
  <1>7. DigestOK
    BY IdleRowsOK DEF ReloadInit, DigestOK
  <1> QED  BY <1>3, <1>4, <1>5, <1>6, <1>7 DEF Typed

\* The supervisor, the operator and the sockets.
LEMMA ControlTyped ==
    ASSUME ReloadAssumption, Typed,
           \/ \E c \in Configs : Edit(c)
           \/ TriggerReload \/ TakeSignal \/ Load \/ BuildGeneration \/ PublishCell \/ Adopt \/ Restart
           \/ \E l \in Listener : Accept(l)
    PROVE  Typed'
  <1> USE DEF Typed
  <1>r. ASSUME UNCHANGED <<call, runnerVars, note>>
        PROVE  CallOK' /\ DigestOK' /\ NoteOK'
    BY <1>r DEF runnerVars, CallOK, DigestOK, NoteOK
  <1>n. NoVersion \notin Version /\ Resting.pc = "idle" /\ Resting.next = NoVersion
    BY DEF NoVersion, Version, Resting
  <1>1. ASSUME NEW c \in Configs, Edit(c) PROVE Typed'
    <2>1. FilesOK'
      <3>1. file' \in Version /\ judged' \in 0..file'.ed
        BY <1>1 DEF Edit, FilesOK, Version, superVars, ReloadAssumption
      <3>2. UNCHANGED <<applied, view, cell, signal, recovered>> /\ signalled' = FALSE
        BY <1>1 DEF Edit, superVars, runnerVars
      <3> QED  BY <3>1, <3>2 DEF FilesOK
    <2>2. SupOK' /\ SocketsOK'
      BY <1>1 DEF Edit, superVars, SupOK, SocketsOK
    <2> QED  BY <1>1, <1>r, <2>1, <2>2 DEF Edit
  <1>2. CASE TriggerReload
    <2>1. SupOK' /\ FilesOK' /\ SocketsOK'
      BY <1>2 DEF TriggerReload, SupOK, FilesOK, SocketsOK, runnerVars
    <2> QED  BY <1>2, <1>r, <2>1 DEF TriggerReload
  <1>3. CASE TakeSignal
    <2>1. SupOK'
      BY <1>3, <1>n, RestOK DEF TakeSignal, SupOK
    <2>2. FilesOK' /\ SocketsOK'
      BY <1>3 DEF TakeSignal, FilesOK, SocketsOK, runnerVars
    <2> QED  BY <1>3, <1>r, <2>1, <2>2 DEF TakeSignal
  <1>4. CASE Load
    <2>1. SupOK'
      BY <1>4, <1>n, RestOK DEF Load, SupOK, FilesOK
    <2>2. FilesOK' /\ SocketsOK'
      BY <1>4, VersionOK DEF Load, FilesOK, SocketsOK, runnerVars
    <2> QED  BY <1>4, <1>r, <2>1, <2>2 DEF Load
  <1>5. CASE BuildGeneration
    <2>1. PublishOrder \in Suffix
      BY DEF PublishOrder, Suffix
    <2>2. sup.next.conf.profiles \ applied.conf.profiles \in SUBSET Profile
      BY <1>5, VersionOK DEF BuildGeneration, SupOK
    <2>3. SupOK'
      BY <1>5, <1>n, <2>1, <2>2, RestOK DEF BuildGeneration, SupOK
    <2>4. FilesOK' /\ SocketsOK'
      BY <1>5 DEF BuildGeneration, FilesOK, SocketsOK, runnerVars
    <2> QED  BY <1>5, <1>r, <2>3, <2>4 DEF BuildGeneration
  <1>6. CASE PublishCell
    <2>1. /\ sup.left \in Suffix /\ Tail(sup.left) \in Suffix /\ sup.next \in Version
          /\ Head(sup.left) \in Cells
      BY <1>6, SuffixSend DEF PublishCell, SupOK
    <2>2. SupOK'
      BY <1>6, <2>1 DEF PublishCell, SupOK
    <2>3. FilesOK'
      BY <1>6, <2>1 DEF PublishCell, FilesOK, runnerVars, Cells, WatchCell
    <2>4. SocketsOK'
      <3>1. sup.next.conf.at \in [Listener -> Address]
        BY <2>1, VersionOK
      <3>2. \A l \in Listener : Append(orders[l], sup.next.conf.at[l]) \in Seq(Address)
        BY <3>1, LastAppended DEF SocketsOK
      <3> QED  BY <1>6, <3>2 DEF PublishCell, SocketsOK, Handed
    <2> QED  BY <1>6, <1>r, <2>2, <2>3, <2>4 DEF PublishCell
  <1>7. CASE Adopt
    <2>1. sup.next \in Version
      BY <1>7 DEF Adopt, SupOK
    <2>2. SupOK'
      BY <1>7, <1>n, RestOK DEF Adopt, SupOK
    <2>3. FilesOK' /\ SocketsOK'
      BY <1>7, <2>1 DEF Adopt, FilesOK, SocketsOK, runnerVars
    <2>4. CallOK' /\ DigestOK'
      BY <1>7 DEF Adopt, CallOK, DigestOK, runnerVars
    <2>5. NoteOK'
      BY <1>7, <2>1, DispatchOK DEF Adopt
    <2> QED  BY <2>2, <2>3, <2>4, <2>5
  <1>8. CASE Restart
    <2>1. file \in Version /\ file.conf.at \in [Listener -> Address] /\ file.ed \in Nat
      BY VersionOK DEF FilesOK
    <2>2. SupOK'
      BY <1>8, <1>n, RestOK DEF Restart, SupOK
    <2>3. FilesOK'
      <3>1. judged' \in 0..file'.ed
        BY <1>8, <2>1 DEF Restart
      <3>2. /\ file' = file /\ applied' = file /\ view' = file /\ cell' = [x \in WatchCell |-> file]
            /\ signal' = FALSE /\ signalled' = signalled /\ recovered' = FALSE
        BY <1>8 DEF Restart
      <3> QED  BY <3>1, <3>2 DEF FilesOK
    <2>7. SocketsOK'
      BY <1>8, <2>1 DEF Restart, SocketsOK
    <2>4. CallOK'
      BY <1>8 DEF Restart, CallOK
    <2>5. DigestOK'
      BY <1>8, IdleRowsOK DEF Restart, DigestOK
    <2>6. NoteOK'
      BY <1>8, <2>1, DispatchOK DEF Restart
    <2> QED  BY <2>2, <2>3, <2>4, <2>5, <2>6, <2>7
  <1>9. ASSUME NEW l \in Listener, Accept(l) PROVE Typed'
    <2>1. Tail(orders[l]) \in Seq(Address) /\ Head(orders[l]) \in Address
      BY <1>9, LastKept DEF Accept, SocketsOK
    <2>2. SupOK' /\ FilesOK' /\ SocketsOK'
      BY <1>9, <2>1 DEF Accept, SupOK, FilesOK, SocketsOK, runnerVars
    <2> QED  BY <1>9, <1>r, <2>2 DEF Accept
  <1> QED  BY <1>1, <1>2, <1>3, <1>4, <1>5, <1>6, <1>7, <1>8, <1>9

\* The readers of the cells.
LEMMA ReaderTyped ==
    ASSUME ReloadAssumption, Typed,
           \/ \E p \in Profile : Route(p) \/ DigestStep(p)
           \/ Respond \/ Pass \/ Deliver
    PROVE  Typed'
  <1> USE DEF Typed
  <1>s. ASSUME UNCHANGED <<file, signalled, superVars>>, view' \in Version, recovered' \in BOOLEAN
        PROVE  SupOK' /\ FilesOK' /\ SocketsOK'
    BY <1>s DEF superVars, SupOK, FilesOK, SocketsOK
  <1>c. cell["router"] \in Version /\ cell["notifiers"] \in Version /\ cell["registry"] \in Version
    BY DEF FilesOK, WatchCell
  <1>1. ASSUME NEW p \in Profile, Route(p) PROVE Typed'
    <2>1. CallOK'
      BY <1>1, <1>c DEF Route, CallOK
    <2>2. DigestOK' /\ NoteOK' /\ view' \in Version /\ recovered' \in BOOLEAN
      BY <1>1 DEF Route, runnerVars, DigestOK, NoteOK, FilesOK
    <2> QED  BY <1>1, <1>s, <2>1, <2>2 DEF Route
  <1>2. CASE Respond
    <2>1. call.under \in Version
      BY <1>2 DEF Respond, CallOK
    <2>2. CallOK' /\ DigestOK' /\ view' \in Version /\ recovered' \in BOOLEAN
      BY <1>2 DEF Respond, runnerVars, DigestOK, FilesOK, CallOK
    <2>3. NoteOK'
      BY <1>2, <2>1, DispatchOK DEF Respond
    <2> QED  BY <1>2, <1>s, <2>2, <2>3 DEF Respond
  <1>3. CASE Pass
    <2>1. view' \in Version /\ recovered' \in BOOLEAN
      BY <1>3, <1>c DEF Pass, FilesOK, HasDigest
    <2>2. DigestOK'
      <3>1. CASE recovered
        BY <1>3, <3>1 DEF Pass, DigestOK
      <3>2. CASE ~recovered
        <4>1. PICK refused : digest' = Reconciled(digest, view', refused)
          BY <1>3, <3>2 DEF Pass
        <4> QED  BY <4>1, ReconciledOK DEF DigestOK
      <3> QED  BY <3>1, <3>2
    <2>3. CallOK' /\ NoteOK'
      BY <1>3 DEF Pass, CallOK, NoteOK
    <2> QED  BY <1>3, <1>s, <2>1, <2>2, <2>3 DEF Pass
  <1>4. CASE Deliver
    <2>1. note.tries \in 1..DeliveryTries /\ cell["notifiers"].ed \in Nat
          /\ note \in [st : {"queued", "lost"}, slot : Target, ed : Nat, tries : 1..DeliveryTries, by : Nat]
      BY <1>4, <1>c, VersionOK DEF Deliver, NoteOK, NoNote
    <2>2. NoteOK'
      <3>1. note.tries > 1 => note.tries - 1 \in 1..DeliveryTries
        BY <2>1 DEF ReloadAssumption
      <3>2. note.tries > 1 => NoteOK' \/ note' = [note EXCEPT !.tries = note.tries - 1]
        BY <1>4 DEF Deliver, NoteOK
      <3>3. ~(note.tries > 1) => NoteOK' \/ note' = [note EXCEPT !.st = "lost", !.by = cell["notifiers"].ed]
        BY <1>4 DEF Deliver, NoteOK
      <3> QED  BY <2>1, <3>1, <3>2, <3>3 DEF NoteOK
    <2>3. CallOK' /\ DigestOK' /\ view' \in Version /\ recovered' \in BOOLEAN
      BY <1>4 DEF Deliver, runnerVars, CallOK, DigestOK, FilesOK
    <2> QED  BY <1>4, <1>s, <2>2, <2>3 DEF Deliver
  <1>5. ASSUME NEW p \in Profile, ClaimDigest(p) PROVE Typed'
    <2>1. RowOK([st |-> "start", by |-> view])
      BY <1>5 DEF ClaimDigest, RowOK, RowStatus, FilesOK
    <2>2. DigestOK'
      BY <1>5, <2>1 DEF ClaimDigest, DigestOK
    <2>3. CallOK' /\ NoteOK' /\ view' \in Version /\ recovered' \in BOOLEAN
      BY <1>5 DEF ClaimDigest, CallOK, NoteOK, FilesOK
    <2> QED  BY <1>5, <1>s, <2>2, <2>3 DEF ClaimDigest
  <1>6. ASSUME NEW p \in Profile, RunDigest(p) PROVE Typed'
    <2>1. RowOK([digest[p] EXCEPT !.st = "send"])
      BY <1>6 DEF RunDigest, DigestOK, RowOK, RowStatus
    <2>2. \A q \in Profile : RowOK([digest EXCEPT ![p].st = "send"][q])
      BY <2>1 DEF DigestOK
    <2>3. ASSUME p \notin digest[p].by.conf.digest PROVE DigestOK'
      <3>1. digest' = [digest EXCEPT ![p] = NoDigest]
        BY <1>6, <2>3 DEF RunDigest
      <3> QED  BY <3>1, IdleRowsOK DEF DigestOK
    <2>4. ASSUME p \in digest[p].by.conf.digest PROVE DigestOK'
      <3> DEFINE rows == [digest EXCEPT ![p].st = "send"]
      <3>1. PICK refused : digest' = Reconciled(rows, digest[p].by, refused)
        BY <1>6, <2>4 DEF RunDigest
      <3>2. \A q \in Profile : RowOK(rows[q])
        BY <2>2
      <3> HIDE DEF rows
      <3> QED  BY <3>1, <3>2, ReconciledOK DEF DigestOK
    <2>5. DigestOK'
      BY <2>3, <2>4
    <2>6. CallOK' /\ NoteOK' /\ view' \in Version /\ recovered' \in BOOLEAN
      BY <1>6 DEF RunDigest, CallOK, NoteOK, FilesOK
    <2> QED  BY <1>6, <1>s, <2>5, <2>6 DEF RunDigest
  <1>7. ASSUME NEW p \in Profile, SendDigest(p) PROVE Typed'
    <2>2. DigestOK'
      BY <1>7, IdleRowsOK DEF SendDigest, DigestOK
    <2>3. NoteOK'
      BY <1>7, <1>c, DispatchOK DEF SendDigest
    <2>4. CallOK' /\ view' \in Version /\ recovered' \in BOOLEAN
      BY <1>7 DEF SendDigest, CallOK, FilesOK
    <2> QED  BY <1>7, <1>s, <2>2, <2>3, <2>4 DEF SendDigest
  <1>8. ASSUME NEW p \in Profile, CutOffDigest(p) \/ CancelDigest(p) \/ ReviveDigest(p) PROVE Typed'
    <2>1. \E row \in {Ready, Failed, Absent} : digest' = [digest EXCEPT ![p] = row]
      BY <1>8 DEF CutOffDigest, CancelDigest, ReviveDigest
    <2>2. DigestOK'
      BY <2>1, IdleRowsOK DEF DigestOK
    <2>3. UNCHANGED <<file, signalled, superVars, call, view, recovered, note>>
      BY <1>8 DEF CutOffDigest, CancelDigest, ReviveDigest
    <2>4. CallOK' /\ NoteOK' /\ view' \in Version /\ recovered' \in BOOLEAN
      BY <2>3 DEF CallOK, NoteOK, FilesOK
    <2> QED  BY <1>s, <2>2, <2>3, <2>4
  <1> QED  BY <1>1, <1>2, <1>3, <1>4, <1>5, <1>6, <1>7, <1>8 DEF DigestStep

LEMMA TypedSafety == ReloadSpec => []Typed
  <1>1. ReloadInit => Typed
    BY ReloadAssumption, InitTyped
  <1>2. Typed /\ [ReloadNext]_reloadVars => Typed'
    <2> SUFFICES ASSUME Typed, [ReloadNext]_reloadVars PROVE Typed'
      OBVIOUS
    <2>1. CASE ReloadNext
      BY <2>1, ReloadAssumption, ControlTyped, ReaderTyped DEF ReloadNext
    <2>2. CASE UNCHANGED reloadVars
      BY <2>2 DEF reloadVars, superVars, runnerVars, Typed, SupOK, FilesOK, SocketsOK, CallOK,
                  DigestOK, NoteOK
    <2> QED  BY <2>1, <2>2
  <1> QED  BY <1>1, <1>2, PTL DEF ReloadSpec

-----------------------------------------------------------------------------
(* A reload, send by send.                                                  *)

Sent(x) == sup.pc = "publish" /\ Without(sup.left, x)

\* The version a cell, or the sockets, should be of.
Due(x) == IF Sent(x) THEN sup.next ELSE applied

\* A version is edited into being once.
Older(u, v) == u.ed <= v.ed /\ (u.ed = v.ed => u = v)

VersionsGrow == /\ Older(applied, file)
                /\ sup.pc \in {"build", "publish"} => Older(applied, sup.next) /\ Older(sup.next, file)
CellsDue == \A x \in WatchCell : cell[x] = Due(x)
SocketsDue == \A l \in Listener : Bound(l) = Due("sockets").conf.at[l]
OrdersCounted == \A l \in Listener : Len(orders[l]) < Due("sockets").ed

ReloadInv == VersionsGrow /\ CellsDue /\ SocketsDue /\ OrdersCounted

LEMMA DueOK ==
    ASSUME Typed, NEW x
    PROVE  Due(x) \in Version
  BY DEF Typed, SupOK, FilesOK, Due, Sent

\* Bound and Len, when the versions the sockets are due to stay as they are.
LEMMA SocketsLeft ==
    ASSUME SocketsDue, OrdersCounted, Due("sockets")' = Due("sockets"), UNCHANGED <<orders, serving>>
    PROVE  SocketsDue' /\ OrdersCounted'
  BY DEF SocketsDue, OrdersCounted, Bound

\* A command handed to an accept loop is the last it will take.
LEMMA HandedOver ==
    ASSUME ReloadAssumption, Typed, ReloadInv, sup.pc = "publish", ~Sent("sockets"),
           orders' = Handed(applied.conf, sup.next.conf), serving' = serving
    PROVE  \A l \in Listener : /\ Bound(l)' = sup.next.conf.at[l]
                               /\ Len(orders'[l]) < sup.next.ed
  <1> TAKE l \in Listener
  <1>1. /\ orders[l] \in Seq(Address) /\ Len(orders[l]) \in Nat
        /\ sup.next.conf.at[l] \in Address /\ applied.ed \in Nat /\ sup.next.ed \in Nat
    BY VersionOK DEF Typed, SupOK, FilesOK, SocketsOK
  <1>2. /\ Bound(l) = applied.conf.at[l] /\ Len(orders[l]) < applied.ed /\ Older(applied, sup.next)
    BY DEF ReloadInv, SocketsDue, OrdersCounted, Due, VersionsGrow
  <1>3. CASE Moves(l, applied.conf, sup.next.conf)
    <2>1. applied.ed < sup.next.ed
      BY <1>1, <1>2, <1>3 DEF Moves, Older
    <2>2. orders'[l] = Append(orders[l], sup.next.conf.at[l])
      BY <1>3 DEF Handed
    <2>3. /\ orders'[l] # <<>> /\ Len(orders'[l]) = Len(orders[l]) + 1
          /\ orders'[l][Len(orders[l]) + 1] = sup.next.conf.at[l]
      BY <1>1, <2>2, LastAppended
    <2> QED  BY <1>1, <1>2, <2>1, <2>3 DEF Bound
  <1>4. CASE ~Moves(l, applied.conf, sup.next.conf)
    <2>1. orders'[l] = orders[l] /\ serving'[l] = serving[l]
      BY <1>4 DEF Handed
    <2> QED  BY <1>1, <1>2, <1>4, <2>1 DEF Bound, Moves, Older
  <1> QED  BY <1>3, <1>4

LEMMA ReloadStep ==
    ASSUME ReloadAssumption, Typed, ReloadInv, [ReloadNext]_reloadVars
    PROVE  ReloadInv'
  <1> USE DEF ReloadInv
  <1>v. /\ file.ed \in Nat /\ applied.ed \in Nat
        /\ sup.pc \in {"build", "publish"} => sup.next.ed \in Nat
    BY VersionOK DEF Typed, FilesOK, SupOK
  <1>1. ASSUME UNCHANGED <<file, sup, applied, cell, serving, orders>> PROVE ReloadInv'
    BY <1>1 DEF VersionsGrow, CellsDue, SocketsDue, OrdersCounted, Due, Sent, Bound
  <1>2. ASSUME NEW c \in Configs, Edit(c) PROVE ReloadInv'
    <2>1. file'.ed = file.ed + 1 /\ UNCHANGED <<sup, applied, cell, serving, orders>>
      BY <1>2 DEF Edit, superVars
    <2>2. VersionsGrow'
      BY <1>v, <2>1 DEF VersionsGrow, Older
    <2>3. Due("sockets")' = Due("sockets") /\ \A x \in WatchCell : Due(x)' = Due(x)
      BY <2>1 DEF Due, Sent
    <2> QED  BY <2>1, <2>2, <2>3, SocketsLeft DEF CellsDue
  <1>3. ASSUME TakeSignal \/ Load \/ BuildGeneration PROVE ReloadInv'
    <2>a. sup = [pc |-> sup.pc, next |-> sup.next, left |-> sup.left, mounted |-> sup.mounted]
      BY DEF Typed, SupOK
    <2>b. TakeSignal => sup'.pc = "load"
      BY DEF TakeSignal, Resting
    <2>c. Load => sup'.pc = "idle" \/ (sup'.pc = "build" /\ sup'.next = file)
      BY <2>a DEF Load, Resting
    <2>d. BuildGeneration => \/ sup'.pc = "idle"
                            \/ /\ sup'.pc = "publish" /\ sup'.next = sup.next
                               /\ sup'.left = PublishOrder /\ sup.pc = "build"
      <3> SUFFICES ASSUME BuildGeneration, sup' # Resting
                   PROVE  /\ sup'.pc = "publish" /\ sup'.next = sup.next
                          /\ sup'.left = PublishOrder /\ sup.pc = "build"
        BY DEF Resting
      <3>1. PICK m : sup' = [sup EXCEPT !.pc = "publish", !.left = PublishOrder, !.mounted = m]
        BY DEF BuildGeneration
      <3> QED  BY <2>a, <3>1 DEF BuildGeneration
    <2>1. UNCHANGED <<file, applied, cell, serving, orders>> /\ sup.pc # "publish"
      BY <1>3 DEF TakeSignal, Load, BuildGeneration
    <2>2. VersionsGrow'
      <3>1. CASE sup'.pc \notin {"build", "publish"}
        BY <2>1, <3>1 DEF VersionsGrow
      <3>2. CASE sup'.pc \in {"build", "publish"}
        <4>1. (sup'.next = sup.next /\ sup.pc = "build") \/ sup'.next = file
          BY <1>3, <2>b, <2>c, <2>d, <3>2
        <4> QED  BY <1>v, <2>1, <4>1 DEF VersionsGrow, Older
      <3> QED  BY <3>1, <3>2
    <2>3. sup'.pc = "publish" => sup'.left = PublishOrder
      BY <1>3, <2>b, <2>c, <2>d
    <2>4. \A x \in Cells : Due(x)' = applied /\ Due(x) = applied
      BY <2>1, <2>3, AllToSend DEF Due, Sent
    <2>5. "sockets" \in Cells /\ WatchCell \subseteq Cells
      BY DEF Cells, WatchCell
    <2> QED  BY <2>1, <2>2, <2>4, <2>5, SocketsLeft DEF CellsDue
  <1>4. CASE PublishCell
    <2>1. /\ sup.left \in Suffix /\ sup.left # <<>> /\ sup.pc = "publish"
          /\ sup'.pc = "publish" /\ sup'.next = sup.next /\ sup'.left = Tail(sup.left)
          /\ UNCHANGED <<file, applied, serving>>
      BY <1>4 DEF PublishCell, Typed, SupOK
    <2>2. \A x : Sent(x)' <=> Sent(x) \/ x = Head(sup.left)
      BY <2>1, SuffixSend DEF Sent
    <2>3. ~Sent(Head(sup.left))
      <3>1. Len(sup.left) >= 1 /\ sup.left[1] = Head(sup.left)
        BY <2>1 DEF Suffix
      <3> QED  BY <3>1 DEF Sent, Without
    <2>4. VersionsGrow'
      BY <2>1 DEF VersionsGrow, Older
    <2>5. CASE Head(sup.left) = "sockets"
      <3>1. orders' = Handed(applied.conf, sup.next.conf) /\ cell' = cell
        BY <1>4, <2>5 DEF PublishCell
      <3>2. Due("sockets")' = sup.next
        BY <2>1, <2>2, <2>5 DEF Due
      <3>3. \A x \in WatchCell : Due(x)' = Due(x)
        BY <2>1, <2>2, <2>5 DEF Due, WatchCell
      <3>4. SocketsDue' /\ OrdersCounted'
        BY <2>1, <2>3, <2>5, <3>1, <3>2, HandedOver DEF SocketsDue, OrdersCounted
      <3> QED  BY <2>4, <3>1, <3>3, <3>4 DEF CellsDue
    <2>6. CASE Head(sup.left) # "sockets"
      <3>1. cell' = [cell EXCEPT ![Head(sup.left)] = sup.next] /\ orders' = orders
        BY <1>4, <2>6 DEF PublishCell
      <3>2. Due("sockets")' = Due("sockets")
        BY <2>1, <2>2, <2>6 DEF Due
      <3>3. \A x : Due(x)' = IF x = Head(sup.left) THEN sup.next ELSE Due(x)
        BY <2>1, <2>2 DEF Due
      <3>4. CellsDue'
        BY <3>1, <3>3 DEF CellsDue, Typed, FilesOK
      <3> QED  BY <2>1, <2>4, <3>1, <3>2, <3>4, SocketsLeft
    <2> QED  BY <2>5, <2>6
  <1>5. CASE Adopt
    <2>1. /\ sup.pc = "publish" /\ sup.left = <<>> /\ applied' = sup.next /\ sup'.pc = "idle"
          /\ UNCHANGED <<file, cell, serving, orders>>
      BY <1>5 DEF Adopt, Resting
    <2>2. \A x : Due(x)' = Due(x)
      BY <2>1, NoneToSend DEF Due, Sent
    <2>3. VersionsGrow'
      BY <2>1 DEF VersionsGrow, Older
    <2> QED  BY <2>1, <2>2, <2>3, SocketsLeft DEF CellsDue
  <1>6. CASE Restart
    <2>1. /\ sup'.pc = "idle" /\ applied' = file /\ file' = file /\ cell' = [x \in WatchCell |-> file]
          /\ serving' = file.conf.at /\ orders' = [l \in Listener |-> <<>>]
      BY <1>6 DEF Restart, Resting
    <2>2. \A x : Due(x)' = file
      BY <2>1 DEF Due, Sent
    <2>3. VersionsGrow'
      BY <1>v, <2>1 DEF VersionsGrow, Older
    <2>4. 0 < file.ed
      BY VersionOK DEF Typed, FilesOK
    <2>5. SocketsDue' /\ OrdersCounted'
      BY <2>1, <2>2, <2>4 DEF SocketsDue, OrdersCounted, Bound
    <2> QED  BY <2>1, <2>2, <2>3, <2>5 DEF CellsDue
  <1>7. ASSUME NEW l \in Listener, Accept(l) PROVE ReloadInv'
    <2>1. /\ orders[l] # <<>> /\ UNCHANGED <<file, sup, applied, cell>>
          /\ serving' = [serving EXCEPT ![l] = Head(orders[l])]
          /\ orders' = [orders EXCEPT ![l] = Tail(orders[l])]
      BY <1>7 DEF Accept
    <2>2. \A x : Due(x)' = Due(x)
      BY <2>1 DEF Due, Sent
    <2>3. /\ Tail(orders[l]) \in Seq(Address) /\ Len(Tail(orders[l])) = Len(orders[l]) - 1
          /\ Len(orders[l]) \in Nat
          /\ orders[l][Len(orders[l])] = IF Tail(orders[l]) = <<>> THEN Head(orders[l])
                                         ELSE Tail(orders[l])[Len(orders[l]) - 1]
      <3>1. orders[l] \in Seq(Address)
        BY DEF Typed, SocketsOK
      <3>2. Len(orders[l]) \in Nat
        BY <3>1
      <3> QED  BY <2>1, <3>1, <3>2, LastKept
    <2>4. ASSUME NEW k \in Listener PROVE Bound(k)' = Bound(k) /\ Len(orders'[k]) <= Len(orders[k])
      <3>1. CASE k = l
        <4>1. orders'[k] = Tail(orders[l]) /\ serving'[k] = Head(orders[l])
          BY <2>1, <3>1 DEF Typed, SocketsOK
        <4> QED  BY <2>1, <2>3, <3>1, <4>1 DEF Bound
      <3>2. CASE k # l
        <4>1. orders'[k] = orders[k] /\ serving'[k] = serving[k] /\ Len(orders[k]) \in Nat
          BY <2>1, <3>2 DEF Typed, SocketsOK
        <4> QED  BY <4>1 DEF Bound
      <3> QED  BY <3>1, <3>2
    <2>5. SocketsDue'
      BY <2>2, <2>4 DEF SocketsDue
    <2>6. OrdersCounted'
      <3>1. \A k \in Listener : Len(orders[k]) \in Nat /\ Len(orders'[k]) \in Nat
        BY <2>1, <2>3 DEF Typed, SocketsOK
      <3>2. Due("sockets").ed \in Nat
        BY DueOK, VersionOK
      <3> QED  BY <2>2, <2>4, <3>1, <3>2 DEF OrdersCounted
    <2> QED  BY <2>1, <2>2, <2>5, <2>6 DEF VersionsGrow, CellsDue
  <1>8. CASE TriggerReload
    BY <1>1, <1>8 DEF TriggerReload
  <1>9. ASSUME NEW p \in Profile, Route(p) \/ DigestStep(p) PROVE ReloadInv'
    BY <1>1, <1>9 DEF Route, DigestStep, ClaimDigest, RunDigest, SendDigest, CutOffDigest, CancelDigest,
         ReviveDigest, superVars
  <1>10. CASE Respond \/ Pass \/ Deliver
    BY <1>1, <1>10 DEF Respond, Pass, Deliver, superVars
  <1>11. CASE UNCHANGED reloadVars
    BY <1>1, <1>11 DEF reloadVars, superVars
  <1> QED  BY <1>2, <1>3, <1>4, <1>5, <1>6, <1>7, <1>8, <1>9, <1>10, <1>11 DEF ReloadNext

LEMMA ReloadSafety == ReloadSpec => []ReloadInv
  <1>1. ReloadInit => ReloadInv
    <2> SUFFICES ASSUME ReloadInit PROVE ReloadInv
      OBVIOUS
    <2>1. file.ed = 1 /\ applied = file /\ sup.pc = "idle"
      BY DEF ReloadInit, Resting
    <2>2. \A x : Due(x) = file
      BY <2>1 DEF Due, Sent
    <2>3. VersionsGrow
      BY <2>1 DEF VersionsGrow, Older
    <2> QED  BY <2>1, <2>2, <2>3 DEF ReloadInit, ReloadInv, CellsDue, SocketsDue, OrdersCounted, Bound
  <1>2. Typed /\ ReloadInv /\ [ReloadNext]_reloadVars => ReloadInv'
    BY ReloadAssumption, ReloadStep
  <1> QED  BY <1>1, <1>2, TypedSafety, PTL DEF ReloadSpec

\* The type invariant, the count of waiting commands with it: an accept loop that
\* takes none for ever is handed fewer than there are versions of the file, as
\* plan_sockets hands one over only where the configuration differs.
THEOREM TypeCorrect == ReloadSpec => []ReloadTypeOK
  <1>1. Typed /\ ReloadInv => ReloadTypeOK
    <2> SUFFICES ASSUME Typed, ReloadInv PROVE ReloadTypeOK
      OBVIOUS
    <2>1. \A l \in Listener : Len(orders[l]) <= MaxEdits
      <3>1. Due("sockets").ed \in 1..MaxEdits
        BY ReloadAssumption, DueOK, VersionOK
      <3>2. \A l \in Listener : Len(orders[l]) \in Nat
        BY DEF Typed, SocketsOK
      <3> QED  BY <3>1, <3>2, ReloadAssumption DEF ReloadInv, OrdersCounted, ReloadAssumption
    <2>2. \A p \in Profile : /\ digest[p].st \in {"none", "ready", "start", "send", "failed", "absent"}
                             /\ digest[p].st \in {"start", "send"} => HasDigest(digest[p].by)
      BY DEF Typed, DigestOK, RowOK, RowStatus
    <2>3. /\ {file, applied, view} \subseteq Version /\ cell \in [WatchCell -> Version]
          /\ {signal, signalled, recovered} \subseteq BOOLEAN /\ judged \in 0..file.ed
      BY DEF Typed, FilesOK
    <2>4. sup.pc \in {"idle", "load", "build", "publish"} /\ (sup.pc \in {"build", "publish"} <=> sup.next \in Version)
      BY DEF Typed, SupOK
    <2>5. call = NoCall \/ (call.under \in Version /\ call.profile \in call.under.conf.profiles)
      BY DEF Typed, CallOK
    <2>6. note = NoNote \/ (note.tries \in 1..DeliveryTries /\ note.slot \in Target)
      BY DEF Typed, NoteOK
    <2> QED  BY <2>1, <2>2, <2>3, <2>4, <2>5, <2>6 DEF ReloadTypeOK
  <1> QED  BY <1>1, TypedSafety, ReloadSafety, PTL

\* A reload that is refused, or fails at any point before its first send, leaves
\* every cell and every socket as the supervisor's own configuration has them, and
\* one that is adopted has moved them all: publish_reload cannot stop half way.
THEOREM ReloadIsAtomic == ReloadSpec => []AllOrNothing
  <1>1. ReloadInv => AllOrNothing
    BY DEF ReloadInv, CellsDue, SocketsDue, Due, Sent, AllOrNothing
  <1> QED  BY <1>1, ReloadSafety, PTL

-----------------------------------------------------------------------------
(* Signals.                                                                 *)

\* Unless a reload is about to load the file, the last signal has been answered.
SignalInv == signalled /\ ~signal => sup.pc = "load" \/ judged = file.ed

\* A SIGHUP that is coalesced with others, or comes during a reload, leads to a
\* load of the file as it stood when it came, or later.
THEOREM SignalsAreTaken == ReloadSpec => []SignalTaken
  <1>1. ReloadInit => SignalInv
    BY DEF ReloadInit, SignalInv
  <1>2. ASSUME SignalInv, [ReloadNext]_reloadVars PROVE SignalInv'
    <2> USE <1>2 DEF SignalInv
    <2>1. ASSUME NEW c \in Configs, Edit(c) PROVE SignalInv'
      BY <2>1 DEF Edit
    <2>2. CASE TriggerReload \/ TakeSignal \/ Load \/ Restart
      BY <2>2 DEF TriggerReload, TakeSignal, Load, Restart, Resting
    <2>3. CASE BuildGeneration \/ PublishCell \/ Adopt
      BY <2>3 DEF BuildGeneration, PublishCell, Adopt
    <2>4. ASSUME NEW l \in Listener, Accept(l) PROVE SignalInv'
      BY <2>4 DEF Accept
    <2>5. ASSUME NEW p \in Profile, Route(p) \/ DigestStep(p) PROVE SignalInv'
      BY <2>5 DEF Route, DigestStep, ClaimDigest, RunDigest, SendDigest, CutOffDigest, CancelDigest,
         ReviveDigest, superVars
    <2>6. CASE Respond \/ Pass \/ Deliver \/ UNCHANGED reloadVars
      BY <2>6 DEF Respond, Pass, Deliver, reloadVars, superVars
    <2> QED  BY <2>1, <2>2, <2>3, <2>4, <2>5, <2>6 DEF ReloadNext
  <1>3. SignalInv => SignalTaken
    BY DEF SignalInv, SignalTaken
  <1>4. SignalInv /\ [ReloadNext]_reloadVars => SignalInv'
    BY <1>2
  <1> QED  BY <1>1, <1>3, <1>4, PTL DEF ReloadSpec

-----------------------------------------------------------------------------
(* Deliveries.                                                              *)

\* A request's generation, and a row's, are none the notifiers have yet to reach.
CallInv == call # NoCall => Older(call.under, cell["notifiers"])
NoteInv ==
    /\ note.st = "queued" => /\ note.ed <= cell["notifiers"].ed
                             /\ note.ed = cell["notifiers"].ed => note.slot \in cell["notifiers"].conf.slots
    /\ note.st = "lost" => note.ed < note.by

DeliveryInv == CallInv /\ NoteInv

LEMMA OlderTransitive ==
    ASSUME NEW u, NEW v, NEW w, u.ed \in Nat, v.ed \in Nat, w.ed \in Nat, Older(u, v), Older(v, w)
    PROVE  Older(u, w)
  BY DEF Older

\* The notifiers never go back, and lead the router.
LEMMA NotifiersLead ==
    ASSUME ReloadAssumption, Typed, ReloadInv
    PROVE  /\ Older(cell["router"], cell["notifiers"]) /\ Older(cell["notifiers"], file)
           /\ sup.pc \in {"build", "publish"} => Older(cell["notifiers"], sup.next)
           /\ sup.pc = "publish" /\ sup.left = <<>> => cell["notifiers"] = sup.next
  <1>1. cell["router"] = Due("router") /\ cell["notifiers"] = Due("notifiers")
    BY DEF ReloadInv, CellsDue, WatchCell
  <1>2. Sent("router") => Sent("notifiers") /\ sup.left = <<>>
    BY RouterLast, NoneToSend DEF Sent, Typed, SupOK
  <1>3. /\ file.ed \in Nat /\ applied.ed \in Nat
        /\ sup.pc \in {"build", "publish"} => sup.next.ed \in Nat
    BY VersionOK DEF Typed, FilesOK, SupOK
  <1>4. sup.pc = "publish" /\ sup.left = <<>> => Sent("notifiers")
    BY NoneToSend DEF Sent
  <1> QED  BY <1>1, <1>2, <1>3, <1>4 DEF Due, Sent, ReloadInv, VersionsGrow, Older

LEMMA NotifiersGrow ==
    ASSUME ReloadAssumption, Typed, ReloadInv, [ReloadNext]_reloadVars
    PROVE  Older(cell["notifiers"], cell'["notifiers"])
  <1>1. /\ cell["notifiers"].ed \in Nat /\ cell \in [WatchCell -> Version]
    BY VersionOK DEF Typed, FilesOK, WatchCell
  <1>2. CASE cell' = cell
    BY <1>1, <1>2 DEF Older
  <1>3. CASE PublishCell
    <2>1. Older(cell["notifiers"], sup.next) /\ (cell' = cell \/ cell' = [cell EXCEPT ![Head(sup.left)] = sup.next])
      BY <1>3, NotifiersLead DEF PublishCell
    <2>2. cell'["notifiers"] = cell["notifiers"] \/ cell'["notifiers"] = sup.next
      BY <1>1, <2>1 DEF WatchCell
    <2> QED  BY <1>1, <2>1, <2>2 DEF Older
  <1>4. CASE Restart
    <2>1. cell'["notifiers"] = file
      BY <1>4 DEF Restart, WatchCell
    <2> QED  BY <2>1, NotifiersLead
  <1>5. CASE ReloadNext /\ ~PublishCell /\ ~Restart
    <2>1. cell' = cell
      BY <1>5 DEF ReloadNext, Edit, TriggerReload, TakeSignal, Load, BuildGeneration, Adopt, Accept,
                  Route, DigestStep, ClaimDigest, RunDigest, SendDigest, CutOffDigest, CancelDigest,
                  ReviveDigest, Respond, Pass, Deliver, superVars
    <2> QED  BY <1>2, <2>1
  <1>6. CASE UNCHANGED reloadVars
    BY <1>2, <1>6 DEF reloadVars, superVars
  <1> QED  BY <1>3, <1>4, <1>5, <1>6

\* A row dispatched by a version the notifiers have reached.
LEMMA DispatchKnown ==
    ASSUME ReloadAssumption, Typed, NoteInv, NEW v \in Version, NEW ps, Dispatch(v, ps),
           cell' \in [WatchCell -> Version],
           Older(v, cell'["notifiers"]), Older(cell["notifiers"], cell'["notifiers"])
    PROVE  NoteInv'
  <1> DEFINE n == cell["notifiers"]
             m == cell'["notifiers"]
  <1>1. n \in Version /\ m \in Version
    BY DEF Typed, FilesOK, WatchCell
  <1>2. n.ed \in Nat /\ m.ed \in Nat /\ v.ed \in Nat
    BY <1>1, VersionOK
  <1>3. CASE note' = note
    <2>1. note.st = "queued" => note.ed \in Nat
      BY DEF Typed, NoteOK, NoNote
    <2> QED  BY <1>2, <1>3, <2>1 DEF NoteInv, Older
  <1>4. CASE \E t \in Targets(v, ps) :
                note' = [st |-> "queued", slot |-> t, ed |-> v.ed, tries |-> DeliveryTries, by |-> 0]
    <2>1. PICK t \in Targets(v, ps) :
             note' = [st |-> "queued", slot |-> t, ed |-> v.ed, tries |-> DeliveryTries, by |-> 0]
      BY <1>4
    <2>2. note'.st = "queued" /\ note'.slot \in v.conf.slots /\ note'.ed = v.ed
      BY <2>1 DEF Targets
    <2> QED  BY <1>2, <2>2 DEF NoteInv, Older
  <1> QED  BY <1>3, <1>4 DEF Dispatch

LEMMA DeliveryStep ==
    ASSUME ReloadAssumption, Typed, Typed', ReloadInv, DeliveryInv, [ReloadNext]_reloadVars
    PROVE  DeliveryInv'
  <1> USE DEF DeliveryInv
  <1>0. Older(cell["notifiers"], cell'["notifiers"])
    BY NotifiersGrow
  <1>1. /\ cell["notifiers"] \in Version /\ cell'["notifiers"] \in Version /\ cell["router"] \in Version
        /\ cell' \in [WatchCell -> Version]
    BY DEF Typed, FilesOK, WatchCell
  <1>2. cell["notifiers"].ed \in Nat /\ cell'["notifiers"].ed \in Nat
    BY <1>1, VersionOK
  <1>3. ASSUME call' = call PROVE CallInv'
    <2> SUFFICES ASSUME call # NoCall PROVE Older(call.under, cell'["notifiers"])
      BY <1>3 DEF CallInv
    <2>1. call.under \in Version
      BY DEF Typed, CallOK
    <2>2. call.under.ed \in Nat
      BY <2>1, VersionOK
    <2> QED  BY <1>0, <1>2, <2>2, OlderTransitive DEF CallInv
  <1>4. ASSUME note' = note PROVE NoteInv'
    <2>1. note.st = "queued" => note.ed \in Nat
      BY DEF Typed, NoteOK, NoNote
    <2> QED  BY <1>0, <1>2, <1>4, <2>1 DEF NoteInv, Older
  <1>5. CASE Adopt
    <2>1. sup.next \in Version /\ cell["notifiers"] = sup.next /\ cell' = cell /\ call' = call
      BY <1>5, NotifiersLead DEF Adopt, Typed, SupOK
    <2>2. Older(sup.next, cell'["notifiers"])
      BY <1>2, <2>1 DEF Older
    <2>3. NoteInv'
      BY <1>0, <1>1, <1>5, <2>1, <2>2, DispatchKnown DEF Adopt
    <2> QED  BY <1>3, <2>1, <2>3
  <1>6. CASE Restart
    <2>1. file \in Version /\ cell'["notifiers"] = file /\ call' = NoCall
      BY <1>6 DEF Restart, Typed, FilesOK, WatchCell
    <2>2. Older(file, cell'["notifiers"])
      BY <1>2, <2>1 DEF Older
    <2>3. NoteInv'
      BY <1>0, <1>1, <1>6, <2>1, <2>2, DispatchKnown DEF Restart
    <2> QED  BY <2>1, <2>3 DEF CallInv
  <1>7. ASSUME NEW p \in Profile, Route(p) PROVE DeliveryInv'
    <2>1. cell' = cell /\ note' = note /\ call' = [under |-> cell["router"], profile |-> p]
      BY <1>7 DEF Route, superVars
    <2>2. CallInv'
      BY <2>1, NotifiersLead DEF CallInv
    <2> QED  BY <1>4, <2>1, <2>2
  <1>8. CASE Respond
    <2>1. call # NoCall /\ call.under \in Version /\ cell' = cell /\ call' = NoCall
      BY <1>8 DEF Respond, superVars, Typed, CallOK
    <2>2. Older(call.under, cell'["notifiers"])
      BY <2>1 DEF CallInv
    <2>3. NoteInv'
      BY <1>0, <1>1, <1>8, <2>1, <2>2, DispatchKnown DEF Respond
    <2> QED  BY <2>1, <2>3 DEF CallInv
  <1>9. ASSUME NEW p \in Profile, SendDigest(p) PROVE DeliveryInv'
    <2>1. cell' = cell /\ call' = call
      BY <1>9 DEF SendDigest, superVars
    <2>2. Older(cell["notifiers"], cell'["notifiers"])
      BY <1>0
    <2>3. NoteInv'
      BY <1>0, <1>1, <1>9, <2>2, DispatchKnown DEF SendDigest
    <2> QED  BY <1>3, <2>1, <2>3
  <1>10. CASE Deliver
    <2>1. cell' = cell /\ call' = call /\ note.st = "queued"
      BY <1>10 DEF Deliver, superVars
    <2>2. note \in [st : {"queued", "lost"}, slot : Target, ed : Nat, tries : 1..DeliveryTries, by : Nat]
      BY <2>1 DEF Typed, NoteOK, NoNote
    <2>3. \/ note' = NoNote \/ note' = [note EXCEPT !.tries = note.tries - 1]
          \/ /\ note.slot \notin cell["notifiers"].conf.slots
             /\ note' = [note EXCEPT !.st = "lost", !.by = cell["notifiers"].ed]
      BY <1>10 DEF Deliver
    <2>4. NoteInv'
      <3>1. CASE note' = NoNote
        BY <3>1 DEF NoteInv, NoNote
      <3>2. CASE note' = [note EXCEPT !.tries = note.tries - 1]
        BY <2>1, <2>2, <3>2 DEF NoteInv
      <3>3. CASE /\ note.slot \notin cell["notifiers"].conf.slots
                 /\ note' = [note EXCEPT !.st = "lost", !.by = cell["notifiers"].ed]
        <4>1. note'.st = "lost" /\ note'.ed = note.ed /\ note'.by = cell["notifiers"].ed /\ note.ed \in Nat
          BY <2>2, <3>3
        <4> QED  BY <1>2, <2>1, <3>3, <4>1 DEF NoteInv
      <3> QED  BY <2>3, <3>1, <3>2, <3>3
    <2> QED  BY <1>3, <2>1, <2>4
  <1>11. CASE ReloadNext /\ call' = call /\ note' = note
    BY <1>3, <1>4, <1>11
  <1>12. CASE UNCHANGED reloadVars
    BY <1>3, <1>4, <1>12 DEF reloadVars
  <1>13. ASSUME \/ \E c \in Configs : Edit(c)
                \/ TriggerReload \/ TakeSignal \/ Load \/ BuildGeneration \/ PublishCell \/ Pass
                \/ \E l \in Listener : Accept(l)
                \/ \E p \in Profile : \/ ClaimDigest(p) \/ RunDigest(p)
                                      \/ CutOffDigest(p) \/ CancelDigest(p) \/ ReviveDigest(p)
         PROVE  call' = call /\ note' = note
    BY <1>13 DEF Edit, TriggerReload, TakeSignal, Load, BuildGeneration, PublishCell, Pass, Accept,
                 ClaimDigest, RunDigest, CutOffDigest, CancelDigest, ReviveDigest
  <1> QED  BY <1>5, <1>6, <1>7, <1>8, <1>9, <1>10, <1>11, <1>12, <1>13 DEF ReloadNext, DigestStep

\* A notification is lost only to a generation newer than the one that queued it:
\* publish_reload sends the notifiers before the router and the registry, so that
\* no request, digest or mounted endpoint queues for a backend that the map the
\* job reads has yet to learn of, across restarts too.
THEOREM LossIsOutdating == ReloadSpec => []LostIsOutdated
  <1>1. ReloadInit => DeliveryInv
    BY DEF ReloadInit, DeliveryInv, CallInv, NoteInv, NoNote
  <1>2. Typed /\ Typed' /\ ReloadInv /\ DeliveryInv /\ [ReloadNext]_reloadVars => DeliveryInv'
    BY ReloadAssumption, DeliveryStep
  <1>3. DeliveryInv => LostIsOutdated
    BY DEF DeliveryInv, NoteInv, LostIsOutdated
  <1> QED  BY <1>1, <1>2, <1>3, TypedSafety, ReloadSafety, PTL DEF ReloadSpec

-----------------------------------------------------------------------------
(* The expiry digest.                                                       *)

\* Some profile asks for the digest in every configuration that has one.
SteadyDigest == \E p \in Profile : \A c \in Configs : c.digest # {} => p \in c.digest

\* While one profile keeps its digest, no reload strands the digest: a live row is
\* always left to see to the rows of the profiles that come to it later, unless that
\* profile's own row was lost to a refused insert, to attempts cut off or to an
\* operator, and not put back since.  (Without that profile it need not be so:
\* recover_new_kinds asks once per kind.)
THEOREM SteadyDigestIsKept == SteadyDigest => (ReloadSpec => []DigestKept)
  <1> SUFFICES ASSUME SteadyDigest PROVE ReloadSpec => []DigestKept
    OBVIOUS
  <1>1. PICK p \in Profile : \A c \in Configs : c.digest # {} => p \in c.digest
    BY DEF SteadyDigest
  <1>2. \A v \in Version : HasDigest(v) => p \in v.conf.digest
    BY <1>1, ReloadAssumption, VersionOK DEF HasDigest
  <1> DEFINE SeenTo == recovered => digest[p].st # "none"
  <1>3. ReloadInit => SeenTo
    BY DEF ReloadInit
  <1>r. \A row : row \in {Ready, Failed, Absent} => row.st # "none"
    BY DEF Ready, Failed, Absent, NoDigest
  <1>4. ASSUME Typed, Typed', SeenTo, [ReloadNext]_reloadVars PROVE SeenTo'
    <2>0. digest = [q \in Profile |-> digest[q]]
      BY <1>4 DEF Typed, DigestOK
    <2>1. ASSUME UNCHANGED <<recovered, digest>> PROVE SeenTo'
      BY <1>4, <2>1
    <2>2. CASE Pass
      <3>1. view' \in Version
        BY <1>4 DEF Typed, FilesOK
      <3>2. CASE recovered
        BY <1>4, <2>2, <3>2 DEF Pass
      <3>3. CASE ~recovered /\ HasDigest(view')
        <4>1. PICK refused : digest' = Reconciled(digest, view', refused)
          BY <2>2, <3>3 DEF Pass
        <4> QED  BY <1>2, <1>r, <3>1, <3>3, <4>1 DEF Reconciled, Live
      <3>4. CASE ~recovered /\ ~HasDigest(view')
        BY <2>2, <3>4 DEF Pass
      <3> QED  BY <3>2, <3>3, <3>4
    <2>3. ASSUME NEW q \in Profile, ClaimDigest(q) PROVE SeenTo'
      BY <1>4, <2>0, <2>3 DEF ClaimDigest
    <2>4. ASSUME NEW q \in Profile,
                 SendDigest(q) \/ CutOffDigest(q) \/ CancelDigest(q) \/ ReviveDigest(q)
          PROVE  SeenTo'
      <3>1. /\ \E row \in {Ready, Failed, Absent} : digest' = [digest EXCEPT ![q] = row]
            /\ recovered' = recovered
        BY <2>4 DEF SendDigest, CutOffDigest, CancelDigest, ReviveDigest
      <3> QED  BY <1>4, <1>r, <2>0, <3>1
    <2>5. ASSUME NEW q \in Profile, RunDigest(q) PROVE SeenTo'
      <3>1. HasDigest(digest[q].by) /\ digest[q].by \in Version /\ recovered' = recovered
        BY <1>4, <2>5 DEF RunDigest, Typed, DigestOK, RowOK
      <3>2. CASE q \notin digest[q].by.conf.digest
        <4>1. q # p /\ digest' = [digest EXCEPT ![q] = NoDigest]
          BY <1>2, <2>5, <3>1, <3>2 DEF RunDigest
        <4> QED  BY <1>4, <2>0, <3>1, <4>1
      <3>3. CASE q \in digest[q].by.conf.digest
        <4>1. PICK refused :
                 digest' = Reconciled([digest EXCEPT ![q].st = "send"], digest[q].by, refused)
          BY <2>5, <3>3 DEF RunDigest
        <4> QED  BY <1>2, <1>r, <3>1, <4>1 DEF Reconciled, Live
      <3> QED  BY <3>2, <3>3
    <2>6. CASE Restart
      BY <2>6 DEF Restart
    <2>7. ASSUME \/ \E c \in Configs : Edit(c)
                 \/ TriggerReload \/ TakeSignal \/ Load \/ BuildGeneration \/ PublishCell \/ Adopt
                 \/ \E l \in Listener : Accept(l)
                 \/ \E q \in Profile : Route(q)
                 \/ Respond \/ Deliver \/ UNCHANGED reloadVars
          PROVE  UNCHANGED <<recovered, digest>>
      BY <2>7 DEF Edit, TriggerReload, TakeSignal, Load, BuildGeneration, PublishCell, Adopt, Accept,
                  Route, Respond, Deliver, reloadVars, runnerVars
    <2> QED  BY <1>4, <2>1, <2>2, <2>3, <2>4, <2>5, <2>6, <2>7 DEF ReloadNext, DigestStep
  <1>5. Typed /\ SeenTo => DigestKept
    <2> SUFFICES ASSUME Typed, SeenTo, recovered, HasDigest(view)
                 PROVE  Live(digest[p]) \/ (Lost(digest[p]) /\ p \in view.conf.digest)
      BY DEF DigestKept
    <2>1. view \in Version /\ digest[p].st \in RowStatus /\ digest[p].st # "none"
      BY DEF Typed, FilesOK, DigestOK, RowOK
    <2> QED  BY <1>2, <2>1 DEF RowStatus, Live, Lost
  <1>6. Typed /\ Typed' /\ SeenTo /\ [ReloadNext]_reloadVars => SeenTo'
    BY <1>4
  <1> HIDE DEF SeenTo
  <1> QED  BY <1>3, <1>5, <1>6, TypedSafety, PTL DEF ReloadSpec
=============================================================================
