---------------------------- MODULE ClientProofs ----------------------------
(***************************************************************************)
(* Theorems about ClientAccess, for any number of accounts, keys,          *)
(* credentials, nonces and requests in flight.                             *)
(***************************************************************************)
EXTENDS ClientAccess, FiniteSetTheorems, TLAPS

-----------------------------------------------------------------------------
(* Types.                                                                   *)

HandlerStep == {"deactivate", "conflict", "rekey", "order"}

RequestType ==
    [pc : RequestPC, key : Key \cup {NoKey}, acct : Account \cup {NoAccount},
     op : {"newAccount", "deactivate", "keyChange", "newOrder"},
     read : Row, nonce : Nonce \cup {NoNonce}, cred : Cred \cup {NoCred}, to : Key \cup {NoKey}]

\* What a request knows at each of its steps.  One that waits for its nonce has
\* read the account it is signed by, unless it asks for one; one that changes a
\* key has the new one.
RequestOK(q) ==
    /\ q \in RequestType
    /\ q.pc # "free" => q.key \in Key /\ q.nonce \in Nonce
    /\ q.pc \in HandlerStep => q.acct \in Account /\ q.read.status = "valid"
    /\ q.pc = "nonce" /\ q.op # "newAccount" => q.acct \in Account /\ q.read.status \in {"valid", "deactivated"}
    /\ q.op = "keyChange" => q.to \in Key
    /\ q.pc \in {"conflict", "rekey"} => q.op = "keyChange"

HeldType == {"nothing", "order", "signing", "certificate"}
NonceType == {Unborn, Gone} \cup 0..NonceTtl

TablesOK ==
    /\ acct \in [Account -> Row]
    /\ \A a \in Account : Exists(a) => acct[a].key \in Key
    /\ held \in [Account -> HeldType]
    /\ cred \in [Cred -> {"active", "revoked", "deleted"}]
    /\ nonce \in [Nonce -> NonceType]
    /\ used \in [Nonce -> 0..2]

RequestsOK == req \in [Request -> RequestType] /\ \A r \in Request : RequestOK(req[r])

\* The inductive invariant behind the types.
ClientInv == TablesOK /\ RequestsOK

LEMMA ClientInvImplies == ClientInv => ClientTypeOK
  BY DEF ClientInv, TablesOK, RequestsOK, RequestOK, RequestType, HandlerStep, HeldType, NonceType, ClientTypeOK

\* A request in a new state that is sound leaves all of them sound.
LEMMA OneRequest ==
    ASSUME RequestsOK, NEW r \in Request, NEW q, RequestOK(q), req' = [req EXCEPT ![r] = q]
    PROVE  RequestsOK'
  <1>1. q \in RequestType
    BY DEF RequestOK
  <1>2. req' \in [Request -> RequestType]
    BY <1>1 DEF RequestsOK
  <1>3. ASSUME NEW s \in Request PROVE RequestOK(req'[s])
    BY DEF RequestsOK
  <1> QED  BY <1>2, <1>3 DEF RequestsOK, RequestOK

\* A request may be answered at any point.
LEMMA AnswerOK ==
    ASSUME RequestsOK, NEW r \in Request, Answer(r)
    PROVE  RequestsOK'
  <1>1. RequestOK(Quiet)
    BY DEF RequestOK, RequestType, HandlerStep, Quiet, NoRow, Row, RequestPC
  <1> QED  BY <1>1, OneRequest DEF Answer

\* It may go on to a step of its handler.
LEMMA GotoOK ==
    ASSUME RequestsOK, NEW r \in Request, NEW pc \in RequestPC \ {"free", "nonce"}, Goto(r, pc),
           req[r].pc # "free",
           pc \in HandlerStep => req[r].acct \in Account /\ req[r].read.status = "valid",
           pc \in {"conflict", "rekey"} => req[r].op = "keyChange"
    PROVE  RequestsOK'
  <1> DEFINE q == [req[r] EXCEPT !.pc = pc]
  <1>1. RequestOK(req[r])
    BY DEF RequestsOK
  <1>2. RequestOK(q)
    BY <1>1 DEF RequestOK, RequestType
  <1>3. req' = [req EXCEPT ![r] = q]
    BY DEF Goto
  <1> HIDE DEF q
  <1> QED  BY <1>2, <1>3, OneRequest

\* A signed request that arrives has read its account.
LEMMA ReceiveOK ==
    ASSUME ClientInv, NEW r \in Request, Receive(r)
    PROVE  RequestsOK'
  <1> USE DEF ClientInv
  <1>1. PICK n \in Nonce :
          \/ \E k \in Key, c \in IF EabEnabled THEN Cred ELSE {NoCred} :
                Arrived(r, [Quiet EXCEPT !.pc = "nonce", !.op = "newAccount", !.key = k, !.nonce = n, !.cred = c])
          \/ \E a \in Account, op \in {"deactivate", "newOrder"} : Admit(r, a, n, op, NoKey)
          \/ \E a \in Account, l \in Key : l # acct[a].key /\ Admit(r, a, n, "keyChange", l)
    BY DEF Receive
  <1>2. ASSUME NEW k \in Key, NEW c \in Cred \cup {NoCred},
               Arrived(r, [Quiet EXCEPT !.pc = "nonce", !.op = "newAccount", !.key = k, !.nonce = n, !.cred = c])
        PROVE  RequestsOK'
    <2> DEFINE q == [Quiet EXCEPT !.pc = "nonce", !.op = "newAccount", !.key = k, !.nonce = n, !.cred = c]
    <2>1. RequestOK(q)
      BY DEF RequestOK, RequestType, HandlerStep, Quiet, NoRow, Row, RequestPC
    <2>2. req' = [req EXCEPT ![r] = q]
      BY <1>2 DEF Arrived
    <2> HIDE DEF q
    <2> QED  BY <2>1, <2>2, OneRequest
  <1>3. ASSUME NEW a \in Account, NEW op \in {"deactivate", "newOrder", "keyChange"}, NEW l \in Key \cup {NoKey},
               Admit(r, a, n, op, l), op = "keyChange" => l \in Key
        PROVE  RequestsOK'
    <2> DEFINE q == [Quiet EXCEPT !.pc = "nonce", !.op = op, !.key = acct[a].key, !.acct = a, !.nonce = n, !.to = l,
                                  !.read = acct[a]]
    <2>1. acct[a] \in Row /\ acct[a].key \in Key /\ acct[a].status \in {"valid", "deactivated"}
      BY <1>3 DEF Admit, Exists, TablesOK
    <2>2. RequestOK(q)
      BY <1>3, <2>1 DEF RequestOK, RequestType, HandlerStep, Quiet, NoRow, Row, RequestPC
    <2>3. req' = [req EXCEPT ![r] = q]
      BY <1>3 DEF Arrived, Admit
    <2> HIDE DEF q
    <2> QED  BY <2>2, <2>3, OneRequest
  <1> QED  BY <1>1, <1>2, <1>3

\* A nonce is spent, and the handler is the one of the operation.
LEMMA ConsumeNonceOK ==
    ASSUME ClientAssumption, ClientInv, NEW r \in Request, ConsumeNonce(r)
    PROVE  ClientInv'
  <1> USE DEF ClientInv
  <1>0. RequestOK(req[r]) /\ req[r].pc = "nonce"
    BY DEF RequestsOK, ConsumeNonce
  <1>1. req[r].nonce \in Nonce
    BY <1>0 DEF RequestOK
  <1>2. TablesOK'
    BY <1>1 DEF ConsumeNonce, TablesOK, NonceType, Unborn, Gone, Exists, ClientAssumption
  <1>3. Answer(r) \/ (req[r].read.status # "deactivated" /\ Goto(r, Handler[req[r].op]))
    BY DEF ConsumeNonce
  <1>4. CASE Answer(r)
    BY <1>2, <1>4, AnswerOK
  <1>5. ASSUME req[r].read.status # "deactivated", Goto(r, Handler[req[r].op])
        PROVE  RequestsOK'
    <2>1. req[r].op \in {"newAccount", "deactivate", "keyChange", "newOrder"}
      BY <1>0 DEF RequestOK, RequestType
    <2> DEFINE pc == Handler[req[r].op]
    <2>2. /\ pc \in RequestPC \ {"free", "nonce"}
          /\ pc \in HandlerStep => req[r].op # "newAccount"
          /\ pc \in {"conflict", "rekey"} => req[r].op = "keyChange"
      BY <2>1 DEF Handler, RequestPC, HandlerStep
    <2>3. pc \in HandlerStep => req[r].acct \in Account /\ req[r].read.status = "valid"
      BY <1>0, <1>5, <2>2 DEF RequestOK
    <2> HIDE DEF pc
    <2>4. Goto(r, pc) /\ req[r].pc # "free"
      BY <1>0, <1>5 DEF pc
    <2> QED  BY <2>2, <2>3, <2>4, GotoOK
  <1> QED  BY <1>2, <1>3, <1>4, <1>5

\* Every other step of a request.
LEMMA RequestStepOK ==
    ASSUME ClientAssumption, ClientInv, NEW r \in Request, RequestStep(r)
    PROVE  ClientInv'
  <1> USE DEF ClientInv
  <1>0. RequestOK(req[r])
    BY DEF RequestsOK
  <1>1. CASE Receive(r)
    BY <1>1, ReceiveOK DEF Receive, TablesOK, Exists
  <1>2. CASE ConsumeNonce(r)
    BY <1>2, ConsumeNonceOK
  <1>3. CASE Lookup(r) \/ VerifyEab(r) \/ Register(r) \/ Reread(r) \/ FindConflict(r)
    <2>1. TablesOK'
      BY <1>3 DEF Lookup, VerifyEab, Register, Reread, FindConflict, TablesOK, Exists
    <2>2. \/ Answer(r)
          \/ \E pc \in {"eab", "register", "insert"} : req[r].pc # "free" /\ Goto(r, pc)
          \/ req[r].pc = "conflict" /\ Goto(r, "rekey")
      BY <1>3 DEF Lookup, VerifyEab, Register, Reread, FindConflict
    <2>3. CASE Answer(r)
      BY <2>1, <2>3, AnswerOK
    <2>4. ASSUME NEW pc \in {"eab", "register", "insert"}, req[r].pc # "free", Goto(r, pc)
          PROVE  RequestsOK'
      BY <2>4, GotoOK DEF RequestPC, HandlerStep
    <2>5. ASSUME req[r].pc = "conflict", Goto(r, "rekey")
          PROVE  RequestsOK'
      <3>1. req[r].acct \in Account /\ req[r].read.status = "valid" /\ req[r].op = "keyChange"
        BY <1>0, <2>5 DEF RequestOK, HandlerStep
      <3> QED  BY <2>5, <3>1, GotoOK DEF RequestPC, HandlerStep
    <2> QED  BY <2>1, <2>2, <2>3, <2>4, <2>5
  <1>4. CASE Insert(r)
    <2>1. req[r].key \in Key /\ req[r].cred \in Cred \cup {NoCred} /\ req[r].pc = "insert"
      BY <1>0, <1>4 DEF Insert, RequestOK, RequestType
    <2>2. TablesOK'
      BY <1>4, <2>1 DEF Insert, TablesOK, Row, Exists
    <2>3. RequestsOK'
      BY <1>4, <2>1, AnswerOK, GotoOK DEF Insert, RequestPC, HandlerStep
    <2> QED  BY <2>2, <2>3
  <1>5. CASE Deactivate(r)
    BY <1>5, AnswerOK DEF Deactivate, Deactivated, TablesOK, Row, Exists
  <1>6. CASE UpdatePubkey(r)
    <2>1. req[r].to \in Key
      BY <1>0, <1>6 DEF UpdatePubkey, RequestOK
    <2> QED  BY <1>6, <2>1, AnswerOK DEF UpdatePubkey, TablesOK, Row, Exists
  <1>7. CASE NewOrder(r)
    BY <1>7, AnswerOK DEF NewOrder, TablesOK, HeldType, Exists
  <1> QED  BY <1>1, <1>2, <1>3, <1>4, <1>5, <1>6, <1>7 DEF RequestStep

\* The steps of the job, the operator and the clock.
LEMMA TableStepOK ==
    ASSUME ClientAssumption, ClientInv,
           \/ \E a \in Account : AccountStep(a)
           \/ \E c \in Cred : CredStep(c)
           \/ \E n \in Nonce : Mint(n)
           \/ Grow \/ \E ttl \in 0..NonceTtl : CleanupNonces(ttl)
    PROVE  ClientInv'
  <1> USE DEF ClientInv, TablesOK, RequestsOK
  <1>1. ASSUME NEW a \in Account, CheckIssue(a) \/ RecordIssue(a) \/ Lapse(a)
        PROVE  ClientInv'
    BY <1>1 DEF CheckIssue, RecordIssue, Lapse, HeldType, Exists
  <1>2. ASSUME NEW a \in Account, DeactivateAccount(a)
        PROVE  ClientInv'
    BY <1>2 DEF DeactivateAccount, Deactivated, Row, Exists
  <1>3. ASSUME NEW a \in Account, DeleteAccount(a)
        PROVE  ClientInv'
    BY <1>3 DEF DeleteAccount, Removed, Cascaded, NoRow, Row, Exists, HeldType
  <1>4. ASSUME NEW c \in Cred, RevokeEab(c)
        PROVE  ClientInv'
    BY <1>4 DEF RevokeEab, Exists
  <1>5. ASSUME NEW c \in Cred, NEW mode \in {"keep", "deactivate", "delete"}, DeleteEab(c, mode)
        PROVE  ClientInv'
    <2> DEFINE bound == {a \in Account : Exists(a) /\ acct[a].eab = c}
    <2>1. /\ cred' = [cred EXCEPT ![c] = "deleted"]
          /\ UNCHANGED <<nonce, used, req>>
          /\ \/ UNCHANGED <<acct, held>>
             \/ /\ acct' = [a \in Account |-> IF a \in bound THEN [acct[a] EXCEPT !.status = "deactivated"]
                                             ELSE acct[a]]
                /\ held' = held
             \/ acct' = Removed(bound) /\ held' = Cascaded(bound)
      BY <1>5 DEF DeleteEab
    <2> QED  BY <2>1 DEF Removed, Cascaded, NoRow, Row, Exists, HeldType
  <1>6. ASSUME NEW n \in Nonce, Mint(n)
        PROVE  ClientInv'
    BY <1>6 DEF Mint, NonceType, Exists, ClientAssumption
  <1>7. ASSUME Grow
        PROVE  ClientInv'
    BY <1>7 DEF Grow, NonceType, Exists, ClientAssumption, Unborn, Gone
  <1>8. ASSUME NEW ttl \in 0..NonceTtl, CleanupNonces(ttl)
        PROVE  ClientInv'
    BY <1>8 DEF CleanupNonces, NonceType, Exists, ClientAssumption
  <1> QED  BY <1>1, <1>2, <1>3, <1>4, <1>5, <1>6, <1>7, <1>8 DEF AccountStep, CredStep

\* The invariant is inductive.
LEMMA Inductive == ClientSpec => []ClientInv
  <1>1. ClientInit => ClientInv
    BY ClientAssumption DEF ClientInit, ClientInv, TablesOK, RequestsOK, RequestOK, RequestType, HandlerStep, Quiet,
       NoRow, Row, RequestPC, HeldType, NonceType, Exists
  <1>2. ClientInv /\ [ClientNext]_clientVars => ClientInv'
    <2>1. CASE UNCHANGED clientVars
      BY <2>1 DEF clientVars, ClientInv, TablesOK, RequestsOK, Exists
    <2> QED  BY <2>1, RequestStepOK, TableStepOK, ClientAssumption DEF ClientNext
  <1> QED  BY <1>1, <1>2, PTL DEF ClientSpec

\* Every table has its type, and every request past its signature knows what its
\* handler works on: signer_account has refused whoever was read as deactivated.
THEOREM TypeCorrect == ClientSpec => []ClientTypeOK
  BY Inductive, ClientInvImplies, PTL

-----------------------------------------------------------------------------
(* Nonces.                                                                  *)

\* A nonce with a row, or still to be minted, has paid for nothing.
Unspent == \A n \in Nonce : used[n] <= 1 /\ (nonce[n] # Gone => used[n] = 0)

\* Nonce::verify deletes what it counts, in the statement that reads the age; so
\* replays, the sweep and an operator's cleanup never let a nonce pay twice.
THEOREM NoncesPayOnce == ClientSpec => []NonceSpentOnce
  <1>1. ClientInit => Unspent
    BY DEF ClientInit, Unspent
  <1>2. ASSUME ClientInv, Unspent, [ClientNext]_clientVars
        PROVE  Unspent'
    <2> USE <1>2 DEF Unspent, ClientInv, TablesOK
    <2>1. ASSUME NEW r \in Request, ConsumeNonce(r)
          PROVE  Unspent'
      <3>1. req[r].nonce \in Nonce
        BY <2>1 DEF ConsumeNonce, RequestsOK, RequestOK
      <3>2. CASE nonce[req[r].nonce] \in 0..(NonceTtl - 1)
        <4>1. used[req[r].nonce] = 0
          BY <3>1, <3>2 DEF Gone
        <4> QED  BY <2>1, <3>1, <3>2, <4>1 DEF ConsumeNonce, Gone
      <3>3. CASE nonce[req[r].nonce] \notin 0..(NonceTtl - 1)
        BY <2>1, <3>3 DEF ConsumeNonce
      <3> QED  BY <3>2, <3>3
    <2>2. ASSUME NEW n \in Nonce, Mint(n)
          PROVE  Unspent'
      BY <2>2 DEF Mint, Unborn, Gone
    <2>3. ASSUME Grow
          PROVE  Unspent'
      BY <2>3 DEF Grow, Gone
    <2>4. ASSUME NEW ttl \in 0..NonceTtl, CleanupNonces(ttl)
          PROVE  Unspent'
      BY <2>4 DEF CleanupNonces
    <2>5. ASSUME UNCHANGED <<nonce, used>>
          PROVE  Unspent'
      BY <2>5
    <2> QED
      BY <2>1, <2>2, <2>3, <2>4, <2>5
         DEF ClientNext, clientVars, RequestStep, Receive, Lookup, VerifyEab, Register, Insert, Reread, Deactivate,
             FindConflict, UpdatePubkey, NewOrder, AccountStep, CheckIssue, RecordIssue, Lapse, DeactivateAccount,
             DeleteAccount, CredStep, RevokeEab, DeleteEab
  <1>3. Unspent => NonceSpentOnce
    BY DEF Unspent, NonceSpentOnce
  <1> QED  BY <1>1, <1>2, <1>3, Inductive, PTL DEF ClientSpec

-----------------------------------------------------------------------------
(* Accounts.                                                                *)

\* No two rows share a key.
Unique == \A a, b \in Account : Exists(a) /\ Exists(b) /\ acct[a].key = acct[b].key => a = b

\* A step that registers nobody and changes no key keeps the keys apart.
LEMMA UniqueKept ==
    ASSUME Unique, \A a \in Account : Exists(a)' => Exists(a) /\ acct'[a].key = acct[a].key
    PROVE  Unique'
  BY DEF Unique, Exists

LEMMA UniqueStep ==
    ASSUME ClientAssumption, ClientInv, Unique, [ClientNext]_clientVars
    PROVE  Unique'
  <1> USE DEF ClientInv, TablesOK
  <1>1. ASSUME NEW r \in Request, Insert(r)
        PROVE  Unique'
    BY <1>1 DEF Insert, Unique, Holders, Exists
  <1>2. ASSUME NEW r \in Request, UpdatePubkey(r)
        PROVE  Unique'
    BY <1>2 DEF UpdatePubkey, Unique, Holders, Exists, Row
  <1>3. ASSUME NEW r \in Request, Deactivate(r)
        PROVE  Unique'
    BY <1>3, UniqueKept DEF Deactivate, Deactivated, Exists, Row
  <1>4. ASSUME NEW a \in Account, DeactivateAccount(a) \/ DeleteAccount(a)
        PROVE  Unique'
    BY <1>4, UniqueKept DEF DeactivateAccount, Deactivated, DeleteAccount, Removed, NoRow, Exists, Row
  <1>5. ASSUME NEW c \in Cred, NEW mode \in {"keep", "deactivate", "delete"}, DeleteEab(c, mode)
        PROVE  Unique'
    BY <1>5, UniqueKept DEF DeleteEab, Removed, NoRow, Exists, Row
  <1>6. ASSUME UNCHANGED acct
        PROVE  Unique'
    BY <1>6 DEF Unique, Exists
  <1> QED
    BY <1>1, <1>2, <1>3, <1>4, <1>5, <1>6
       DEF ClientNext, clientVars, RequestStep, Receive, ConsumeNonce, Lookup, VerifyEab, Register, Reread,
           FindConflict, NewOrder, AccountStep, CheckIssue, RecordIssue, Lapse, CredStep, RevokeEab, Mint, Grow,
           CleanupNonces

\* find_or_register and update_pubkey each look for a holder in a step of their own;
\* the UNIQUE (profile, pubkey) of the write is what keeps two accounts off one key.
THEOREM KeysAreApart == ClientSpec => []OneAccountPerKey
  <1>1. ClientInit => Unique
    BY DEF ClientInit, Unique, Exists, NoRow
  <1>2. Unique => OneAccountPerKey
    <2> SUFFICES ASSUME Unique, NEW k \in Key
                 PROVE  Cardinality(Holders(k)) <= 1
      BY DEF OneAccountPerKey
    <2>1. CASE Holders(k) = {}
      BY <2>1, FS_EmptySet
    <2>2. ASSUME NEW a \in Holders(k)
          PROVE  Cardinality(Holders(k)) <= 1
      <3>1. Holders(k) = {a}
        BY <2>2 DEF Unique, Holders
      <3>2. Cardinality({a}) = 1
        BY FS_Singleton, Zenon
      <3> QED  BY <3>1, <3>2
    <2> QED  BY <2>1, <2>2
  <1> QED  BY <1>1, <1>2, UniqueStep, ClientAssumption, Inductive, PTL DEF ClientSpec

\* Every write to an account after its row was read names only the columns it is
\* about: deactivation is final, a deleted row stays deleted, a binding is kept.
THEOREM DeactivationIsFinal == ClientSpec => DeactivationStands
  <1> DEFINE Stands == \A a \in Account :
                 /\ acct[a].status = "deactivated" => acct'[a].status \in {"deactivated", "deleted"}
                 /\ acct[a].status = "deleted" => acct'[a].status = "deleted"
                 /\ Exists(a) /\ Exists(a)' => acct'[a].eab = acct[a].eab
  <1>1. ASSUME ClientInv, ClientNext
        PROVE  Stands
    <2> USE <1>1 DEF ClientInv, TablesOK, Exists, Row
    <2>1. ASSUME NEW r \in Request, Insert(r) \/ UpdatePubkey(r) \/ Deactivate(r)
          PROVE  Stands
      BY <2>1 DEF Insert, UpdatePubkey, Deactivate, Deactivated
    <2>2. ASSUME NEW a \in Account, DeactivateAccount(a) \/ DeleteAccount(a)
          PROVE  Stands
      BY <2>2 DEF DeactivateAccount, Deactivated, DeleteAccount, Removed, NoRow
    <2>3. ASSUME NEW c \in Cred, NEW mode \in {"keep", "deactivate", "delete"}, DeleteEab(c, mode)
          PROVE  Stands
      BY <2>3 DEF DeleteEab, Removed, NoRow
    <2>4. ASSUME UNCHANGED acct
          PROVE  Stands
      BY <2>4
    <2> QED
      BY <2>1, <2>2, <2>3, <2>4
         DEF ClientNext, RequestStep, Receive, ConsumeNonce, Lookup, VerifyEab, Register, Reread,
             FindConflict, NewOrder, AccountStep, CheckIssue, RecordIssue, Lapse, CredStep, RevokeEab, Mint, Grow,
             CleanupNonces
  <1>2. ClientInv /\ [ClientNext]_clientVars => [Stands]_clientVars
    BY <1>1
  <1> QED  BY <1>2, Inductive, PTL DEF ClientSpec, DeactivationStands

\* The guard of Account::delete and of Eab::delete is in the transaction that
\* deletes, and record_issuance needs the order's row: a certificate in force has
\* its account, however a deletion and an issuance meet.
THEOREM CertificatesAreOwned == ClientSpec => []CertificateHasAccount
  <1>1. ClientInit => CertificateHasAccount
    BY DEF ClientInit, CertificateHasAccount
  <1>2. ASSUME ClientInv, CertificateHasAccount, [ClientNext]_clientVars
        PROVE  CertificateHasAccount'
    <2> USE <1>2 DEF CertificateHasAccount, ClientInv, TablesOK, Exists, Row, HeldType
    <2>1. ASSUME NEW r \in Request, Insert(r) \/ UpdatePubkey(r) \/ Deactivate(r) \/ NewOrder(r)
          PROVE  CertificateHasAccount'
      BY <2>1 DEF Insert, UpdatePubkey, Deactivate, Deactivated, NewOrder
    <2>2. ASSUME NEW a \in Account, AccountStep(a)
          PROVE  CertificateHasAccount'
      BY <2>2 DEF AccountStep, CheckIssue, RecordIssue, Lapse, DeactivateAccount, Deactivated, DeleteAccount,
                  Removed, Cascaded, NoRow
    <2>3. ASSUME NEW c \in Cred, NEW mode \in {"keep", "deactivate", "delete"}, DeleteEab(c, mode)
          PROVE  CertificateHasAccount'
      BY <2>3 DEF DeleteEab, Removed, Cascaded, NoRow
    <2>4. ASSUME UNCHANGED <<acct, held>>
          PROVE  CertificateHasAccount'
      BY <2>4
    <2> QED
      BY <2>1, <2>2, <2>3, <2>4
         DEF ClientNext, clientVars, RequestStep, Receive, ConsumeNonce, Lookup, VerifyEab, Register, Reread,
             FindConflict, CredStep, RevokeEab, Mint, Grow, CleanupNonces
  <1> QED  BY <1>1, <1>2, Inductive, PTL DEF ClientSpec
=============================================================================
