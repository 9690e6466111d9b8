---------------------------- MODULE ClientAccess ----------------------------
(***************************************************************************)
(* Who may do what at one ACME endpoint: replay nonces                     *)
(* (crates/store/src/nonce.rs, crates/protocol/src/middlewares/nonce.rs),  *)
(* the checks every signed request passes (crates/protocol/src/extractors/ *)
(* acme.rs, verify_jws), accounts with their keys and external account     *)
(* bindings (crates/protocol/src/acme/account.rs, crates/store/src/        *)
(* account.rs and eab.rs) and the operator's commands on them              *)
(* (crates/admin/src/admin/ops.rs).                                        *)
(*                                                                         *)
(* A request is a task that reads the account it is signed by, spends its  *)
(* nonce and then works from the account as it was read.  Any request may  *)
(* arrive more than once.  What is refused before the database is reached  *)
(* (media type, `crit`, `url`) changes nothing and is left out, as are     *)
(* contacts and the last_seen columns.                                     *)
(***************************************************************************)
EXTENDS Integers, FiniteSets

CONSTANTS
    Account,   \* ids an account may be given
    NoAccount,
    Key,       \* key pairs of the clients
    NoKey,
    Cred,      \* external account credentials
    NoCred,
    Nonce,     \* values a nonce may be given, each of them once
    NoNonce,
    Request,   \* requests that can be in flight
    NonceTtl,  \* nonce.ttl_seconds
    EabEnabled, \* profile.eab.enabled
    Founder, FoundersKey, \* an account that is already registered, and its key
    FoundersCred          \* the credential it was bound to

ASSUME ClientAssumption ==
    /\ NoAccount \notin Account /\ NoKey \notin Key /\ NoCred \notin Cred
    /\ NoNonce \notin Nonce
    /\ NonceTtl \in Nat \ {0} /\ EabEnabled \in BOOLEAN
    /\ Founder \in Account /\ FoundersKey \in Key /\ FoundersCred \in Cred \cup {NoCred}

VARIABLES
    acct,  \* the accounts table
    held,  \* what an account has at the CA: an order, one being signed, a certificate
    cred,  \* the eab_keys table
    nonce, \* the age of each stored nonce, Unborn or Gone if there is no row
    used,  \* how many requests each nonce has paid for
    req    \* what each request is doing

clientVars == <<acct, held, cred, nonce, used, req>>

Unborn == -2
Gone == -1

NoRow == [status |-> "none", key |-> NoKey, eab |-> NoCred]
Quiet == [pc |-> "free", op |-> "newAccount", key |-> NoKey, acct |-> NoAccount,
          read |-> NoRow, nonce |-> NoNonce, cred |-> NoCred, to |-> NoKey]

Exists(a) == acct[a].status \in {"valid", "deactivated"}

\* Account::find_by_pubkey, in one endpoint.
Holders(k) == {a \in Account : Exists(a) /\ acct[a].key = k}

ClientInit ==
    /\ acct = [a \in Account |->
                IF a = Founder
                THEN [status |-> "valid", key |-> FoundersKey, eab |-> FoundersCred]
                ELSE NoRow]
    /\ held = [a \in Account |-> "nothing"]
    /\ cred = [c \in Cred |-> "active"]
    /\ nonce = [n \in Nonce |-> Unborn]
    /\ used = [n \in Nonce |-> 0]
    /\ req = [r \in Request |-> Quiet]

-----------------------------------------------------------------------------
(* Nonces.                                                                  *)

\* add_nonce_middleware: a fresh value with every answer to a POST, and newNonce.
Mint(n) ==
    /\ nonce[n] = Unborn
    /\ nonce' = [nonce EXCEPT ![n] = 0]
    /\ UNCHANGED <<acct, held, cred, used, req>>

\* A second passes.  A row older than NonceTtl is no different from one as old.
Grow ==
    /\ \E n \in Nonce : nonce[n] \in 0..(NonceTtl - 1)
    /\ nonce' = [n \in Nonce |-> IF nonce[n] \in 0..(NonceTtl - 1) THEN nonce[n] + 1 ELSE nonce[n]]
    /\ UNCHANGED <<acct, held, cred, used, req>>

\* Nonce::cleanup, by the sweep or by an operator with an age of their own.
CleanupNonces(ttl) ==
    /\ \E n \in Nonce : nonce[n] >= ttl
    /\ nonce' = [n \in Nonce |-> IF nonce[n] >= ttl THEN Gone ELSE nonce[n]]
    /\ UNCHANGED <<acct, held, cred, used, req>>

-----------------------------------------------------------------------------
(* A request on its way to its handler.                                     *)

Goto(r, pc) == req' = [req EXCEPT ![r] = [@ EXCEPT !.pc = pc]]

\* The request is over, whether granted or refused.
Answer(r) == req' = [req EXCEPT ![r] = Quiet]

Arrived(r, q) == req' = [req EXCEPT ![r] = q]

\* resolve_signing_key: the account the `kid` names as it is now, whose key must
\* verify the signature.  A request that fails here changes nothing.
Admit(r, a, n, op, to) ==
    /\ Exists(a)
    /\ Arrived(r, [Quiet EXCEPT !.pc = "nonce", !.op = op, !.key = acct[a].key, !.acct = a, !.nonce = n, !.to = to,
                                !.read = acct[a]])

\* One arrives: newAccount signed by the key in its `jwk`, anything else by the
\* account's, with any nonce that was ever minted.
Receive(r) ==
    /\ req[r].pc = "free"
    /\ \E n \in Nonce :
          /\ nonce[n] # Unborn
          /\ \/ \E k \in Key, c \in IF EabEnabled THEN Cred ELSE {NoCred} :
                   Arrived(r, [Quiet EXCEPT !.pc = "nonce", !.op = "newAccount", !.key = k, !.nonce = n, !.cred = c])
             \/ \E a \in Account, op \in {"deactivate", "newOrder"} : Admit(r, a, n, op, NoKey)
             \/ \E a \in Account, l \in Key : l # acct[a].key /\ Admit(r, a, n, "keyChange", l)
    /\ UNCHANGED <<acct, held, cred, nonce, used>>

\* Where the handler starts.  signer_account refuses by the status that was read.
Handler == [newAccount |-> "lookup", deactivate |-> "deactivate",
            keyChange |-> "conflict", newOrder |-> "order"]

\* Mutant of ConsumeNonce: the row is looked at, and deleted by the sweep.
ConsumeNonceLazily(r) ==
    LET q == req[r] IN
    /\ q.pc = "nonce"
    /\ IF nonce[q.nonce] \in 0..(NonceTtl - 1)
       THEN /\ used' = [used EXCEPT ![q.nonce] = IF @ = 0 THEN 1 ELSE 2]
            /\ IF q.read.status = "deactivated" THEN Answer(r) ELSE Goto(r, Handler[q.op])
       ELSE Answer(r) /\ used' = used
    /\ UNCHANGED <<acct, held, cred, nonce>>

\* Nonce::verify: one DELETE of a row younger than NonceTtl, whose row count decides.
ConsumeNonce(r) ==
    LET q == req[r] IN
    /\ q.pc = "nonce"
    /\ IF nonce[q.nonce] \in 0..(NonceTtl - 1)
       THEN /\ nonce' = [nonce EXCEPT ![q.nonce] = Gone]
            /\ used' = [used EXCEPT ![q.nonce] = IF @ = 0 THEN 1 ELSE 2]
            /\ IF q.read.status = "deactivated" THEN Answer(r) ELSE Goto(r, Handler[q.op])
       ELSE Answer(r) /\ UNCHANGED <<nonce, used>>
    /\ UNCHANGED <<acct, held, cred>>

-----------------------------------------------------------------------------
(* newAccount.                                                              *)

\* A key that holds an account gets it back, unless it is deactivated
\* (refuse_deactivated).  Otherwise the request may ask for no more
\* (onlyReturnExisting), or be refused for its contacts or the terms.
Lookup(r) ==
    /\ req[r].pc = "lookup"
    /\ \/ Answer(r)
       \/ Holders(req[r].key) = {} /\ Goto(r, IF EabEnabled THEN "eab" ELSE "register")
    /\ UNCHANGED <<acct, held, cred, nonce, used>>

\* verify_eab: the credential is active now.
VerifyEab(r) ==
    /\ req[r].pc = "eab"
    /\ IF cred[req[r].cred] = "active" THEN Goto(r, "register") ELSE Answer(r)
    /\ UNCHANGED <<acct, held, cred, nonce, used>>

\* Account::find_or_register looks again ...
Register(r) ==
    /\ req[r].pc = "register"
    /\ IF Holders(req[r].key) = {} THEN Goto(r, "insert") ELSE Answer(r)
    /\ UNCHANGED <<acct, held, cred, nonce, used>>

\* Mutant of Insert: no UNIQUE (profile, pubkey).
InsertUnindexed(r) ==
    LET q == req[r] IN
    /\ q.pc = "insert"
    /\ \E a \in Account :
          /\ acct[a].status = "none"
          /\ acct' = [acct EXCEPT ![a] = [status |-> "valid", key |-> q.key, eab |-> q.cred]]
    /\ Answer(r)
    /\ UNCHANGED <<held, cred, nonce, used>>

\* ... and inserts, with the binding, under UNIQUE (profile, pubkey).
Insert(r) ==
    LET q == req[r] IN
    /\ q.pc = "insert"
    /\ \/ \E a \in Account :
             /\ acct[a].status = "none" /\ Holders(q.key) = {}
             /\ acct' = [acct EXCEPT ![a] = [status |-> "valid", key |-> q.key, eab |-> q.cred]]
             /\ Answer(r)
       \/ Holders(q.key) # {} /\ Goto(r, "reread") /\ acct' = acct
    /\ UNCHANGED <<held, cred, nonce, used>>

\* The loser of a race reads the winner, which may be gone again: a 500.
Reread(r) ==
    /\ req[r].pc = "reread"
    /\ Answer(r)
    /\ UNCHANGED <<acct, held, cred, nonce, used>>

-----------------------------------------------------------------------------
(* The account's own requests, from the account as it was read.             *)

\* Account::deactivate, WHERE id.
Deactivated(a) == IF Exists(a) THEN [acct EXCEPT ![a].status = "deactivated"] ELSE acct

Deactivate(r) ==
    /\ req[r].pc = "deactivate"
    /\ acct' = Deactivated(req[r].acct)
    /\ Answer(r)
    /\ UNCHANGED <<held, cred, nonce, used>>

\* key_change: the inner JWS names the old key as it was read; nobody else may
\* hold the new one ...
FindConflict(r) ==
    /\ req[r].pc = "conflict"
    /\ IF Holders(req[r].to) = {} THEN Goto(r, "rekey") ELSE Answer(r)
    /\ UNCHANGED <<acct, held, cred, nonce, used>>

\* Mutant of UpdatePubkey: the whole row is saved as it was read.
UpdatePubkeyAndSave(r) ==
    LET q == req[r] IN
    /\ q.pc = "rekey"
    /\ acct' = IF Exists(q.acct) /\ Holders(q.to) \subseteq {q.acct}
               THEN [acct EXCEPT ![q.acct] = [q.read EXCEPT !.key = q.to]] ELSE acct
    /\ Answer(r)
    /\ UNCHANGED <<held, cred, nonce, used>>

\* ... and Account::update_pubkey, WHERE id, under UNIQUE (profile, pubkey).
UpdatePubkey(r) ==
    LET q == req[r] IN
    /\ q.pc = "rekey"
    /\ acct' = IF Exists(q.acct) /\ Holders(q.to) \subseteq {q.acct}
               THEN [acct EXCEPT ![q.acct].key = q.to] ELSE acct
    /\ Answer(r)
    /\ UNCHANGED <<held, cred, nonce, used>>

\* newOrder: an INSERT that refers to the account's row.
NewOrder(r) ==
    LET a == req[r].acct IN
    /\ req[r].pc = "order"
    /\ held' = IF Exists(a) /\ held[a] = "nothing" THEN [held EXCEPT ![a] = "order"] ELSE held
    /\ Answer(r)
    /\ UNCHANGED <<acct, cred, nonce, used>>

\* The signer_issue job, authority_withdrawn: the account as it is now.
CheckIssue(a) ==
    /\ held[a] = "order"
    /\ held' = [held EXCEPT ![a] = IF acct[a].status = "valid" THEN "signing" ELSE "nothing"]
    /\ UNCHANGED <<acct, cred, nonce, used, req>>

\* It records the certificate, if the order's row is still there.
RecordIssue(a) ==
    /\ held[a] = "signing"
    /\ held' = [held EXCEPT ![a] = IF Exists(a) THEN "certificate" ELSE "nothing"]
    /\ UNCHANGED <<acct, cred, nonce, used, req>>

\* live_certificate! stops holding: it expires or is revoked.
Lapse(a) ==
    /\ held[a] = "certificate"
    /\ held' = [held EXCEPT ![a] = "nothing"]
    /\ UNCHANGED <<acct, cred, nonce, used, req>>

-----------------------------------------------------------------------------
(* The operator.                                                            *)

DeactivateAccount(a) ==
    /\ acct[a].status = "valid"
    /\ acct' = Deactivated(a)
    /\ UNCHANGED <<held, cred, nonce, used, req>>

Removed(gone) == [a \in Account |-> IF a \in gone THEN [NoRow EXCEPT !.status = "deleted"] ELSE acct[a]]
Cascaded(gone) == [a \in Account |-> IF a \in gone /\ held[a] = "order" THEN "nothing" ELSE held[a]]

\* Mutant of DeleteAccount: the certificate was looked for before the question.
DeleteAccountUnguarded(a) ==
    /\ Exists(a)
    /\ acct' = Removed({a}) /\ held' = Cascaded({a})
    /\ UNCHANGED <<cred, nonce, used, req>>

\* Account::delete: the guard is in the DELETE, and the orders go with the row.
DeleteAccount(a) ==
    /\ Exists(a) /\ held[a] # "certificate"
    /\ acct' = Removed({a}) /\ held' = Cascaded({a})
    /\ UNCHANGED <<cred, nonce, used, req>>

RevokeEab(c) ==
    /\ cred[c] = "active"
    /\ cred' = [cred EXCEPT ![c] = "revoked"]
    /\ UNCHANGED <<acct, held, nonce, used, req>>

\* Eab::delete, one transaction: the credential, and its accounts as asked.
DeleteEab(c, mode) ==
    LET bound == {a \in Account : Exists(a) /\ acct[a].eab = c} IN
    /\ cred[c] # "deleted"
    /\ mode = "delete" => \A a \in bound : held[a] # "certificate"
    /\ cred' = [cred EXCEPT ![c] = "deleted"]
    /\ acct' = CASE mode = "keep" -> acct
                 [] mode = "deactivate" ->
                      [a \in Account |-> IF a \in bound THEN [acct[a] EXCEPT !.status = "deactivated"]
                                         ELSE acct[a]]
                 [] mode = "delete" -> Removed(bound)
    /\ held' = IF mode = "delete" THEN Cascaded(bound) ELSE held
    /\ UNCHANGED <<nonce, used, req>>

-----------------------------------------------------------------------------
RequestStep(r) ==
    \/ Receive(r) \/ ConsumeNonce(r)
    \/ Lookup(r) \/ VerifyEab(r) \/ Register(r) \/ Insert(r) \/ Reread(r)
    \/ Deactivate(r) \/ FindConflict(r) \/ UpdatePubkey(r) \/ NewOrder(r)

AccountStep(a) ==
    \/ CheckIssue(a) \/ RecordIssue(a) \/ Lapse(a)
    \/ DeactivateAccount(a) \/ DeleteAccount(a)

CredStep(c) == RevokeEab(c) \/ \E mode \in {"keep", "deactivate", "delete"} : DeleteEab(c, mode)

ClientNext ==
    \/ \E r \in Request : RequestStep(r)
    \/ \E a \in Account : AccountStep(a)
    \/ \E c \in Cred : CredStep(c)
    \/ \E n \in Nonce : Mint(n)
    \/ Grow \/ \E ttl \in 0..NonceTtl : CleanupNonces(ttl)

ClientSpec == ClientInit /\ [][ClientNext]_clientVars

-----------------------------------------------------------------------------
(* Properties.                                                              *)

RequestPC == {"free", "nonce", "lookup", "eab", "register", "insert", "reread",
              "deactivate", "conflict", "rekey", "order"}
Row == [status : {"none", "valid", "deactivated", "deleted"}, key : Key \cup {NoKey},
        eab : Cred \cup {NoCred}]

\* Every table has its type, and a request past its signature names what its
\* handler works on: a key, and but for newAccount an account that once existed.
ClientTypeOK ==
    /\ acct \in [Account -> Row]
    /\ held \in [Account -> {"nothing", "order", "signing", "certificate"}]
    /\ cred \in [Cred -> {"active", "revoked", "deleted"}]
    /\ nonce \in [Nonce -> {Unborn, Gone} \cup 0..NonceTtl]
    /\ used \in [Nonce -> 0..2]
    /\ req \in [Request -> [pc : RequestPC, key : Key \cup {NoKey}, acct : Account \cup {NoAccount},
                            op : {"newAccount", "deactivate", "keyChange", "newOrder"},
                            read : Row, nonce : Nonce \cup {NoNonce}, cred : Cred \cup {NoCred},
                            to : Key \cup {NoKey}]]
    /\ \A r \in Request :
          /\ req[r].pc # "free" => req[r].key \in Key /\ req[r].nonce \in Nonce
          /\ req[r].pc \in {"deactivate", "conflict", "rekey", "order"} =>
                req[r].acct \in Account /\ req[r].read.status = "valid"

\* A nonce pays for one request, however often it is replayed and however the
\* replays, the sweep and an operator's cleanup interleave.
NonceSpentOnce == \A n \in Nonce : used[n] <= 1

\* Two registrations, a registration and a rollover, or two rollovers that meet on
\* one key leave it with one account.
OneAccountPerKey == \A k \in Key : Cardinality(Holders(k)) <= 1

\* A request that read the account before it was deactivated, or deleted, never
\* brings it back, and nothing it writes touches the credential the account is
\* bound to.
DeactivationStands ==
    [][\A a \in Account :
          /\ acct[a].status = "deactivated" => acct'[a].status \in {"deactivated", "deleted"}
          /\ acct[a].status = "deleted" => acct'[a].status = "deleted"
          /\ Exists(a) /\ Exists(a)' => acct'[a].eab = acct[a].eab]_clientVars

\* A certificate in force always has its account's row, so that somebody can still
\* revoke it: whatever is deleted while an issuance or a question is under way.
CertificateHasAccount == \A a \in Account : held[a] = "certificate" => Exists(a)

=============================================================================
