------------------------------- MODULE Reload -------------------------------
(***************************************************************************)
(* One serving process (all roles) and the configuration it runs on.  A    *)
(* SIGHUP asks the supervisor for a reload; it loads the file, binds what  *)
(* sockets are new, builds a generation and publishes it cell by cell.     *)
(* The runtime has several threads, so requests, accept loops, the job     *)
(* runner and the jobs it started read the cells between any two of those  *)
(* sends.  Two kinds of queued work depend on the generation they meet:    *)
(* the periodic expiry digest, one row per profile, and the delivery of a  *)
(* notification to a backend named by its row.                             *)
(***************************************************************************)
EXTENDS Integers, Sequences

CONSTANTS
    Profile,
    Target,        \* notify backends, each of one profile
    TargetOf,      \* the profile of a target
    Listener,      \* acme, admin, metrics
    Off,           \* in place of an address: the listener is switched off
    Configs,       \* what the file may say
    MaxEdits,      \* bound: versions of the file
    DeliveryTries, \* jobs.max_attempts of a delivery
    Losses         \* bound: the ways a row of the digest may be lost

Loss == {"refuse", "exhaust", "cancel"}

ASSUME ReloadAssumption ==
    /\ Losses \subseteq Loss
    /\ TargetOf \in [Target -> Profile]
    /\ MaxEdits \in Nat \ {0} /\ DeliveryTries \in Nat \ {0}
    /\ \A c \in Configs : /\ c.profiles \subseteq Profile /\ c.digest \subseteq c.profiles
                          /\ c.slots \subseteq {t \in Target : TargetOf[t] \in c.profiles}
                          /\ c.at = [l \in Listener |-> c.at[l]]

VARIABLES
    file,       \* the configuration file: its version and what it says
    signal,     \* a request waits in the supervisor's channel, whose capacity is one
    signalled,  \* history: a SIGHUP has come since the file was last edited
    judged,     \* history: the version of the file last loaded by this process
    sup,        \* supervise_reloads
    applied,    \* its `config` and `resolved`
    cell,       \* the watch cells: the version each was last sent
    serving,    \* the address each accept loop holds a socket for
    orders,     \* the commands waiting for each accept loop
    call,       \* a request under way, with the router it was routed by
    view,       \* run_loop's registry
    recovered,  \* run_loop has recovered the digest's kind
    digest,     \* rows of notify_expiry_digest and their attempts
    note        \* one delivery, followed from its row to its end

superVars == <<signal, judged, sup, applied, cell, serving, orders>>
runnerVars == <<view, recovered, digest>>
reloadVars == <<file, signalled, superVars, call, runnerVars, note>>

Version == [ed : 1..MaxEdits, conf : Configs]
NoVersion == [ed |-> 0]

\* Mutant of PublishOrder: the router first, as it is what requests meet.
PublishOrderRoutersFirst == <<"router", "notifiers", "registry", "sockets">>

\* The cells in the order publish_reload sends them.  Logging, signers, pacing and
\* TLS, sent in between, are read by nothing modelled here.
PublishOrder == <<"notifiers", "registry", "sockets", "router">>

WatchCell == {"notifiers", "registry", "router"}

Resting == [pc |-> "idle", next |-> NoVersion, left |-> <<>>, mounted |-> {}]
NoCall == [under |-> NoVersion]
NoDigest == [st |-> "none", by |-> NoVersion]
Ready == [NoDigest EXCEPT !.st = "ready"]
NoNote == [st |-> "none"]

\* A row that is ready or running, the ones the identity index refuses a second of;
\* and one that is not there because it was lost: retired with its attempts used up,
\* cancelled, or never inserted for a database failure that was only logged.
Live(row) == row.st \in {"ready", "start", "send"}
Failed == [NoDigest EXCEPT !.st = "failed"]
Absent == [NoDigest EXCEPT !.st = "absent"]
Lost(row) == row.st \in {"failed", "absent"}

-----------------------------------------------------------------------------
(* What a configuration asks for.                                           *)

\* check_config and check_metrics_config: two listeners share no address.
Clash(c) == \E k, l \in Listener : k # l /\ c.at[k] = c.at[l] /\ c.at[k] # Off

\* check_frozen: database.url.
Frozen(old, new) == old.db # new.db

\* ExpiryDigestJob::from_profiles: the handler is registered if any profile wants it.
HasDigest(v) == v.conf.digest # {}

Targets(v, profiles) == {t \in v.conf.slots : TargetOf[t] \in profiles}

\* NotifyDispatcher::dispatch through the map of version v.  Rows do not meet, so
\* one of those written is followed, if none is yet.
Dispatch(v, profiles) ==
    \/ note' = note
    \/ /\ note.st = "none"
       /\ \E t \in Targets(v, profiles) :
             note' = [st |-> "queued", slot |-> t, ed |-> v.ed, tries |-> DeliveryTries, by |-> 0]

-----------------------------------------------------------------------------
(* The operator.                                                            *)

Edit(c) ==
    /\ file.ed < MaxEdits
    /\ file' = [ed |-> file.ed + 1, conf |-> c]
    /\ signalled' = FALSE
    /\ UNCHANGED <<superVars, call, runnerVars, note>>

\* Mutant of TriggerReload: a signal during a reload is taken to be answered by it.
TriggerReloadIfIdle ==
    /\ signal' = (signal \/ sup.pc = "idle")
    /\ signalled' = TRUE
    /\ UNCHANGED <<file, judged, sup, applied, cell, serving, orders, call, runnerVars, note>>

\* ReloadHandle::trigger: try_send, refused while a request is waiting.
TriggerReload ==
    /\ signal' = TRUE
    /\ signalled' = TRUE
    /\ UNCHANGED <<file, judged, sup, applied, cell, serving, orders, call, runnerVars, note>>

-----------------------------------------------------------------------------
(* The supervisor.                                                          *)

TakeSignal ==
    /\ sup.pc = "idle"
    /\ signal
    /\ signal' = FALSE
    /\ sup' = [Resting EXCEPT !.pc = "load"]
    /\ UNCHANGED <<file, signalled, judged, applied, cell, serving, orders, call, runnerVars, note>>

\* A socket is held by the accept loop that serves it or is about to.
Held(a) == \E l \in Listener : serving[l] = a \/ \E i \in 1..Len(orders[l]) : orders[l][i] = a

\* plan_sockets, decided by configuration and not by what is bound.
Moves(l, old, new) == old.at[l] # new.at[l]
Bindable(old, new) == \A l \in Listener : Moves(l, old, new) /\ new.at[l] # Off => ~Held(new.at[l])
Handed(old, new) == [l \in Listener |-> IF Moves(l, old, new) THEN Append(orders[l], new.at[l])
                                        ELSE orders[l]]

\* Mutant of Load: the sockets are handed over as they are bound.
LoadServes ==
    /\ sup.pc = "load"
    /\ judged' = file.ed
    /\ IF Frozen(applied.conf, file.conf) \/ Clash(file.conf) \/ ~Bindable(applied.conf, file.conf)
       THEN sup' = Resting /\ orders' = orders
       ELSE /\ sup' = [sup EXCEPT !.pc = "build", !.next = file]
            /\ orders' = Handed(applied.conf, file.conf)
    /\ UNCHANGED <<file, signal, signalled, applied, cell, serving, call, runnerVars, note>>

\* prepare_reload as far as the sockets it binds: refused, or on to the build.
Load ==
    /\ sup.pc = "load"
    /\ judged' = file.ed
    /\ sup' = IF Frozen(applied.conf, file.conf) \/ Clash(file.conf) \/ ~Bindable(applied.conf, file.conf)
              THEN Resting ELSE [sup EXCEPT !.pc = "build", !.next = file]
    /\ UNCHANGED <<file, signal, signalled, applied, cell, serving, orders, call, runnerVars, note>>

\* The rest of prepare_reload, which may fail and then drops what it bound, and
\* store_first_crls, whose failure is only logged.
BuildGeneration ==
    /\ sup.pc = "build"
    /\ sup' \in {Resting, [sup EXCEPT !.pc = "publish", !.left = PublishOrder,
                                   !.mounted = sup.next.conf.profiles \ applied.conf.profiles]}
    /\ UNCHANGED <<file, signal, signalled, judged, applied, cell, serving, orders, call, runnerVars, note>>

\* publish_reload, one send.
PublishCell ==
    /\ sup.pc = "publish"
    /\ sup.left # <<>>
    /\ sup' = [sup EXCEPT !.left = Tail(@)]
    /\ IF Head(sup.left) = "sockets"
       THEN orders' = Handed(applied.conf, sup.next.conf) /\ cell' = cell
       ELSE cell' = [cell EXCEPT ![Head(sup.left)] = sup.next] /\ orders' = orders
    /\ UNCHANGED <<file, signal, signalled, judged, applied, serving, call, runnerVars, note>>

\* The supervisor adopts what it published and announces the endpoints it mounted.
Adopt ==
    /\ sup.pc = "publish"
    /\ sup.left = <<>>
    /\ applied' = sup.next
    /\ sup' = Resting
    /\ Dispatch(sup.next, sup.mounted)
    /\ UNCHANGED <<file, signal, signalled, judged, cell, serving, orders, call, runnerVars>>

\* The accept loop takes a command: the socket it held is released.
Accept(l) ==
    /\ orders[l] # <<>>
    /\ serving' = [serving EXCEPT ![l] = Head(orders[l])]
    /\ orders' = [orders EXCEPT ![l] = Tail(@)]
    /\ UNCHANGED <<file, signal, signalled, judged, sup, applied, cell, call, runnerVars, note>>

\* The process ends, however, and is started again on the file as it stands.
\* Attempts go back to their rows and every endpoint is announced.
Restart ==
    /\ ~Clash(file.conf)
    /\ judged' = file.ed
    /\ signal' = FALSE /\ sup' = Resting /\ applied' = file
    /\ cell' = [x \in WatchCell |-> file]
    /\ serving' = file.conf.at /\ orders' = [l \in Listener |-> <<>>]
    /\ call' = NoCall
    /\ view' = file /\ recovered' = FALSE
    /\ digest' = [p \in Profile |-> IF Live(digest[p]) THEN Ready ELSE digest[p]]
    /\ Dispatch(file, file.conf.profiles)
    /\ UNCHANGED <<file, signalled>>

-----------------------------------------------------------------------------
(* Requests.                                                                *)

\* SwapService::call: the router is taken once, for the whole request.
Route(p) ==
    /\ call = NoCall
    /\ p \in cell["router"].conf.profiles
    /\ call' = [under |-> cell["router"], profile |-> p]
    /\ UNCHANGED <<file, signalled, superVars, runnerVars, note>>

\* The handler tells the backends of its own generation, or has nothing to tell.
Respond ==
    /\ call # NoCall
    /\ Dispatch(call.under, {call.profile})
    /\ call' = NoCall
    /\ UNCHANGED <<file, signalled, superVars, runnerVars>>

-----------------------------------------------------------------------------
(* The job runner, the digest and the deliveries.                           *)

\* The profiles whose inserts fail.
Refusals == IF "refuse" \in Losses THEN SUBSET Profile ELSE {{}}

\* ExpiryDigestJob::reconcile: a row for every profile, unless a live one is there.
\* A row the database refuses to insert is logged by enqueue_or_log, and that is all.
Reconciled(rows, v, refused) ==
    [p \in Profile |-> IF p \notin v.conf.digest \/ Live(rows[p]) THEN rows[p]
                       ELSE IF p \in refused THEN Absent ELSE Ready]

\* The top of a pass of run_loop: the newest registry, and recover_new_kinds, which
\* takes the kind for recovered whatever became of its rows.
Pass ==
    /\ view' = cell["registry"]
    /\ recovered' = (recovered \/ HasDigest(view'))
    /\ IF recovered THEN digest' = digest
       ELSE \E refused \in Refusals : digest' = Reconciled(digest, view', refused)
    /\ UNCHANGED <<file, signalled, superVars, call, note>>

\* A due row is claimed, for the handler this pass knows.
ClaimDigest(p) ==
    /\ digest[p].st = "ready"
    /\ recovered
    /\ HasDigest(view)
    /\ digest' = [digest EXCEPT ![p] = [st |-> "start", by |-> view]]
    /\ UNCHANGED <<file, signalled, superVars, call, view, recovered, note>>

\* ExpiryDigestJob::run: a profile the handler does not know ends its row at once;
\* for one it knows the rows of all are seen to first.
RunDigest(p) ==
    LET v == digest[p].by IN
    /\ digest[p].st = "start"
    /\ IF p \notin v.conf.digest THEN digest' = [digest EXCEPT ![p] = NoDigest]
       ELSE \E refused \in Refusals :
               digest' = Reconciled([digest EXCEPT ![p].st = "send"], v, refused)
    /\ UNCHANGED <<file, signalled, superVars, call, view, recovered, note>>

\* Mutant of SendDigest: a pass with nothing to send is taken for the last.
SendDigestOnce(p) ==
    /\ digest[p].st = "send"
    /\ Dispatch(cell["notifiers"], {p})
    /\ digest' = [digest EXCEPT ![p] = IF note' = note THEN NoDigest ELSE Ready]
    /\ UNCHANGED <<file, signalled, superVars, call, view, recovered>>

\* The digest is sent through the map of the moment, or there is nothing to send
\* or it cannot be read; a run that comes to its end reschedules the row in any case.
SendDigest(p) ==
    /\ digest[p].st = "send"
    /\ Dispatch(cell["notifiers"], {p})
    /\ digest' = [digest EXCEPT ![p] = Ready]
    /\ UNCHANGED <<file, signalled, superVars, call, view, recovered>>

\* One that times out or panics is a Retry: the row waits for its next attempt, or
\* is retired when that was its last.
CutOffDigest(p) ==
    /\ digest[p].st \in {"start", "send"}
    /\ \/ digest' = [digest EXCEPT ![p] = Ready]
       \/ "exhaust" \in Losses /\ digest' = [digest EXCEPT ![p] = Failed]
    /\ UNCHANGED <<file, signalled, superVars, call, view, recovered, note>>

\* cancel_job, which takes a row that waits or has failed.
CancelDigest(p) ==
    /\ "cancel" \in Losses
    /\ digest[p].st \in {"ready", "failed"}
    /\ digest' = [digest EXCEPT ![p] = Absent]
    /\ UNCHANGED <<file, signalled, superVars, call, view, recovered, note>>

\* run_job_now of a failed row.
ReviveDigest(p) ==
    /\ digest[p].st = "failed"
    /\ digest' = [digest EXCEPT ![p] = Ready]
    /\ UNCHANGED <<file, signalled, superVars, call, view, recovered, note>>

\* NotifyJob::run.  A backend that is known delivers, fails for good or is tried
\* again; one that is not is tried again too, as long as the row's attempts last.
Deliver ==
    LET known == note.slot \in cell["notifiers"].conf.slots
        retried == IF note.tries > 1 THEN [note EXCEPT !.tries = @ - 1]
                   ELSE IF known THEN NoNote
                   ELSE [note EXCEPT !.st = "lost", !.by = cell["notifiers"].ed] IN
    /\ note.st = "queued"
    /\ note' \in IF known THEN {NoNote, retried} ELSE {retried}
    /\ UNCHANGED <<file, signalled, superVars, call, runnerVars>>

-----------------------------------------------------------------------------
ReloadInit ==
    /\ file \in [ed : {1}, conf : {c \in Configs : ~Clash(c)}]
    /\ signal = FALSE /\ signalled = FALSE /\ judged = 1
    /\ sup = Resting /\ applied = file
    /\ cell = [x \in WatchCell |-> file]
    /\ serving = file.conf.at /\ orders = [l \in Listener |-> <<>>]
    /\ call = NoCall
    /\ view = file /\ recovered = FALSE
    /\ digest = [p \in Profile |-> NoDigest]
    /\ note = NoNote

DigestStep(p) == \/ ClaimDigest(p) \/ RunDigest(p) \/ SendDigest(p)
                 \/ CutOffDigest(p) \/ CancelDigest(p) \/ ReviveDigest(p)

ReloadNext ==
    \/ \E c \in Configs : Edit(c)
    \/ TriggerReload \/ TakeSignal \/ Load \/ BuildGeneration \/ PublishCell \/ Adopt \/ Restart
    \/ \E l \in Listener : Accept(l)
    \/ \E p \in Profile : Route(p) \/ DigestStep(p)
    \/ Respond \/ Pass \/ Deliver

ReloadSpec == ReloadInit /\ [][ReloadNext]_reloadVars

-----------------------------------------------------------------------------
(* Properties.                                                              *)

\* Every cell, command, row and request has its type; the supervisor holds a
\* configuration from its load to its adoption.
ReloadTypeOK ==
    /\ {file, applied, view} \subseteq Version /\ cell \in [WatchCell -> Version]
    /\ {signal, signalled, recovered} \subseteq BOOLEAN /\ judged \in 0..file.ed
    /\ sup.pc \in {"idle", "load", "build", "publish"}
    /\ sup.pc \in {"build", "publish"} <=> sup.next \in Version
    /\ \A l \in Listener : Len(orders[l]) <= MaxEdits
    /\ call = NoCall \/ (call.under \in Version /\ call.profile \in call.under.conf.profiles)
    /\ \A p \in Profile : /\ digest[p].st \in {"none", "ready", "start", "send", "failed", "absent"}
                          /\ digest[p].st \in {"start", "send"} => HasDigest(digest[p].by)
    /\ note = NoNote \/ (note.tries \in 1..DeliveryTries /\ note.slot \in Target)

\* What a listener serves once it has taken the commands that wait for it.
Bound(l) == IF orders[l] = <<>> THEN serving[l] ELSE orders[l][Len(orders[l])]

\* Between two reloads every cell and every socket is of the configuration the
\* supervisor compares the next one with: one that is refused, or fails after it
\* has bound sockets, leaves nothing behind.
AllOrNothing ==
    sup.pc # "publish" => /\ \A x \in WatchCell : cell[x] = applied
                          /\ \A l \in Listener : Bound(l) = applied.conf.at[l]

\* A SIGHUP sent after the last edit is not lost, however many are coalesced and
\* whatever reload was under way: when the supervisor rests it has judged that edit.
SignalTaken == signalled /\ ~signal /\ sup.pc = "idle" => judged = file.ed

\* A notification is given up for want of its backend only by a generation newer
\* than the one that queued it: no reader meets a delivery before its map.
LostIsOutdated == note.st = "lost" => note.ed < note.by

\* While the configuration asks for an expiry digest there is a live row of some
\* profile, whose pass sees to the rows of the others, unless the row of a profile
\* that asks for it was lost: what a reload does to the rows strands no digest.
DigestKept ==
    recovered /\ HasDigest(view) => \/ \E p \in Profile : Live(digest[p])
                                    \/ \E p \in view.conf.digest : Lost(digest[p])
=============================================================================
