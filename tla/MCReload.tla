------------------------------ MODULE MCReload ------------------------------
(* Instances of Reload for TLC. *)
EXTENDS Reload, TLC

CONSTANTS pa, pb, ta, tb, acme, admin, d1, d2, h1, h2

Both == {acme, admin}
PlainConfig == [profiles |-> {pa}, digest |-> {pa}, slots |-> {ta}, db |-> d1,
                at |-> (acme :> h1) @@ (admin :> Off)]
TargetProfile == (ta :> pa) @@ (tb :> pb)

\* The digest stays with a profile, or stops, or is asked for by a second one;
\* sockets are added, moved, change hands or clash; the database changes.
Kept == {PlainConfig,
         [PlainConfig EXCEPT !.profiles = {pa, pb}, !.digest = {pa, pb}, !.slots = {ta, tb},
                             !.at[admin] = h2],
         [PlainConfig EXCEPT !.digest = {}, !.slots = {}, !.at[acme] = h2],
         [PlainConfig EXCEPT !.at = (acme :> h2) @@ (admin :> h2)],
         [PlainConfig EXCEPT !.db = d2]}

\* The digest is moved from one profile to another.
Moved == {PlainConfig, [PlainConfig EXCEPT !.profiles = {pb}, !.digest = {pb}, !.slots = {tb}]}
=============================================================================
