------------------------------ MODULE MCAccess ------------------------------
(***************************************************************************)
(* The three doors to the server, for TLC: the policy a request meets, the *)
(* accounts of the ACME clients, the sign-in of the operators.  They share *)
(* no state, so each behaviour is of one door and leaves the others shut.  *)
(***************************************************************************)
EXTENDS ClientAccess, AdminAccess, FilterPolicy, FilterExpr, TLC

VARIABLE door
accessVars == <<door, clientVars, adminVars, filterVars>>

-----------------------------------------------------------------------------
(* Operators.                                                               *)

CONSTANTS o1, o2, s1, s2, s3

Plain == [ops |-> {"signin"}, who |-> {o1}, tries |-> Password, tokens |-> {s1, s2}, enrolled |-> {}, outdated |-> FALSE,
          require |-> FALSE, address |-> FALSE, mishaps |-> {}]

\* Many attempts from one address, some of which are dropped, or die.
Throttled == [Plain EXCEPT !.address = TRUE, !.mishaps = {"cancel", "die"}]

\* A hash from an older build, and passwords and statuses that change.
Passwords == [Plain EXCEPT !.ops = {"signin", "setpw", "passwd", "disable", "enable"},
                           !.outdated = TRUE, !.mishaps = {"cancel", "delete", "end"}]

\* A second factor to prove, to remove and to have removed.
Factors == [Plain EXCEPT !.ops = {"signin", "code", "reset", "unenrol", "recodes"}, !.enrolled = {o1},
                         !.tries = {NewUser.pw}, !.tokens = {s1, s2, s3}]

\* A factor every operator must set up before they are signed in, by several
\* requests at once, or with codes submitted before and after.
SettingUp == [Plain EXCEPT !.ops = {"signin", "enrol", "confirm"}, !.require = TRUE,
                           !.tries = {NewUser.pw}, !.tokens = {s1, s2, s3}]
FirstCodes == [SettingUp EXCEPT !.ops = @ \cup {"code"}, !.tokens = {s1, s2}]

\* A factor that is moved to another device.
Moving == [SettingUp EXCEPT !.ops = @ \cup {"code"}, !.enrolled = {o1}]

\* Two admins, who may be demoted.
Roles == [Plain EXCEPT !.ops = {"signin", "demote", "appoint"}, !.who = {o1, o2}]

AdminScenes == {Throttled, Passwords, Factors, SettingUp, FirstCodes, Moving, Roles}

-----------------------------------------------------------------------------
(* Policies: checks of both stages and of one, conditions that need the     *)
(* precedence of the operators, name a check twice, do not parse, or have   *)
(* no stage.  With the default, two rules give three effects in a row.      *)

CONSTANTS net, peer, path, names

FilterServes == (net :> Stage) @@ (peer :> Stage) @@ (path :> {"connection"}) @@ (names :> {"identifiers"})
FilterParsed ==
    LET a == Name(net)
        b == Name(peer)
    IN (<<net>> :> a) @@ (<<"not", peer>> :> Negation(b)) @@ (<<names>> :> Name(names)) @@ (<<path>> :> Name(path))
       @@ (<<net, "or", peer, "and", "not", names>> :> Joined("or", a, Joined("and", b, Negation(Name(names)))))
       @@ (<<"(", net, "or", peer, ")", "and", path>> :> Joined("and", Joined("or", a, b), Name(path)))
       @@ (<<net, "and", "not", net, "or", peer>> :> Joined("or", Joined("and", a, Negation(a)), b))
       @@ (<<"not", net, "and", peer>> :> Joined("and", Negation(a), b))
       @@ (<<path, "or", names>> :> Joined("or", Name(path), Name(names)))
       @@ (<<"(", net>> :> NoCondition) @@ (<<peer, "and">> :> NoCondition)
FilterTexts == DOMAIN FilterParsed

\* The conditions, none of which nests deeper than three.
Operands(t) == CASE t.op = "check" -> {} [] t.op = "not" -> {t.left} [] OTHER -> {t.left, t.right}
Opened(S) == S \cup UNION {Operands(t) : t \in S}
FilterConditions == Opened(Opened(Opened({FilterParsed[ts] : ts \in FilterTexts} \ {NoCondition})))
FilterDepth[t \in FilterConditions] ==
    IF Operands(t) = {} THEN 0 ELSE 1 + Max({FilterDepth[o] : o \in Operands(t)})

-----------------------------------------------------------------------------
AccessInit ==
    /\ door \in {"policy", "account", "operator"}
    /\ ClientInit /\ AdminInit /\ FilterInit
    /\ door # "operator" => scene = Plain
    /\ door = "operator" => scene \in AdminScenes
    /\ door # "policy" => policy = [rules |-> <<>>, default |-> "deny"] /\ stage = "connection"

AccessNext ==
    \/ door = "account" /\ UNCHANGED <<door, adminVars, filterVars>> /\ ClientNext
    \/ door = "operator" /\ UNCHANGED <<door, clientVars, filterVars>> /\ AdminNext
    \/ door = "policy" /\ UNCHANGED <<door, clientVars, adminVars>> /\ FilterNext

AccessSpec == AccessInit /\ [][AccessNext]_accessVars

\* The parser reads a rule's text as the condition the policy is evaluated with,
\* and that condition says what the text does: `not` binds tighter than `and`, `and`
\* than `or`, and a parenthesis is taken as one.  Every text is the one rule of some
\* policy.
ParsedAsMeant ==
    phase = "start" /\ DOMAIN policy.rules = {1} =>
        LET text == policy.rules[1].when
            read == Parse(text)
        IN /\ When(1) = IF read.at = 0 THEN NoCondition ELSE read.tree
           /\ When(1) # NoCondition => \A v \in [Check -> BOOLEAN] : Holds(v)[When(1)] <=> Means(text, v)

AllScenes == AdminScenes \cup {Plain}

\* Requests, nonces and tasks are alike; operators and checks are told apart above.
AccessSymmetry == Permutations(Request) \cup Permutations(Nonce) \cup Permutations(Task)
=============================================================================
