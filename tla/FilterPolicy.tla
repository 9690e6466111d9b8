---------------------------- MODULE FilterPolicy ----------------------------
(***************************************************************************)
(* Which requests the configured policy lets by: the policies build        *)
(* accepts (crates/policy/src/filter/build.rs) and the evaluation of one   *)
(* stage of one request (filter/policy.rs), as the middleware and newOrder *)
(* and finalize ask for it (crates/protocol/src/middlewares/filter.rs,     *)
(* acme/policy.rs).                                                        *)
(*                                                                         *)
(* A check is a question to something outside (an inventory, a resolver, a *)
(* script) and may answer anything each time it is asked; asking one is an *)
(* action.  What the client is told, and what is logged, is left out.      *)
(***************************************************************************)
EXTENDS Integers, FiniteSetsExt

CONSTANTS
    Check,       \* the configured checks
    Serves,      \* the stages each of them can decide at
    Source,      \* the texts rules are written with
    Condition,   \* trees: whatever the texts parse to, and their operands
    NoCondition, \* what a text that does not parse parses to
    Depth,       \* how deep each condition nests
    Parsed,      \* Condition::parse
    MaxRules     \* bound: the rules of a policy

Stage == {"connection", "identifiers"}
Verdict == {"pass", "fail", "undecided"}

\* A condition is a check's name, or is made of conditions that nest less deep.
ASSUME FilterAssumption ==
    /\ Serves \in [Check -> SUBSET Stage]
    /\ Check \cap (Verdict \cup {"unasked"}) = {}
    /\ Parsed \in [Source -> Condition \cup {NoCondition}] /\ NoCondition \notin Condition
    /\ Depth \in [Condition -> Nat]
    /\ \A t \in Condition :
          /\ t.op \in {"check", "not", "and", "or"}
          /\ t.op = "check" => t.name \in Check
          /\ t.op # "check" => t.left \in Condition /\ Depth[t.left] < Depth[t]
          /\ t.op \in {"and", "or"} => t.right \in Condition /\ Depth[t.right] < Depth[t]
    /\ MaxRules \in Nat

\* Condition::check_names.
CheckNames[t \in Condition] ==
    CASE t.op = "check" -> {t.name}
      [] t.op = "not" -> CheckNames[t.left]
      [] OTHER -> CheckNames[t.left] \cup CheckNames[t.right]

\* stages_for: the intersection of what the checks serve.
StagesFor(t) == {s \in Stage : \A c \in CheckNames[t] : s \in Serves[c]}

Rule == [when : Source, then : {"allow", "deny"}, mode : {"enforce", "warn"}]

\* build: every condition parses, and its rule can be evaluated somewhere.
Builds(rules) == \A i \in DOMAIN rules : /\ Parsed[rules[i].when] # NoCondition
                                         /\ StagesFor(Parsed[rules[i].when]) # {}

-----------------------------------------------------------------------------
VARIABLES
    policy, \* the selected rules, in order, and the default effect
    stage,  \* the stage of this evaluation
    phase,  \* "start" until the policy is built, then "eval", then how it ended
    memo,   \* Run::memo: what each check asked so far has answered
    at,     \* the rule under evaluation
    pending \* the effects of the rules that could not be evaluated

filterVars == <<policy, stage, phase, memo, at, pending>>

Policy == [rules : UNION {[1..n -> Rule] : n \in 0..MaxRules}, default : {"allow", "deny"}]

FilterInit ==
    /\ policy \in Policy /\ stage \in Stage
    /\ phase = "start" /\ memo = [c \in Check |-> "unasked"] /\ at = 0 /\ pending = {}

\* The condition of a rule, and the rules with a turn at this stage, from one on.
When(i) == Parsed[policy.rules[i].when]
Applicable == {i \in DOMAIN policy.rules : stage \in StagesFor(When(i))}
Following(i) == {j \in Applicable : j > i}

\* FilterPolicy::new, and evaluate's answer for a stage without rules.
Build ==
    /\ phase = "start"
    /\ \/ ~Builds(policy.rules) /\ phase' = "refused" /\ at' = at
       \/ Builds(policy.rules) /\ Applicable = {} /\ phase' = "allow" /\ at' = at
       \/ Builds(policy.rules) /\ Applicable # {} /\ phase' = "eval" /\ at' = Min(Applicable)
    /\ UNCHANGED <<policy, stage, memo, pending>>

-----------------------------------------------------------------------------
(* Kleene's logic, and an evaluation that stops at a check not yet asked.   *)

\* Mutant of KleeneAnd: an operand that cannot be decided leaves the other unheard.
KleeneAndStrict(l, r) ==
    IF "undecided" \in {l, r} THEN "undecided" ELSE IF "fail" \in {l, r} THEN "fail" ELSE "pass"

KleeneAnd(l, r) ==
    IF "fail" \in {l, r} THEN "fail" ELSE IF "undecided" \in {l, r} THEN "undecided" ELSE "pass"
KleeneOr(l, r) ==
    IF "pass" \in {l, r} THEN "pass" ELSE IF "undecided" \in {l, r} THEN "undecided" ELSE "fail"
KleeneNot(v) == CASE v = "pass" -> "fail" [] v = "fail" -> "pass" [] v = "undecided" -> v

\* Run::eval_check: the answer, or the check itself when it has yet to be asked.
EvalCheck(c, m) ==
    IF m[c] # "unasked" THEN m[c] ELSE IF stage \notin Serves[c] THEN "undecided" ELSE c

\* Run::eval: the verdict, or the check to ask next.
Eval(m) ==
    LET ev[t \in Condition] ==
            CASE t.op = "check" -> EvalCheck(t.name, m)
              [] t.op = "not" -> IF ev[t.left] \in Check THEN ev[t.left] ELSE KleeneNot(ev[t.left])
              [] t.op = "and" -> IF ev[t.left] \in Check \cup {"fail"} THEN ev[t.left]
                                 ELSE IF ev[t.right] \in Check THEN ev[t.right]
                                 ELSE KleeneAnd(ev[t.left], ev[t.right])
              [] t.op = "or" -> IF ev[t.left] \in Check \cup {"pass"} THEN ev[t.left]
                                ELSE IF ev[t.right] \in Check THEN ev[t.right]
                                ELSE KleeneOr(ev[t.left], ev[t.right])
    IN ev

Current == Eval(memo)[When(at)]

\* eval_check: a check is asked once, and its answer kept for this evaluation.
AskCheck(v) ==
    /\ phase = "eval" /\ Current \in Check
    /\ memo' = [memo EXCEPT ![Current] = v]
    /\ UNCHANGED <<policy, stage, phase, at, pending>>

\* Mutant of Outcome: a rule that could not be evaluated did not match.
OutcomeRegardless(effect, unknown) == effect

\* The answer, unless a rule that could not be evaluated would have given another.
Outcome(effect, unknown) == IF unknown \ {effect} # {} THEN "undecided" ELSE effect

\* One rule of evaluate's loop: the first enforced rule that matches decides.
NextRule ==
    LET r == policy.rules[at]
        unknown == IF Current = "undecided" /\ r.mode = "enforce" THEN pending \cup {r.then} ELSE pending
    IN /\ phase = "eval" /\ Current \in Verdict
       /\ pending' = unknown
       /\ \/ /\ Current = "pass" /\ r.mode = "enforce"
             /\ phase' = Outcome(r.then, unknown) /\ at' = at
          \/ /\ ~(Current = "pass" /\ r.mode = "enforce")
             /\ IF Following(at) = {} THEN phase' = Outcome(policy.default, unknown) /\ at' = at
                ELSE phase' = phase /\ at' = Min(Following(at))
       /\ UNCHANGED <<policy, stage, memo>>

FilterNext == Build \/ (\E v \in Verdict : AskCheck(v)) \/ NextRule

FilterSpec == FilterInit /\ [][FilterNext]_filterVars

\* The turn is a rule's of this stage, and only a policy that builds is evaluated.
FilterTypeOK ==
    /\ policy \in Policy /\ stage \in Stage /\ memo \in [Check -> Verdict \cup {"unasked"}]
    /\ phase \in {"start", "refused", "eval", "allow", "deny", "undecided"}
    /\ pending \subseteq {"allow", "deny"}
    /\ phase = "start" => pending = {}
    /\ phase \notin {"start", "refused"} => Builds(policy.rules)
    /\ phase = "eval" => at \in Applicable

-----------------------------------------------------------------------------
(* What a policy means, when every check knows its answer: the reference.   *)

\* What a condition says, in two-valued logic.
Holds(v) ==
    LET holds[t \in Condition] ==
            CASE t.op = "check" -> v[t.name]
              [] t.op = "not" -> ~holds[t.left]
              [] t.op = "and" -> holds[t.left] /\ holds[t.right]
              [] t.op = "or" -> holds[t.left] \/ holds[t.right]
    IN holds

\* The effect of the first enforced rule that holds, among those this stage can ask.
Meaning(v) ==
    LET here == {i \in DOMAIN policy.rules : CheckNames[When(i)] \subseteq {c \in Check : stage \in Serves[c]}}
        holding == {i \in here : policy.rules[i].mode = "enforce" /\ Holds(v)[When(i)]}
    IN IF here = {} THEN "allow"
       ELSE IF holding = {} THEN policy.default
       ELSE policy.rules[Min(holding)].then

\* The answers the checks may have, given what those that were asked have said.
Worlds == {v \in [Check -> BOOLEAN] : \A c \in Check : /\ memo[c] = "pass" => v[c]
                                                       /\ memo[c] = "fail" => ~v[c]}

\* "the answer stands whichever way the unknown would have gone": what is allowed or
\* denied is what the policy means for every answer of the checks that could not say,
\* were skipped or were never reached.
AnswerStands == phase \in {"allow", "deny"} => \A v \in Worlds : Meaning(v) = phase

\* No check is named twice, in a condition or in two rules of this stage.
NamesOnce[t \in Condition] ==
    CASE t.op = "check" -> TRUE
      [] t.op = "not" -> NamesOnce[t.left]
      [] OTHER -> NamesOnce[t.left] /\ NamesOnce[t.right] /\ CheckNames[t.left] \cap CheckNames[t.right] = {}
NamedOnce ==
    /\ \A i \in Applicable : NamesOnce[When(i)]
    /\ \A i, j \in Applicable : i # j => CheckNames[When(i)] \cap CheckNames[When(j)] = {}

\* "an unknown propagates only when it could change the answer": a request is put off
\* only if the checks that could not say decide it, in policies that ask each check once.
UnknownMatters == phase = "undecided" /\ NamedOnce => \E v, w \in Worlds : Meaning(v) # Meaning(w)

=============================================================================
