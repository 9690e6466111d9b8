---------------------------- MODULE FilterProofs ----------------------------
(***************************************************************************)
(* Theorems about FilterPolicy, for any checks, any conditions of any      *)
(* depth over them, and policies of any number of rules.                   *)
(***************************************************************************)
EXTENDS FilterPolicy, WellFoundedInduction, TLAPS

-----------------------------------------------------------------------------
(* Induction.  A set of naturals has a least element, so a set of           *)
(* conditions has one that is the least deep, and none of its operands.     *)

LEMMA LeastNumber ==
    ASSUME NEW S, S \subseteq Nat, S # {}
    PROVE  \E n \in S : \A k \in S : n <= k
  <1>1. PICK R : IsWellFoundedOn(R, Nat) /\ R = OpToRel(<, Nat)
    BY NatLessThanWellFounded, Zenon
  <1>2. R = {p \in Nat \X Nat : p[1] < p[2]}
    BY <1>1, Zenon DEF OpToRel
  <1>3. PICK n \in S : \A k \in S : ~(<<k, n>> \in R)
    BY <1>1, WFMin
  <1>4. ASSUME NEW i \in Nat, NEW k \in Nat, i < k PROVE <<i, k>> \in R
    <2> HIDE <1>1, <1>3
    <2> QED  BY <1>2, <1>4
  <1>5. ASSUME NEW k \in S PROVE n <= k
    <2>1. n \in Nat /\ k \in Nat
      OBVIOUS
    <2>2. ~(k < n)
      BY <1>3, <1>4, <2>1
    <2> QED  BY <2>1, <2>2
  <1> QED  BY <1>5

LEMMA MinIsLeast ==
    ASSUME NEW S, S \subseteq Nat, S # {}
    PROVE  Min(S) \in S /\ \A k \in S : Min(S) <= k
  BY LeastNumber DEF Min

\* The direct operands of a condition.
Operand(t, o) == (t.op # "check" /\ o = t.left) \/ (t.op \in {"and", "or"} /\ o = t.right)

LEMMA OperandOK ==
    ASSUME FilterAssumption, NEW t \in Condition, NEW o, Operand(t, o)
    PROVE  o \in Condition /\ Depth[o] \in Nat /\ Depth[t] \in Nat /\ Depth[o] < Depth[t]
  BY DEF FilterAssumption, Operand

LEMMA ConditionInduction ==
    ASSUME FilterAssumption, NEW S,
           \A t \in Condition : (\A o \in Condition : Operand(t, o) => o \in S) => t \in S
    PROVE  Condition \subseteq S
  <1> SUFFICES ASSUME Condition \ S # {} PROVE FALSE
    OBVIOUS
  <1> DEFINE D == {Depth[t] : t \in Condition \ S}
  <1>1. D \subseteq Nat /\ D # {}
    BY DEF FilterAssumption
  <1>2. PICK n \in D : \A k \in D : n <= k
    <2> HIDE DEF D
    <2> QED  BY <1>1, LeastNumber
  <1>3. PICK t \in Condition \ S : \A o \in Condition \ S : Depth[t] <= Depth[o]
    BY <1>2
  <1>4. PICK o \in Condition : Operand(t, o) /\ o \notin S
    BY <1>3
  <1> QED  BY <1>3, <1>4, OperandOK

-----------------------------------------------------------------------------
(* Recursion.  Whatever is to be done at a check, a negation and a junction *)
(* of two values, there is a function that follows the conditions with it.  *)

Algebra(V) == [leaf : [Condition -> V], neg : [Condition -> [V -> V]], join : [Condition -> [V -> [V -> V]]]]

Fold(a, f, t) ==
    CASE t.op = "check" -> a.leaf[t]
      [] t.op = "not" -> a.neg[t][f[t.left]]
      [] t.op \in {"and", "or"} -> a.join[t][f[t.left]][f[t.right]]

LEMMA FoldLocal ==
    ASSUME FilterAssumption, NEW V, NEW a \in Algebra(V), NEW t \in Condition, NEW f, NEW g,
           \A o \in Condition : Operand(t, o) => f[o] = g[o] /\ f[o] \in V
    PROVE  Fold(a, f, t) = Fold(a, g, t) /\ Fold(a, f, t) \in V
  <1>1. CASE t.op = "check"
    BY <1>1 DEF FilterAssumption, Algebra, Fold
  <1>2. CASE t.op = "not"
    BY <1>2 DEF FilterAssumption, Algebra, Fold, Operand
  <1>3. CASE t.op \in {"and", "or"}
    <2>1. f[t.left] = g[t.left] /\ f[t.right] = g[t.right] /\ f[t.left] \in V /\ f[t.right] \in V
      BY <1>3 DEF FilterAssumption, Operand
    <2>2. a.join[t] \in [V -> [V -> V]]
      BY DEF Algebra
    <2>3. a.join[t][f[t.left]][f[t.right]] \in V
      BY <2>1, <2>2
    <2> QED  BY <1>3, <2>1, <2>3 DEF Fold
  <1> QED  BY <1>1, <1>2, <1>3 DEF FilterAssumption

\* The conditions less deep than n, and a function that follows them.
Below(n) == {t \in Condition : Depth[t] < n}
Partial(a, V, n, f) == f \in [Below(n) -> V] /\ \A t \in Below(n) : f[t] = Fold(a, f, t)

LEMMA PartialUnique ==
    ASSUME FilterAssumption, NEW V, NEW a \in Algebra(V), NEW n \in Nat, NEW k \in Nat,
           NEW f, NEW g, Partial(a, V, n, f), Partial(a, V, k, g)
    PROVE  \A t \in Below(n) \cap Below(k) : f[t] = g[t]
  <1> DEFINE S == {t \in Condition : t \in Below(n) \cap Below(k) => f[t] = g[t]}
  <1>1. ASSUME NEW t \in Condition, \A o \in Condition : Operand(t, o) => o \in S
        PROVE  t \in S
    <2> SUFFICES ASSUME t \in Below(n), t \in Below(k) PROVE f[t] = g[t]
      OBVIOUS
    <2>1. ASSUME NEW o \in Condition, Operand(t, o) PROVE f[o] = g[o] /\ f[o] \in V
      <3>1. o \in Below(n) /\ o \in Below(k)
        BY <2>1, OperandOK DEF Below
      <3> QED  BY <1>1, <2>1, <3>1 DEF Partial
    <2>2. Fold(a, f, t) = Fold(a, g, t)
      BY <2>1, FoldLocal
    <2> QED  BY <2>2 DEF Partial
  <1> HIDE DEF S
  <1>2. Condition \subseteq S
    BY <1>1, ConditionInduction
  <1> QED  BY <1>2 DEF S, Below

LEMMA PartialExists ==
    ASSUME FilterAssumption, NEW V, NEW a \in Algebra(V)
    PROVE  \A n \in Nat : \E f : Partial(a, V, n, f)
  <1> DEFINE S == {n \in Nat : ~\E f : Partial(a, V, n, f)}
  <1> SUFFICES ASSUME S # {} PROVE FALSE
    OBVIOUS
  <1>1. PICK n \in S : \A k \in S : n <= k
    <2>1. S \subseteq Nat
      OBVIOUS
    <2> HIDE DEF S
    <2> QED  BY <2>1, LeastNumber
  <1>2. n # 0
    <2>1. \A t \in Condition : Depth[t] \in Nat
      BY DEF FilterAssumption
    <2>2. Below(0) = {}
      BY <2>1 DEF Below
    <2>3. Partial(a, V, 0, [t \in {} |-> t])
      BY <2>2 DEF Partial
    <2> QED  BY <2>3
  <1>3. n - 1 \in Nat /\ n - 1 \notin S
    BY <1>1, <1>2
  <1>4. PICK f : Partial(a, V, n - 1, f)
    BY <1>3
  <1> DEFINE g == [t \in Below(n) |-> Fold(a, f, t)]
  <1>5. ASSUME NEW t \in Below(n), NEW o \in Condition, Operand(t, o)
        PROVE  o \in Below(n) /\ f[o] = g[o] /\ f[o] \in V
    <2>1. t \in Condition /\ Depth[t] < n /\ n \in Nat
      BY <1>1 DEF Below
    <2>2. o \in Below(n - 1) /\ o \in Below(n)
      BY <1>5, <2>1, OperandOK DEF Below
    <2> QED  BY <1>4, <2>2 DEF Partial
  <1>6. ASSUME NEW t \in Below(n) PROVE g[t] \in V /\ g[t] = Fold(a, g, t)
    <2>1. t \in Condition
      BY DEF Below
    <2>2. \A o \in Condition : Operand(t, o) => f[o] = g[o] /\ f[o] \in V
      BY <1>5
    <2>3. g[t] = Fold(a, f, t)
      OBVIOUS
    <2> HIDE DEF g
    <2>4. Fold(a, f, t) = Fold(a, g, t) /\ Fold(a, f, t) \in V
      BY <2>1, <2>2, FoldLocal
    <2> QED  BY <2>3, <2>4
  <1>7. g \in [Below(n) -> V]
    BY <1>6
  <1> HIDE DEF g
  <1>8. Partial(a, V, n, g)
    BY <1>6, <1>7 DEF Partial
  <1> QED  BY <1>1, <1>8

LEMMA FoldExists ==
    ASSUME FilterAssumption, NEW V, NEW a \in Algebra(V)
    PROVE  \E f \in [Condition -> V] : \A t \in Condition : f[t] = Fold(a, f, t)
  <1> DEFINE P(n) == CHOOSE f : Partial(a, V, n, f)
             f == [t \in Condition |-> P(Depth[t] + 1)[t]]
  <1>1. ASSUME NEW n \in Nat PROVE Partial(a, V, n, P(n))
    BY PartialExists
  <1> HIDE DEF P
  <1>2. ASSUME NEW t \in Condition PROVE Depth[t] \in Nat /\ Depth[t] + 1 \in Nat /\ t \in Below(Depth[t] + 1)
    BY DEF FilterAssumption, Below
  <1>3. ASSUME NEW t \in Condition PROVE f[t] \in V /\ f[t] = Fold(a, f, t)
    <2> DEFINE g == P(Depth[t] + 1)
    <2>1. Partial(a, V, Depth[t] + 1, g) /\ f[t] = g[t]
      BY <1>1, <1>2
    <2>2. ASSUME NEW o \in Condition, Operand(t, o) PROVE g[o] = f[o] /\ g[o] \in V
      <3>1. o \in Below(Depth[t] + 1) /\ o \in Below(Depth[o] + 1)
        BY <1>2, <2>2, OperandOK DEF Below
      <3>2. Partial(a, V, Depth[o] + 1, P(Depth[o] + 1)) /\ f[o] = P(Depth[o] + 1)[o]
        BY <1>1, <1>2
      <3> HIDE DEF g, f
      <3>3. g[o] = P(Depth[o] + 1)[o]
        BY <1>2, <2>1, <3>1, <3>2, PartialUnique
      <3> QED  BY <2>1, <3>1, <3>2, <3>3 DEF Partial
    <2> HIDE DEF g, f
    <2>3. g[t] = Fold(a, g, t) /\ g[t] \in V
      BY <1>2, <2>1 DEF Partial
    <2>4. Fold(a, g, t) = Fold(a, f, t)
      BY <2>2, FoldLocal
    <2> QED  BY <2>1, <2>3, <2>4
  <1>4. f \in [Condition -> V]
    BY <1>3
  <1> HIDE DEF f
  <1> QED  BY <1>3, <1>4

-----------------------------------------------------------------------------
(* What the recursive functions of the model are at each kind of condition. *)

LEMMA ConditionKinds ==
    ASSUME FilterAssumption, NEW t \in Condition
    PROVE  \/ t.op = "check" /\ t.name \in Check
           \/ t.op = "not" /\ t.left \in Condition /\ Operand(t, t.left)
           \/ /\ t.op = "and" \/ t.op = "or"
              /\ t.left \in Condition /\ Operand(t, t.left) /\ t.right \in Condition /\ Operand(t, t.right)
  BY DEF FilterAssumption, Operand

NamesAt(f, t) == CASE t.op = "check" -> {t.name}
                   [] t.op = "not" -> f[t.left]
                   [] OTHER -> f[t.left] \cup f[t.right]

LEMMA CheckNamesFollow ==
    ASSUME FilterAssumption
    PROVE  \A t \in Condition : CheckNames[t] = NamesAt(CheckNames, t) /\ CheckNames[t] \in SUBSET Check
  <1> DEFINE V == SUBSET Check
             a == [leaf |-> [t \in Condition |-> IF t.op = "check" THEN {t.name} ELSE {}],
                   neg |-> [t \in Condition |-> [x \in V |-> x]],
                   join |-> [t \in Condition |-> [x \in V |-> [y \in V |-> x \cup y]]]]
  <1>1. a \in Algebra(V)
    BY DEF Algebra, FilterAssumption
  <1>2. PICK f \in [Condition -> V] : \A t \in Condition : f[t] = Fold(a, f, t)
    <2> HIDE DEF a, V
    <2> QED  BY <1>1, FoldExists
  <1>3. ASSUME NEW t \in Condition PROVE f[t] = NamesAt(f, t)
    BY <1>2, <1>3, ConditionKinds DEF Fold, NamesAt
  <1>4. f = [t \in Condition |-> NamesAt(f, t)]
    BY <1>3
  <1>5. CheckNames = [t \in Condition |-> NamesAt(CheckNames, t)]
    BY <1>4 DEF CheckNames, NamesAt
  <1> DEFINE S == {t \in Condition : CheckNames[t] \in V}
  <1>6. ASSUME NEW t \in Condition, \A o \in Condition : Operand(t, o) => o \in S
        PROVE  t \in S
    BY <1>5, <1>6, ConditionKinds DEF NamesAt
  <1>7. Condition \subseteq S
    <2> HIDE DEF S
    <2> QED  BY <1>6, ConditionInduction
  <1> QED  BY <1>5, <1>7

LEMMA NamesByKind ==
    ASSUME FilterAssumption, NEW t \in Condition
    PROVE  /\ t.op = "check" => CheckNames[t] = {t.name}
           /\ t.op = "not" => CheckNames[t] = CheckNames[t.left]
           /\ t.op \in {"and", "or"} => CheckNames[t] = CheckNames[t.left] \cup CheckNames[t.right]
  BY CheckNamesFollow DEF NamesAt

OnceAt(f, t) == CASE t.op = "check" -> TRUE
                  [] t.op = "not" -> f[t.left]
                  [] OTHER -> f[t.left] /\ f[t.right] /\ CheckNames[t.left] \cap CheckNames[t.right] = {}

LEMMA NamesOnceFollow ==
    ASSUME FilterAssumption
    PROVE  \A t \in Condition : NamesOnce[t] = OnceAt(NamesOnce, t)
  <1> DEFINE V == BOOLEAN
             a == [leaf |-> [t \in Condition |-> TRUE],
                   neg |-> [t \in Condition |-> [x \in V |-> x]],
                   join |-> [t \in Condition |-> [x \in V |-> [y \in V |->
                               x /\ y /\ CheckNames[t.left] \cap CheckNames[t.right] = {}]]]]
  <1>1. a \in Algebra(V)
    BY DEF Algebra
  <1>2. PICK f \in [Condition -> V] : \A t \in Condition : f[t] = Fold(a, f, t)
    <2> HIDE DEF a, V
    <2> QED  BY <1>1, FoldExists
  <1>3. ASSUME NEW t \in Condition PROVE f[t] = OnceAt(f, t)
    BY <1>2, <1>3, ConditionKinds DEF Fold, OnceAt
  <1>4. f = [t \in Condition |-> OnceAt(f, t)]
    BY <1>3
  <1>5. NamesOnce = [t \in Condition |-> OnceAt(NamesOnce, t)]
    BY <1>4 DEF NamesOnce, OnceAt
  <1> QED  BY <1>5

LEMMA OnceByKind ==
    ASSUME FilterAssumption, NEW t \in Condition, NamesOnce[t]
    PROVE  /\ t.op = "not" => NamesOnce[t.left]
           /\ t.op \in {"and", "or"} => /\ NamesOnce[t.left] /\ NamesOnce[t.right]
                                        /\ CheckNames[t.left] \cap CheckNames[t.right] = {}
  BY NamesOnceFollow DEF OnceAt

World == [Check -> BOOLEAN]
HoldsAt(v, f, t) == CASE t.op = "check" -> v[t.name]
                      [] t.op = "not" -> ~f[t.left]
                      [] t.op = "and" -> f[t.left] /\ f[t.right]
                      [] t.op = "or" -> f[t.left] \/ f[t.right]

LEMMA HoldsFollows ==
    ASSUME FilterAssumption, NEW v \in World
    PROVE  \A t \in Condition : Holds(v)[t] = HoldsAt(v, Holds(v), t) /\ Holds(v)[t] \in BOOLEAN
  <1> DEFINE V == BOOLEAN
             a == [leaf |-> [t \in Condition |-> IF t.op = "check" THEN v[t.name] ELSE FALSE],
                   neg |-> [t \in Condition |-> [x \in V |-> ~x]],
                   join |-> [t \in Condition |-> [x \in V |-> [y \in V |->
                               IF t.op = "and" THEN x /\ y ELSE x \/ y]]]]
  <1>1. a \in Algebra(V)
    BY DEF Algebra, FilterAssumption, World
  <1>2. PICK f \in [Condition -> V] : \A t \in Condition : f[t] = Fold(a, f, t)
    <2> HIDE DEF a, V
    <2> QED  BY <1>1, FoldExists
  <1>3. ASSUME NEW t \in Condition PROVE f[t] = HoldsAt(v, f, t)
    BY <1>2, <1>3, ConditionKinds DEF Fold, HoldsAt
  <1>4. f = [t \in Condition |-> HoldsAt(v, f, t)]
    BY <1>3
  <1> DEFINE h == Holds(v)
  <1>5. h = [t \in Condition |-> HoldsAt(v, h, t)]
    BY <1>4 DEF Holds, HoldsAt
  <1> HIDE DEF h
  <1> DEFINE S == {t \in Condition : h[t] \in V}
  <1>6. ASSUME NEW t \in Condition, \A o \in Condition : Operand(t, o) => o \in S
        PROVE  t \in S
    BY <1>5, <1>6, ConditionKinds DEF HoldsAt, World
  <1>7. Condition \subseteq S
    <2> HIDE DEF S
    <2> QED  BY <1>6, ConditionInduction
  <1>8. \A t \in Condition : h[t] = HoldsAt(v, h, t) /\ h[t] \in BOOLEAN
    BY <1>5, <1>7
  <1> QED  BY <1>8 DEF h

LEMMA HoldsByKind ==
    ASSUME FilterAssumption, NEW v \in World, NEW t \in Condition
    PROVE  /\ t.op = "check" => (Holds(v)[t] <=> v[t.name])
           /\ t.op = "not" => (Holds(v)[t] <=> ~Holds(v)[t.left])
           /\ t.op = "and" => (Holds(v)[t] <=> Holds(v)[t.left] /\ Holds(v)[t.right])
           /\ t.op = "or" => (Holds(v)[t] <=> Holds(v)[t.left] \/ Holds(v)[t.right])
  <1> DEFINE h == Holds(v)
  <1>1. h[t] = HoldsAt(v, h, t)
    BY HoldsFollows
  <1> HIDE DEF h
  <1>2. /\ t.op = "check" => (h[t] <=> v[t.name])
        /\ t.op = "not" => (h[t] <=> ~h[t.left])
        /\ t.op = "and" => (h[t] <=> h[t.left] /\ h[t.right])
        /\ t.op = "or" => (h[t] <=> h[t.left] \/ h[t.right])
    BY <1>1 DEF HoldsAt
  <1> QED  BY <1>2 DEF h

Memo == [Check -> Verdict \cup {"unasked"}]
Answer == Verdict \cup Check
Not(x) == IF x \in Check THEN x ELSE KleeneNot(x)
And(x, y) == IF x \in Check \cup {"fail"} THEN x ELSE IF y \in Check THEN y ELSE KleeneAnd(x, y)
Or(x, y) == IF x \in Check \cup {"pass"} THEN x ELSE IF y \in Check THEN y ELSE KleeneOr(x, y)
EvalAt(m, f, t) == CASE t.op = "check" -> EvalCheck(t.name, m)
                     [] t.op = "not" -> Not(f[t.left])
                     [] t.op = "and" -> And(f[t.left], f[t.right])
                     [] t.op = "or" -> Or(f[t.left], f[t.right])

LEMMA AnswersOK ==
    ASSUME FilterAssumption
    PROVE  /\ \A c \in Check, m \in Memo : EvalCheck(c, m) \in Answer
           /\ \A x, y \in Answer : Not(x) \in Answer /\ And(x, y) \in Answer /\ Or(x, y) \in Answer
  BY DEF FilterAssumption, EvalCheck, Memo, Answer, Verdict, Not, And, Or, KleeneNot, KleeneAnd, KleeneOr

LEMMA EvalFollows ==
    ASSUME FilterAssumption, NEW m \in Memo
    PROVE  \A t \in Condition : Eval(m)[t] = EvalAt(m, Eval(m), t) /\ Eval(m)[t] \in Answer
  <1> DEFINE V == Answer
             a == [leaf |-> [t \in Condition |-> IF t.op = "check" THEN EvalCheck(t.name, m) ELSE "fail"],
                   neg |-> [t \in Condition |-> [x \in V |-> Not(x)]],
                   join |-> [t \in Condition |-> [x \in V |-> [y \in V |->
                               IF t.op = "and" THEN And(x, y) ELSE Or(x, y)]]]]
  <1>1. a \in Algebra(V)
    <2>1. \A t \in Condition : (IF t.op = "check" THEN EvalCheck(t.name, m) ELSE "fail") \in V
      BY AnswersOK, ConditionKinds DEF Answer, Verdict
    <2> HIDE DEF V
    <2> QED  BY <2>1, AnswersOK DEF Algebra, V
  <1>2. PICK f \in [Condition -> V] : \A t \in Condition : f[t] = Fold(a, f, t)
    <2> HIDE DEF a, V
    <2> QED  BY <1>1, FoldExists
  <1>3. ASSUME NEW t \in Condition PROVE f[t] = EvalAt(m, f, t)
    BY <1>2, <1>3, ConditionKinds DEF Fold, EvalAt
  <1>4. f = [t \in Condition |-> EvalAt(m, f, t)]
    BY <1>3
  <1> DEFINE h == Eval(m)
  <1>5. h = [t \in Condition |-> EvalAt(m, h, t)]
    BY <1>4 DEF Eval, EvalAt, Not, And, Or
  <1> HIDE DEF h
  <1> DEFINE S == {t \in Condition : h[t] \in V}
  <1>6. ASSUME NEW t \in Condition, \A o \in Condition : Operand(t, o) => o \in S
        PROVE  t \in S
    BY <1>5, <1>6, ConditionKinds, AnswersOK DEF EvalAt
  <1>7. Condition \subseteq S
    <2> HIDE DEF S
    <2> QED  BY <1>6, ConditionInduction
  <1>8. \A t \in Condition : h[t] = EvalAt(m, h, t) /\ h[t] \in Answer
    BY <1>5, <1>7
  <1> QED  BY <1>8 DEF h

-----------------------------------------------------------------------------
(* A verdict of Run::eval, and the two-valued meaning of the condition.     *)

Agrees(v, m) == \A c \in Check : (m[c] = "pass" => v[c]) /\ (m[c] = "fail" => ~v[c])
WorldsOf(m) == {v \in World : Agrees(v, m)}

\* What is decided is decided in every world that agrees with what was answered.
LEMMA EvalSound ==
    ASSUME FilterAssumption, NEW m \in Memo, NEW v \in WorldsOf(m)
    PROVE  \A t \in Condition : /\ Eval(m)[t] = "pass" => Holds(v)[t]
                                /\ Eval(m)[t] = "fail" => ~Holds(v)[t]
  <1> DEFINE e == Eval(m)
             h == Holds(v)
             S == {t \in Condition : (e[t] = "pass" => h[t]) /\ (e[t] = "fail" => ~h[t])}
  <1>1. \A t \in Condition : e[t] = EvalAt(m, e, t) /\ e[t] \in Answer
    BY EvalFollows
  <1>2. \A t \in Condition : h[t] = HoldsAt(v, h, t) /\ h[t] \in BOOLEAN
    BY HoldsFollows DEF WorldsOf
  <1> HIDE DEF e, h
  <1>3. ASSUME NEW t \in Condition, \A o \in Condition : Operand(t, o) => o \in S
        PROVE  t \in S
    <2> USE DEF Answer, Verdict, FilterAssumption
    <2>1. CASE t.op = "check"
      BY <1>1, <1>2, <2>1 DEF EvalAt, EvalCheck, HoldsAt, WorldsOf, Agrees, World
    <2>2. CASE t.op = "not"
      BY <1>1, <1>2, <1>3, <2>2, ConditionKinds DEF EvalAt, Not, KleeneNot, HoldsAt
    <2>3. CASE t.op = "and"
      BY <1>1, <1>2, <1>3, <2>3, ConditionKinds DEF EvalAt, And, KleeneAnd, HoldsAt
    <2>4. CASE t.op = "or"
      BY <1>1, <1>2, <1>3, <2>4, ConditionKinds DEF EvalAt, Or, KleeneOr, HoldsAt
    <2> QED  BY <2>1, <2>2, <2>3, <2>4
  <1>4. Condition \subseteq S
    <2> HIDE DEF S
    <2> QED  BY <1>3, ConditionInduction
  <1> QED  BY <1>4 DEF e, h

\* A condition says the same in two worlds that agree on the checks it names.
LEMMA HoldsLocal ==
    ASSUME FilterAssumption, NEW v \in World, NEW w \in World
    PROVE  \A t \in Condition : (\A c \in CheckNames[t] : v[c] = w[c]) => Holds(v)[t] = Holds(w)[t]
  <1> DEFINE h == Holds(v)
             g == Holds(w)
             S == {t \in Condition : (\A c \in CheckNames[t] : v[c] = w[c]) => h[t] = g[t]}
  <1>1. \A t \in Condition : h[t] = HoldsAt(v, h, t) /\ h[t] \in BOOLEAN
    BY HoldsFollows
  <1>2. \A t \in Condition : g[t] = HoldsAt(w, g, t) /\ g[t] \in BOOLEAN
    BY HoldsFollows
  <1> HIDE DEF h, g
  <1>4. ASSUME NEW t \in Condition, \A o \in Condition : Operand(t, o) => o \in S
        PROVE  t \in S
    <2> SUFFICES ASSUME \A c \in CheckNames[t] : v[c] = w[c] PROVE h[t] = g[t]
      OBVIOUS
    <2>1. CASE t.op = "check"
      <3>1. v[t.name] = w[t.name]
        BY <2>1, NamesByKind
      <3> QED  BY <1>1, <1>2, <2>1, <3>1 DEF HoldsAt
    <2>2. CASE t.op = "not"
      <3>1. h[t.left] = g[t.left]
        BY <1>4, <2>2, NamesByKind, ConditionKinds
      <3> QED  BY <1>1, <1>2, <2>2, <3>1 DEF HoldsAt
    <2>3. CASE t.op = "and" \/ t.op = "or"
      <3>1. CheckNames[t] = CheckNames[t.left] \cup CheckNames[t.right]
        BY <2>3, NamesByKind
      <3>2. h[t.left] = g[t.left] /\ h[t.right] = g[t.right]
        BY <1>4, <2>3, <3>1, ConditionKinds
      <3> QED  BY <1>1, <1>2, <2>3, <3>2 DEF HoldsAt
    <2> QED  BY <2>1, <2>2, <2>3, ConditionKinds
  <1>5. Condition \subseteq S
    <2> HIDE DEF S
    <2> QED  BY <1>4, ConditionInduction
  <1> QED  BY <1>5 DEF h, g

\* What is asked is a check the condition names, and one not asked before.
LEMMA AsksOwn ==
    ASSUME FilterAssumption, NEW m \in Memo
    PROVE  \A t \in Condition : Eval(m)[t] \in Check => Eval(m)[t] \in CheckNames[t] /\ m[Eval(m)[t]] = "unasked"
  <1> DEFINE e == Eval(m)
             S == {t \in Condition : e[t] \in Check => e[t] \in CheckNames[t] /\ m[e[t]] = "unasked"}
  <1>1. \A t \in Condition : e[t] = EvalAt(m, e, t) /\ e[t] \in Answer
    BY EvalFollows
  <1> HIDE DEF e
  <1>3. ASSUME NEW t \in Condition, \A o \in Condition : Operand(t, o) => o \in S
        PROVE  t \in S
    <2> SUFFICES ASSUME e[t] \in Check PROVE e[t] \in CheckNames[t] /\ m[e[t]] = "unasked"
      OBVIOUS
    <2>0. Check \cap (Verdict \cup {"unasked"}) = {}
      BY DEF FilterAssumption
    <2>1. CASE t.op = "check"
      <3>1. e[t] = t.name /\ m[t.name] = "unasked"
        BY <1>1, <2>0, <2>1, ConditionKinds DEF EvalAt, EvalCheck, Memo, Verdict
      <3> QED  BY <2>1, <3>1, NamesByKind
    <2>2. CASE t.op = "not"
      <3>1. t.left \in S /\ e[t.left] \in Answer
        BY <1>1, <1>3, <2>2, ConditionKinds
      <3>2. e[t] = e[t.left]
        BY <1>1, <2>0, <2>2, <3>1 DEF EvalAt, Not, KleeneNot, Answer, Verdict
      <3> QED  BY <2>2, <3>1, <3>2, NamesByKind
    <2>3. CASE t.op \in {"and", "or"}
      <3>1. t.left \in S /\ t.right \in S /\ e[t.left] \in Answer /\ e[t.right] \in Answer
        BY <1>1, <1>3, <2>3, ConditionKinds
      <3>2. e[t] = e[t.left] \/ e[t] = e[t.right]
        BY <1>1, <2>0, <2>3, <3>1 DEF EvalAt, And, KleeneAnd, Or, KleeneOr, Answer, Verdict
      <3> QED  BY <2>3, <3>1, <3>2, NamesByKind
    <2> QED  BY <2>1, <2>2, <2>3, ConditionKinds
  <1>4. Condition \subseteq S
    <2> HIDE DEF S
    <2> QED  BY <1>3, ConditionInduction
  <1> QED  BY <1>4 DEF e

LEMMA SomeWorld ==
    ASSUME NEW m \in Memo
    PROVE  \E v \in WorldsOf(m) : TRUE
  <1> DEFINE v == [c \in Check |-> m[c] = "pass"]
  <1>1. v \in WorldsOf(m)
    BY DEF WorldsOf, World, Agrees
  <1> QED  BY <1>1

\* Conditions that name different checks may say what they say in different worlds at once.
LEMMA Splice ==
    ASSUME FilterAssumption, NEW m \in Memo, NEW v \in WorldsOf(m), NEW w \in WorldsOf(m),
           NEW t \in Condition, NEW u \in Condition, CheckNames[t] \cap CheckNames[u] = {}
    PROVE  \E x \in WorldsOf(m) : Holds(x)[t] = Holds(v)[t] /\ Holds(x)[u] = Holds(w)[u]
  <1> DEFINE x == [c \in Check |-> IF c \in CheckNames[t] THEN v[c] ELSE w[c]]
  <1>1. v \in World /\ w \in World /\ x \in WorldsOf(m) /\ x \in World
    BY DEF WorldsOf, World, Agrees
  <1>2. CheckNames[t] \subseteq Check /\ CheckNames[u] \subseteq Check
    BY CheckNamesFollow
  <1>3. (\A c \in CheckNames[t] : x[c] = v[c]) /\ (\A c \in CheckNames[u] : x[c] = w[c])
    BY <1>2
  <1> HIDE DEF x
  <1>4. Holds(x)[t] = Holds(v)[t]
    BY <1>1, <1>3, HoldsLocal
  <1>5. Holds(x)[u] = Holds(w)[u]
    BY <1>1, <1>3, HoldsLocal
  <1> QED  BY <1>1, <1>4, <1>5

CanHold(m, t) == \E v \in WorldsOf(m) : Holds(v)[t]
CanFail(m, t) == \E v \in WorldsOf(m) : ~Holds(v)[t]

\* What the junctions of Kleene's logic leave undecided.
LEMMA UndecidedJunction ==
    ASSUME FilterAssumption, NEW x \in Answer, NEW y \in Answer
    PROVE  /\ And(x, y) = "undecided" => x # "fail" /\ y # "fail" /\ x \notin Check /\ y \notin Check
                                         /\ (x = "undecided" \/ y = "undecided")
           /\ Or(x, y) = "undecided" => x # "pass" /\ y # "pass" /\ x \notin Check /\ y \notin Check
                                        /\ (x = "undecided" \/ y = "undecided")
           /\ Not(x) = "undecided" => x = "undecided"
  BY DEF FilterAssumption, Answer, Verdict, And, KleeneAnd, Or, KleeneOr, Not, KleeneNot

\* What is left undecided can still go either way, if the condition names each check once.
LEMMA EvalOpen ==
    ASSUME FilterAssumption, NEW m \in Memo
    PROVE  \A t \in Condition : NamesOnce[t] /\ stage \in StagesFor(t) /\ Eval(m)[t] = "undecided"
                                => CanHold(m, t) /\ CanFail(m, t)
  <1> DEFINE e == Eval(m)
             Bound(t) == NamesOnce[t] /\ stage \in StagesFor(t)
             S == {t \in Condition : Bound(t) /\ e[t] = "undecided" => CanHold(m, t) /\ CanFail(m, t)}
  <1>1. \A t \in Condition : e[t] = EvalAt(m, e, t) /\ e[t] \in Answer
    BY EvalFollows
  <1>2. \A v \in WorldsOf(m), t \in Condition :
          (e[t] = "pass" => Holds(v)[t]) /\ (e[t] = "fail" => ~Holds(v)[t])
    BY EvalSound
  <1> HIDE DEF e
  <1>3. PICK z \in WorldsOf(m) : TRUE
    BY SomeWorld
  <1>4. \A t \in Condition : (e[t] = "pass" => CanHold(m, t)) /\ (e[t] = "fail" => CanFail(m, t))
    BY <1>2, <1>3 DEF CanHold, CanFail
  <1>5. ASSUME NEW t \in Condition, \A o \in Condition : Operand(t, o) => o \in S
        PROVE  t \in S
    <2> SUFFICES ASSUME Bound(t), e[t] = "undecided" PROVE CanHold(m, t) /\ CanFail(m, t)
      OBVIOUS
    <2>1. CASE t.op = "check"
      <3>1. t.name \in Check /\ stage \in Serves[t.name]
        BY <2>1, NamesByKind, ConditionKinds DEF StagesFor
      <3>2. m[t.name] = "undecided"
        <4>1. "undecided" \notin Check
          BY DEF FilterAssumption, Verdict
        <4>2. EvalCheck(t.name, m) = "undecided"
          BY <1>1, <2>1 DEF EvalAt
        <4> QED  BY <3>1, <4>1, <4>2 DEF EvalCheck
      <3> DEFINE v == [z EXCEPT ![t.name] = TRUE]
                 w == [z EXCEPT ![t.name] = FALSE]
      <3>3. v \in WorldsOf(m) /\ w \in WorldsOf(m) /\ v[t.name] /\ ~w[t.name]
        BY <1>3, <3>1, <3>2 DEF WorldsOf, World, Agrees
      <3> HIDE DEF v, w
      <3>4. Holds(v)[t] /\ ~Holds(w)[t]
        BY <2>1, <3>3, HoldsByKind DEF WorldsOf
      <3> QED  BY <3>3, <3>4 DEF CanHold, CanFail
    <2>2. CASE t.op = "not"
      <3>1. t.left \in S /\ t.left \in Condition /\ e[t.left] \in Answer
        BY <1>1, <1>5, <2>2, ConditionKinds
      <3>2. Bound(t.left)
        BY <2>2, NamesByKind, OnceByKind DEF StagesFor
      <3>3. e[t.left] = "undecided"
        BY <1>1, <2>2, <3>1, UndecidedJunction DEF EvalAt
      <3>4. CanHold(m, t.left) /\ CanFail(m, t.left)
        BY <3>1, <3>2, <3>3
      <3> QED  BY <2>2, <3>4, HoldsByKind DEF CanHold, CanFail, WorldsOf
    <2>3. CASE t.op \in {"and", "or"}
      <3>1. /\ t.left \in S /\ t.left \in Condition /\ e[t.left] \in Answer
            /\ t.right \in S /\ t.right \in Condition /\ e[t.right] \in Answer
        BY <1>1, <1>5, <2>3, ConditionKinds
      <3>2. Bound(t.left) /\ Bound(t.right) /\ CheckNames[t.left] \cap CheckNames[t.right] = {}
        <4>1. NamesOnce[t.left] /\ NamesOnce[t.right] /\ CheckNames[t.left] \cap CheckNames[t.right] = {}
          BY <2>3, OnceByKind
        <4>2. CheckNames[t] = CheckNames[t.left] \cup CheckNames[t.right]
          BY <2>3, NamesByKind
        <4> QED  BY <4>1, <4>2 DEF StagesFor
      <3>3. /\ e[t.left] = "undecided" => CanHold(m, t.left) /\ CanFail(m, t.left)
            /\ e[t.right] = "undecided" => CanHold(m, t.right) /\ CanFail(m, t.right)
        BY <3>1, <3>2
      <3>4. CASE t.op = "and"
        <4>1. And(e[t.left], e[t.right]) = "undecided"
          BY <1>1, <3>4 DEF EvalAt
        <4>2. /\ e[t.left] \in {"pass", "undecided"} /\ e[t.right] \in {"pass", "undecided"}
              /\ e[t.left] = "undecided" \/ e[t.right] = "undecided"
          BY <3>1, <4>1, UndecidedJunction DEF Answer, Verdict
        <4>3. CanHold(m, t.left) /\ CanHold(m, t.right) /\ (CanFail(m, t.left) \/ CanFail(m, t.right))
          BY <1>4, <3>1, <3>3, <4>2
        <4>4. PICK v, w \in WorldsOf(m) : Holds(v)[t.left] /\ Holds(w)[t.right]
          BY <4>3 DEF CanHold
        <4>5. PICK x \in WorldsOf(m) : Holds(x)[t.left] = Holds(v)[t.left] /\ Holds(x)[t.right] = Holds(w)[t.right]
          <5>1. t.left \in Condition /\ t.right \in Condition
            BY <3>1
          <5>2. CheckNames[t.left] \cap CheckNames[t.right] = {}
            BY <3>2
          <5> HIDE DEF S, Bound
          <5>3. ASSUME NEW l \in Condition, NEW r \in Condition, CheckNames[l] \cap CheckNames[r] = {}
                PROVE  \E x \in WorldsOf(m) : Holds(x)[l] = Holds(v)[l] /\ Holds(x)[r] = Holds(w)[r]
            BY <5>3, Splice
          <5> QED  BY <5>1, <5>2, <5>3, Zenon
        <4>6. Holds(x)[t]
          BY <3>4, <4>4, <4>5, HoldsByKind DEF WorldsOf
        <4>7. CanFail(m, t)
          BY <3>4, <4>3, HoldsByKind DEF CanFail, WorldsOf
        <4> QED  BY <4>6, <4>7 DEF CanHold
      <3>5. CASE t.op = "or"
        <4>1. Or(e[t.left], e[t.right]) = "undecided"
          BY <1>1, <3>5 DEF EvalAt
        <4>2. /\ e[t.left] \in {"fail", "undecided"} /\ e[t.right] \in {"fail", "undecided"}
              /\ e[t.left] = "undecided" \/ e[t.right] = "undecided"
          BY <3>1, <4>1, UndecidedJunction DEF Answer, Verdict
        <4>3. CanFail(m, t.left) /\ CanFail(m, t.right) /\ (CanHold(m, t.left) \/ CanHold(m, t.right))
          BY <1>4, <3>1, <3>3, <4>2
        <4>4. PICK v, w \in WorldsOf(m) : ~Holds(v)[t.left] /\ ~Holds(w)[t.right]
          BY <4>3 DEF CanFail
        <4>5. PICK x \in WorldsOf(m) : Holds(x)[t.left] = Holds(v)[t.left] /\ Holds(x)[t.right] = Holds(w)[t.right]
          <5>1. t.left \in Condition /\ t.right \in Condition
            BY <3>1
          <5>2. CheckNames[t.left] \cap CheckNames[t.right] = {}
            BY <3>2
          <5> HIDE DEF S, Bound
          <5>3. ASSUME NEW l \in Condition, NEW r \in Condition, CheckNames[l] \cap CheckNames[r] = {}
                PROVE  \E x \in WorldsOf(m) : Holds(x)[l] = Holds(v)[l] /\ Holds(x)[r] = Holds(w)[r]
            BY <5>3, Splice
          <5> QED  BY <5>1, <5>2, <5>3, Zenon
        <4>6. ~Holds(x)[t]
          BY <3>5, <4>4, <4>5, HoldsByKind DEF WorldsOf
        <4>7. CanHold(m, t)
          BY <3>5, <4>3, HoldsByKind DEF CanHold, WorldsOf
        <4> QED  BY <4>6, <4>7 DEF CanFail
      <3> QED  BY <2>3, <3>4, <3>5
    <2> QED  BY <2>1, <2>2, <2>3, ConditionKinds
  <1>6. Condition \subseteq S
    <2> HIDE DEF S
    <2> QED  BY <1>5, ConditionInduction
  <1> QED  BY <1>6 DEF e

-----------------------------------------------------------------------------
(* A built policy: its rules, and what it means in a world.                 *)

Enforced == {i \in Applicable : policy.rules[i].mode = "enforce"}
Holding(v) == {i \in Enforced : Holds(v)[When(i)]}
Built == policy \in Policy /\ stage \in Stage /\ Builds(policy.rules)

LEMMA RulesOK ==
    ASSUME policy \in Policy
    PROVE  /\ DOMAIN policy.rules \subseteq Nat /\ policy.default \in {"allow", "deny"}
           /\ \A i \in DOMAIN policy.rules : policy.rules[i] \in Rule
  BY DEF Policy

LEMMA BuiltOK ==
    ASSUME FilterAssumption, Built
    PROVE  /\ Applicable \subseteq Nat /\ Enforced \subseteq Applicable
           /\ \A i \in DOMAIN policy.rules : When(i) \in Condition
           /\ Applicable = {i \in DOMAIN policy.rules : CheckNames[When(i)] \subseteq {c \in Check : stage \in Serves[c]}}
           /\ \A i \in Applicable : policy.rules[i] \in Rule /\ When(i) \in Condition
  <1>1. Applicable \subseteq DOMAIN policy.rules /\ Enforced \subseteq Applicable
    BY DEF Applicable, Enforced
  <1>2. ASSUME NEW i \in DOMAIN policy.rules PROVE When(i) \in Condition
    <2>1. policy.rules[i].when \in Source
      BY RulesOK DEF Built, Rule
    <2>2. Parsed[policy.rules[i].when] # NoCondition
      BY DEF Built, Builds
    <2> QED  BY <2>1, <2>2 DEF When, FilterAssumption
  <1>3. ASSUME NEW i \in DOMAIN policy.rules
        PROVE  stage \in StagesFor(When(i)) <=> CheckNames[When(i)] \subseteq {c \in Check : stage \in Serves[c]}
    BY <1>2, CheckNamesFollow DEF StagesFor, Built
  <1> QED  BY <1>1, <1>2, <1>3, RulesOK DEF Applicable, Built

LEMMA MeaningIs ==
    ASSUME FilterAssumption, Built, NEW v \in World
    PROVE  /\ Applicable = {} => Meaning(v) = "allow"
           /\ Applicable # {} => Meaning(v) = IF Holding(v) = {} THEN policy.default
                                              ELSE policy.rules[Min(Holding(v))].then
  <1> DEFINE here == {i \in DOMAIN policy.rules : CheckNames[When(i)] \subseteq {c \in Check : stage \in Serves[c]}}
             holding == {i \in here : policy.rules[i].mode = "enforce" /\ Holds(v)[When(i)]}
  <1>1. here = Applicable
    BY BuiltOK
  <1>2. holding = Holding(v)
    BY <1>1 DEF Holding, Enforced
  <1>3. Meaning(v) = IF here = {} THEN "allow" ELSE IF holding = {} THEN policy.default
                     ELSE policy.rules[Min(holding)].then
    BY DEF Meaning
  <1> HIDE DEF here, holding
  <1> QED  BY <1>1, <1>2, <1>3

\* The first rule that holds decides, whichever it is.
LEMMA FirstDecides ==
    ASSUME FilterAssumption, Built, NEW v \in World, NEW i \in Holding(v), \A j \in Holding(v) : i <= j
    PROVE  Meaning(v) = policy.rules[i].then
  <1>1. Holding(v) \subseteq Nat /\ i \in Applicable
    BY BuiltOK DEF Holding
  <1>2. Min(Holding(v)) \in Holding(v) /\ Min(Holding(v)) <= i
    BY <1>1, MinIsLeast
  <1>3. Min(Holding(v)) = i
    BY <1>1, <1>2
  <1> QED  BY <1>1, <1>3, MeaningIs

\* Every effect a policy can have in a world is the default, or that of a rule that holds.
LEMMA MeaningFrom ==
    ASSUME FilterAssumption, Built, NEW v \in World, Applicable # {}
    PROVE  \/ Holding(v) = {} /\ Meaning(v) = policy.default
           \/ \E i \in Holding(v) : (\A j \in Holding(v) : i <= j) /\ Meaning(v) = policy.rules[i].then
  <1>1. Holding(v) \subseteq Nat
    BY BuiltOK DEF Holding
  <1>2. CASE Holding(v) = {}
    BY <1>2, MeaningIs
  <1>3. CASE Holding(v) # {}
    BY <1>1, <1>3, MinIsLeast, FirstDecides
  <1> QED  BY <1>2, <1>3

-----------------------------------------------------------------------------
(* The rules with a turn before: none that holds in a world is forgotten.   *)

Accounted(n) == \A i \in Enforced : i < n => \/ \A v \in Worlds : ~Holds(v)[When(i)]
                                             \/ policy.rules[i].then \in pending

FilterInv == FilterTypeOK /\ (phase = "eval" => Accounted(at))

LEMMA WorldsAre ==
    Worlds = WorldsOf(memo) /\ Worlds \subseteq World
  BY DEF Worlds, WorldsOf, World, Agrees

LEMMA MemoOK ==
    ASSUME FilterTypeOK
    PROVE  memo \in Memo
  BY DEF FilterTypeOK, Memo

\* What one check answers rules worlds out and brings none in.
LEMMA WorldsShrink ==
    ASSUME NEW m \in Memo, NEW c \in Check, NEW a \in Verdict, m[c] = "unasked"
    PROVE  WorldsOf([m EXCEPT ![c] = a]) \subseteq WorldsOf(m) /\ [m EXCEPT ![c] = a] \in Memo
  BY DEF Memo, WorldsOf, Agrees, World, Verdict

\* Nothing a step does changes the policy or the stage.
LEMMA PolicyStands ==
    ASSUME FilterNext \/ UNCHANGED filterVars
    PROVE  /\ policy' = policy /\ stage' = stage /\ Applicable' = Applicable /\ Enforced' = Enforced
           /\ \A i : When(i)' = When(i) /\ Following(i)' = Following(i)
           /\ \A v : Meaning(v)' = Meaning(v)
  <1>1. policy' = policy /\ stage' = stage
    BY DEF FilterNext, filterVars, Build, AskCheck, NextRule
  <1>2. \A i : When(i)' = When(i)
    BY <1>1 DEF When
  <1>3. Applicable' = Applicable
    BY <1>1, <1>2 DEF Applicable
  <1>4. \A v : Meaning(v)' = Meaning(v)
    BY <1>1 DEF Meaning, When
  <1> QED  BY <1>1, <1>2, <1>3, <1>4 DEF Enforced, Following

LEMMA CurrentOK ==
    ASSUME FilterAssumption, FilterTypeOK, phase = "eval"
    PROVE  /\ Built /\ at \in Applicable /\ at \in Nat /\ When(at) \in Condition /\ memo \in Memo
           /\ policy.rules[at] \in Rule /\ Applicable # {} /\ Current \in Answer
           /\ Current = "pass" => \A v \in Worlds : Holds(v)[When(at)]
           /\ Current = "fail" => \A v \in Worlds : ~Holds(v)[When(at)]
           /\ Current \in Check => Current \in CheckNames[When(at)] /\ memo[Current] = "unasked"
  <1>1. Built /\ at \in Applicable
    BY DEF FilterTypeOK, Built
  <1>2. at \in Nat /\ When(at) \in Condition /\ policy.rules[at] \in Rule /\ Applicable # {}
    BY <1>1, BuiltOK
  <1>3. memo \in Memo /\ Current \in Answer
    BY <1>2, MemoOK, EvalFollows DEF Current
  <1>4. ASSUME NEW v \in Worlds
        PROVE  (Current = "pass" => Holds(v)[When(at)]) /\ (Current = "fail" => ~Holds(v)[When(at)])
    BY <1>2, <1>3, EvalSound, WorldsAre DEF Current
  <1>5. Current \in Check => Current \in CheckNames[When(at)] /\ memo[Current] = "unasked"
    BY <1>2, <1>3, AsksOwn DEF Current
  <1> QED  BY <1>1, <1>2, <1>3, <1>4, <1>5

\* The rules are taken in order, and none with a turn is passed over.
LEMMA FollowingOK ==
    ASSUME FilterAssumption, Built, NEW i \in Applicable
    PROVE  /\ Following(i) = {} => \A j \in Applicable : j <= i
           /\ Following(i) # {} => /\ Min(Following(i)) \in Applicable /\ i < Min(Following(i))
                                   /\ \A j \in Applicable : j < Min(Following(i)) => j <= i
  <1>1. Applicable \subseteq Nat /\ Following(i) \subseteq Applicable
    BY BuiltOK DEF Following
  <1>2. \A j \in Applicable : j \in Following(i) <=> ~(j <= i)
    BY <1>1 DEF Following
  <1>3. CASE Following(i) # {}
    <2> DEFINE n == Min(Following(i))
    <2>1. n \in Following(i) /\ \A j \in Following(i) : n <= j
      BY <1>1, <1>3, MinIsLeast
    <2> HIDE DEF n
    <2>2. n \in Applicable /\ i < n
      BY <2>1 DEF Following
    <2>3. \A j \in Applicable : j < n => j <= i
      BY <1>1, <1>2, <2>1, <2>2
    <2> QED  BY <1>3, <2>2, <2>3 DEF n
  <1> QED  BY <1>1, <1>2, <1>3

LEMMA FilterTypeInductive ==
    ASSUME FilterAssumption, FilterTypeOK, FilterNext \/ UNCHANGED filterVars
    PROVE  FilterTypeOK'
  <1>0. policy' = policy /\ stage' = stage /\ Applicable' = Applicable
    BY PolicyStands
  <1>1. CASE Build
    <2>1. Built \/ ~Builds(policy.rules)
      BY DEF Built, FilterTypeOK
    <2>2. Built /\ Applicable # {} => Min(Applicable) \in Applicable
      BY BuiltOK, MinIsLeast
    <2>3. phase' \in {"refused", "allow", "eval"} /\ (phase' \in {"allow", "eval"} => Builds(policy.rules))
      BY <1>1 DEF Build
    <2>4. phase' = "eval" => at' \in Applicable
      BY <1>1, <2>1, <2>2 DEF Build
    <2>5. memo' = memo /\ pending' = pending
      BY <1>1 DEF Build
    <2> QED  BY <1>0, <2>3, <2>4, <2>5 DEF FilterTypeOK
  <1>2. ASSUME NEW a \in Verdict, AskCheck(a) PROVE FilterTypeOK'
    <2>1. phase = "eval" /\ phase' = phase /\ at' = at /\ pending' = pending
          /\ Current \in Check /\ memo' = [memo EXCEPT ![Current] = a]
      BY <1>2 DEF AskCheck
    <2>2. memo' \in [Check -> Verdict \cup {"unasked"}]
      BY <2>1 DEF FilterTypeOK
    <2> QED  BY <1>0, <2>1, <2>2 DEF FilterTypeOK
  <1>3. CASE NextRule
    <2>1. phase = "eval" /\ memo' = memo
      BY <1>3 DEF NextRule
    <2>2. Built /\ at \in Applicable /\ policy.rules[at] \in Rule
      BY <2>1, CurrentOK
    <2>3. policy.rules[at].then \in {"allow", "deny"} /\ policy.default \in {"allow", "deny"}
      BY <2>2, RulesOK DEF Rule, Built
    <2>4. pending' \subseteq {"allow", "deny"}
      BY <1>3, <2>3 DEF NextRule, FilterTypeOK
    <2>5. \/ phase' \in {"allow", "deny", "undecided"}
          \/ phase' = "eval" /\ at' \in Applicable
      BY <1>3, <2>2, <2>3, FollowingOK DEF NextRule, Outcome
    <2> QED  BY <1>0, <2>1, <2>2, <2>4, <2>5 DEF FilterTypeOK, Built
  <1>4. CASE UNCHANGED filterVars
    BY <1>0, <1>4 DEF FilterTypeOK, filterVars
  <1> QED  BY <1>1, <1>2, <1>3, <1>4 DEF FilterNext

\* A turn, by how it goes on: this rule decides, none is left to, or the next has its turn.
LEMMA Turn ==
    ASSUME FilterAssumption, FilterTypeOK, NextRule
    PROVE  /\ phase = "eval" /\ memo' = memo /\ Worlds' = Worlds
           /\ \/ pending' = pending /\ ~(Current = "undecided" /\ policy.rules[at].mode = "enforce")
              \/ /\ pending' = pending \cup {policy.rules[at].then}
                 /\ Current = "undecided" /\ policy.rules[at].mode = "enforce"
           /\ \/ /\ Current = "pass" /\ policy.rules[at].mode = "enforce"
                 /\ phase' = Outcome(policy.rules[at].then, pending')
              \/ /\ ~(Current = "pass" /\ policy.rules[at].mode = "enforce")
                 /\ \/ Following(at) = {} /\ phase' = Outcome(policy.default, pending')
                    \/ Following(at) # {} /\ phase' = "eval" /\ at' = Min(Following(at))
  <1>1. memo' = memo
    BY DEF NextRule
  <1>2. Worlds' = Worlds
    BY <1>1 DEF Worlds
  <1> QED  BY <1>1, <1>2 DEF NextRule

\* When the rule under evaluation does not decide, it is accounted for too.
LEMMA TurnAccounted ==
    ASSUME FilterAssumption, FilterTypeOK, NextRule, Accounted(at),
           ~(Current = "pass" /\ policy.rules[at].mode = "enforce")
    PROVE  \A i \in Enforced : i <= at => \/ \A v \in Worlds : ~Holds(v)[When(i)]
                                          \/ policy.rules[i].then \in pending'
  <1> SUFFICES ASSUME NEW i \in Enforced, i <= at
               PROVE  (\A v \in Worlds : ~Holds(v)[When(i)]) \/ policy.rules[i].then \in pending'
    OBVIOUS
  <1>1. Built /\ at \in Nat /\ Current \in Answer
    BY CurrentOK, Turn
  <1>2. i \in Nat /\ policy.rules[i].mode = "enforce"
    BY <1>1, BuiltOK DEF Enforced
  <1>3. pending \subseteq pending'
    BY Turn
  <1>4. CASE i = at
    <2>1. Current \in Verdict
      BY DEF NextRule
    <2>2. Current = "fail" \/ Current = "undecided"
      BY <1>2, <1>4, <2>1 DEF Verdict
    <2> QED  BY <1>2, <1>4, <2>2, CurrentOK, Turn
  <1>5. CASE i # at
    <2>1. i < at
      BY <1>1, <1>2, <1>5
    <2> QED  BY <1>3, <2>1 DEF Accounted
  <1> QED  BY <1>4, <1>5

LEMMA AccountedInductive ==
    ASSUME FilterAssumption, FilterInv, FilterNext \/ UNCHANGED filterVars
    PROVE  FilterInv'
  <1> USE DEF FilterInv
  <1>0. FilterTypeOK'
    BY FilterTypeInductive
  <1> SUFFICES ASSUME phase' = "eval" PROVE Accounted(at)'
    BY <1>0
  <1> DEFINE Known(i) == \/ \A v \in Worlds' : ~Holds(v)[When(i)]
                         \/ policy.rules[i].then \in pending'
  <1> SUFFICES ASSUME NEW i \in Enforced, i < at' PROVE Known(i)
    BY PolicyStands DEF Accounted
  <1>1. CASE Build
    <2>1. Built /\ at' = Min(Applicable) /\ Applicable # {}
      BY <1>1 DEF Build, Built, FilterTypeOK
    <2>2. Applicable \subseteq Nat /\ i \in Applicable
      BY <2>1, BuiltOK DEF Enforced
    <2>3. at' \in Nat /\ at' <= i
      BY <2>1, <2>2, MinIsLeast
    <2> QED  BY <2>2, <2>3
  <1>2. ASSUME NEW a \in Verdict, AskCheck(a) PROVE Known(i)
    <2>1. phase = "eval" /\ at' = at /\ pending' = pending /\ Current \in Check
          /\ memo' = [memo EXCEPT ![Current] = a]
      BY <1>2 DEF AskCheck
    <2>2. memo \in Memo /\ memo[Current] = "unasked"
      BY <2>1, CurrentOK
    <2>3. WorldsOf(memo') \subseteq WorldsOf(memo)
      BY <2>1, <2>2, WorldsShrink
    <2>4. Worlds' \subseteq Worlds
      BY <2>3 DEF Worlds, WorldsOf, Agrees, World
    <2> QED  BY <2>1, <2>4 DEF Accounted
  <1>3. CASE NextRule
    <2>1. phase = "eval" /\ Worlds' = Worlds
      BY <1>3, Turn
    <2>2. Built /\ at \in Applicable /\ policy.rules[at] \in Rule
      BY <2>1, CurrentOK
    <2>3. ~(Current = "pass" /\ policy.rules[at].mode = "enforce") /\ Following(at) # {} /\ at' = Min(Following(at))
      <3>1. \A e \in {"allow", "deny"} : Outcome(e, pending') # "eval"
        BY DEF Outcome
      <3>2. policy.rules[at].then \in {"allow", "deny"} /\ policy.default \in {"allow", "deny"}
        BY <2>2, RulesOK DEF Rule, Built
      <3> QED  BY <1>3, <3>1, <3>2, Turn
    <2>4. i <= at
      BY <2>2, <2>3, FollowingOK DEF Enforced
    <2> QED  BY <1>3, <2>1, <2>3, <2>4, TurnAccounted
  <1>4. CASE UNCHANGED filterVars
    BY <1>4 DEF filterVars, Accounted, Worlds
  <1> QED  BY <1>1, <1>2, <1>3, <1>4 DEF FilterNext

LEMMA AnswersInductive ==
    ASSUME FilterAssumption, FilterInv, AnswerStands, FilterNext \/ UNCHANGED filterVars
    PROVE  AnswerStands'
  <1> USE DEF FilterInv
  <1> SUFFICES ASSUME phase' \in {"allow", "deny"}, NEW v \in Worlds' PROVE Meaning(v) = phase'
    BY PolicyStands DEF AnswerStands
  <1>1. CASE Build
    <2>1. Built /\ Applicable = {} /\ phase' = "allow"
      BY <1>1 DEF Build, Built, FilterTypeOK
    <2>2. v \in World
      BY DEF Worlds, World
    <2> QED  BY <2>1, <2>2, MeaningIs
  <1>2. ASSUME NEW a \in Verdict, AskCheck(a) PROVE FALSE
    BY <1>2 DEF AskCheck
  <1>3. CASE NextRule
    <2>1. phase = "eval" /\ v \in Worlds /\ v \in World
      BY <1>3, Turn, WorldsAre
    <2>2. Built /\ at \in Applicable /\ Applicable # {} /\ at \in Nat
      BY <2>1, CurrentOK
    <2>3. Holding(v) \subseteq Enforced /\ Enforced \subseteq Applicable /\ Applicable \subseteq Nat
          /\ \A i \in Holding(v) : Holds(v)[When(i)]
      BY <2>2, BuiltOK DEF Holding
    <2>4. CASE Current = "pass" /\ policy.rules[at].mode = "enforce"
      <3>1. phase' = Outcome(policy.rules[at].then, pending') /\ pending' = pending
        BY <1>3, <2>4, Turn
      <3>2. phase' = policy.rules[at].then /\ \A p \in pending : p = phase'
        BY <3>1 DEF Outcome
      <3>3. at \in Holding(v)
        BY <2>1, <2>2, <2>4, CurrentOK DEF Holding, Enforced
      <3>4. PICK i \in Holding(v) : (\A j \in Holding(v) : i <= j) /\ Meaning(v) = policy.rules[i].then
        BY <2>1, <2>2, <3>3, MeaningFrom
      <3>5. i = at \/ i < at
        BY <2>2, <2>3, <3>3, <3>4
      <3>6. i < at => policy.rules[i].then \in pending
        BY <2>1, <2>3, <3>4 DEF Accounted
      <3> QED  BY <3>2, <3>4, <3>5, <3>6
    <2>5. CASE ~(Current = "pass" /\ policy.rules[at].mode = "enforce")
      <3>1. Following(at) = {} /\ phase' = Outcome(policy.default, pending')
        BY <1>3, <2>5, Turn
      <3>2. phase' = policy.default /\ \A p \in pending' : p = phase'
        BY <3>1 DEF Outcome
      <3>3. ASSUME NEW i \in Holding(v) PROVE policy.rules[i].then = phase'
        <4>1. i <= at
          BY <2>2, <2>3, <3>1, FollowingOK
        <4> QED  BY <1>3, <2>1, <2>3, <2>5, <3>2, <4>1, TurnAccounted
      <3> QED  BY <2>1, <2>2, <3>2, <3>3, MeaningFrom
    <2> QED  BY <2>4, <2>5
  <1>4. CASE UNCHANGED filterVars
    BY <1>4 DEF filterVars, Worlds, AnswerStands
  <1> QED  BY <1>1, <1>2, <1>3, <1>4 DEF FilterNext

-----------------------------------------------------------------------------
\* FilterTypeOK, of every evaluation.
THEOREM FilterTypesHold ==
    FilterSpec => []FilterTypeOK
  <1>1. FilterInit => FilterTypeOK
    BY DEF FilterInit, FilterTypeOK
  <1>2. FilterTypeOK /\ [FilterNext]_filterVars => FilterTypeOK'
    BY FilterAssumption, FilterTypeInductive
  <1> QED  BY <1>1, <1>2, PTL DEF FilterSpec

\* AnswerStands, for any policy: what is allowed or denied is what the rules mean
\* whatever the checks that could not say, were skipped or were never reached would
\* have answered.
THEOREM AnswersStand ==
    FilterSpec => []AnswerStands
  <1>1. FilterInit => FilterInv /\ AnswerStands
    BY DEF FilterInit, FilterInv, FilterTypeOK, AnswerStands
  <1>2. FilterInv /\ AnswerStands /\ [FilterNext]_filterVars => FilterInv' /\ AnswerStands'
    BY FilterAssumption, AccountedInductive, AnswersInductive
  <1> QED  BY <1>1, <1>2, PTL DEF FilterSpec

-----------------------------------------------------------------------------
(* When each check is named once, every rule may go its own way.            *)

LEMMA Combine ==
    ASSUME FilterAssumption, Built, NamedOnce, NEW m \in Memo, NEW f \in [Applicable -> WorldsOf(m)]
    PROVE  \E x \in WorldsOf(m) : \A i \in Applicable : Holds(x)[When(i)] = Holds(f[i])[When(i)]
  <1>1. PICK z \in WorldsOf(m) : TRUE
    BY SomeWorld
  <1> DEFINE Of(c) == {i \in Applicable : c \in CheckNames[When(i)]}
             pick(c) == CHOOSE i \in Of(c) : TRUE
             x == [c \in Check |-> IF Of(c) = {} THEN z[c] ELSE f[pick(c)][c]]
  <1>2. ASSUME NEW c \in Check PROVE x[c] = z[c] \/ \E i \in Applicable : x[c] = f[i][c]
    <2>1. Of(c) # {} => pick(c) \in Applicable
      OBVIOUS
    <2> QED  BY <2>1
  <1>3. ASSUME NEW i \in Applicable, NEW c \in CheckNames[When(i)] PROVE c \in Check /\ x[c] = f[i][c]
    <2>1. When(i) \in Condition /\ c \in Check
      BY BuiltOK, CheckNamesFollow
    <2>2. Of(c) = {i}
      BY <1>3 DEF NamedOnce
    <2>3. pick(c) = i
      BY <2>2
    <2> QED  BY <2>1, <2>2, <2>3
  <1>4. x = [c \in Check |-> x[c]]
    OBVIOUS
  <1> HIDE DEF x
  <1>5. x \in WorldsOf(m)
    <2>1. ASSUME NEW c \in Check
          PROVE  x[c] \in BOOLEAN /\ (m[c] = "pass" => x[c]) /\ (m[c] = "fail" => ~x[c])
      <3>1. CASE x[c] = z[c]
        BY <1>1, <3>1 DEF WorldsOf, World, Agrees
      <3>2. ASSUME NEW i \in Applicable, x[c] = f[i][c]
            PROVE  x[c] \in BOOLEAN /\ (m[c] = "pass" => x[c]) /\ (m[c] = "fail" => ~x[c])
        <4>1. f[i] \in WorldsOf(m)
          OBVIOUS
        <4> QED  BY <3>2, <4>1 DEF WorldsOf, World, Agrees
      <3> QED  BY <1>2, <3>1, <3>2
    <2> QED  BY <1>4, <2>1 DEF WorldsOf, World, Agrees
  <1>6. ASSUME NEW i \in Applicable PROVE Holds(x)[When(i)] = Holds(f[i])[When(i)]
    <2>1. When(i) \in Condition /\ f[i] \in World /\ x \in World
      BY <1>5, BuiltOK DEF WorldsOf
    <2>2. \A c \in CheckNames[When(i)] : x[c] = f[i][c]
      BY <1>3
    <2> QED  BY <2>1, <2>2, HoldsLocal
  <1> QED  BY <1>5, <1>6

\* A rule that can still hold, before one that decides or the default, changes the answer.
LEMMA TwoMeanings ==
    ASSUME FilterAssumption, Built, NamedOnce, memo \in Memo,
           NEW i \in Enforced, CanHold(memo, When(i)),
           NEW D \in SUBSET Enforced, NEW e, policy.rules[i].then # e,
           \A j \in Enforced \ D : CanFail(memo, When(j)),
           \A d \in D : i < d,
           \/ D = {} /\ policy.default = e
           \/ \E d \in D : (\A j \in D : d <= j) /\ policy.rules[d].then = e /\ ~CanFail(memo, When(d))
    PROVE  \E v, w \in Worlds : Meaning(v) # Meaning(w)
  <1> DEFINE W == WorldsOf(memo)
             low == [j \in Applicable |-> IF CanFail(memo, When(j)) THEN CHOOSE v \in W : ~Holds(v)[When(j)]
                                          ELSE CHOOSE v \in W : TRUE]
             up == CHOOSE v \in W : Holds(v)[When(i)]
             high == [j \in Applicable |-> IF j = i THEN up ELSE low[j]]
  <1>0. Applicable \subseteq Nat /\ Enforced \subseteq Applicable /\ Applicable # {} /\ i \in Applicable
        /\ D \subseteq Applicable
    BY BuiltOK
  <1>1. ASSUME NEW j \in Applicable
        PROVE  low[j] \in W /\ (CanFail(memo, When(j)) => ~Holds(low[j])[When(j)])
    <2>1. (CHOOSE v \in W : TRUE) \in W
      BY SomeWorld
    <2>2. CanFail(memo, When(j)) => /\ (CHOOSE v \in W : ~Holds(v)[When(j)]) \in W
                                    /\ ~Holds(CHOOSE v \in W : ~Holds(v)[When(j)])[When(j)]
      BY DEF CanFail
    <2> QED  BY <2>1, <2>2
  <1>2. up \in W /\ Holds(up)[When(i)]
    BY DEF CanHold
  <1>3. low \in [Applicable -> W] /\ high \in [Applicable -> W] /\ high[i] = up
        /\ \A j \in Applicable : j # i => high[j] = low[j]
    BY <1>0, <1>1, <1>2
  <1> HIDE DEF low, high, up
  <1>4. PICK w \in W : \A j \in Applicable : Holds(w)[When(j)] = Holds(low[j])[When(j)]
    BY <1>3, Combine
  <1>5. PICK v \in W : \A j \in Applicable : Holds(v)[When(j)] = Holds(high[j])[When(j)]
    BY <1>3, Combine
  <1>6. v \in World /\ w \in World /\ v \in Worlds /\ w \in Worlds
    BY WorldsAre
  <1>7. ASSUME NEW j \in Enforced, CanFail(memo, When(j)) PROVE j \notin Holding(w) /\ (j # i => j \notin Holding(v))
    BY <1>0, <1>1, <1>3, <1>4, <1>5, <1>7 DEF Holding
  <1>8. Holding(w) \subseteq D
    BY <1>7 DEF Holding
  <1>9. Meaning(w) = e
    <2>1. CASE D = {} /\ policy.default = e
      BY <1>0, <1>6, <1>8, <2>1, MeaningIs
    <2>2. ASSUME NEW d \in D, \A j \in D : d <= j, policy.rules[d].then = e, ~CanFail(memo, When(d))
          PROVE  Meaning(w) = e
      <3>1. d \in Holding(w)
        BY <2>2 DEF Holding, CanFail
      <3> QED  BY <1>6, <1>8, <2>2, <3>1, FirstDecides
    <2> QED  BY <2>1, <2>2
  <1>10. Meaning(v) = policy.rules[i].then
    <2>1. i \in Holding(v)
      BY <1>0, <1>2, <1>3, <1>5 DEF Holding
    <2>2. Holding(v) \subseteq D \cup {i}
      BY <1>7 DEF Holding
    <2>3. \A j \in Holding(v) : i <= j
      BY <1>0, <2>2
    <2> QED  BY <1>6, <2>1, <2>3, FirstDecides
  <1> QED  BY <1>6, <1>9, <1>10

\* The rules with a turn before can each fail, and each pending effect is that of one
\* that can hold as well.
Swinging(n) ==
    /\ \A i \in Enforced : i < n => CanFail(memo, When(i))
    /\ \A p \in pending : \E i \in Enforced : i < n /\ CanHold(memo, When(i)) /\ policy.rules[i].then = p

UnknownInv == FilterTypeOK /\ (phase = "eval" /\ NamedOnce => Swinging(at))

\* What a check answers is nothing to a condition that does not name it.
LEMMA OthersKeep ==
    ASSUME FilterAssumption, NEW m \in Memo, NEW c \in Check, NEW a \in Verdict, m[c] = "unasked",
           NEW t \in Condition, c \notin CheckNames[t]
    PROVE  LET n == [m EXCEPT ![c] = a]
           IN (CanHold(m, t) => CanHold(n, t)) /\ (CanFail(m, t) => CanFail(n, t))
  <1> DEFINE n == [m EXCEPT ![c] = a]
  <1>1. ASSUME NEW v \in WorldsOf(m) PROVE \E x \in WorldsOf(n) : Holds(x)[t] = Holds(v)[t]
    <2> DEFINE x == [v EXCEPT ![c] = (a = "pass")]
    <2>1. v \in World /\ x \in World /\ \A d \in Check : d # c => x[d] = v[d] /\ n[d] = m[d]
      BY DEF WorldsOf, World, Memo
    <2>2. x[c] = (a = "pass") /\ n[c] = a
      BY DEF WorldsOf, World, Memo
    <2>3. x \in WorldsOf(n)
      BY <2>1, <2>2 DEF WorldsOf, Agrees
    <2>4. \A d \in CheckNames[t] : x[d] = v[d]
      BY <2>1, CheckNamesFollow
    <2> HIDE DEF x
    <2>5. Holds(x)[t] = Holds(v)[t]
      BY <2>1, <2>4, HoldsLocal
    <2> QED  BY <2>3, <2>5
  <1> QED  BY <1>1 DEF CanHold, CanFail

\* When the rule under evaluation does not decide, it swings or can fail too.
LEMMA TurnSwings ==
    ASSUME FilterAssumption, FilterTypeOK, NextRule, NamedOnce, Swinging(at),
           ~(Current = "pass" /\ policy.rules[at].mode = "enforce")
    PROVE  /\ \A i \in Enforced : i <= at => CanFail(memo, When(i))
           /\ \A p \in pending' : \E i \in Enforced : i <= at /\ CanHold(memo, When(i)) /\ policy.rules[i].then = p
  <1>1. phase = "eval" /\ Current \in Verdict
    BY DEF NextRule
  <1>2. Built /\ at \in Nat /\ at \in Applicable /\ memo \in Memo /\ When(at) \in Condition
    BY <1>1, CurrentOK
  <1>3. Enforced \subseteq Nat /\ \A i \in Enforced : i <= at <=> i < at \/ i = at
    BY <1>2, BuiltOK
  <1>4. Current = "undecided" => CanHold(memo, When(at)) /\ CanFail(memo, When(at))
    BY <1>2, EvalOpen DEF Current, NamedOnce, Applicable
  <1>5. Current = "fail" => CanFail(memo, When(at))
    BY <1>1, <1>2, CurrentOK, SomeWorld, WorldsAre DEF CanFail
  <1>6. ASSUME NEW i \in Enforced, i <= at PROVE CanFail(memo, When(i))
    <2>1. CASE i < at
      BY <2>1 DEF Swinging
    <2>2. CASE i = at
      <3>1. policy.rules[at].mode = "enforce"
        BY <2>2 DEF Enforced
      <3>2. Current = "fail" \/ Current = "undecided"
        BY <1>1, <3>1 DEF Verdict
      <3> QED  BY <1>4, <1>5, <2>2, <3>2
    <2> QED  BY <1>3, <1>6, <2>1, <2>2
  <1>7. ASSUME NEW p \in pending'
        PROVE  \E i \in Enforced : i <= at /\ CanHold(memo, When(i)) /\ policy.rules[i].then = p
    <2>1. CASE p \in pending
      BY <1>3, <2>1 DEF Swinging
    <2>2. CASE p \notin pending
      <3>1. p = policy.rules[at].then /\ Current = "undecided" /\ policy.rules[at].mode = "enforce"
        BY <2>2, Turn
      <3>2. at \in Enforced
        BY <1>2, <3>1 DEF Enforced
      <3> QED  BY <1>3, <1>4, <3>1, <3>2
    <2> QED  BY <2>1, <2>2
  <1> QED  BY <1>6, <1>7

LEMMA UnknownInductive ==
    ASSUME FilterAssumption, UnknownInv, FilterNext \/ UNCHANGED filterVars
    PROVE  UnknownInv'
  <1> USE DEF UnknownInv
  <1>0. FilterTypeOK'
    BY FilterTypeInductive
  <1>1. NamedOnce' = NamedOnce
    BY PolicyStands DEF NamedOnce
  <1> SUFFICES ASSUME phase' = "eval", NamedOnce PROVE Swinging(at)'
    BY <1>0, <1>1
  <1> DEFINE Fails == \A i \in Enforced : i < at' => CanFail(memo', When(i))
             Holdings == \A p \in pending' : \E i \in Enforced :
                             i < at' /\ CanHold(memo', When(i)) /\ policy.rules[i].then = p
  <1> SUFFICES Fails /\ Holdings
    BY PolicyStands DEF Swinging, CanHold, CanFail, WorldsOf, Agrees
  <1>2. CASE Build
    <2>1. Built /\ at' = Min(Applicable) /\ Applicable # {} /\ pending' = {}
      BY <1>2 DEF Build, Built, FilterTypeOK
    <2>2. Applicable \subseteq Nat /\ Enforced \subseteq Applicable
      BY <2>1, BuiltOK
    <2>3. at' \in Nat /\ \A i \in Applicable : at' <= i
      BY <2>1, <2>2, MinIsLeast
    <2> QED  BY <2>1, <2>2, <2>3
  <1>3. ASSUME NEW a \in Verdict, AskCheck(a) PROVE Fails /\ Holdings
    <2>1. phase = "eval" /\ at' = at /\ pending' = pending /\ Current \in Check
          /\ memo' = [memo EXCEPT ![Current] = a]
      BY <1>3 DEF AskCheck
    <2>2. memo \in Memo /\ memo[Current] = "unasked" /\ Current \in CheckNames[When(at)]
          /\ Built /\ at \in Applicable /\ at \in Nat
      BY <2>1, CurrentOK
    <2>3. Swinging(at)
      BY <2>1
    <2>4. ASSUME NEW i \in Enforced, i < at
          PROVE  /\ CanHold(memo, When(i)) => CanHold(memo', When(i))
                 /\ CanFail(memo, When(i)) => CanFail(memo', When(i))
      <3>1. i \in Applicable /\ i \in Nat /\ When(i) \in Condition
        BY <2>2, BuiltOK
      <3>2. i # at
        BY <2>2, <2>4, <3>1
      <3>3. Current \notin CheckNames[When(i)]
        BY <2>2, <3>1, <3>2 DEF NamedOnce
      <3> QED  BY <2>1, <2>2, <3>1, <3>3, OthersKeep
    <2> QED  BY <2>1, <2>3, <2>4 DEF Swinging
  <1>4. CASE NextRule
    <2>1. phase = "eval" /\ memo' = memo
      BY <1>4, Turn
    <2>2. Built /\ at \in Applicable /\ at \in Nat /\ policy.rules[at] \in Rule
      BY <2>1, CurrentOK
    <2>3. ~(Current = "pass" /\ policy.rules[at].mode = "enforce") /\ Following(at) # {} /\ at' = Min(Following(at))
      <3>1. \A e \in {"allow", "deny"} : Outcome(e, pending') # "eval"
        BY DEF Outcome
      <3>2. policy.rules[at].then \in {"allow", "deny"} /\ policy.default \in {"allow", "deny"}
        BY <2>2, RulesOK DEF Rule, Built
      <3> QED  BY <1>4, <3>1, <3>2, Turn
    <2>4. Applicable \subseteq Nat /\ Enforced \subseteq Applicable /\ at' \in Applicable
      BY <2>2, <2>3, BuiltOK, FollowingOK
    <2>5. \A i \in Enforced : i < at' <=> i <= at
      BY <2>2, <2>3, <2>4, FollowingOK
    <2> QED  BY <1>4, <2>1, <2>3, <2>5, TurnSwings
  <1>5. CASE UNCHANGED filterVars
    BY <1>5 DEF filterVars, Swinging
  <1> QED  BY <1>2, <1>3, <1>4, <1>5 DEF FilterNext

LEMMA UnknownsInductive ==
    ASSUME FilterAssumption, UnknownInv, UnknownMatters, FilterNext \/ UNCHANGED filterVars
    PROVE  UnknownMatters'
  <1> USE DEF UnknownInv
  <1>1. NamedOnce' = NamedOnce
    BY PolicyStands DEF NamedOnce
  <1> SUFFICES ASSUME phase' = "undecided", NamedOnce PROVE \E v, w \in Worlds' : Meaning(v) # Meaning(w)
    BY <1>1, PolicyStands DEF UnknownMatters
  <1>2. CASE Build
    BY <1>2 DEF Build
  <1>3. ASSUME NEW a \in Verdict, AskCheck(a) PROVE FALSE
    BY <1>3 DEF AskCheck
  <1>4. CASE NextRule
    <2>1. phase = "eval" /\ Worlds' = Worlds
      BY <1>4, Turn
    <2>2. Built /\ at \in Applicable /\ at \in Nat /\ memo \in Memo /\ policy.rules[at] \in Rule
      BY <2>1, CurrentOK
    <2>3. Enforced \subseteq Applicable /\ Applicable \subseteq Nat /\ Swinging(at)
      BY <2>1, <2>2, BuiltOK
    <2>4. CASE Current = "pass" /\ policy.rules[at].mode = "enforce"
      <3> DEFINE e == policy.rules[at].then
                 D == {j \in Enforced : at <= j}
      <3>1. phase' = Outcome(e, pending) /\ e \in {"allow", "deny"}
        BY <1>4, <2>2, <2>4, Turn DEF Rule
      <3>2. PICK p \in pending : p # e
        BY <3>1 DEF Outcome
      <3>3. PICK i \in Enforced : i < at /\ CanHold(memo, When(i)) /\ policy.rules[i].then = p
        BY <2>3 DEF Swinging
      <3>4. at \in D /\ \A j \in D : at <= j /\ i < j
        BY <2>2, <2>3, <2>4, <3>3 DEF Enforced
      <3>5. ~CanFail(memo, When(at))
        BY <2>1, <2>4, CurrentOK, WorldsAre DEF CanFail
      <3>6. \A j \in Enforced \ D : CanFail(memo, When(j))
        BY <2>2, <2>3 DEF Swinging
      <3>7. D \in SUBSET Enforced /\ policy.rules[i].then # e
        BY <3>2, <3>3
      <3> HIDE DEF D
      <3> QED  BY <2>1, <2>2, <3>3, <3>4, <3>5, <3>6, <3>7, TwoMeanings
    <2>5. CASE ~(Current = "pass" /\ policy.rules[at].mode = "enforce")
      <3> DEFINE e == policy.default
      <3>1. Following(at) = {} /\ phase' = Outcome(e, pending') /\ e \in {"allow", "deny"}
        BY <1>4, <2>2, <2>5, Turn, RulesOK DEF Built
      <3>2. PICK p \in pending' : p # e
        BY <3>1 DEF Outcome
      <3>3. \A j \in Enforced : j <= at /\ CanFail(memo, When(j))
        BY <1>4, <2>2, <2>3, <2>5, <3>1, FollowingOK, TurnSwings
      <3>4. PICK i \in Enforced : CanHold(memo, When(i)) /\ policy.rules[i].then = p
        BY <1>4, <2>3, <2>5, TurnSwings
      <3>5. {} \in SUBSET Enforced
        OBVIOUS
      <3> QED  BY <2>1, <2>2, <3>2, <3>3, <3>4, <3>5, TwoMeanings
    <2> QED  BY <2>4, <2>5
  <1>5. CASE UNCHANGED filterVars
    BY <1>5 DEF filterVars, Worlds, UnknownMatters
  <1> QED  BY <1>2, <1>3, <1>4, <1>5 DEF FilterNext

\* UnknownMatters, for any policy that names no check twice at this stage: it is put
\* off only if the checks that could not say can still decide it either way.
THEOREM UnknownsMatter ==
    FilterSpec => []UnknownMatters
  <1>1. FilterInit => UnknownInv /\ UnknownMatters
    BY DEF FilterInit, UnknownInv, FilterTypeOK, UnknownMatters
  <1>2. UnknownInv /\ UnknownMatters /\ [FilterNext]_filterVars => UnknownInv' /\ UnknownMatters'
    BY FilterAssumption, UnknownInductive, UnknownsInductive
  <1> QED  BY <1>1, <1>2, PTL DEF FilterSpec
=============================================================================
