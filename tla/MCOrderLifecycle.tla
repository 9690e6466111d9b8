--------------------------- MODULE MCOrderLifecycle ---------------------------
(* Instances of OrderLifecycle for TLC. *)
EXTENDS OrderLifecycle, TLC

CONSTANTS a1, a2, c1, c2, c3

\* One authorization with one challenge; two, of which the second has two.
OneEach == [c \in Chall |-> IF c = c1 THEN a1 ELSE a2]

AllButResend == Mishap \ {"resend"}

Symmetry == Permutations(Job) \cup Permutations(Worker)

\* With two challenges of one authorization.
AcmeSymmetry == Symmetry \cup Permutations({c2, c3})
=============================================================================
