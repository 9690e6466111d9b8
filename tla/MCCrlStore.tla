----------------------------- MODULE MCCrlStore -----------------------------
(* Instances of CrlStore for model checking.                               *)
EXTENDS CrlStore, TLC

\* Certificates whose expiry is known expire at once.
ExpireAtZero == [s \in Serial |-> 0]

\* Every task runs in a process of its own.
Apart == [t \in Task |-> t]

Symmetry == Permutations(Task)
=============================================================================
