------------------------------ MODULE MCJobQueue ------------------------------
(* Instances of JobQueue for TLC. *)
EXTENDS JobQueue, TLC

\* One key whose handler needs more than the default lease.
LongBudget == [k \in Key |-> 2]
ShortBudget == [k \in Key |-> 1]

\* What handlers answer; a timeout or a panic makes any of them a Retry.
DoneOutcomes == [k \in Key |-> {"Done"}]
RetryOutcomes == [k \in Key |-> {"Retry"}]
SweepOutcomes == [k \in Key |-> {"Reschedule", "Failed"}]

AllKeys == {Key}
DueAtOnce == {0}
OnlyNoDeadline == {NoDeadline}

Symmetry == Permutations(Job) \cup Permutations(Slot) \cup Permutations(Runner)
=============================================================================
