--------------------------- MODULE MCRetryBudget ---------------------------
(* An instance of RetryBudget for TLC: one job that up to three slots hold    *)
(* at the same time.                                                         *)
EXTENDS RetryBudget, TLC

CONSTANTS j1, s1, s2, s3

OneJob     == {j1}
ThreeSlots == {s1, s2, s3}
Symmetry   == Permutations(Slots)

Env(initial, max, retries) == [initial |-> initial, max |-> max, retries |-> retries]

\* Unset, useless and plausible settings; a cap below and above the intervals; fewer
\* and more retries than the task has, and numbers that do not fit their 32 bits and
\* become another positive one, or a negative one.
Allowed == {{}, {0}, {1}, {6}, {2 * Word + 4}, {2 * Word - 3}}
SomeEnvironments == {Env(i, {}, r) : i \in {{}, {-1}, {2}}, r \in Allowed}
                    \cup {Env({3}, m, {5}) : m \in {{0}, {2}, {10}}}
=============================================================================
