--------------------------- MODULE MCRetryBudget ---------------------------
(* A ring shared by three threads of a breaker, or by three requests.    *)
EXTENDS RetryBudget, TLC

CONSTANTS t1, t2, t3

MCThreads == {t1, t2, t3}
Symmetry == Permutations({t1, t2, t3})
=============================================================================
