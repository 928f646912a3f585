------------------------------ MODULE MCProxy ------------------------------
(* Two requests that compete for one tunnel, for a budget smaller than two   *)
(* bodies, and never for permits, so that both can spool at once.            *)
EXTENDS Proxy, TLC

CONSTANTS a, b

MCRequests == {a, b}
Symmetry == Permutations(MCRequests)
=============================================================================
