----------------------------- MODULE MCUpstream -----------------------------
(* Two backends, so that the cap on ejections is one.                         *)
EXTENDS Upstream, TLC
CONSTANTS r1, r2
MCRequests == {r1, r2}
Symmetry == Permutations(MCRequests)
=============================================================================
