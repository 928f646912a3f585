----------------------------- MODULE MCBreaker -----------------------------
(* Two requests of one backend, with ejections of two ticks.                 *)
EXTENDS Breaker
CONSTANTS a, b
MCRequests == {a, b}
=============================================================================
