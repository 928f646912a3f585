----------------------------- MODULE MCLimiter -----------------------------
(***************************************************************************)
(* Three requests, one of them twice as heavy, on ceilings 2 and 3.        *)
(***************************************************************************)
EXTENDS Limiter, TLC

CONSTANTS a, b, c

MCRequests == {a, b, c}
MCWeight == (a :> 1) @@ (b :> 1) @@ (c :> 2)
=============================================================================
