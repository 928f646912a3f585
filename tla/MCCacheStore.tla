---------------------------- MODULE MCCacheStore ----------------------------
(* Instances of the cache store: two variants of one page.                 *)
EXTENDS CacheStore, TLC

CONSTANTS html, rsc, page, tag, r

MCKeys == {html, rsc}
MCPathOf == [k \in MCKeys |-> page]
MCTags == {tag}
MCReaders == {r}
TwoFills == 1 .. 2
AllPurges == PurgeRequests
Symmetry == Permutations(MCKeys)
=============================================================================
