----------------------------- MODULE MCCacheSim -----------------------------
(***************************************************************************)
(* A two-level hierarchy for TLC, 2-way caches of 2-byte lines: d1 of two  *)
(* sets and i1 of one, under a shared l2 of one set.  The addresses give   *)
(* a set of each cache more tags than ways, so that sets fill, hit, and    *)
(* evict, and an access of 2 bytes at an odd address spans two lines.      *)
(***************************************************************************)
EXTENDS CacheSim

CONSTANTS b1, b2

MCCaches == {"d1", "i1", "l2"}
MCCacheOrder == <<"d1", "i1", "l2">>
MCSize == ("d1" :> 8) @@ ("i1" :> 4) @@ ("l2" :> 8)
MCAssoc == [c \in MCCaches |-> 2]
MCLineSize == ("d1" :> 2) @@ ("i1" :> 2) @@ ("l2" :> 4)
MCUpper == ("d1" :> "l2") @@ ("i1" :> "l2") @@ ("l2" :> None)
MCBlockPc == (b1 :> 0) @@ (b2 :> 6)
MCBlockSize == (b1 :> 2) @@ (b2 :> 2)
MCIdVals == {7}

\* floorLog2 against the largest k with 2^k <= n.
ASSUME \A n \in 1..1100 : FloorLog2(n) = CHOOSE k \in 0..20 : 2^k <= n /\ n < 2^(k + 1)
ASSUME FloorLog2(0) = Invalid

=============================================================================
