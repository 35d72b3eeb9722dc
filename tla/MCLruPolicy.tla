----------------------------- MODULE MCLruPolicy -----------------------------
(* Four keys and a scan window of two nodes, so that lists up to twice as *)
(* long as the window occur and lru_policy_evict can give up with unpinned *)
(* nodes still on the list; up to two pins per key, so that a pin can be  *)
(* released while another is held.  Only "lru" is registered, and a     *)
(* caller may ask for an unknown name.                                    *)
EXTENDS LruPolicy, TLC

CONSTANTS k1, k2, k3, k4

MCKeys == {k1, k2, k3, k4}
MCEvictScan == 2
MCMaxPins == 2
MCRegistered == {"lru"}
MCNames == {"lru", "fifo"}
KeySymmetry == Permutations(MCKeys)
=============================================================================
