---------------------------- MODULE MCBackendChain ----------------------------
(* Two request slots, so that two requests are in flight at once, over two  *)
(* keys and a cache that holds one entry, so that a cache fill of one key   *)
(* must first evict the other.  Values carry one of two contents.           *)
EXTENDS BackendChain

CONSTANTS r1, r2, k1, k2, d1, d2

MCReqs == {r1, r2}
MCKeys == {k1, k2}
MCData == {d1, d2}
MCOneKey == {k1}
=============================================================================
