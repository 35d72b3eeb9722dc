------------------------------- MODULE MCBuddy -------------------------------
(* Buddy with an arena of 8 blocks: 15 tree nodes, three levels of         *)
(* splitting and coalescing.  The requests cover a single block, each run  *)
(* length, sizes that round up (3 -> 4, 6 -> 8) and one larger than the   *)
(* whole arena (9 -> 16), which must fail.                                 *)
EXTENDS Buddy

MCNMEMB == 8
MCRequests == {1, 2, 3, 4, 6, 9}
=============================================================================
