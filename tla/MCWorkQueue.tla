---------------------------- MODULE MCWorkQueue ----------------------------
(* Two producers of three works each: enough for a work to be queued     *)
(* while the drain loop runs, for several kicks to share one wake-up, for  *)
(* a call and submits to be mixed in one queue, and for a producer to     *)
(* queue again after its first call returned.                              *)
EXTENDS WorkQueue

CONSTANTS p1, p2

MCProducers == {p1, p2}
MCMaxOps == 3
=============================================================================
