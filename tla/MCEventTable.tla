---------------------------- MODULE MCEventTable ----------------------------
(* Three threads and three fd numbers with PRISKV_FDS_GROW scaled to 2:   *)
(* the third queue's fd grows the table while the others dispatch, and a  *)
(* thread that destroys its queue and creates another gets a lower fd     *)
(* than one already in the table.  Three queues per thread so that an fd  *)
(* number is reused more than once, by the same thread or another.        *)
EXTENDS EventTable

CONSTANTS t1, t2, t3

MCThreads == {t1, t2, t3}
=============================================================================
