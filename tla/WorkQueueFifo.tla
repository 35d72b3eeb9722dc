---------------------------- MODULE WorkQueueFifo ----------------------------
(***************************************************************************)
(* What a PrisKV work queue promises (spec 4.7): the works queued to one   *)
(* thread run there one at a time, each once, in the order they were      *)
(* queued, and a queued work does not wait for ever.  No threads, locks,   *)
(* eventfd or drain loop: a work is appended, and the oldest one runs.     *)
(***************************************************************************)
EXTENDS Sequences

CONSTANT Works   \* the works callers can queue

VARIABLES queue,  \* works queued and not yet run, oldest first
          ran     \* works run, in order

Init == queue = <<>> /\ ran = <<>>

\* A caller queues a work.
Enqueue(w) == /\ queue' = Append(queue, w)
              /\ UNCHANGED ran

\* The queue's thread runs the oldest work.
Execute == /\ queue # <<>>
           /\ ran' = Append(ran, Head(queue))
           /\ queue' = Tail(queue)

Next == (\E w \in Works : Enqueue(w)) \/ Execute

\* The owning thread keeps running works while any is queued.
Spec == Init /\ [][Next]_<<queue, ran>> /\ WF_<<queue, ran>>(Execute)
=============================================================================
