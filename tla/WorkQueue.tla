------------------------------ MODULE WorkQueue ------------------------------
(***************************************************************************)
(* The cross-thread work queue of lib/workqueue.c, with the event loop of *)
(* lib/event.c that drains it.                                             *)
(*                                                                         *)
(* One target thread owns the queue: it sleeps in epoll_wait on the queue's *)
(* eventfd and, when woken, runs priskv_workqueue_process.  Producer        *)
(* threads add works under works_lock and then write the eventfd (kick).   *)
(* A synchronous call then waits on the work's condition variable until   *)
(* done; an asynchronous submit returns at once.                           *)
(*                                                                         *)
(* ready is "the eventfd counter is not zero": set by a kick's write,     *)
(* cleared by the ack's read.  The registration helper is not in this      *)
(* tree; edge- or level-triggered, epoll_wait reports the fd while ready   *)
(* holds and the loop waits, and the handler acks first, so both readings  *)
(* give the same steps.  EventTable uses the same reading.                 *)
(*                                                                         *)
(* The drain loop is list_for_each_safe: the next node (tmp) is read under *)
(* the lock before the work is unlinked, the lock is dropped while the     *)
(* work runs, and the loop stops when tmp was the list head, even if works *)
(* were added meanwhile.  more is "tmp was not the head".                  *)
(*                                                                         *)
(* priskv_workqueue_destroy, on the target thread once its loop has left  *)
(* epoll_wait, runs the same drain a last time and then closes and frees. *)
(***************************************************************************)
EXTENDS Naturals, Sequences, FiniteSets

CONSTANTS Producers,  \* threads that call or submit to the queue
          MaxOps,     \* works each producer queues, in total
          NONE

\* A work: who queued it, its sequence number for that producer, and
\* whether it is a priskv_workqueue_call (sync) or a submit.
Work == [p : Producers, n : 1..MaxOps, sync : BOOLEAN]

VARIABLES works,    \* wq->works, head first
          ready,    \* the eventfd counter is not zero (written, not acked)
          cpc,      \* the target thread: "wait", "take" or "run"
          cur,      \* the work being run, or NONE
          more,     \* tmp of list_for_each_safe was not the list head
          done,     \* works whose func has returned and whose caller was signalled
          ran,      \* the works in the order their func ran
          ppc,      \* per producer: "idle", "kick" or "wait"
          pending,  \* per producer: its current work, or NONE
          nops,     \* per producer: works queued so far
          dying     \* priskv_workqueue_destroy has started

vars == <<works, ready, cpc, cur, more, done, ran, ppc, pending, nops, dying>>

\* priskv_workqueue_create: an empty list, a fresh eventfd.
Init == /\ works = <<>>
        /\ ready = FALSE
        /\ cpc = "wait"
        /\ cur = NONE
        /\ more = FALSE
        /\ done = {}
        /\ ran = <<>>
        /\ ppc = [p \in Producers |-> "idle"]
        /\ pending = [p \in Producers |-> NONE]
        /\ nops = [p \in Producers |-> 0]
        /\ dying = FALSE

\* Mutant: the work is added at the head of the list (list_add).
QueueWorkAtHead(p, sync) ==
    /\ ppc[p] = "idle"
    /\ ~dying
    /\ nops[p] < MaxOps
    /\ LET w == [p |-> p, n |-> nops[p] + 1, sync |-> sync] IN
       /\ works' = <<w>> \o works
       /\ pending' = [pending EXCEPT ![p] = w]
    /\ nops' = [nops EXCEPT ![p] = @ + 1]
    /\ ppc' = [ppc EXCEPT ![p] = "kick"]
    /\ UNCHANGED <<ready, cpc, cur, more, done, ran, dying>>

\* The first half of priskv_workqueue_call (sync) or _submit: priskv_work_init
\* and list_add_tail under works_lock.
QueueWork(p, sync) ==
    /\ ppc[p] = "idle"
    /\ ~dying
    /\ nops[p] < MaxOps
    /\ LET w == [p |-> p, n |-> nops[p] + 1, sync |-> sync] IN
       /\ works' = Append(works, w)
       /\ pending' = [pending EXCEPT ![p] = w]
    /\ nops' = [nops EXCEPT ![p] = @ + 1]
    /\ ppc' = [ppc EXCEPT ![p] = "kick"]
    /\ UNCHANGED <<ready, cpc, cur, more, done, ran, dying>>

\* Mutant: a submit leaves the eventfd alone, only a call writes it.
KickOnlyCalls(p) ==
    /\ ppc[p] = "kick"
    /\ ready' = IF pending[p].sync THEN TRUE ELSE ready
    /\ ppc' = [ppc EXCEPT ![p] = IF pending[p].sync THEN "wait" ELSE "idle"]
    /\ UNCHANGED <<works, cpc, cur, more, done, ran, pending, nops, dying>>

\* priskv_workqueue_kick: write 1 to the eventfd, arming a wake-up.  A
\* submit returns; a call goes on to wait for its work.
priskv_workqueue_kick(p) ==
    /\ ppc[p] = "kick"
    /\ ready' = TRUE
    /\ ppc' = [ppc EXCEPT ![p] = IF pending[p].sync THEN "wait" ELSE "idle"]
    /\ UNCHANGED <<works, cpc, cur, more, done, ran, pending, nops, dying>>

\* The end of priskv_workqueue_call: the while (!work.done) cond_wait loop
\* exits once the work is done, and the call returns its retval.
CallReturn(p) ==
    /\ ppc[p] = "wait"
    /\ pending[p] \in done
    /\ ppc' = [ppc EXCEPT ![p] = "idle"]
    /\ pending' = [pending EXCEPT ![p] = NONE]
    /\ UNCHANGED <<works, ready, cpc, cur, more, done, ran, nops, dying>>

\* priskv_events_process on the target thread: epoll_wait reports the
\* armed eventfd, the handler looked up by priskv_fd_handler_event is
\* priskv_workqueue_process, which acks the eventfd and takes works_lock.
Dispatch ==
    /\ cpc = "wait"
    /\ ready
    /\ ready' = FALSE
    /\ cpc' = "take"
    /\ UNCHANGED <<works, cur, more, done, ran, ppc, pending, nops, dying>>

\* Where the target thread goes when the drain loop ends: back to
\* epoll_wait, or, inside priskv_workqueue_destroy, on to close the eventfd
\* and free the queue.
Idle == IF dying THEN "closed" ELSE "wait"

\* One test of the list_for_each_safe loop under works_lock: the head work
\* is unlinked and tmp read, or the loop ends on an empty list.
TakeWork ==
    /\ cpc = "take"
    /\ IF works = <<>>
       THEN /\ cpc' = Idle
            /\ UNCHANGED <<works, cur, more>>
       ELSE /\ cur' = Head(works)
            /\ more' = (Len(works) > 1)
            /\ works' = Tail(works)
            /\ cpc' = "run"
    /\ UNCHANGED <<ready, done, ran, ppc, pending, nops, dying>>

\* Mutant: the completion signals the submitted works, not the calls.
RunWorkSignalsAsync ==
    /\ cpc = "run"
    /\ ran' = Append(ran, cur)
    /\ done' = IF ~cur.sync THEN done \cup {cur} ELSE done
    /\ cur' = NONE
    /\ cpc' = IF more THEN "take" ELSE Idle
    /\ UNCHANGED <<works, ready, more, ppc, pending, nops, dying>>

\* Mutant: every work is signalled, a freed submitted one included.
RunWorkSignalsAll ==
    /\ cpc = "run"
    /\ ran' = Append(ran, cur)
    /\ done' = done \cup {cur}
    /\ cur' = NONE
    /\ cpc' = IF more THEN "take" ELSE Idle
    /\ UNCHANGED <<works, ready, more, ppc, pending, nops, dying>>

\* Mutant: one work per wake-up, the loop ends after the first work.
RunWorkOnce ==
    /\ cpc = "run"
    /\ ran' = Append(ran, cur)
    /\ done' = IF cur.sync THEN done \cup {cur} ELSE done
    /\ cur' = NONE
    /\ cpc' = "wait"
    /\ UNCHANGED <<works, ready, more, ppc, pending, nops, dying>>

\* The body of the loop with the lock dropped: run func, then signal a
\* call's waiter (done = true under work->mutex) or free a submitted work;
\* retake works_lock and go on only if tmp was not the head.
RunWork ==
    /\ cpc = "run"
    /\ ran' = Append(ran, cur)
    /\ done' = IF cur.sync THEN done \cup {cur} ELSE done
    /\ cur' = NONE
    /\ cpc' = IF more THEN "take" ELSE Idle
    /\ UNCHANGED <<works, ready, more, ppc, pending, nops, dying>>

\* priskv_workqueue_destroy on the target thread, outside its event loop:
\* priskv_workqueue_process acks the eventfd and drains the list; the
\* eventfd is closed and the queue freed when the drain returns.  Its
\* callers must have stopped queueing: no producer is between its
\* list_add_tail and its eventfd write, which would touch the freed queue.
priskv_workqueue_destroy ==
    /\ cpc = "wait"
    /\ ~dying
    /\ \A p \in Producers : ppc[p] # "kick"
    /\ dying' = TRUE
    /\ ready' = FALSE
    /\ cpc' = "take"
    /\ UNCHANGED <<works, cur, more, done, ran, ppc, pending, nops>>

Next == \/ \E p \in Producers, s \in BOOLEAN : QueueWork(p, s)
        \/ \E p \in Producers : priskv_workqueue_kick(p) \/ CallReturn(p)
        \/ Dispatch \/ TakeWork \/ RunWork
        \/ priskv_workqueue_destroy

\* The target thread is always scheduled, and a producer between the
\* unlock and the eventfd write, or woken by the signal, runs on.
Fairness == /\ WF_vars(Dispatch) /\ WF_vars(TakeWork) /\ WF_vars(RunWork)
            /\ \A p \in Producers : WF_vars(priskv_workqueue_kick(p))
                                    /\ WF_vars(CallReturn(p))

Spec == Init /\ [][Next]_vars /\ Fairness

-----------------------------------------------------------------------------
TypeOK == /\ works \in Seq(Work)
          /\ ready \in BOOLEAN
          /\ cpc \in {"wait", "take", "run", "closed"}
          /\ cur \in Work \cup {NONE}
          /\ more \in BOOLEAN
          /\ done \subseteq {w \in Work : w.sync}
          /\ ran \in Seq(Work)
          /\ ppc \in [Producers -> {"idle", "kick", "wait"}]
          /\ pending \in [Producers -> Work \cup {NONE}]
          /\ nops \in [Producers -> 0..MaxOps]
          /\ dying \in BOOLEAN

\* No lost wake-up: whenever the target thread sleeps in epoll_wait with no
\* wake-up armed, every queued work belongs to a producer that has not
\* yet written the eventfd.  The drain loop that ends on a stale tmp, the
\* ack before the drain and one wake-up for many kicks must together never
\* leave a work behind a sleeping consumer.
NoStrandedWork ==
    cpc = "wait" /\ ~ready =>
        \A i \in 1..Len(works) : /\ ppc[works[i].p] = "kick"
                                 /\ pending[works[i].p] = works[i]

\* The works queued and not yet run, oldest first: the one the drain loop
\* has unlinked and is running, then the list.
Pending == IF cpc = "run" THEN <<cur>> \o works ELSE works

Fifo == INSTANCE WorkQueueFifo WITH Works <- Work, queue <- Pending, ran <- ran

\* The queue implements WorkQueueFifo under the mapping queue <- Pending:
\* across all producers the works run one at a time, each once, in the
\* order list_add_tail linked them, and while works are pending one of
\* them eventually runs.  The drain loop that unlinks a work before
\* running it with the lock dropped, works linked meanwhile, and wake-ups
\* shared between kicks must add up to that plain queue.
WorkQueueImplementsFifo == Fifo!Spec

\* Every priskv_workqueue_call eventually returns.
CallEventuallyReturns ==
    \A p \in Producers : ppc[p] = "wait" ~> ppc[p] = "idle"
====
