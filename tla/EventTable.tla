------------------------------ MODULE EventTable ------------------------------
(***************************************************************************)
(* The process-wide fd -> handler table of lib/event.c, shared by the      *)
(* threads that each own a work queue (lib/workqueue.c) and an epoll set.  *)
(*                                                                         *)
(* priskv_set_fd_handler grows the table under the write lock with        *)
(* reallocarray, to the next multiple of PRISKV_FDS_GROW above the fd, and *)
(* fills the entry.  A thread's event loop (priskv_events_process) reads   *)
(* priskv_fds for its assert without the lock, copies the entry under the  *)
(* read lock, and calls the copy with the lock dropped.                    *)
(*                                                                         *)
(* Each thread in turn creates a work queue (malloc, eventfd, set the      *)
(* handler, add the fd to its epoll set), is kicked and dispatches, and    *)
(* destroys it (drain, close, free), which leaves the table entry behind. *)
(* The kernel gives eventfd() the lowest closed fd, so a destroyed queue's *)
(* fd number is reused by the next queue created in any thread.            *)
(*                                                                         *)
(* The opaque of an entry is the work queue object, named <<t, g>> for the *)
(* g-th queue thread t created; JUNK is memory reallocarray did not      *)
(* initialise.  The pollin handler is always priskv_workqueue_process and  *)
(* pollout is NULL, so an entry is its opaque.                            *)
(***************************************************************************)
EXTENDS Naturals, FiniteSets, TLC

CONSTANTS Threads,  \* threads with an event loop and a work queue
          NFd,      \* fd numbers the kernel can hand out: 0..NFd-1
          GROW,     \* PRISKV_FDS_GROW
          MaxGen,   \* work queues each thread creates, in total
          NONE,
          JUNK      \* memory reallocarray or malloc did not initialise

ASSUME NFd >= Cardinality(Threads) /\ GROW >= 1

FdNum == 0..(NFd - 1)
Queue == Threads \X (1..MaxGen)

VARIABLES priskv_fds,   \* entries the table has room for
          fd_handlers,  \* fd -> opaque, or JUNK; meaningful below priskv_fds
          kopen,        \* fd -> whether the kernel has it open
          live,         \* work queues malloc'd and not freed
          ready,        \* per thread: its eventfd counter is not zero
          th            \* per thread: pc, fd, gen and the copied handler

vars == <<priskv_fds, fd_handlers, kopen, live, ready, th>>

\* The work queue thread t holds now.
Wq(t) == <<t, th[t].gen>>

\* static int priskv_fds; static priskv_fd_handler *fd_handlers: zero and NULL.
Init == /\ priskv_fds = 0
        /\ fd_handlers = [i \in FdNum |-> JUNK]
        /\ kopen = [i \in FdNum |-> FALSE]
        /\ live = {}
        /\ ready = [t \in Threads |-> FALSE]
        /\ th = [t \in Threads |-> [pc |-> "none", fd |-> NONE, gen |-> 0, copy |-> NONE]]

AlignUp(x, a) == ((x + a - 1) \div a) * a

\* reallocarray to n entries: those below both sizes keep their value.
Realloc(tab, old, n) == [i \in FdNum |-> IF i < old /\ i < n THEN tab[i] ELSE JUNK]

\* Mutant: the table is reallocated on every set, to the size the fd needs.
TryGrowUnguarded(fd) ==
    LET n == AlignUp(fd + 1, GROW)
    IN [fds |-> n, tab |-> Realloc(fd_handlers, priskv_fds, n)]

\* Mutant: the grown table is fresh memory (malloc), not a reallocation.
TryGrowNoCopy(fd) ==
    IF fd >= priskv_fds
    THEN LET n == AlignUp(fd + 1, GROW)
         IN [fds |-> n, tab |-> [i \in FdNum |-> JUNK]]
    ELSE [fds |-> priskv_fds, tab |-> fd_handlers]

\* priskv_fd_handlers_try_grow, with the write lock held: the table and
\* its size after it.
priskv_fd_handlers_try_grow(fd) ==
    IF fd >= priskv_fds
    THEN LET n == AlignUp(fd + 1, GROW)
         IN [fds |-> n, tab |-> Realloc(fd_handlers, priskv_fds, n)]
    ELSE [fds |-> priskv_fds, tab |-> fd_handlers]

\* priskv_set_fd_handler(fd, priskv_workqueue_process, NULL, wq), the whole
\* write-locked region: grow, then fill the entry.
priskv_set_fd_handler(fd, wq) ==
    LET g == priskv_fd_handlers_try_grow(fd)
    IN /\ priskv_fds' = g.fds
       /\ fd_handlers' = [g.tab EXCEPT ![fd] = wq]

\* priskv_workqueue_create, up to the set: malloc the queue, then eventfd(),
\* which the kernel gives the lowest fd not open.
CreateOpen(t) ==
    /\ th[t].pc = "none"
    /\ th[t].gen < MaxGen
    /\ \E fd \in FdNum :
         /\ ~kopen[fd]
         /\ \A i \in 0..(fd - 1) : kopen[i]
         /\ kopen' = [kopen EXCEPT ![fd] = TRUE]
         /\ th' = [th EXCEPT ![t] = [@ EXCEPT !.pc = "open", !.fd = fd, !.gen = @ + 1]]
    /\ live' = live \cup {<<t, th[t].gen + 1>>}
    /\ UNCHANGED <<priskv_fds, fd_handlers, ready>>

\* priskv_workqueue_create: priskv_set_fd_handler for the eventfd.
CreateSet(t) ==
    /\ th[t].pc = "open"
    /\ priskv_set_fd_handler(th[t].fd, Wq(t))
    /\ th' = [th EXCEPT ![t].pc = "set"]
    /\ UNCHANGED <<kopen, live, ready>>

\* priskv_workqueue_create: priskv_add_event_fd into the thread's epoll
\* set; the queue is returned to its users.
CreateAdd(t) ==
    /\ th[t].pc = "set"
    /\ th' = [th EXCEPT ![t].pc = "live"]
    /\ UNCHANGED <<priskv_fds, fd_handlers, kopen, live, ready>>

\* priskv_workqueue_kick by any user of a returned queue: write 1.
priskv_workqueue_kick(t) ==
    /\ th[t].pc \in {"live", "assert", "copy", "call"}
    /\ ready' = [ready EXCEPT ![t] = TRUE]
    /\ UNCHANGED <<priskv_fds, fd_handlers, kopen, live, th>>

\* priskv_events_process: epoll_wait returns the readable eventfd.
priskv_events_process(t) ==
    /\ th[t].pc = "live"
    /\ ready[t]
    /\ th' = [th EXCEPT ![t].pc = "assert"]
    /\ UNCHANGED <<priskv_fds, fd_handlers, kopen, live, ready>>

\* priskv_get_fd_handler: assert(fd < priskv_fds), read without the lock;
\* a failed assert aborts the process.
GetAssert(t) ==
    /\ th[t].pc = "assert"
    /\ th' = [th EXCEPT ![t].pc = IF th[t].fd < priskv_fds THEN "copy" ELSE "abort"]
    /\ UNCHANGED <<priskv_fds, fd_handlers, kopen, live, ready>>

\* priskv_get_fd_handler: memcpy of the entry under the read lock; an
\* fd past the table's end reads memory that is not the table.
GetCopy(t) ==
    /\ th[t].pc = "copy"
    /\ th' = [th EXCEPT ![t].pc = "call",
                        ![t].copy = IF th[t].fd < priskv_fds THEN fd_handlers[th[t].fd] ELSE JUNK]
    /\ UNCHANGED <<priskv_fds, fd_handlers, kopen, live, ready>>

\* priskv_fd_handler_event: the copy's pollin is called with the lock
\* dropped: priskv_workqueue_process acks the eventfd and drains.
HandlerCall(t) ==
    /\ th[t].pc = "call"
    /\ ready' = [ready EXCEPT ![t] = FALSE]
    /\ th' = [th EXCEPT ![t].pc = "live", ![t].copy = NONE]
    /\ UNCHANGED <<priskv_fds, fd_handlers, kopen, live>>

\* priskv_workqueue_destroy on the owning thread: drain, close the eventfd
\* (which leaves the epoll set), free the queue.  The entry stays.
priskv_workqueue_destroy(t) ==
    /\ th[t].pc = "live"
    /\ kopen' = [kopen EXCEPT ![th[t].fd] = FALSE]
    /\ live' = live \ {Wq(t)}
    /\ ready' = [ready EXCEPT ![t] = FALSE]
    /\ th' = [th EXCEPT ![t].pc = "none", ![t].fd = NONE]
    /\ UNCHANGED <<priskv_fds, fd_handlers>>

Next == \E t \in Threads :
          \/ CreateOpen(t) \/ CreateSet(t) \/ CreateAdd(t)
          \/ priskv_workqueue_kick(t) \/ priskv_events_process(t)
          \/ GetAssert(t) \/ GetCopy(t) \/ HandlerCall(t)
          \/ priskv_workqueue_destroy(t)

Spec == Init /\ [][Next]_vars

-----------------------------------------------------------------------------
\* Every event a thread dispatches calls its own, live work queue: never a
\* failed assert, uninitialised memory, a queue another thread created
\* before at the same fd number, or a freed one.  The concurrent grows by
\* other threads' sets, the unlocked read of priskv_fds and the entries
\* destroy leaves behind must never reach a dispatch.
DispatchCallsOwnQueue ==
    \A t \in Threads : /\ th[t].pc # "abort"
                       /\ th[t].pc = "call" => th[t].copy = Wq(t) /\ Wq(t) \in live
====
