--------------------------- MODULE BackendLifecycle ---------------------------
(***************************************************************************)
(* Opening and closing a backend chain (server/backend/backend.c) from the *)
(* thread hooks that every I/O thread runs when tiering is enabled.        *)
(*                                                                         *)
(* tiering_backend_address is "proto:addr;child" with the child address    *)
(* itself a link, so it names a chain of devices.  A level of the chain is *)
(* "ok" (a registered driver), "unknown" (no driver of that protocol) or   *)
(* "malformed" (parse_link rejects it).  priskv_backend_open and           *)
(* priskv_backend_close are synchronous and recursive; each hook is one    *)
(* step of its thread.  Their effect is computed by the recursive          *)
(* operators OpenFrom and CloseFrom as the set of possible outcomes over   *)
(* the driver calls that may fail (FailOps).                               *)
(*                                                                         *)
(* What a thread holds is a set of resources <<level, kind>>: "bdev" the   *)
(* device struct, "link" the strings parse_link duplicated, "drv" a        *)
(* driver instance opened by bdrv->open and not closed.                    *)
(***************************************************************************)
EXTENDS Naturals, Sequences, FiniteSets

CONSTANTS Threads,   \* the I/O threads running the hooks
          MaxDepth,  \* the longest chain in a configured address
          FailOps    \* driver calls that may fail: "open", "clearup", "close"

Kinds == {"ok", "unknown", "malformed"}

\* The configured addresses: chains of one to MaxDepth levels.
Addresses == UNION {[1..n -> Kinds] : n \in 1..MaxDepth}

Resource == (1..MaxDepth) \X {"bdev", "link", "drv"}

\* What an opened device of level i holds.
Own(i) == {<<i, "bdev">>, <<i, "link">>, <<i, "drv">>}

\* The results a driver call can give.
Fails(op) == IF op \in FailOps THEN BOOLEAN ELSE {FALSE}

\* priskv_backend_close of the device of level i: close the child first
\* and return its error without touching this device; else bdrv->close,
\* free_link and free whatever close returned.  The driver instance is
\* released once bdrv->close was called, whatever it returned.
RECURSIVE CloseFrom(_, _, _)
CloseFrom(addr, i, held) ==
    LET child == IF i < Len(addr) THEN CloseFrom(addr, i + 1, held)
                 ELSE {[ok |-> TRUE, held |-> held]}
    IN UNION {IF ~c.ok THEN {c}
              ELSE {[ok |-> ~f, held |-> c.held \ Own(i)] : f \in Fails("close")}
                : c \in child}

\* Mutant: a failed child open leaves the parent's driver open.
ChildOpenedNoClose(addr, i, c) ==
    IF ~c.ok
    THEN {[ok |-> FALSE, held |-> c.held \cup {<<i, "link">>, <<i, "drv">>}]}
    ELSE {[ok |-> TRUE, held |-> Own(i) \cup c.held]} \cup
         {[ok |-> FALSE, held |-> r.held] :
            r \in IF "clearup" \in FailOps THEN CloseFrom(addr, i, Own(i) \cup c.held) ELSE {}}

\* Mutant: a device whose child failed to open is returned without it.
ChildOpenedIgnoreFailure(addr, i, c) ==
    IF ~c.ok
    THEN {[ok |-> TRUE, held |-> Own(i) \cup c.held]}
    ELSE {[ok |-> TRUE, held |-> Own(i) \cup c.held]} \cup
         {[ok |-> FALSE, held |-> r.held] :
            r \in IF "clearup" \in FailOps THEN CloseFrom(addr, i, Own(i) \cup c.held) ELSE {}}

\* The rest of priskv_backend_open once the child open returned c: a NULL
\* child closes this driver and frees the struct (not the link strings);
\* else bdrv->clearup, whose failure closes the whole chain.
ChildOpened(addr, i, c) ==
    IF ~c.ok
    THEN {[ok |-> FALSE, held |-> c.held \cup {<<i, "link">>}]}
    ELSE {[ok |-> TRUE, held |-> Own(i) \cup c.held]} \cup
         {[ok |-> FALSE, held |-> r.held] :
            r \in IF "clearup" \in FailOps THEN CloseFrom(addr, i, Own(i) \cup c.held) ELSE {}}

\* priskv_backend_open of level i: parse_link, find the driver, bdrv->open,
\* then the child.  A parse error frees what it duplicated; the later
\* failures free only the struct.
RECURSIVE OpenFrom(_, _)
OpenFrom(addr, i) ==
    CASE addr[i] = "malformed" -> {[ok |-> FALSE, held |-> {}]}
      [] addr[i] = "unknown"   -> {[ok |-> FALSE, held |-> {<<i, "link">>}]}
      [] OTHER ->
           {[ok |-> FALSE, held |-> {<<i, "link">>}] : f \in {g \in Fails("open") : g}}
           \cup (IF i = Len(addr) THEN {[ok |-> TRUE, held |-> Own(i)]}
                 ELSE UNION {ChildOpened(addr, i, c) : c \in OpenFrom(addr, i + 1)})

VARIABLES addr,   \* tiering_backend_address, as its chain of levels
          phase,  \* per thread: "start", "running" or "exited"
          user,   \* per thread: its user data is a device
          held    \* per thread: the resources its hooks acquired and kept

vars == <<addr, phase, user, held>>

Init == /\ addr \in Addresses
        /\ phase = [t \in Threads |-> "start"]
        /\ user = [t \in Threads |-> FALSE]
        /\ held = [t \in Threads |-> {}]

\* priskv_thread_backend_init_hook: open the chain and keep the device (or
\* NULL) as the thread's user data.
priskv_thread_backend_init_hook(t) ==
    /\ phase[t] = "start"
    /\ \E o \in OpenFrom(addr, 1) : /\ user' = [user EXCEPT ![t] = o.ok]
                                    /\ held' = [held EXCEPT ![t] = o.held]
    /\ phase' = [phase EXCEPT ![t] = "running"]
    /\ UNCHANGED addr

\* priskv_thread_backend_cleanup_hook: close the thread's device if it has
\* one, log a failure, and clear the user data either way.
priskv_thread_backend_cleanup_hook(t) ==
    /\ phase[t] = "running"
    /\ IF user[t]
       THEN \E o \in CloseFrom(addr, 1, held[t]) : held' = [held EXCEPT ![t] = o.held]
       ELSE UNCHANGED held
    /\ user' = [user EXCEPT ![t] = FALSE]
    /\ phase' = [phase EXCEPT ![t] = "exited"]
    /\ UNCHANGED addr

Next == \E t \in Threads : \/ priskv_thread_backend_init_hook(t)
                           \/ priskv_thread_backend_cleanup_hook(t)

Spec == Init /\ [][Next]_vars

-----------------------------------------------------------------------------
\* Everything an opened chain holds.
Chain == UNION {Own(i) : i \in DOMAIN addr}

Drivers(t) == {r \in held[t] : r[2] = "drv"}

TypeOK == /\ addr \in Addresses
          /\ phase \in [Threads -> {"start", "running", "exited"}]
          /\ user \in [Threads -> BOOLEAN]
          /\ held \in [Threads -> SUBSET Resource]

\* A thread that got a device holds exactly the whole chain: open returns
\* non-NULL only when every level's driver opened and clearup succeeded.
OpenSuccessHoldsChain == \A t \in Threads : user[t] => held[t] = Chain

\* When priskv_backend_open returns NULL, at any depth and on any of its
\* failure paths, no driver instance it opened is left open.
OpenFailureClosesDrivers ==
    \A t \in Threads : phase[t] = "running" /\ ~user[t] => Drivers(t) = {}
====
