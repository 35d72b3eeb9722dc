--------------------------- MODULE BlockAllocator ---------------------------
(***************************************************************************)
(* What the value-block allocator promises its callers (spec section 4.2,  *)
(* the scenarios of server/test/test_buddy.c), stated without the tree.   *)
(*                                                                         *)
(* The arena has NMEMB blocks.  The allocator hands out runs of blocks.    *)
(* A request for n blocks is served with a run whose length is the least  *)
(* power of two >= n, aligned on its own length; of all such runs that are *)
(* free, the lowest one is returned.  The request fails (NULL) exactly    *)
(* when no such run is free.  Freeing a run returns all of its blocks.    *)
(***************************************************************************)
EXTENDS Naturals, FiniteSets, FiniteSetsExt

CONSTANTS NMEMB, NULL

VARIABLES runs,   \* the set of runs currently handed out, [off, len]
          ret     \* the result of the last allocation: an offset or NULL

\* The powers of two that can be a run length or exceed the arena once.
Pow2 == {2^k : k \in 0..NMEMB}

\* The run length that serves a request for n blocks.
RunLength(n) == Min({p \in Pow2 : p >= n})

Blocks(r) == r.off .. (r.off + r.len - 1)

Used == UNION {Blocks(r) : r \in runs}

\* The offsets at which a run of length len is free and aligned.
FreeAt(len) ==
    {o \in 0..(NMEMB - 1) : /\ o % len = 0
                            /\ o + len <= NMEMB
                            /\ (o .. (o + len - 1)) \cap Used = {}}

Init == runs = {} /\ ret = NULL

Alloc(n) ==
    LET len == RunLength(n) IN
    \/ /\ FreeAt(len) # {}
       /\ runs' = runs \cup {[off |-> Min(FreeAt(len)), len |-> len]}
       /\ ret' = Min(FreeAt(len))
    \/ /\ FreeAt(len) = {}
       /\ ret' = NULL
       /\ UNCHANGED runs

Free(off) ==
    \E r \in runs : /\ r.off = off
                    /\ runs' = runs \ {r}
                    /\ UNCHANGED ret

Next == \/ \E n \in 1..(NMEMB + 1) : Alloc(n)
        \/ \E r \in runs : Free(r.off)

Spec == Init /\ [][Next]_<<runs, ret>>
=============================================================================
