-------------------------------- MODULE Slab --------------------------------
(***************************************************************************)
(* The fixed-size slot allocator of server/slab.c (the key slots of the    *)
(* KV index).                                                              *)
(*                                                                         *)
(* The free set is a bitmap of words of BITS_OF_UL bits (64 in the code);  *)
(* a set bit is a free slot.  A word is modelled as the set of its set     *)
(* bits.  priskv_slab_alloc and priskv_slab_free run under slab->spin and  *)
(* are single atomic steps.  priskv_slab_reserve takes no lock: it reads   *)
(* the word and inuse and writes them back, two steps another thread's     *)
(* alloc or free can fall between when ReserveConcurrent holds.            *)
(*                                                                         *)
(* held is the callers' side: the slots they were given and have not       *)
(* freed; callers free only what they hold and reserve only slots that    *)
(* nobody holds (a persisted layout being recovered).                      *)
(***************************************************************************)
EXTENDS Naturals, FiniteSets, FiniteSetsExt

CONSTANTS OBJECTS,            \* slab->objects
          BITS_OF_UL,         \* bits per bitmap word
          ReserveConcurrent,  \* whether reserve can overlap alloc/free
          NULL

ASSUME OBJECTS > 0 /\ BITS_OF_UL > 0

\* ALIGN_UP(objects, BITS_OF_UL) / BITS_OF_UL words.
NWORDS == (OBJECTS + BITS_OF_UL - 1) \div BITS_OF_UL

Words == 0..(NWORDS - 1)
Slots == 0..(OBJECTS - 1)

WordOf(i) == i \div BITS_OF_UL
BitOf(i) == i % BITS_OF_UL

VARIABLES bitmap,  \* word index -> set of its set (free) bits
          inuse,   \* slab->inuse
          lindex,  \* slab->lindex, the word the last alloc found a slot in
          ret,     \* the slot index the last priskv_slab_alloc returned, or NULL
          held,    \* slots the callers hold
          rsv      \* a reserve between its read and its write, or NULL

vars == <<bitmap, inuse, lindex, ret, held, rsv>>

\* Mutant: priskv_slab_create marks every bit of the ALIGN_UP'd bitmap.
InitMarksPadding ==
        /\ bitmap = [w \in Words |-> 0..(BITS_OF_UL - 1)]
        /\ inuse = 0
        /\ lindex = 0
        /\ ret = NULL
        /\ held = {}
        /\ rsv = NULL

\* priskv_slab_create: the bits of the OBJECTS slots are set, the padding
\* bits of the last word are not.
Init == /\ bitmap = [w \in Words |-> {b \in 0..(BITS_OF_UL - 1) :
                                        w * BITS_OF_UL + b < OBJECTS}]
        /\ inuse = 0
        /\ lindex = 0
        /\ ret = NULL
        /\ held = {}
        /\ rsv = NULL

\* alloc and free take slab->spin; only a concurrent reserve can overlap.
Quiet == ReserveConcurrent \/ rsv = NULL

\* The words the two loops of priskv_slab_alloc find non-empty: from lindex
\* to the end, then from 0 below lindex.
ScanUp == {w \in Words : w >= lindex /\ bitmap[w] # {}}
ScanWrap == {w \in Words : w < lindex /\ bitmap[w] # {}}

\* __slab_alloc: the lowest set bit (ffs) of the word is cleared.
SlabAllocFrom(w) ==
    LET b == Min(bitmap[w]) IN
    /\ bitmap' = [bitmap EXCEPT ![w] = @ \ {b}]
    /\ inuse' = inuse + 1
    /\ lindex' = w
    /\ ret' = w * BITS_OF_UL + b
    /\ held' = held \cup {w * BITS_OF_UL + b}

\* Mutant: priskv_slab_alloc without the second, wrapping loop.
SlabAllocNoWrap ==
    /\ Quiet
    /\ \/ /\ ScanUp # {}
          /\ SlabAllocFrom(Min(ScanUp))
       \/ /\ ScanUp = {}
          /\ ret' = NULL
          /\ UNCHANGED <<bitmap, inuse, lindex, held>>
    /\ UNCHANGED rsv

priskv_slab_alloc ==
    /\ Quiet
    /\ \/ /\ ScanUp # {}
          /\ SlabAllocFrom(Min(ScanUp))
       \/ /\ ScanUp = {}
          /\ ScanWrap # {}
          /\ SlabAllocFrom(Min(ScanWrap))
       \/ /\ ScanUp = {} /\ ScanWrap = {}
          /\ ret' = NULL
          /\ UNCHANGED <<bitmap, inuse, lindex, held>>
    /\ UNCHANGED rsv

\* Mutant: priskv_slab_free sets the bit but leaves inuse.
SlabFreeKeepsInuse(i) ==
    /\ Quiet
    /\ bitmap' = [bitmap EXCEPT ![WordOf(i)] = @ \cup {BitOf(i)}]
    /\ held' = held \ {i}
    /\ UNCHANGED <<inuse, lindex, ret, rsv>>

\* priskv_slab_free of a held slot: set its bit, decrement inuse.
priskv_slab_free(i) ==
    /\ Quiet
    /\ bitmap' = [bitmap EXCEPT ![WordOf(i)] = @ \cup {BitOf(i)}]
    /\ inuse' = inuse - 1
    /\ held' = held \ {i}
    /\ UNCHANGED <<lindex, ret, rsv>>

\* priskv_slab_reserve, first half: load the word and inuse.
ReserveRead(i) ==
    /\ rsv = NULL
    /\ rsv' = [slot |-> i, word |-> bitmap[WordOf(i)], inuse |-> inuse]
    /\ UNCHANGED <<bitmap, inuse, lindex, ret, held>>

\* priskv_slab_reserve, second half: store the word with the bit cleared
\* and inuse + 1, from the values loaded.
ReserveWrite ==
    /\ rsv # NULL
    /\ bitmap' = [bitmap EXCEPT ![WordOf(rsv.slot)] = rsv.word \ {BitOf(rsv.slot)}]
    /\ inuse' = rsv.inuse + 1
    /\ held' = held \cup {rsv.slot}
    /\ rsv' = NULL
    /\ UNCHANGED <<lindex, ret>>

Next == \/ priskv_slab_alloc
        \/ \E i \in held : priskv_slab_free(i)
        \/ \E i \in Slots \ held : ReserveRead(i)
        \/ ReserveWrite

Spec == Init /\ [][Next]_vars

-----------------------------------------------------------------------------
\* The slots whose bit is set, padding bits included.
FreeSlots == {i \in 0..(NWORDS * BITS_OF_UL - 1) : BitOf(i) \in bitmap[WordOf(i)]}

TypeOK == /\ bitmap \in [Words -> SUBSET (0..(BITS_OF_UL - 1))]
          /\ FreeSlots \subseteq Slots
          /\ inuse \in 0..OBJECTS
          /\ lindex \in Words
          /\ ret \in Slots \cup {NULL}
          /\ held \subseteq Slots

\* The bitmap and inuse agree with the callers: a slot is marked free
\* exactly when nobody holds it, and inuse counts the held slots.
SlabBitmapMatchesOwners ==
    /\ rsv = NULL => FreeSlots = Slots \ held
    /\ rsv = NULL => inuse = Cardinality(held)

Pool == INSTANCE SlotPool WITH free <- FreeSlots

\* Refinement: read through the bitmap, the slab is the slot pool of spec
\* 4.3.  priskv_slab_alloc returns a slot whose bit was set and NULL only
\* when no bit is set (the rotating scan from lindex and its wrap-around
\* miss no word, the padding bits never count), priskv_slab_free sets a
\* bit that was clear, and a reserve clears the bit of its slot.
SlabImplementsPool == Pool!Spec

\* Spec property 8.2: priskv_slab_alloc never returns a slot that is held.
SlabNoDoubleAlloc ==
    [][priskv_slab_alloc /\ ret' # NULL => ret' \notin held]_vars
=============================================================================
