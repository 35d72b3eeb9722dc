-------------------------------- MODULE Buddy --------------------------------
(***************************************************************************)
(* The binary buddy allocator of server/buddy.c.                           *)
(*                                                                         *)
(* meta is the array of 2*NMEMB-1 counters: node 0 is the root, the        *)
(* children of node i are 2i+1 and 2i+2, and meta[i] is the largest free   *)
(* aligned run (in blocks) inside the subtree of i; 0 marks an allocated   *)
(* node.  Blocks are counted, not bytes: alignup = ceil(size/block size)   *)
(* is the request.  Every operation runs under buddy->lock, so each one is *)
(* a single atomic step whatever the number of calling threads.            *)
(***************************************************************************)
EXTENDS Naturals, FiniteSets, FiniteSetsExt

CONSTANTS NMEMB,     \* buddy->nmemb, a power of two
          Requests,  \* the request sizes, in blocks, that callers pass
          NULL

ASSUME \E k \in 0..NMEMB : 2^k = NMEMB
ASSUME Requests \subseteq 1..(NMEMB + 1)

VARIABLES meta,   \* buddy->meta
          inuse,  \* buddy->inuse
          ret     \* the offset returned by the last priskv_buddy_alloc, or NULL

vars == <<meta, inuse, ret>>

Node == 0..(2 * NMEMB - 2)

L_LEAF(i) == 2 * i + 1
R_LEAF(i) == 2 * i + 2
PARENT(i) == (i + 1) \div 2 - 1

IsLeaf(i) == i >= NMEMB - 1

MaxOf(a, b) == IF a > b THEN a ELSE b

IS_POWER_OF_2(v) == \E k \in 0..v : 2^k = v

\* roundup_power_of_2 for a value that is not a power of two:
\* 1 << (32 - clz(v)), the power of two just above v's top bit.
roundup_power_of_2(v) == CHOOSE p \in {2^k : k \in 0..v} : p > v /\ p < 2 * v

\* alignup after the rounding at the top of priskv_buddy_alloc.
AlignUp(n) == IF IS_POWER_OF_2(n) THEN n ELSE roundup_power_of_2(n)

RECURSIVE Depth(_)
Depth(i) == IF i = 0 THEN 0 ELSE 1 + Depth(PARENT(i))

\* The run length a node stands for, from its depth in the tree: the
\* reference the loop of priskv_buddy_create is checked against (at Init,
\* BuddyMetaExact requires meta[i] = NodeSize(i) for every node).
NodeSize(i) == NMEMB \div 2^Depth(i)

\* The initialising loop of priskv_buddy_create: nodes starts at
\* nmemb * 2 and is halved at the first node of each level (i + 1 a power
\* of two); every node i < nmemb * 2 - 1 gets it.  The uint32 wrap of
\* nmemb * 2 at nmemb = 2^31 is beyond TLC's integers and not modelled.
RECURSIVE CreateMeta(_, _, _)
CreateMeta(m, i, nodes) ==
    IF i >= NMEMB * 2 - 1 THEN m
    ELSE LET n == IF IS_POWER_OF_2(i + 1) THEN nodes \div 2 ELSE nodes
         IN CreateMeta([m EXCEPT ![i] = n], i + 1, n)

\* priskv_buddy_create of an arena of NMEMB blocks (a power of two): the
\* meta array that follows the arena is written by the loop.
Init == /\ meta = CreateMeta([i \in Node |-> 0], 0, NMEMB * 2)
        /\ inuse = 0
        /\ ret = NULL

\* Mutant: the descent prefers the right child.
RECURSIVE DescendRightFirst(_, _, _)
DescendRightFirst(index, nodes, a) ==
    IF nodes = a THEN index
    ELSE IF meta[R_LEAF(index)] >= a THEN DescendRightFirst(R_LEAF(index), nodes \div 2, a)
         ELSE DescendRightFirst(L_LEAF(index), nodes \div 2, a)

\* The descent of priskv_buddy_alloc: from the root, prefer the left child
\* whenever it can hold the request, until the node size equals alignup.
RECURSIVE Descend(_, _, _)
Descend(index, nodes, a) ==
    IF nodes = a THEN index
    ELSE IF meta[L_LEAF(index)] >= a THEN Descend(L_LEAF(index), nodes \div 2, a)
         ELSE Descend(R_LEAF(index), nodes \div 2, a)

\* The upward pass after an allocation: each parent takes the max of its
\* children.
RECURSIVE PercolateAlloc(_, _)
PercolateAlloc(m, index) ==
    IF index = 0 THEN m
    ELSE LET p == PARENT(index) IN
         PercolateAlloc([m EXCEPT ![p] = MaxOf(m[L_LEAF(p)], m[R_LEAF(p)])], p)

\* Mutant: inuse counts the request, not the rounded-up run.
AllocCountsRequest(n) ==
    LET a     == AlignUp(n)
        index == Descend(0, NMEMB, a)
    IN
    \/ /\ IF meta[0] < a THEN TRUE ELSE meta[index] = 0
       /\ ret' = NULL
       /\ UNCHANGED <<meta, inuse>>
    \/ /\ meta[0] >= a
       /\ meta[index] # 0
       /\ meta' = PercolateAlloc([meta EXCEPT ![index] = 0], index)
       /\ inuse' = inuse + n
       /\ ret' = (index + 1) * a - NMEMB

\* Mutant: the offset is computed from the node index without the +1.
AllocOffsetOffByOne(n) ==
    LET a     == AlignUp(n)
        index == Descend(0, NMEMB, a)
    IN
    \/ /\ IF meta[0] < a THEN TRUE ELSE meta[index] = 0
       /\ ret' = NULL
       /\ UNCHANGED <<meta, inuse>>
    \/ /\ meta[0] >= a
       /\ meta[index] # 0
       /\ meta' = PercolateAlloc([meta EXCEPT ![index] = 0], index)
       /\ inuse' = inuse + a
       /\ ret' = index * a - NMEMB

priskv_buddy_alloc(n) ==
    LET a     == AlignUp(n)
        index == Descend(0, NMEMB, a)
    IN
    \/ /\ IF meta[0] < a THEN TRUE ELSE meta[index] = 0
       /\ ret' = NULL
       /\ UNCHANGED <<meta, inuse>>
    \/ /\ meta[0] >= a
       /\ meta[index] # 0
       /\ meta' = PercolateAlloc([meta EXCEPT ![index] = 0], index)
       /\ inuse' = inuse + a
       /\ ret' = (index + 1) * a - NMEMB

\* The ascent of priskv_buddy_free from the leaf of the freed offset to the
\* first allocated node, doubling nodes on the way: <<index, nodes>>, or
\* <<-1, 0>> when it passes the root without finding one (goto end).
RECURSIVE FindAllocated(_, _)
FindAllocated(index, nodes) ==
    IF meta[index] = 0 THEN <<index, nodes>>
    ELSE IF index = 0 THEN <<-1, 0>>
         ELSE FindAllocated(PARENT(index), 2 * nodes)

\* Mutant: the upward pass never coalesces two free buddies.
RECURSIVE PercolateFreeNoMerge(_, _, _)
PercolateFreeNoMerge(m, index, nodes) ==
    IF index = 0 THEN m
    ELSE LET p == PARENT(index) IN
         PercolateFreeNoMerge([m EXCEPT ![p] = MaxOf(m[L_LEAF(p)], m[R_LEAF(p)])],
                              p, 2 * nodes)

\* The upward pass after a free: a parent whose children add up to its full
\* size becomes whole again, otherwise it takes the max of its children.
RECURSIVE PercolateFree(_, _, _)
PercolateFree(m, index, nodes) ==
    IF index = 0 THEN m
    ELSE LET p  == PARENT(index)
             n2 == 2 * nodes
             l  == m[L_LEAF(p)]
             r  == m[R_LEAF(p)]
         IN PercolateFree([m EXCEPT ![p] = IF l + r = n2 THEN n2 ELSE MaxOf(l, r)],
                          p, n2)

\* priskv_buddy_free of the run starting at block offset off.  When the
\* ascent finds nothing the call returns without a change (a stutter).
priskv_buddy_free(off) ==
    LET found == FindAllocated(off + NMEMB - 1, 1)
        index == found[1]
        nodes == found[2]
    IN
    /\ index # -1
    /\ meta' = PercolateFree([meta EXCEPT ![index] = nodes], index, nodes)
    /\ inuse' = inuse - nodes
    /\ UNCHANGED ret

(***************************************************************************)
(* What meta means: node i is an allocated run when its counter is 0 and   *)
(* it is a leaf or its left child is not 0 (a 0 that percolated up from    *)
(* two allocated children has a 0 left child).                             *)
(***************************************************************************)
IsRun(i) == meta[i] = 0 /\ (IsLeaf(i) \/ meta[L_LEAF(i)] # 0)

RunOf(i) == [off |-> (i + 1) * NodeSize(i) - NMEMB, len |-> NodeSize(i)]

AllocatedRuns == {RunOf(i) : i \in {j \in Node : IsRun(j)}}

\* Callers free only what they were given, each run once.
Next == \/ \E n \in Requests : priskv_buddy_alloc(n)
        \/ \E r \in AllocatedRuns : priskv_buddy_free(r.off)

Spec == Init /\ [][Next]_vars

-----------------------------------------------------------------------------
TypeOK == /\ meta \in [Node -> 0..NMEMB]
          /\ \A i \in Node : meta[i] <= NodeSize(i)
          /\ inuse \in 0..NMEMB
          /\ ret \in 0..(NMEMB - 1) \cup {NULL}

\* Spec invariant 8.1: buddy->inuse equals the sum of the rounded-up sizes
\* of the runs outstanding, after any sequence of priskv_buddy_alloc and
\* priskv_buddy_free.
BuddyInuseAccounting ==
    inuse = FoldSet(LAMBDA r, acc : r.len + acc, 0, AllocatedRuns)

Abs == INSTANCE BlockAllocator WITH runs <- AllocatedRuns, ret <- ret

\* The counter of every node that is not inside an allocated run is the
\* largest free aligned run in its subtree, as computed from the runs
\* handed out: the tree summary priskv_buddy_alloc descends by stays exact
\* across every interleaving of allocations, frees and coalescing.
InsideRun(i) == \E j \in Node : IsRun(j) /\ j # i /\
                    RunOf(i).off \in Abs!Blocks(RunOf(j)) /\ NodeSize(j) > NodeSize(i)

LargestFree(i) ==
    Max({0} \cup {len \in {NodeSize(k) : k \in Node} :
                    /\ len <= NodeSize(i)
                    /\ \E o \in Abs!FreeAt(len) : o \in Abs!Blocks(RunOf(i))})

BuddyMetaExact == \A i \in Node : ~InsideRun(i) => meta[i] = LargestFree(i)

\* Refinement: priskv_buddy_alloc returns the lowest free aligned run of
\* the rounded-up length, fails only when there is none, and
\* priskv_buddy_free returns exactly the run that was allocated.
BuddyImplementsAllocator == Abs!Spec
=============================================================================
