------------------------------ MODULE LruPolicy ------------------------------
(***************************************************************************)
(* The LRU eviction policy of server/backend/policy_lru.c behind the       *)
(* dispatch of server/backend/policy.c.                                    *)
(*                                                                         *)
(* The policy keeps two structures: a list of nodes, most recently used at *)
(* the head, and a hash map from key to node.  A node carries a ref_count  *)
(* that pins its key against eviction while an asynchronous operation is  *)
(* in flight.  The policy is not thread-safe and is owned by one thread,  *)
(* so each call is one atomic step.                                        *)
(*                                                                         *)
(* The callers are modelled by pins: the number of try_ref_key calls on a *)
(* key that returned true and whose matching unref_key has not been made  *)
(* yet.  Callers unref only what they pinned.                             *)
(*                                                                         *)
(* The owner creates its policy by name from the registry and destroys   *)
(* it; the priskv_policy_* wrappers do nothing on a NULL policy.          *)
(***************************************************************************)
EXTENDS Naturals, Sequences, SequencesExt, FiniteSets

CONSTANTS Keys,        \* the keys the callers use
          Registered,  \* names registered by the policy_init constructors
          Names,       \* names callers pass to priskv_policy_create
          EVICT_SCAN,  \* max_attempts of lru_policy_evict (128 in the code)
          MaxPins,     \* bound on outstanding pins per key
          NULL

VARIABLES policy,     \* the priskv_policy of the owner: its name, or NULL
          lru,        \* the list, head (most recent) first: a sequence of keys
          hashmap,    \* the keys that have a node in the hash map
          ref_count,  \* node->ref_count, meaningful for keys in hashmap
          evicted,    \* the key returned by the last lru_policy_evict, or NULL
          pins,       \* per key: pins taken by callers and not yet released
          newer       \* history: <<a, b>> when a was last used after b was

vars == <<policy, lru, hashmap, ref_count, evicted, pins, newer>>

\* No policy exists until its owner creates one.
Init == /\ policy = NULL
        /\ lru = <<>>
        /\ hashmap = {}
        /\ ref_count = [k \in Keys |-> 0]
        /\ evicted = NULL
        /\ pins = [k \in Keys |-> 0]
        /\ newer = {}

\* The history after a use of k (access or a pin): k is the most recent.
Used(k) == newer' = {p \in newer : p[2] # k} \cup {<<k, x>> : x \in Keys \ {k}}

\* priskv_policy_find: the registered implementation of that name.  The
\* list is filled at load time by priskv_policy_register, whose assert
\* keeps the names distinct, so it is the set Registered.
priskv_policy_find(name) == name \in Registered

\* lru_policy_create: an empty list and hash map.
lru_policy_create == /\ lru' = <<>>
                     /\ hashmap' = {}

\* priskv_policy_create: find the implementation, malloc the policy and
\* call its create.  An unknown name or a failed malloc returns NULL and
\* changes nothing.  The use history starts with the new policy.
priskv_policy_create(name) ==
    /\ policy = NULL
    /\ priskv_policy_find(name)
    /\ policy' = name
    /\ lru_policy_create
    /\ newer' = {}
    /\ UNCHANGED <<ref_count, evicted, pins>>

\* lru_policy_destroy: HASH_ITER deletes and frees every node, whatever
\* its ref_count, then the list head is freed.
lru_policy_destroy == /\ lru' = <<>>
                      /\ hashmap' = {}

\* priskv_policy_destroy.  Callers still holding a pin keep it.
priskv_policy_destroy ==
    /\ policy # NULL
    /\ policy' = NULL
    /\ lru_policy_destroy
    /\ UNCHANGED <<ref_count, evicted, pins, newer>>

\* list_del of a key's node.
Unlink(s, k) == SelectSeq(s, LAMBDA x : x # k)

\* lru_policy_access: promote the key's node to the head, creating it with
\* ref_count 0 when the hash map has none.
lru_policy_access(k) ==
    /\ lru' = <<k>> \o Unlink(lru, k)
    /\ hashmap' = hashmap \cup {k}
    /\ ref_count' = IF k \in hashmap THEN ref_count ELSE [ref_count EXCEPT ![k] = 0]
    /\ Used(k)
    /\ UNCHANGED <<policy, evicted, pins>>

\* The nodes lru_policy_evict looks at: from the tail towards the head, at
\* most EVICT_SCAN of them, as positions of lru.
ScanWindow == {i \in 1..Len(lru) : i > Len(lru) - EVICT_SCAN}

\* Mutant: lru_policy_evict unlinks the node but leaves it in the hash map.
EvictKeepsHashEntry ==
    LET free == {i \in ScanWindow : ref_count[lru[i]] = 0} IN
    \/ /\ free # {}
       /\ LET i == CHOOSE j \in free : \A m \in free : m <= j IN
          /\ evicted' = lru[i]
          /\ lru' = Unlink(lru, lru[i])
          /\ UNCHANGED hashmap
    \/ /\ free = {}
       /\ evicted' = NULL
       /\ UNCHANGED <<policy, lru, hashmap>>
    /\ UNCHANGED <<policy, ref_count, pins, newer>>

\* lru_policy_evict: the first node from the tail, within the window, whose
\* ref_count is 0 is unlinked, removed from the hash map and its key
\* returned; NULL when there is none.
lru_policy_evict ==
    LET free == {i \in ScanWindow : ref_count[lru[i]] = 0} IN
    \/ /\ free # {}
       /\ LET i == CHOOSE j \in free : \A m \in free : m <= j IN
          /\ evicted' = lru[i]
          /\ lru' = Unlink(lru, lru[i])
          /\ hashmap' = hashmap \ {lru[i]}
    \/ /\ free = {}
       /\ evicted' = NULL
       /\ UNCHANGED <<policy, lru, hashmap>>
    \* the caller owns the returned key; its pins are its own business
    /\ UNCHANGED <<policy, ref_count, pins, newer>>

\* lru_policy_del_key: forget the key's node, whatever its ref_count.
lru_policy_del_key(k) ==
    /\ lru' = Unlink(lru, k)
    /\ hashmap' = hashmap \ {k}
    /\ UNCHANGED <<policy, ref_count, evicted, pins, newer>>

\* Mutant: try_ref_key pins the node but leaves it where it is in the list.
TryRefNoPromote(k) ==
    /\ k \in hashmap
    /\ pins[k] < MaxPins
    /\ ref_count' = [ref_count EXCEPT ![k] = @ + 1]
    /\ pins' = [pins EXCEPT ![k] = @ + 1]
    /\ Used(k)
    /\ UNCHANGED <<policy, lru, hashmap, evicted>>

\* lru_policy_try_ref_key: pin and promote a key that has a node; false
\* (no change) otherwise.  A caller whose call returned true holds a pin.
lru_policy_try_ref_key(k) ==
    /\ k \in hashmap
    /\ pins[k] < MaxPins
    /\ ref_count' = [ref_count EXCEPT ![k] = @ + 1]
    /\ lru' = <<k>> \o Unlink(lru, k)
    /\ pins' = [pins EXCEPT ![k] = @ + 1]
    /\ Used(k)
    /\ UNCHANGED <<policy, hashmap, evicted>>

\* Mutant: unref_key decrements without checking the count is positive.
UnrefNoFloor(k) ==
    /\ pins[k] > 0
    /\ pins' = [pins EXCEPT ![k] = @ - 1]
    /\ ref_count' = IF k \in hashmap THEN [ref_count EXCEPT ![k] = @ - 1] ELSE ref_count
    /\ UNCHANGED <<policy, lru, hashmap, evicted, newer>>

\* lru_policy_unref_key, made by a caller releasing its pin: decrement the
\* node's ref_count when the node exists and the count is positive.
lru_policy_unref_key(k) ==
    /\ pins[k] > 0
    /\ pins' = [pins EXCEPT ![k] = @ - 1]
    /\ ref_count' = IF k \in hashmap /\ ref_count[k] > 0
                    THEN [ref_count EXCEPT ![k] = @ - 1] ELSE ref_count
    /\ UNCHANGED <<policy, lru, hashmap, evicted, newer>>

\* A caller whose pin outlived the policy releases it: priskv_policy_unref_key
\* returns at once on a NULL policy.
PinDropped(k) ==
    /\ policy = NULL
    /\ pins[k] > 0
    /\ pins' = [pins EXCEPT ![k] = @ - 1]
    /\ UNCHANGED <<policy, lru, hashmap, ref_count, evicted, newer>>

\* The owner creates and destroys its policy; while it has one, the
\* priskv_policy_* wrappers dispatch to the lru_policy_* operations.
Next == \/ \E n \in Names : priskv_policy_create(n)
        \/ priskv_policy_destroy
        \/ /\ policy # NULL
           /\ \/ \E k \in Keys : lru_policy_access(k)
              \/ lru_policy_evict
              \/ \E k \in Keys : lru_policy_del_key(k)
              \/ \E k \in Keys : lru_policy_try_ref_key(k)
              \/ \E k \in Keys : lru_policy_unref_key(k)
        \/ \E k \in Keys : PinDropped(k)

Spec == Init /\ [][Next]_vars

-----------------------------------------------------------------------------
TypeOK == /\ policy \in Registered \cup {NULL}
          /\ lru \in Seq(Keys)
          /\ hashmap \subseteq Keys
          /\ ref_count \in [Keys -> 0..MaxPins]
          /\ evicted \in Keys \cup {NULL}
          /\ pins \in [Keys -> 0..MaxPins]
          /\ newer \subseteq Keys \X Keys

\* The list and the hash map hold the same keys, each list node once:
\* every path of access, evict, del_key and try_ref_key unlinks and
\* removes a node together, so a HASH_FIND never returns a node that is
\* not on the list (whose list_del would corrupt the list).
LruIndexConsistent == /\ ToSet(lru) = hashmap
                      /\ Len(lru) = Cardinality(hashmap)

\* Spec property 8.7: once try_ref_key(k) returned true, evict() does not
\* return k until the matching unref_key(k) calls have been made.
PinnedNotEvicted ==
    [][lru_policy_evict /\ evicted' # NULL => pins[evicted'] = 0]_vars

\* Spec 4.5: evict returns the least recently used unpinned key.  Every
\* other key with a node and ref_count 0 was accessed or pinned after the
\* one returned: the list order that access, try_ref_key (which
\* promotes), unref_key (which does not) and del_key leave behind is the
\* order of use.
EvictsLeastRecentlyUsed ==
    [][lru_policy_evict /\ evicted' # NULL =>
         \A x \in hashmap \ {evicted'} : ref_count[x] = 0 => <<x, evicted'>> \in newer]_vars
=============================================================================
