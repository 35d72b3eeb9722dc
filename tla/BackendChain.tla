----------------------------- MODULE BackendChain -----------------------------
(***************************************************************************)
(* The tiered backend pipeline of server/backend/backend.c: a parent tier  *)
(* (the cache) chained in front of a child tier (the origin), as built by  *)
(* priskv_backend_open from "proto:cache;proto:origin".                    *)
(*                                                                         *)
(* Every driver call is asynchronous: it is issued, and later completes by *)
(* calling the continuation backend.c passed to it.  A request has at most *)
(* one driver call outstanding at a time; stage names the one it waits on. *)
(* Several requests are in flight at once: those of one I/O thread whose  *)
(* callbacks interleave, and those of other I/O threads, whose own        *)
(* device chains reach the same cache and origin stores.  A driver call   *)
(* takes effect on its store when it completes, atomically with the       *)
(* continuation it runs (all of it runs on the calling thread).            *)
(***************************************************************************)
EXTENDS Naturals, FiniteSets

CONSTANTS Reqs,            \* request slots (each one a caller's context)
          Keys,
          Data,            \* value contents
          Lens,            \* value lengths, a subset of 1..BufLen
          BufLen,          \* the capacity of a GET caller's buffer (valuelen)
          CacheCap,        \* the cache driver's is_cacheable: fewer entries than this
          DriverFailures,  \* whether a driver call may fail with ERROR
          NONE

ASSUME Lens \subseteq 1..BufLen

Value == [data : Data, len : 1..BufLen]

Ops == {"GET", "SET", "DEL", "TEST"}

\* The stage a request waits in; "p_" is a parent (cache) driver call, "c_"
\* a child (origin) one.
Stages == {"idle", "p_get", "c_get", "p_evict", "p_set", "c_set", "p_del",
           "c_del", "p_test", "c_test", "done"}

VARIABLES cache,    \* the cache driver's store: key -> Value or NONE
          origin,   \* the origin driver's store
          req,      \* request slot -> its priskv_backend_request context
          written   \* history: every value a SET has handed the origin

vars == <<cache, origin, req, written>>

Fail == IF DriverFailures THEN {"ERROR"} ELSE {}

\* The status a driver call on a store returns for key k: OK when present,
\* NOT_FOUND when absent, or a driver failure.
Lookup(store, k) == (IF store[k] # NONE THEN {"OK"} ELSE {"NOT_FOUND"}) \cup Fail

Cached == {k \in Keys : cache[k] # NONE}

\* The cache driver's is_cacheable.
is_cacheable == Cardinality(Cached) < CacheCap

Init == /\ cache = [k \in Keys |-> NONE]
        /\ origin = [k \in Keys |-> NONE]
        /\ req = [r \in Reqs |-> [op |-> "GET", key |-> CHOOSE k \in Keys : TRUE,
                                  val |-> NONE, stage |-> "idle", status |-> NONE,
                                  got |-> NONE, fetched |-> NONE, cbs |-> 0,
                                  wrote |-> FALSE]]
        /\ written = {}

\* Move request r to stage s.
Await(r, s) == req' = [req EXCEPT ![r].stage = s]

\* req->cb(status, ...): the caller's callback; the request is finished.
Callback(r, status, got) ==
    req' = [req EXCEPT ![r].stage = "done", ![r].status = status,
                       ![r].got = got, ![r].cbs = @ + 1]

(***************************************************************************)
(* Entry points: priskv_backend_get / set / del / test on the parent.      *)
(***************************************************************************)
Start(r, op, k, v, s) ==
    /\ req[r].stage \in {"idle", "done"}
    /\ req' = [req EXCEPT ![r] = [op |-> op, key |-> k, val |-> v, stage |-> s,
                                  status |-> NONE, got |-> NONE, fetched |-> NONE,
                                  cbs |-> 0, wrote |-> FALSE]]
    /\ UNCHANGED <<cache, origin, written>>

\* priskv_backend_get: parent get first.
priskv_backend_get(r, k) == Start(r, "GET", k, NONE, "p_get")

\* priskv_backend_set: with a child, the child set comes first.
priskv_backend_set(r, k, v) ==
    /\ Start(r, "SET", k, v, "c_set")

\* priskv_backend_del: with a child, the child del comes first.
priskv_backend_del(r, k) == Start(r, "DEL", k, NONE, "c_del")

\* priskv_backend_test: parent test first.
priskv_backend_test(r, k) == Start(r, "TEST", k, NONE, "p_test")

(***************************************************************************)
(* Driver completions and the continuations they run.                      *)
(***************************************************************************)

\* Mutant: priskv_backend_get_cb without the return after a hit, so the
\* child get is issued after the caller was called back.
GetCbNoReturn(r) ==
    LET k == req[r].key IN
    /\ req[r].stage = "p_get"
    /\ \E st \in Lookup(cache, k) :
          IF st = "OK"
          THEN req' = [req EXCEPT ![r].stage = "c_get", ![r].status = "OK",
                                  ![r].got = cache[k], ![r].cbs = @ + 1]
          ELSE Await(r, "c_get")
    /\ UNCHANGED <<cache, origin, written>>

\* The parent get completes; priskv_backend_get_cb: OK is final, any other
\* status falls through to the child get.
ParentGetDone(r) ==
    LET k == req[r].key IN
    /\ req[r].stage = "p_get"
    /\ \E st \in Lookup(cache, k) :
          IF st = "OK" THEN Callback(r, "OK", cache[k])
          ELSE Await(r, "c_get")
    /\ UNCHANGED <<cache, origin, written>>

\* _priskv_backend_freeup: cache the fetched value when the cache can take
\* it (priskv_backend_cache issues the parent set), else evict first.
Freeup(r, fetched) ==
    req' = [req EXCEPT ![r].fetched = fetched,
                       ![r].stage = IF is_cacheable THEN "p_set" ELSE "p_evict"]

\* The child get completes (the child's own priskv_backend_get_cb has no
\* child to fall through to); priskv_backend_child_get_cb: on OK freeup the
\* parent for the length read, else report the child's status.
ChildGetDone(r) ==
    LET k == req[r].key IN
    /\ req[r].stage = "c_get"
    /\ \E st \in Lookup(origin, k) :
          IF st = "OK" THEN Freeup(r, origin[k])
          ELSE Callback(r, st, NONE)
    /\ UNCHANGED <<cache, origin, written>>

\* Mutant: priskv_backend_freeup_cb frees its context on a failed evict
\* without calling the continuation.
EvictFailDropsRequest(r) ==
    /\ req[r].stage = "p_evict"
    /\ \/ \E v \in Cached :
             /\ cache' = [cache EXCEPT ![v] = NONE]
             /\ req' = [req EXCEPT ![r].stage =
                           IF Cardinality(Cached) - 1 < CacheCap THEN "p_set" ELSE "p_evict"]
       \/ /\ Cached = {} \/ DriverFailures
          /\ UNCHANGED <<cache, req>>
    /\ UNCHANGED <<origin, written>>

\* The parent evict completes; priskv_backend_freeup_cb: on OK try freeup
\* again, else priskv_backend_cache with the failure, which reports the
\* read as OK without caching it.
ParentEvictDone(r) ==
    /\ req[r].stage = "p_evict"
    /\ \/ \E v \in Cached :
             /\ cache' = [cache EXCEPT ![v] = NONE]
             /\ req' = [req EXCEPT ![r].stage =
                           IF Cardinality(Cached) - 1 < CacheCap THEN "p_set" ELSE "p_evict"]
       \/ /\ Cached = {} \/ DriverFailures
          /\ Callback(r, "OK", req[r].fetched)
          /\ UNCHANGED cache
    /\ UNCHANGED <<origin, written>>

\* The parent set of the fetched value completes; priskv_backend_cache_cb
\* reports the read as OK whatever the set returned.  The set was issued
\* with req->valuelen, the caller's buffer size, as the value length.
ParentSetDone(r) ==
    LET k == req[r].key
        f == req[r].fetched
    IN
    /\ req[r].stage = "p_set"
    /\ \/ /\ is_cacheable
          /\ cache' = [cache EXCEPT ![k] = [data |-> f.data, len |-> BufLen]]
       \/ /\ ~is_cacheable \/ DriverFailures
          /\ UNCHANGED cache
    /\ Callback(r, "OK", f)
    /\ UNCHANGED <<origin, written>>

\* The child set completes; priskv_backend_child_set_cb: on OK invalidate
\* the parent with a del, whose status priskv_backend_set_cb reports.
ChildSetDone(r) ==
    LET k == req[r].key IN
    /\ req[r].stage = "c_set"
    /\ \/ /\ origin' = [origin EXCEPT ![k] = req[r].val]
          /\ written' = written \cup {req[r].val}
          /\ req' = [req EXCEPT ![r].stage = "p_del", ![r].wrote = TRUE]
       \/ /\ DriverFailures
          /\ Callback(r, "ERROR", NONE)
          /\ UNCHANGED <<origin, written>>
    /\ UNCHANGED cache

\* The child del completes; priskv_backend_child_del_cb: on OK del the
\* parent too, else report the child's status.
ChildDelDone(r) ==
    LET k == req[r].key IN
    /\ req[r].stage = "c_del"
    /\ \E st \in Lookup(origin, k) :
          IF st = "OK"
          THEN /\ origin' = [origin EXCEPT ![k] = NONE]
               /\ req' = [req EXCEPT ![r].stage = "p_del", ![r].wrote = TRUE]
          ELSE /\ Callback(r, st, NONE)
               /\ UNCHANGED origin
    /\ UNCHANGED <<cache, written>>

\* The parent del (of a SET or a DEL) completes; priskv_backend_set_cb and
\* priskv_backend_del_cb pass its status to the caller.
ParentDelDone(r) ==
    LET k == req[r].key IN
    /\ req[r].stage = "p_del"
    /\ \E st \in Lookup(cache, k) :
          /\ cache' = IF st = "OK" THEN [cache EXCEPT ![k] = NONE] ELSE cache
          /\ Callback(r, st, NONE)
    /\ UNCHANGED <<origin, written>>

\* Mutant: priskv_backend_test_cb calls the caller back before it falls
\* through to the child test.
TestCbEarlyCallback(r) ==
    /\ req[r].stage = "p_test"
    /\ \E st \in Lookup(cache, req[r].key) :
          IF st = "OK" THEN Callback(r, "OK", NONE)
          ELSE req' = [req EXCEPT ![r].stage = "c_test", ![r].cbs = @ + 1]
    /\ UNCHANGED <<cache, origin, written>>

\* The parent test completes; priskv_backend_test_cb: OK is final, any
\* other status falls through to a test of the child.
ParentTestDone(r) ==
    /\ req[r].stage = "p_test"
    /\ \E st \in Lookup(cache, req[r].key) :
          IF st = "OK" THEN Callback(r, "OK", NONE) ELSE Await(r, "c_test")
    /\ UNCHANGED <<cache, origin, written>>

\* The child test completes and its status goes to the caller.
ChildTestDone(r) ==
    /\ req[r].stage = "c_test"
    /\ \E st \in Lookup(origin, req[r].key) : Callback(r, st, NONE)
    /\ UNCHANGED <<cache, origin, written>>

Issue(r) ==
    \E k \in Keys :
        \/ priskv_backend_get(r, k)
        \/ \E v \in [data : Data, len : Lens] : priskv_backend_set(r, k, v)
        \/ priskv_backend_del(r, k)
        \/ priskv_backend_test(r, k)

Complete(r) ==
    \/ ParentGetDone(r)
    \/ ChildGetDone(r)
    \/ ParentEvictDone(r)
    \/ ParentSetDone(r)
    \/ ChildSetDone(r)
    \/ ChildDelDone(r)
    \/ ParentDelDone(r)
    \/ ParentTestDone(r)
    \/ ChildTestDone(r)

Next == \E r \in Reqs : Issue(r) \/ Complete(r)

\* Drivers answer every call they are given (the completion callback of
\* section 5); nothing obliges a caller to issue a request.
Spec == Init /\ [][Next]_vars /\ \A r \in Reqs : WF_vars(Complete(r))

-----------------------------------------------------------------------------
TypeOK ==
    /\ cache \in [Keys -> Value \cup {NONE}]
    /\ origin \in [Keys -> Value \cup {NONE}]
    /\ written \subseteq Value
    /\ \A r \in Reqs :
          /\ req[r].op \in Ops
          /\ req[r].key \in Keys
          /\ req[r].stage \in Stages
          /\ req[r].cbs \in 0..1

\* Every request that is issued has its caller's callback invoked exactly
\* once: when it finishes, and never again (a second call would run the
\* caller's continuation on a freed context).
CallbackOnce == \A r \in Reqs : req[r].cbs = IF req[r].stage = "done" THEN 1 ELSE 0

\* Every request that is issued eventually calls back: no continuation of
\* the chain drops a request (including the evict loop of freeup).
RequestCompletes ==
    \A r \in Reqs : req[r].stage \notin {"idle", "done"} ~> req[r].stage = "done"

\* Section 4.6: a SET stores through to the origin and invalidates the cache
\* copy, so once no request on a key is in flight, the cache holds nothing
\* for it or the value the origin holds.
CacheCoherent ==
    \A k \in Keys :
        (\A r \in Reqs : req[r].key = k => req[r].stage \in {"idle", "done"})
            => cache[k] = NONE \/ (origin[k] # NONE /\ cache[k].data = origin[k].data)

\* Scenario E3: a GET that reports OK returns a value, data and length, that
\* a SET wrote; in particular a value read back from the cache after a
\* cache fill has the length the origin returned.
GetReturnsWrittenValue ==
    \A r \in Reqs : req[r].op = "GET" /\ req[r].stage = "done" /\ req[r].status = "OK"
                        => req[r].got \in written

\* Spec 8.4 and section 7: a SET or DEL reports OK exactly when its write to
\* the origin took place.
WriteStatusReflectsOrigin ==
    \A r \in Reqs : req[r].op \in {"SET", "DEL"} /\ req[r].stage = "done"
                        => (req[r].status = "OK" <=> req[r].wrote)
=============================================================================
