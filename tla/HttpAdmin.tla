------------------------------ MODULE HttpAdmin ------------------------------
(***************************************************************************)
(* The HTTP admin surface of server/http.c over libevhtp.                  *)
(*                                                                         *)
(* libevhtp runs every handler to completion on the HTTP thread's event    *)
(* loop, so a handler, from the request's arrival to its reply, is one     *)
(* step.  /api/kvcopy and /api/kvmove are the exception: the handler hands *)
(* the decoded body to a kvmanage action, pauses the request and returns;  *)
(* the action's completion callback (kvmanage_bottom) later frees it and  *)
(* replies, a step of its own.                                             *)
(*                                                                         *)
(* Each slot of Reqs is a connection that sends one request after another; *)
(* a new request can arrive once the previous one is not paused.  For the  *)
(* current request a slot records its replies and the heap blocks it      *)
(* allocated and has not freed: <<"body">> from get_body, <<"ctx">> the    *)
(* kvmanage context, and <<"info">> \o p the blocks of the decoded struct  *)
(* (Codec's paths).                                                        *)
(*                                                                         *)
(* acl.c, info.c and kvmanage.c are not in the tree: priskv_acl_add/del,   *)
(* priskv_info_items_available and the kvmanage actions are modelled from  *)
(* their declarations, the tests and the spec (marked in the map).        *)
(* libevhtp routes a request to the callback registered for its exact     *)
(* path, so each callback's own strcmp of the path always matches and is   *)
(* left out.                                                               *)
(***************************************************************************)
EXTENDS Naturals, Sequences, SequencesExt, JsonObjs

CONSTANTS Reqs,       \* client connections, each with one request at a time
          Inputs,     \* the requests a client may send: [path, method, query, body]
          GoodRules,  \* the rule strings priskv_acl_add parses
          KnownItems, \* the info items priskv_info_items_available knows
          MaxItems,   \* the bound of items[] in info_cb (64 in the code)
          VERSION,    \* the string priskv_get_version returns
          NONE

C == INSTANCE Codec WITH Objects <- ServerObjs

VARIABLES acl,   \* the installed ACL rules
          slot   \* per client: its current request, see Idle

vars == <<acl, slot>>

\* A client with no request in progress.
Idle0 == [stage |-> "done", replies |-> 1, code |-> 0, mem |-> {}, bad |-> FALSE,
          decoded |-> FALSE, cb |-> "none", op |-> "none", rules |-> <<>>, info |-> NONE,
          body |-> NONE]

Init == /\ acl = {}
        /\ slot = [r \in Reqs |-> Idle0]

Idle(r) == slot[r].stage = "done"

InfoBlocks(ps) == {<<"info">> \o p : p \in ps}
InfoFrees(fs) == [i \in DOMAIN fs |-> <<"info">> \o fs[i]]

\* free() of each block in turn: the blocks left, and whether one of the
\* calls freed a block that was not allocated or was already freed.
Release(mem, fs) ==
    [mem |-> mem \ ToSet(fs),
     bad |-> \E i \in DOMAIN fs : fs[i] \notin mem \/ \E k \in 1..(i - 1) : fs[k] = fs[i]]

\* The request ends with one evhtp_send_reply of code; m is what free()
\* left of its allocations.
Reply(r, code, m, decoded, op, rules) ==
    slot' = [slot EXCEPT ![r] = [Idle0 EXCEPT !.code = code, !.mem = m.mem, !.bad = m.bad,
                                             !.decoded = decoded, !.op = op, !.rules = rules]]

\* A reply before anything was allocated.
Answer(r, code) == Reply(r, code, [mem |-> {}, bad |-> FALSE], FALSE, "none", <<>>)

\* A 200 whose body is the JSON priskv_codec_code makes of the struct st
\* described by o; the coded text is freed once added to the buffer.
AnswerJson(r, op, o, st) ==
    slot' = [slot EXCEPT ![r] = [Idle0 EXCEPT !.code = 200, !.op = op,
                 !.body = [obj |-> o, st |-> st, json |-> C!priskv_codec_code(st, o)]]]

\* priskv_http_api_get_body: NULL without a positive Content-Length.
HasBody(in) == in.body.cl = "ok"

\* priskv_http_api_default_cb, for "/api" and every unregistered path.
priskv_http_api_default_cb(r, in) ==
    /\ Idle(r)
    /\ in.path \notin {"/api/acl", "/api/info", "/api/kvcopy", "/api/kvmove",
                       "/api/ping", "/api/version"}
    /\ Answer(r, 404)
    /\ UNCHANGED acl

\* priskv_http_api_ping_cb: GET only, "pong".
priskv_http_api_ping_cb(r, in) ==
    /\ Idle(r)
    /\ in.path = "/api/ping"
    /\ Answer(r, IF in.method = "GET" THEN 200 ELSE 405)
    /\ UNCHANGED acl

\* priskv_acl_add and priskv_acl_del applied to the rules in order: an add
\* fails on a rule that does not parse, a del on one not installed.
AclApply(op, a, rules) ==
    IF op = "add" THEN a \cup {x \in ToSet(rules) : x \in GoodRules}
    ELSE a \ ToSet(rules)

AclFails(op, a, rules) ==
    IF op = "add" THEN \E i \in DOMAIN rules : rules[i] \notin GoodRules
    ELSE \E i \in DOMAIN rules : rules[i] \notin a \/ \E k \in 1..(i - 1) : rules[k] = rules[i]

\* Mutant: the status is that of the last rule, overwritten on every turn.
AclModifyLastStatus(r, in, op) ==
    \/ /\ in.method # "POST"
       /\ Answer(r, 405) /\ UNCHANGED acl
    \/ /\ in.method = "POST" /\ ~HasBody(in)
       /\ Answer(r, 400) /\ UNCHANGED acl
    \/ /\ in.method = "POST" /\ HasBody(in)
       /\ LET d == C!priskv_codec_decode(in.body.json, "priskv_acl_info")
              mem == {<<"body">>} \cup InfoBlocks(d.live)
              rules == [k \in DOMAIN d.v.rules.elems |-> d.v.rules.elems[k][1]]
              last == IF rules = <<>> THEN <<>> ELSE <<rules[Len(rules)]>>
          IN IF ~d.ok
             THEN /\ Reply(r, 400, Release(mem, << <<"body">> >>), FALSE, op, <<>>)
                  /\ UNCHANGED acl
             ELSE /\ acl' = AclApply(op, acl, rules)
                  /\ Reply(r, IF AclFails(op, AclApply(op, acl, Front(rules)), last) THEN 400 ELSE 200,
                           Release(mem, InfoFrees(C!priskv_codec_free_struct(d.v, "priskv_acl_info"))
                                        \o << <<"body">> >>),
                           TRUE, op, rules)

\* priskv_http_acl_add (and, with op "del", priskv_http_acl_del): POST only;
\* decode the body as priskv_acl_info and apply every rule, 400 if the
\* decode or any rule failed.  The struct and the body are freed on every
\* path after get_body; a failed decode has no struct to free.
AclModify(r, in, op) ==
    \/ /\ in.method # "POST"
       /\ Answer(r, 405) /\ UNCHANGED acl
    \/ /\ in.method = "POST" /\ ~HasBody(in)
       /\ Answer(r, 400) /\ UNCHANGED acl
    \/ /\ in.method = "POST" /\ HasBody(in)
       /\ LET d == C!priskv_codec_decode(in.body.json, "priskv_acl_info")
              mem == {<<"body">>} \cup InfoBlocks(d.live)
              rules == [k \in DOMAIN d.v.rules.elems |-> d.v.rules.elems[k][1]]
          IN IF ~d.ok
             THEN /\ Reply(r, 400, Release(mem, << <<"body">> >>), FALSE, op, <<>>)
                  /\ UNCHANGED acl
             ELSE /\ acl' = AclApply(op, acl, rules)
                  /\ Reply(r, IF AclFails(op, acl, rules) THEN 400 ELSE 200,
                           Release(mem, InfoFrees(C!priskv_codec_free_struct(d.v, "priskv_acl_info"))
                                        \o << <<"body">> >>),
                           TRUE, op, rules)

priskv_http_acl_del(r, in) == AclModify(r, in, "del")

\* priskv_acl_get_rules: a copy of the installed rules, in the ACL's order.
priskv_acl_get_rules == [i \in 1..Cardinality(acl) |-> <<SetToSeq(acl)[i]>>]

\* priskv_http_acl_list: GET only; the installed rules coded as a
\* priskv_acl_info, then the copy freed.
priskv_http_acl_list(r, in) ==
    /\ \/ in.method # "GET" /\ Answer(r, 405)
       \/ in.method = "GET" /\ AnswerJson(r, "list", "priskv_acl_info",
                                          [rules |-> [ptr |-> TRUE, elems |-> priskv_acl_get_rules]])
    /\ UNCHANGED acl

AclActions == {"add", "del", "list"}

\* The TAILQ_FOREACH over the query in priskv_http_api_acl_cb: a key other
\* than "action" ends it with 400, the first known action is run and
\* answered, an unknown action value is passed over.
AclStop(q) == {i \in DOMAIN q : q[i][1] # "action" \/ q[i][2] \in AclActions}
AclChosen(q) == IF AclStop(q) = {} THEN "none"
                ELSE LET i == Min(AclStop(q)) IN IF q[i][1] = "action" THEN q[i][2] ELSE "none"

priskv_http_api_acl_cb(r, in) ==
    /\ Idle(r)
    /\ in.path = "/api/acl"
    /\ \/ AclChosen(in.query) = "add" /\ AclModify(r, in, "add")
       \/ AclChosen(in.query) = "del" /\ priskv_http_acl_del(r, in)
       \/ AclChosen(in.query) = "list" /\ priskv_http_acl_list(r, in)
       \/ AclChosen(in.query) = "none" /\ Answer(r, 400) /\ UNCHANGED acl

\* The query entries the items loop of priskv_http_api_info_cb looks at: it
\* breaks once items[] holds MaxItems entries.
InfoSeen(q) == 1..(IF Len(q) < MaxItems THEN Len(q) ELSE MaxItems)

\* priskv_http_api_info_cb: GET only; every query key must be "item", and
\* priskv_info_items_available must know every item collected.
priskv_http_api_info_cb(r, in) ==
    /\ Idle(r)
    /\ in.path = "/api/info"
    /\ Answer(r, CASE in.method # "GET" -> 405
                    [] \E i \in InfoSeen(in.query) : in.query[i][1] # "item" -> 400
                    [] \E i \in InfoSeen(in.query) : in.query[i][2] \notin KnownItems -> 400
                    [] OTHER -> 200)
    /\ UNCHANGED acl

\* priskv_http_api_version_cb: GET only; the version coded as JSON.
priskv_http_api_version_cb(r, in) ==
    /\ Idle(r)
    /\ in.path = "/api/version"
    /\ \/ in.method # "GET" /\ Answer(r, 405)
       \/ in.method = "GET" /\ AnswerJson(r, "version", "priskv_version_response",
                                          [version |-> <<VERSION>>])
    /\ UNCHANGED acl

\* The checks priskv_http_api_kvmanage makes of the decoded struct.
KvInfoUsable(v) == /\ v.addr \notin {<<>>, <<"">>}
                   /\ v.port # 0
                   /\ Len(v.keys.elems) # 0
                   /\ v.keys.ptr

\* Mutant: the early return after evhtp_request_pause is missing, and the
\* handler runs on into the error path.
KvmanageNoReturn(r, in) ==
    /\ Idle(r)
    /\ in.path \in {"/api/kvcopy", "/api/kvmove"}
    /\ in.method = "POST" /\ HasBody(in)
    /\ LET d == C!priskv_codec_decode(in.body.json, "priskv_kvmanage_info")
           mem == {<<"body">>} \cup InfoBlocks(d.live)
           frees == InfoFrees(C!priskv_codec_free_struct(d.v, "priskv_kvmanage_info"))
           m == Release(mem \cup {<<"ctx">>}, << <<"body">>, <<"body">> >> \o frees \o << <<"ctx">> >>)
       IN /\ d.ok /\ KvInfoUsable(d.v)
          /\ \E st \in {"ok", "fail"} :
                slot' = [slot EXCEPT ![r] = [Idle0 EXCEPT !.stage = "paused", !.replies = 1,
                            !.code = 400, !.mem = m.mem, !.bad = m.bad, !.decoded = TRUE,
                            !.cb = st, !.op = "kvmanage", !.info = d.v]]
    /\ UNCHANGED acl

\* priskv_http_api_kvmanage, for /api/kvcopy and /api/kvmove: POST only;
\* decode the body as priskv_kvmanage_info and check it; allocate the
\* context and start the action.  The action either returns < 0 without
\* calling back, or returns 0 and later calls kvmanage_bottom once with
\* the status it will end with (cb).  Every failure after get_body goes to
\* err, which frees the body, the struct (NULL after a failed decode) and
\* the context (NULL before it was allocated).
priskv_http_api_kvmanage(r, in) ==
    /\ Idle(r)
    /\ in.path \in {"/api/kvcopy", "/api/kvmove"}
    /\ \/ in.method # "POST" /\ Answer(r, 405)
       \/ in.method = "POST" /\ ~HasBody(in) /\ Answer(r, 400)
       \/ /\ in.method = "POST" /\ HasBody(in)
          /\ LET d == C!priskv_codec_decode(in.body.json, "priskv_kvmanage_info")
                 mem == {<<"body">>} \cup InfoBlocks(d.live)
                 frees == InfoFrees(C!priskv_codec_free_struct(d.v, "priskv_kvmanage_info"))
             IN \/ /\ ~d.ok
                   /\ Reply(r, 400, Release(mem, << <<"body">> >>), FALSE, "kvmanage", <<>>)
                \/ /\ d.ok /\ ~KvInfoUsable(d.v)
                   /\ Reply(r, 400, Release(mem, << <<"body">> >> \o frees), TRUE, "kvmanage", <<>>)
                \/ /\ d.ok /\ KvInfoUsable(d.v)
                   /\ Reply(r, 400, Release(mem \cup {<<"ctx">>}, << <<"body">> >> \o frees \o << <<"ctx">> >>),
                            TRUE, "kvmanage", <<>>)
                \/ /\ d.ok /\ KvInfoUsable(d.v)
                   /\ LET m == Release(mem \cup {<<"ctx">>}, << <<"body">> >>)
                      IN \E st \in {"ok", "fail"} :
                           slot' = [slot EXCEPT ![r] = [Idle0 EXCEPT !.stage = "paused", !.replies = 0,
                                       !.mem = m.mem, !.bad = m.bad, !.decoded = TRUE, !.cb = st,
                                       !.op = "kvmanage", !.info = d.v]]
    /\ UNCHANGED acl

\* Mutant: kvmanage_bottom replies and frees the context but not the struct.
KvmanageBottomKeepsInfo(r) ==
    /\ slot[r].cb # "none"
    /\ LET m == Release(slot[r].mem, << <<"ctx">> >>)
       IN slot' = [slot EXCEPT ![r] = [@ EXCEPT !.stage = "done", !.replies = @ + 1,
                      !.code = IF slot[r].cb = "ok" THEN 200 ELSE 400, !.mem = m.mem,
                      !.bad = @ \/ m.bad, !.cb = "none", !.info = NONE]]
    /\ UNCHANGED acl

\* priskv_http_api_kvmanage_bottom, the action's callback on the HTTP
\* thread's event base: free the struct, resume, reply 200 or 400, free
\* the context.
priskv_http_api_kvmanage_bottom(r) ==
    /\ slot[r].cb # "none"
    /\ LET m == Release(slot[r].mem,
                        InfoFrees(C!priskv_codec_free_struct(slot[r].info, "priskv_kvmanage_info"))
                        \o << <<"ctx">> >>)
       IN slot' = [slot EXCEPT ![r] = [@ EXCEPT !.stage = "done", !.replies = @ + 1,
                      !.code = IF slot[r].cb = "ok" THEN 200 ELSE 400, !.mem = m.mem,
                      !.bad = @ \/ m.bad, !.cb = "none", !.info = NONE]]
    /\ UNCHANGED acl

Next == \/ \E r \in Reqs, in \in Inputs :
           \/ priskv_http_api_acl_cb(r, in)
           \/ priskv_http_api_info_cb(r, in)
           \/ priskv_http_api_kvmanage(r, in)
           \/ priskv_http_api_ping_cb(r, in)
           \/ priskv_http_api_version_cb(r, in)
           \/ priskv_http_api_default_cb(r, in)
        \/ \E r \in Reqs : priskv_http_api_kvmanage_bottom(r)

Spec == Init /\ [][Next]_vars

-----------------------------------------------------------------------------
\* Every request is answered exactly once: a paused kvmanage request not
\* before its callback, and every other one by its handler alone, on the
\* early returns and 400/404/405 paths modelled (not the 500 paths).
ReplyOnce == \A r \in Reqs : /\ slot[r].stage = "done" => slot[r].replies = 1
                             /\ slot[r].stage = "paused" => slot[r].replies = 0

\* A request whose body decoded leaves nothing allocated once answered,
\* whether the handler freed it or the kvmanage callback did later, and
\* no handler or callback ever frees a block that is not allocated.
RequestMemorySound ==
    \A r \in Reqs : /\ ~slot[r].bad
                    /\ slot[r].stage = "done" /\ slot[r].decoded => slot[r].mem = {}

\* The rules a JSON body names once a client decodes it as priskv_acl_info.
ClientRules(json) ==
    LET e == C!priskv_codec_decode(json, "priskv_acl_info")
    IN IF e.ok THEN {e.v.rules.elems[i][1] : i \in DOMAIN e.v.rules.elems} ELSE {NONE}

\* A 200 to an ACL add means every rule of the body is installed; a 200 to
\* a del, that none of them is (the per-rule loop of acl_add/acl_del); a
\* 200 to a list carries JSON that a client decodes to exactly the rules
\* installed (get_rules, the coder and the decoder agreeing).
AclReplyReflectsRules ==
    [][\A r \in Reqs :
         slot'[r] # slot[r] /\ slot'[r].code = 200 =>
            /\ slot'[r].op = "add" => ToSet(slot'[r].rules) \subseteq acl'
            /\ slot'[r].op = "del" => ToSet(slot'[r].rules) \cap acl' = {}
            /\ slot'[r].op = "list" => ClientRules(slot'[r].body.json) = acl']_vars

\* What the codec makes of a struct decodes again to the same struct: the
\* struct a paused kvmanage request holds as the handler decoded it, and
\* every struct a handler coded into a reply body.  The code and decode
\* tables agree on every field the server sends or receives.
RoundTrips(st, o) == LET e == C!priskv_codec_decode(C!priskv_codec_code(st, o), o)
                     IN e.ok /\ e.v = st

CodecRoundTrip ==
    \A r \in Reqs : /\ slot[r].stage = "paused" => RoundTrips(slot[r].info, "priskv_kvmanage_info")
                    /\ slot[r].body # NONE => RoundTrips(slot[r].body.st, slot[r].body.obj)

\* A request answered after a failed decode has freed what the decode
\* allocated: priskv_codec_decode frees the struct and nothing else, so
\* the strings and arrays decoded before the failing field are lost.
DecodeFailureFreesAll == \A r \in Reqs : slot[r].stage = "done" => slot[r].mem = {}
====
