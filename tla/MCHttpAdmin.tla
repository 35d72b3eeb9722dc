----------------------------- MODULE MCHttpAdmin -----------------------------
(* Two clients, so that one can send requests while the other's kvmanage   *)
(* request is paused.  The bodies reach every branch of the decode: arrays *)
(* of zero to two rules mixing a rule that parses, one that does not and a *)
(* number; a missing field; a field of the wrong type after a string was   *)
(* decoded; text that does not parse; no Content-Length.  The items bound *)
(* is 2 so that a third item is dropped as the 65th is in the code.        *)
EXTENDS HttpAdmin

CONSTANTS c1, c2

MCReqs == {c1, c2}

JStr(s) == [t |-> "string", v |-> s]
JInt(n) == [t |-> "int", v |-> n]
JArr(s) == [t |-> "array", v |-> s]
JObj(r) == [t |-> "object", v |-> r]
Invalid == [t |-> "invalid", v |-> 0]

Good == "127.0.0.1"
Bad == "257.0.0.1"
MCGoodRules == {Good}

NoBody == [cl |-> "none", json |-> Invalid]
Bodies(js) == {[cl |-> "ok", json |-> j] : j \in js}

AclJson == {JObj([rules |-> JArr(s)]) : s \in SeqOf({JStr(Good), JStr(Bad), JInt(1)}, 2)}
           \cup {JObj([rules |-> JInt(1)]), JObj([other |-> JInt(1)]), Invalid}

KvJson == {JObj([addr |-> a, port |-> p, keys |-> k]) :
              a \in {JStr(""), JStr("10.0.0.2")},
              p \in {JInt(0), JInt(1)},
              k \in {JArr(<<>>), JArr(<<JStr("k")>>), JArr(<<JStr("k"), JInt(1)>>)}}
          \cup {JObj([addr |-> JStr("10.0.0.2"), port |-> JStr("1"), keys |-> JArr(<<JStr("k")>>)]),
                JObj([addr |-> JStr("10.0.0.2"), keys |-> JArr(<<JStr("k")>>)])}

Q(k, v) == <<k, v>>

MCInputs ==
    [path : {"/api/acl"}, method : {"POST"},
     query : {<<Q("action", "add")>>, <<Q("action", "del")>>}, body : Bodies(AclJson)]
    \cup
    [path : {"/api/acl"}, method : {"GET", "POST"},
     query : {<<>>, <<Q("action", "list")>>, <<Q("action", "add")>>, <<Q("x", "add")>>,
              <<Q("action", "bogus"), Q("action", "del")>>},
     body : {NoBody}]
    \cup
    [path : {"/api/kvcopy"}, method : {"POST"}, query : {<<>>}, body : Bodies(KvJson)]
    \cup
    [path : {"/api/kvmove"}, method : {"GET", "POST"}, query : {<<>>}, body : {NoBody}]
    \cup
    [path : {"/api/info"}, method : {"GET", "POST"},
     query : {<<>>, <<Q("item", "kv")>>, <<Q("item", "bogus")>>, <<Q("x", "kv")>>,
              <<Q("item", "kv"), Q("item", "kv"), Q("item", "bogus")>>},
     body : {NoBody}]
    \cup
    [path : {"/api/ping", "/api/version", "/api"}, method : {"GET", "POST"}, query : {<<>>},
     body : {NoBody}]

MCKnownItems == {"kv"}
=============================================================================
