-------------------------------- MODULE Codec --------------------------------
(***************************************************************************)
(* The JSON codec of lib/codec.c: a C struct described by a priskv_object  *)
(* (its fields: name, value or array, element type, required, ignored) is  *)
(* decoded from, coded to and freed by walking the description.           *)
(*                                                                         *)
(* The walks are pure and recursive, so they are operators here; the      *)
(* modules that use the codec (HttpAdmin) apply them inside the actions   *)
(* of their handlers.                                                      *)
(*                                                                         *)
(* A JSON value is a record [t, v]: t its json_type ("boolean", "int",     *)
(* "string", "array", "object"), or "invalid" for text json_tokener does   *)
(* not parse; v the payload (a sequence for an array, a record from key    *)
(* to value for an object).                                                *)
(*                                                                         *)
(* A C value: a boolean, an integer, a string pointer as <<>> (NULL) or    *)
(* <<s>>, an array field as [ptr, elems] (ptr: the calloc'd pointer is not *)
(* NULL), a nested object as a record from field name to value.           *)
(*                                                                         *)
(* The heap blocks a decode allocates are named by their path from the    *)
(* struct: <<>> the struct priskv_codec_decode mallocs, <<"f">> the string *)
(* or array of field f, <<"f", k>> the string of its k-th element.        *)
(***************************************************************************)
EXTENDS Naturals, Sequences, SequencesExt

CONSTANT Objects  \* object name -> its fields, each [name, kind, type, required, ignored]

\* json_object_object_get: the value under a key of an object, or NULL.
NoJson == [t |-> "none", v |-> 0]
Get(j, name) == IF j.t = "object" /\ name \in DOMAIN j.v THEN j.v[name] ELSE NoJson

FieldNames(o) == {Objects[o][i].name : i \in DOMAIN Objects[o]}
FieldNamed(o, n) == Objects[o][CHOOSE i \in DOMAIN Objects[o] : Objects[o][i].name = n]

\* What memset(0) of malloc'd, or calloc, leaves in a value of a type.
RECURSIVE ZeroOf(_)
ZeroField(fd) == IF fd.kind = "array" THEN [ptr |-> FALSE, elems |-> <<>>]
                 ELSE ZeroOf(fd.type)
ZeroOf(ty) == CASE ty = "boolean"          -> FALSE
                [] ty \in {"int", "uint64"} -> 0
                [] ty = "string"           -> <<>>
                [] OTHER -> [n \in FieldNames(ty) |-> ZeroField(FieldNamed(ty, n))]

Ok(v, live) == [ok |-> TRUE, v |-> v, live |-> live]
Fail(v, live) == [ok |-> FALSE, v |-> v, live |-> live]

\* The priskv_value_decode table: a type check, then the value; a string
\* is strdup'd, an object decoded in place.  The result carries the blocks
\* allocated and still allocated.
RECURSIVE DecodeValue(_, _, _), DecodeFields(_, _, _, _, _, _), DecodeElems(_, _, _, _, _, _)
DecodeValue(j, ty, p) ==
    CASE ty = "boolean" ->
            IF j.t = "boolean" THEN Ok(j.v, {}) ELSE Fail(FALSE, {})
      [] ty \in {"int", "uint64"} ->
            IF j.t = "int" THEN Ok(j.v, {}) ELSE Fail(0, {})
      [] ty = "string" ->
            IF j.t = "string" THEN Ok(<<j.v>>, {p}) ELSE Fail(<<>>, {})
      [] OTHER ->
            IF j.t = "object" THEN DecodeFields(j, ty, p, 1, ZeroOf(ty), {})
            ELSE Fail(ZeroOf(ty), {})

\* The element loop of an array field.  An element that fails to decode
\* ends it; the caller frees the array, not the elements decoded before.
DecodeElems(js, ty, fp, k, acc, live) ==
    IF k > Len(js) THEN Ok(acc, live)
    ELSE LET r == DecodeValue(js[k], ty, fp \o <<k>>)
         IN IF r.ok THEN DecodeElems(js, ty, fp, k + 1, Append(acc, r.v), live \cup r.live)
            ELSE Fail(acc, live \cup r.live)

\* __priskv_decode_obj from field i on: a missing field fails if required
\* and is skipped otherwise; every failure is a goto fail that returns -1
\* and frees nothing but a failed array.
DecodeFields(j, o, p, i, data, live) ==
    IF i > Len(Objects[o]) THEN Ok(data, live)
    ELSE LET fd == Objects[o][i]
             fj == Get(j, fd.name)
             fp == p \o <<fd.name>>
             Continue(d, l) == DecodeFields(j, o, p, i + 1, d, l)
         IN CASE fj.t = "none" /\ fd.required -> Fail(data, live)
              [] fj.t = "none" -> Continue(data, live)
              [] fd.kind = "value" ->
                   LET r == DecodeValue(fj, fd.type, fp)
                   IN IF r.ok THEN Continue([data EXCEPT ![fd.name] = r.v], live \cup r.live)
                      ELSE Fail(data, live \cup r.live)
              [] fj.t # "array" -> Fail(data, live)
              [] OTHER ->
                   LET r == DecodeElems(fj.v, fd.type, fp, 1, <<>>, {})
                   IN IF r.ok
                      THEN Continue([data EXCEPT ![fd.name] = [ptr |-> TRUE, elems |-> r.v]],
                                live \cup {fp} \cup r.live)
                      ELSE Fail(data, live \cup r.live)

\* priskv_codec_decode: text that does not parse gives NULL before any
\* allocation; else the struct is malloc'd and zeroed, and a failed decode
\* frees the struct alone.
priskv_codec_decode(j, o) ==
    IF j.t = "invalid" THEN Fail(ZeroOf(o), {})
    ELSE LET r == DecodeFields(j, o, <<>>, 1, ZeroOf(o), {})
         IN IF r.ok THEN Ok(r.v, r.live \cup {<<>>}) ELSE Fail(r.v, r.live)

\* The priskv_value_decode_clean table and __priskv_free_struct: the
\* blocks free() is called on, in order.  free(NULL) does nothing.
RECURSIVE FreeValue(_, _, _), FreeFields(_, _, _, _)
FreeValue(v, ty, p) ==
    CASE ty = "string" -> IF v = <<>> THEN <<>> ELSE <<p>>
      [] ty \in {"boolean", "int", "uint64"} -> <<>>
      [] OTHER -> FreeFields(v, ty, p, 1)

FreeFields(d, o, p, i) ==
    IF i > Len(Objects[o]) THEN <<>>
    ELSE LET fd == Objects[o][i]
             fp == p \o <<fd.name>>
             a == d[fd.name]
         IN (IF fd.kind = "value" THEN FreeValue(a, fd.type, fp)
             ELSE FlattenSeq([k \in DOMAIN a.elems |-> FreeValue(a.elems[k], fd.type, fp \o <<k>>)])
                  \o (IF a.ptr THEN <<fp>> ELSE <<>>))
            \o FreeFields(d, o, p, i + 1)

\* priskv_codec_free_struct of a decoded struct: its fields, then itself.
priskv_codec_free_struct(d, o) == FreeFields(d, o, <<>>, 1) \o << <<>> >>

\* The priskv_value_is_ignored table: a zero number or a NULL string.
IsIgnored(v, ty) == CASE ty \in {"int", "uint64"} -> v = 0
                      [] ty = "string" -> v = <<>>
                      [] OTHER -> FALSE

\* Whether __priskv_code_obj emits a field: an ignored field is left out
\* when its value is ignored, or when it is an empty array.
Emitted(d, fd) == ~(fd.ignored /\ IF fd.kind = "array" THEN Len(d[fd.name].elems) = 0
                                   ELSE IsIgnored(d[fd.name], fd.type))

\* The priskv_value_code table and __priskv_code_obj: a NULL string is
\* coded as "".
RECURSIVE CodeValue(_, _), CodeObj(_, _)
CodeValue(v, ty) ==
    CASE ty = "boolean" -> [t |-> "boolean", v |-> v]
      [] ty \in {"int", "uint64"} -> [t |-> "int", v |-> v]
      [] ty = "string" -> [t |-> "string", v |-> IF v = <<>> THEN "" ELSE v[1]]
      [] OTHER -> [t |-> "object", v |-> CodeObj(v, ty)]

\* Mutant: the element loop of an array field stops one short (j < len - 1).
CodeObjShortArray(d, o) ==
    [n \in {m \in FieldNames(o) : Emitted(d, FieldNamed(o, m))} |->
        LET fd == FieldNamed(o, n) IN
        IF fd.kind = "array"
        THEN [t |-> "array", v |-> [k \in 1..(Len(d[n].elems) - 1) |-> CodeValue(d[n].elems[k], fd.type)]]
        ELSE CodeValue(d[n], fd.type)]

CodeObj(d, o) ==
    [n \in {m \in FieldNames(o) : Emitted(d, FieldNamed(o, m))} |->
        LET fd == FieldNamed(o, n) IN
        IF fd.kind = "array"
        THEN [t |-> "array", v |-> [k \in DOMAIN d[n].elems |-> CodeValue(d[n].elems[k], fd.type)]]
        ELSE CodeValue(d[n], fd.type)]

\* priskv_codec_code: the JSON text of a struct, here its JSON value.
priskv_codec_code(d, o) == [t |-> "object", v |-> CodeObj(d, o)]
=============================================================================
