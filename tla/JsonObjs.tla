------------------------------ MODULE JsonObjs ------------------------------
(***************************************************************************)
(* The priskv_object descriptions of server/jsonobjs.c that the HTTP       *)
(* handlers of server/http.c code and decode, written with the            *)
(* declaration macros of include/priskv-codec.h.                           *)
(*                                                                         *)
(* A description is the sequence of its fields in declaration order; a    *)
(* field is [name, kind, type, required, ignored] with kind "value" or     *)
(* "array" (priskv_object_field_type) and type one of the primitive       *)
(* objects of lib/codec.c or the name of another description.  The C      *)
(* offsets are left out: Codec keys a struct's fields by name.            *)
(***************************************************************************)

\* #define required true; #define forced false
required == TRUE
forced == FALSE

\* PRISKV_DECL_OBJECT_VALUE_FIELD(type, name, field, obj, required, ignored)
PRISKV_DECL_OBJECT_VALUE_FIELD(n, obj, req, ign) ==
    [name |-> n, kind |-> "value", type |-> obj, required |-> req, ignored |-> ign]

\* PRISKV_DECL_OBJECT_ARRAY_FIELD(type, name, field, nfield, obj, required,
\* ignored): the array and its count are one field of the description.
PRISKV_DECL_OBJECT_ARRAY_FIELD(n, obj, req, ign) ==
    [name |-> n, kind |-> "array", type |-> obj, required |-> req, ignored |-> ign]

priskv_version_response_obj ==
    << PRISKV_DECL_OBJECT_VALUE_FIELD("version", "string", required, forced) >>

priskv_acl_info_obj ==
    << PRISKV_DECL_OBJECT_ARRAY_FIELD("rules", "string", required, forced) >>

priskv_kvmanage_info_obj ==
    << PRISKV_DECL_OBJECT_VALUE_FIELD("addr", "string", required, forced),
       PRISKV_DECL_OBJECT_VALUE_FIELD("port", "int", required, forced),
       PRISKV_DECL_OBJECT_ARRAY_FIELD("keys", "string", required, forced) >>

\* The descriptions by name, as Codec takes them.
ServerObjs == [priskv_version_response |-> priskv_version_response_obj,
               priskv_acl_info |-> priskv_acl_info_obj,
               priskv_kvmanage_info |-> priskv_kvmanage_info_obj]
=============================================================================
