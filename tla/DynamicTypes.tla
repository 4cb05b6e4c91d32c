----------------------------- MODULE DynamicTypes -----------------------------
(***************************************************************************)
(* Types on the two sides of Conversion, and how one is built from the     *)
(* other (Conversion::get_builder).                                        *)
(*                                                                         *)
(* An xtypes type is a record whose kind is "int8", "uint8", "int32" (any  *)
(* primitive that is copied as it is), "alias", "array", "sequence", "map",*)
(* "structure" or "union".  Its data are integers, sequences (of an array  *)
(* or a sequence), functions from keys (of a map) or from member names (of *)
(* a structure), and for a union its discriminator and a function from the *)
(* name of the one active member.                                          *)
(*                                                                         *)
(* A DDS type has neither aliases nor arrays of arrays, and its bytes are  *)
(* unsigned.  Its data are functions from member ids (of a structure),     *)
(* sequences of items or of pairs, an array's items in one sequence, and   *)
(* for a union a value for every member, active or not.                    *)
(***************************************************************************)
EXTENDS Integers, Sequences, SequencesExt

(* A byte has 2^8 values; so have the discriminators here, which the code
   casts to 2^64. *)
Width == 256

RECURSIVE resolve_type(_)
resolve_type(type) ==
  IF type.kind = "alias" THEN resolve_type(type.of) ELSE type

(* The dimensions of an array whose content is an array are joined. *)
RECURSIVE get_builder(_), get_array_specs(_)
get_array_specs(array) ==
  IF array.of.kind = "array"
    THEN LET inner == get_array_specs(array.of)
         IN [inner EXCEPT !.dims = <<array.dimension>> \o @]
    ELSE [kind |-> "array", dims |-> <<array.dimension>>, of |-> get_builder(array.of)]

get_builder(type) ==
  CASE type.kind \in {"int8", "uint8"} -> [kind |-> "byte"]
    [] type.kind = "int32" -> [kind |-> "int32"]
    [] type.kind = "alias" -> get_builder(resolve_type(type))
    [] type.kind = "array" -> get_array_specs(type)
    [] type.kind = "sequence" -> [kind |-> "sequence", of |-> get_builder(type.of)]
    [] type.kind = "map" ->
         [kind |-> "map", key |-> get_builder(type.key), value |-> get_builder(type.value)]
    [] type.kind = "structure" ->
         [kind |-> "structure",
          members |-> [i \in DOMAIN type.members |->
             [name |-> type.members[i].name, type |-> get_builder(type.members[i].type)]]]
    [] type.kind = "union" ->
         [kind |-> "union",
          members |-> [i \in DOMAIN type.members |->
             [name |-> type.members[i].name, type |-> get_builder(type.members[i].type),
              labels |-> {label % Width : label \in type.members[i].labels},
              default |-> type.members[i].default]]]

-----------------------------------------------------------------------------
(* What Fast DDS does for Conversion. *)

(* How many items an array of these dimensions has. *)
Volume(dims) == FoldLeft(LAMBDA n, dim : n * dim, 1, dims)

(* The data of a type before anything is written to it. *)
RECURSIVE create_data(_)
create_data(type) ==
  CASE type.kind \in {"byte", "int32"} -> 0
    [] type.kind \in {"sequence", "map"} -> <<>>
    [] type.kind = "array" ->
         [dims |-> type.dims,
          items |-> [i \in 1..Volume(type.dims) |-> create_data(type.of)]]
    [] type.kind = "structure" ->
         [id \in DOMAIN type.members |-> create_data(type.members[id].type)]
    [] type.kind = "union" ->
         [id |-> 1, d |-> 0,
          members |-> [id \in DOMAIN type.members |-> create_data(type.members[id].type)]]

get_member_id_by_name(type, name) ==
  CHOOSE id \in DOMAIN type.members : type.members[id].name = name

(* The place of an item of an array of several dimensions, row by row. *)
get_array_index(array, indexes) ==
  LET Weight(k) == Volume(SubSeq(array.dims, k + 1, Len(array.dims)))
  IN 1 + MapThenSumSet(LAMBDA k : indexes[k] * Weight(k), DOMAIN indexes)

(* The member that a discriminator selects. *)
CaseOf(type, d) ==
  LET named == {id \in DOMAIN type.members : d \in type.members[id].labels}
  IN CHOOSE id \in DOMAIN type.members :
       IF named = {} THEN type.members[id].default ELSE id \in named

clear_all_values(data) == <<>>

=============================================================================
