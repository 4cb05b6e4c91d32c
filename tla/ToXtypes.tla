-------------------------------- MODULE ToXtypes --------------------------------
(***************************************************************************)
(* Conversion::fastdds_to_xtypes.  `from` is DDS data, and the result is   *)
(* the xtypes data of `type` that it is converted to: every caller passes  *)
(* new data, and so does each function for the items of a collection.      *)
(***************************************************************************)
EXTENDS DynamicTypes

(* A byte is read back as the signed one that it was, if it was one. *)
get_primitive_data(type, from) ==
  IF type.kind = "int8" /\ from >= Width \div 2 THEN from - Width ELSE from

RECURSIVE set_array_data(_, _, _), set_sequence_data(_, _), set_map_data(_, _),
          set_struct_data(_, _), set_union_data(_, _), get_data(_, _)

(* The switch on the kind of a member. *)
get_data(member_type, from) ==
  LET type == resolve_type(member_type) IN
  CASE type.kind = "array" -> set_array_data(type, from, <<>>)
    [] type.kind = "sequence" -> set_sequence_data(type, from)
    [] type.kind = "map" -> set_map_data(type, from)
    [] type.kind = "structure" -> set_struct_data(type, from)
    [] type.kind = "union" -> set_union_data(type, from)
    [] OTHER -> get_primitive_data(type, from)

set_array_data(type, from, indexes) ==
  LET inner == resolve_type(type.of)
      At(i) == Append(indexes, i - 1)
  IN [i \in 1..type.dimension |->
        IF inner.kind = "array" THEN set_array_data(inner, from, At(i))
        ELSE get_data(inner, from.items[get_array_index(from, At(i))])]

set_sequence_data(type, from) ==
  [i \in DOMAIN from |-> get_data(type.of, from[i])]

(* The pairs are added in order: of two with the same key the last one stays. *)
set_map_data(type, from) ==
  LET Add(map, pair) == (get_data(type.key, pair[1]) :> get_data(type.value, pair[2])) @@ map
  IN FoldLeft(Add, <<>>, from)

(* Each member goes to the one of its name. *)
set_struct_data(type, from) ==
  LET dds_type == get_builder(type)
      names == {dds_type.members[id].name : id \in DOMAIN from}
  IN [name \in names |->
        LET id == get_member_id_by_name(dds_type, name)
        IN get_data(type.members[id].type, from[id])]

(* What a signed member holds once it is written as an unsigned one is for
   xtypes to say: a value that no byte has stands for it. *)
Mistyped == Width

(* Writing to the member selects it, with a discriminator that xtypes chooses
   among those of the member: the one that was sent is not looked at.  Unlike
   set_struct_data, it writes every byte as an unsigned one. *)
set_union_data(type, from) ==
  LET member == type.members[from.id]
      d == CHOOSE label \in -Width..Width :
             /\ member.labels # {} => label \in member.labels
             /\ member.labels = {} => \A other \in DOMAIN type.members :
                                        label \notin type.members[other].labels
      value == IF resolve_type(member.type).kind = "int8" THEN Mistyped
               ELSE get_data(member.type, from.members[from.id])
  IN [d |-> d, member |-> (member.name :> value)]

fastdds_to_xtypes(type, input) == get_data(type, input)

=============================================================================
