------------------------------- MODULE ToFastdds -------------------------------
(***************************************************************************)
(* Conversion::xtypes_to_fastdds.  `from` is xtypes data of the type       *)
(* `type`; `to` is the DDS data it is written into, which may hold what an *)
(* earlier message left there.  The result is what `to` then holds.        *)
(***************************************************************************)
EXTENDS DynamicTypes

(* A signed byte is kept in the unsigned one of DDS. *)
set_primitive_data(type, from) ==
  IF type.kind = "int8" THEN from % Width ELSE from

RECURSIVE set_array_data(_, _, _, _), set_sequence_data(_, _, _), set_map_data(_, _, _),
          set_struct_data(_, _, _), set_union_data(_, _, _), set_data(_, _, _)

(* The switch on the kind of a member, of which `to` is the old value. *)
set_data(member_type, from, to) ==
  LET type == resolve_type(member_type) IN
  CASE type.kind = "array" -> set_array_data(type, from, to, <<>>)
    [] type.kind = "sequence" -> set_sequence_data(type, from, to)
    [] type.kind = "map" -> set_map_data(type, from, to)
    [] type.kind = "structure" -> set_struct_data(type, from, to)
    [] type.kind = "union" -> set_union_data(type, from, to)
    [] OTHER -> set_primitive_data(type, from)

(* An item of a collection is converted into data created for it. *)
new_data(type, from) == set_data(type, from, create_data(get_builder(type)))

(* An array of arrays is one array of DDS: the inner ones are written into the
   same data, each at the indexes of where it is. *)
set_array_data(type, from, to, indexes) ==
  LET inner == resolve_type(type.of)
      At(i) == Append(indexes, i - 1)
      Set(data, i) ==
        IF inner.kind = "array" THEN set_array_data(inner, from[i], data, At(i))
        ELSE [data EXCEPT !.items[get_array_index(data, At(i))] = new_data(inner, from[i])]
  IN FoldLeft(Set, to, [i \in DOMAIN from |-> i])

(* Mutant: what is in the sequence is not cleared first. *)
set_sequence_data_after(type, from, to) ==
  to \o [i \in DOMAIN from |-> new_data(type.of, from[i])]

set_sequence_data(type, from, to) ==
  clear_all_values(to) \o [i \in DOMAIN from |-> new_data(type.of, from[i])]

(* Keys are primitive; of other ones Fast DDS makes what it makes of
   set_complex_value with no member. *)
set_map_data(type, from, to) ==
  LET keys == SetToSeq(DOMAIN from)
      pair(i) == <<set_primitive_data(resolve_type(type.key), keys[i]),
                   new_data(type.value, from[keys[i]])>>
  IN clear_all_values(to) \o [i \in DOMAIN keys |-> pair(i)]

(* The members are converted in place, over what was there. *)
set_struct_data(type, from, to) ==
  [id \in DOMAIN to |->
     LET member == type.members[id] IN set_data(member.type, from[member.name], to[id])]

(* The discriminator selects the member that is written; the other members
   keep what they had. *)
set_union_data(type, from, to) ==
  LET dds_type == get_builder(type)
      name == CHOOSE active \in DOMAIN from.member : TRUE
      id == get_member_id_by_name(dds_type, name)
  IN [id |-> CaseOf(dds_type, from.d % Width),
      d |-> from.d % Width,
      members |-> [to.members EXCEPT ![id] =
                     set_data(type.members[id].type, from.member[name], @)]]

(* Only structures and unions are converted. *)
CanConvert(type) == type.kind \in {"structure", "union"}

xtypes_to_fastdds(type, input, output) == set_data(type, input, output)

=============================================================================
