------------------------------- MODULE Navigation -------------------------------
(***************************************************************************)
(* NavigationNode and the paths of Conversion: how the member that a       *)
(* request or a reply is kept in is found in the data of a service.        *)
(*                                                                         *)
(* A path is the sequence of the member names that lead to a member; names *)
(* are numbers, in the order that a map keeps them.  A service type tells, *)
(* for each path it has, what kind of type is there and that type's name.  *)
(* The data of a service holds one request or reply, `value`, at `at`: the *)
(* cases of its unions are the ones that lead there.                       *)
(*                                                                         *)
(* A navigation tree is the set of the paths of its nodes, so that get_path*)
(* is the node itself.                                                     *)
(***************************************************************************)
EXTENDS Integers, Sequences, FiniteSets, SequencesExt

Paths(type) == DOMAIN type.kind

(* The type of the member at a path, which must be one of the type's. *)
resolve_discriminator_type(type, path) == type.name[path]

(* One node for the root and for each member along the path. *)
fill_root_node(tree, type, path) == tree \cup {node \in Paths(type) : IsPrefix(node, path)}

(* The case of the union at a path; of one that nothing was written to, the
   first. *)
current_case(type, data, path) ==
  IF IsStrictPrefix(path, data.at) THEN data.at[Len(path) + 1]
  ELSE Min({deeper[Len(path) + 1] : deeper \in {p \in Paths(type) : IsStrictPrefix(path, p)}})

(* The order in which the search meets two nodes that do not contain each other. *)
Precedes(node, other) ==
  \E k \in DOMAIN node \cap DOMAIN other :
    node[k] < other[k] /\ \A j \in 1..(k - 1) : node[j] = other[j]

(* Mutant: the case of a union is not looked at. *)
FoundAnyCase(tree, type, data, member_types) ==
  LET Matches(node) == type.name[node] \in member_types
  IN {node \in tree : Matches(node) /\ \A above \in tree : IsStrictPrefix(above, node) => ~Matches(above)}

(* The nodes that are searched: every union above them has them as its case,
   and the search did not stop above them. *)
Found(tree, type, data, member_types) ==
  LET Matches(node) == type.name[node] \in member_types
      Active(node) ==
        \A above \in tree : IsStrictPrefix(above, node) =>
          /\ ~Matches(above)
          /\ type.kind[above] = "union" => node[Len(above) + 1] = current_case(type, data, above)
  IN {node \in tree : Matches(node) /\ Active(node)}

(* The first member, in the order of the search, whose type is one of
   member_types; none if there is not any.  Data of a type that has no tree is
   taken whole. *)
get_discriminator(tree, type, data, member_types, none) ==
  LET found == Found(tree, type, data, member_types) IN
  CASE tree = {} -> <<>>
    [] tree # {} /\ found = {} -> none
    [] OTHER -> CHOOSE node \in found : \A other \in found \ {node} : Precedes(node, other)

(* What is read at a path: another case of a union than the active one holds
   nothing. *)
access_member_data(type, data, path, nothing) ==
  [type |-> type.name[path],
   value |-> IF IsPrefix(path, data.at) THEN data.value ELSE nothing]

=============================================================================
