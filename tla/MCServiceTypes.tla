----------------------------- MODULE MCServiceTypes -----------------------------
(* Services for TLC: methods told apart by a union, with an alias, a shared
   reply type, a request that is also a reply, a name with "::", members of a
   structure, a service that is its only method, a method with a type alone, and
   a reply with the type of what is above its request. *)
EXTENDS ServiceTypes, TLC

CONSTANTS c1, c2, ma, mb, mc

MCCalls == {c1, c2}
Symmetry == Permutations(MCCalls)

MCNames == {"Ask", "Tell", "Work", "Reply", "Ack", "Done", "AskAlias", "::Ask", "In", "Out",
            "Call", "Return", "Header", "Service"}
MCBare == [name \in MCNames |-> IF name = "::Ask" THEN "Ask" ELSE name]

(* A structure with a header and a member that is the union, or structure,
   of the methods' types. *)
Wrapped(kind, root, inner, types) ==
  LET paths == {<<>>, <<1>>, <<2>>} \cup {<<2, i>> : i \in DOMAIN types}
  IN [kind |-> [p \in paths |-> IF p = <<2>> THEN kind ELSE "structure"],
      name |-> [p \in paths |-> CASE p = <<>> -> root [] p = <<1>> -> "Header"
                                  [] p = <<2>> -> inner [] OTHER -> types[p[2]]]]

Whole(root) == [kind |-> (<<>> :> "structure"), name |-> (<<>> :> root)]

(* The i-th method of a wrapped service, and its reply's member. *)
Remapped(i, j, request_name, reply_name) ==
  [request |-> <<2, i>>, reply |-> <<2, j>>, remap |-> TRUE, paired |-> TRUE,
   request_name |-> request_name, reply_name |-> reply_name]

AliasAndShared ==
  [request |-> Wrapped("union", "In", "Call", <<"Ask", "Tell", "Work">>),
   reply |-> Wrapped("union", "Out", "Return", <<"Ack", "Reply", "Ack">>),
   methods |-> (ma :> Remapped(1, 2, "AskAlias", "Reply")) @@
               (mb :> Remapped(2, 1, "Tell", "Ack")) @@ (mc :> Remapped(3, 3, "Work", "Ack"))]

Plain ==
  [request |-> Wrapped("union", "In", "Call", <<"Ask", "Tell">>),
   reply |-> Wrapped("union", "Out", "Return", <<"Ack", "Reply">>),
   methods |-> (ma :> Remapped(1, 2, "Ask", "Reply")) @@ (mb :> Remapped(2, 1, "Tell", "Done"))]

EchoAndScoped ==
  [request |-> Wrapped("union", "In", "Call", <<"::Ask", "Tell", "Work">>),
   reply |-> Wrapped("structure", "Out", "Return", <<"Reply", "Ack", "Done", "Tell">>),
   methods |-> (ma :> Remapped(1, 1, "::Ask", "Reply")) @@
               (mb :> Remapped(2, 4, "Tell", "Tell")) @@ (mc :> Remapped(3, 3, "Work", "Done"))]

Structure ==
  [request |-> Wrapped("structure", "In", "Call", <<"Ask", "Tell">>),
   reply |-> Wrapped("union", "Out", "Return", <<"Ack", "Reply">>),
   methods |-> (ma :> Remapped(1, 2, "Ask", "Reply")) @@ (mb :> Remapped(2, 1, "Tell", "Ack"))]

OnlyMethod ==
  [request |-> Whole("Ask"), reply |-> Whole("Reply"),
   methods |-> (ma :> [request |-> <<>>, reply |-> <<>>, remap |-> FALSE, paired |-> TRUE,
                       request_name |-> "Ask", reply_name |-> "Reply"])]

TypeAlone ==
  [request |-> Wrapped("union", "In", "Call", <<"Ask", "Tell">>),
   reply |-> Wrapped("union", "Out", "Return", <<"Ack", "Reply">>),
   methods |-> (ma :> [request |-> <<2, 1>>, reply |-> <<>>, remap |-> TRUE, paired |-> FALSE,
                       request_name |-> "AskAlias", reply_name |-> "Out"]) @@
               (mb :> Remapped(2, 1, "Tell", "Ack"))]

Mirrored ==
  [request |-> Wrapped("union", "In", "Call", <<"Ask", "Tell">>),
   reply |-> Whole("Call"),
   methods |-> (ma :> [request |-> <<2, 1>>, reply |-> <<>>, remap |-> TRUE, paired |-> TRUE,
                       request_name |-> "Ask", reply_name |-> "Call"])]

MCServices == {Mirrored, TypeAlone, AliasAndShared, Plain, EchoAndScoped, Structure, OnlyMethod}

=============================================================================
