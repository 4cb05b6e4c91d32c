------------------------------ MODULE MCPublisher ------------------------------
(* Instances of Publisher for TLC: small types of every kind and nesting, with
   messages that differ in length, keys, active member and sign. *)
EXTENDS Publisher

CONSTANTS c1, c2, c3

MCCalls == {c1, c2, c3}

(* The calls differ in nothing but their message. *)
Symmetry == Permutations(MCCalls)

int8 == [kind |-> "int8"]
uint8 == [kind |-> "uint8"]
int32 == [kind |-> "int32"]
Alias(of) == [kind |-> "alias", of |-> of]
SequenceOf(of) == [kind |-> "sequence", of |-> of]
ArrayOf(of, n) == [kind |-> "array", of |-> of, dimension |-> n]
MapOf(key, value) == [kind |-> "map", key |-> key, value |-> value]
Struct(members) == [kind |-> "structure", members |-> members]
Union(members) == [kind |-> "union", members |-> members]
Member(name, of) == [name |-> name, type |-> of]
Case(name, of, labels, default) ==
  [name |-> name, type |-> of, labels |-> labels, default |-> default]

Bytes == Struct(<<Member("signed", int8), Member("unsigned", Alias(uint8))>>)
Lists == Struct(<<Member("rows", SequenceOf(SequenceOf(int8))), Member("last", SequenceOf(Bytes))>>)
Grid == Struct(<<Member("grid", ArrayOf(ArrayOf(int8, 2), 3)),
                 Member("lists", ArrayOf(SequenceOf(int32), 2)),
                 Member("aliased", Alias(ArrayOf(int8, 2)))>>)
Table == Struct(<<Member("table", Alias(MapOf(int8, SequenceOf(int32)))),
                  Member("grids", MapOf(int32, ArrayOf(int8, 2)))>>)
Choice == Union(<<Case("number", int8, {1, 2}, FALSE),
                  Case("octet", Alias(uint8), {3}, FALSE),
                  Case("list", SequenceOf(int32), {-1}, FALSE),
                  Case("other", Table, {}, TRUE)>>)
Nested == Struct(<<Member("choice", Choice), Member("choices", SequenceOf(Choice))>>)

(* Neither a structure nor a union. *)
Loose == SequenceOf(int32)

MCTypes == {Bytes, Lists, Grid, Table, Choice, Nested, Loose}

byte(a, b) == [signed |-> a, unsigned |-> b]
grid(a, b) == [grid |-> <<<<a, 1>>, <<2, b>>, <<b, a>>>>,
               lists |-> <<<<a>>, <<>>>>, aliased |-> <<b, a>>]
table(t, g) == [table |-> t, grids |-> g]
tables == {table(<<>>, (3 :> <<-1, 1>>)),
           table((-1 :> <<5>>) @@ (1 :> <<>>), <<>>),
           table((-1 :> <<6, 7>>), (3 :> <<2, 2>>) @@ (4 :> <<0, -2>>))}
choice(d, name, v) == [d |-> d, member |-> (name :> v)]
choices == {choice(1, "number", -3), choice(3, "octet", 200), choice(3, "octet", 4),
            choice(-1, "list", <<8, 9>>), choice(-1, "list", <<>>)} \cup
           {choice(7, "other", t) : t \in tables}

MCMessages ==
  (Bytes :> {byte(-1, 255), byte(127, 128), byte(-128, 0)}) @@
  (Lists :> {[rows |-> <<>>, last |-> <<byte(-1, 1)>>],
             [rows |-> <<<<1, -1>>, <<>>>>, last |-> <<>>],
             [rows |-> <<<<2>>>>, last |-> <<byte(0, 2), byte(3, 4)>>]}) @@
  (Grid :> {grid(-1, 1), grid(0, -128)}) @@
  (Table :> tables) @@
  (Choice :> choices) @@
  (Nested :> {[choice |-> choice(1, "number", 9), choices |-> <<>>],
              [choice |-> choice(-1, "list", <<1>>),
               choices |-> <<choice(2, "number", -5), choice(3, "octet", 255),
                             choice(-1, "list", <<1>>)>>],
              [choice |-> choice(7, "other", CHOOSE t \in tables : TRUE),
               choices |-> <<choice(-1, "list", <<>>)>>]}) @@
  (Loose :> {<<>>, <<1>>})

=============================================================================
