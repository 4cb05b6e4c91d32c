-------------------------- MODULE ServiceTypesProofs --------------------------
(***************************************************************************)
(* For any service, however its types are nested and named, and any calls: *)
(* a method that the tables can tell from the others has its requests and  *)
(* replies where they belong.  First the search of a navigation tree, then *)
(* the tables, then the calls.                                             *)
(***************************************************************************)
EXTENDS ServiceTypes, FiniteSetTheorems, SequenceTheorems,
        WellFoundedInduction, TLAPS

-----------------------------------------------------------------------------
(* Paths and their order. *)

(* A prefix, item by item. *)
LEMMA PrefixItems ==
  ASSUME NEW s \in Seq(Nat), NEW t \in Seq(Nat)
  PROVE  /\ IsPrefix(s, t) <=> Len(s) <= Len(t) /\ \A i \in 1..Len(s) : s[i] = t[i]
         /\ IsStrictPrefix(s, t) <=>
              Len(s) < Len(t) /\ \A i \in 1..Len(s) : s[i] = t[i]
<1>1. IsPrefix(s, t) <=> Len(s) <= Len(t) /\ \A i \in 1..Len(s) : s[i] = t[i]
  <2> SUFFICES ASSUME Len(s) <= Len(t)
               PROVE  SubSeq(s, 1, Len(s)) = SubSeq(t, 1, Len(s))
                        <=> \A i \in 1..Len(s) : s[i] = t[i]
    BY DEF IsPrefix
  <2> DEFINE u == SubSeq(t, 1, Len(s))
  <2>1. SubSeq(s, 1, Len(s)) = s
    OBVIOUS
  <2>2. u \in Seq(Nat) /\ Len(u) = Len(s) /\ \A i \in 1..Len(s) : u[i] = t[i]
    OBVIOUS
  <2> HIDE DEF u
  <2>3. s = u <=> \A i \in 1..Len(s) : s[i] = u[i]
    BY <2>2, SeqEqual
  <2> QED
    BY <2>1, <2>2, <2>3 DEF u
<1>2. ASSUME Len(s) = Len(t), \A i \in 1..Len(s) : s[i] = t[i]
      PROVE  s = t
  BY <1>2, SeqEqual
<1> QED
  BY <1>1, <1>2 DEF IsStrictPrefix

(* A set of natural numbers that is not empty has a least one. *)
LEMMA LeastNatural ==
  ASSUME NEW T \in SUBSET Nat, T # {}
  PROVE  \E n \in T : \A m \in T : n <= m
<1> DEFINE R == {ss \in Nat \X Nat : ss[1] < ss[2]}
<1>1. OpToRel(<, Nat) = R
  BY Zenon DEF OpToRel
<1>2. \E n \in T : \A m \in T : ~ (<<m, n>> \in R)
  <2> HIDE DEF R
  <2> QED
    BY <1>1, NatLessThanWellFounded, WFMin, Zenon
<1>3. PICK n \in T : \A m \in T : ~ (<<m, n>> \in R)
  BY <1>2
<1>4. ASSUME NEW m \in T
      PROVE  n <= m
  <2>1. ~ (<<m, n>> \in R)
    BY <1>3
  <2>2. m \in Nat /\ n \in Nat
    OBVIOUS
  <2> QED
    BY <2>1, <2>2
<1> QED
  BY <1>4

(* Of two paths that do not contain each other, one is met first. *)
LEMMA PrecedesTotal ==
  ASSUME NEW s \in Seq(Nat), NEW t \in Seq(Nat),
         ~IsPrefix(s, t), ~IsPrefix(t, s)
  PROVE  Precedes(s, t) \/ Precedes(t, s)
<1> DEFINE Differ == {k \in DOMAIN s \cap DOMAIN t : s[k] # t[k]}
<1>1. DOMAIN s = 1..Len(s) /\ DOMAIN t = 1..Len(t) /\ Len(s) \in Nat /\ Len(t) \in Nat
  OBVIOUS
<1>2. Differ # {}
  <2>1. CASE Len(s) <= Len(t)
    <3>1. PICK i \in 1..Len(s) : s[i] # t[i]
      BY <2>1, PrefixItems
    <3> QED
      BY <1>1, <2>1, <3>1
  <2>2. CASE Len(t) <= Len(s)
    <3>1. PICK i \in 1..Len(t) : t[i] # s[i]
      BY <2>2, PrefixItems
    <3> QED
      BY <1>1, <2>2, <3>1
  <2> QED
    BY <1>1, <2>1, <2>2
<1>3. Differ \in SUBSET Nat
  BY <1>1
<1>4. PICK k \in Differ : \A j \in Differ : k <= j
  <2> HIDE DEF Differ
  <2> QED
    BY <1>2, <1>3, LeastNatural
<1>5. k \in DOMAIN s \cap DOMAIN t /\ s[k] \in Nat /\ t[k] \in Nat /\ s[k] # t[k]
  BY <1>1, <1>4
<1>6. \A j \in 1..(k - 1) : s[j] = t[j]
  <2>1. \A j \in 1..(k - 1) : j \in DOMAIN s \cap DOMAIN t /\ ~(k <= j)
    BY <1>1, <1>5
  <2> QED
    BY <1>4, <2>1
<1> QED
  BY <1>5, <1>6 DEF Precedes

(* No path is met before itself, and what is met before is met in order. *)
LEMMA PrecedesOrder ==
  /\ \A s \in Seq(Nat) : ~Precedes(s, s)
  /\ \A s, t, u \in Seq(Nat) : Precedes(s, t) /\ Precedes(t, u) => Precedes(s, u)
<1>1. \A s \in Seq(Nat) : ~Precedes(s, s)
  BY DEF Precedes
<1>2. ASSUME NEW s \in Seq(Nat), NEW t \in Seq(Nat), NEW u \in Seq(Nat),
             Precedes(s, t), Precedes(t, u)
      PROVE  Precedes(s, u)
  <2>1. PICK k \in DOMAIN s \cap DOMAIN t :
          s[k] < t[k] /\ \A j \in 1..(k - 1) : s[j] = t[j]
    BY <1>2 DEF Precedes
  <2>2. PICK l \in DOMAIN t \cap DOMAIN u :
          t[l] < u[l] /\ \A j \in 1..(l - 1) : t[j] = u[j]
    BY <1>2 DEF Precedes
  <2>3. /\ k \in 1..Len(s) /\ k \in 1..Len(t) /\ l \in 1..Len(t) /\ l \in 1..Len(u)
        /\ DOMAIN s = 1..Len(s) /\ DOMAIN u = 1..Len(u)
        /\ s[k] \in Nat /\ t[k] \in Nat /\ t[l] \in Nat /\ u[l] \in Nat
    OBVIOUS
  <2>4. CASE k <= l
    <3>1. k \in DOMAIN s \cap DOMAIN u
      BY <2>3, <2>4
    <3>2. s[k] < u[k]
      <4>1. s[k] \in Nat /\ t[k] \in Nat /\ u[k] \in Nat
        BY <2>3, <3>1
      <4>2. k = l \/ k \in 1..(l - 1)
        BY <2>3, <2>4
      <4>3. CASE k = l
        BY <2>1, <2>2, <4>1, <4>3
      <4>4. CASE k \in 1..(l - 1)
        BY <2>1, <2>2, <4>1, <4>4
      <4> QED
        BY <4>2, <4>3, <4>4
    <3>3. \A j \in 1..(k - 1) : s[j] = u[j]
      BY <2>1, <2>2, <2>3, <2>4
    <3> QED
      BY <3>1, <3>2, <3>3 DEF Precedes
  <2>5. CASE l < k
    <3>1. l \in DOMAIN s \cap DOMAIN u
      BY <2>3, <2>5
    <3>2. s[l] < u[l]
      <4>1. s[l] \in Nat /\ t[l] \in Nat /\ u[l] \in Nat
        BY <2>3, <3>1
      <4>2. l \in 1..(k - 1)
        BY <2>3, <2>5
      <4>3. s[l] = t[l]
        BY <2>1, <4>2
      <4> QED
        BY <2>2, <4>1, <4>3
    <3>3. \A j \in 1..(l - 1) : s[j] = u[j]
      BY <2>1, <2>2, <2>3, <2>5
    <3> QED
      BY <3>1, <3>2, <3>3 DEF Precedes
  <2> QED
    BY <2>3, <2>4, <2>5
<1> QED
  BY <1>1, <1>2

(* Of finitely many that do not contain each other, one is met first of all. *)
LEMMA FirstMet ==
  ASSUME NEW found, found \subseteq Seq(Nat), IsFiniteSet(found), found # {},
         \A node, other \in found : ~IsStrictPrefix(node, other)
  PROVE  \E node \in found : \A other \in found \ {node} : Precedes(node, other)
<1> DEFINE Before(node) == {other \in found : Precedes(other, node)}
           Ranks == {Cardinality(Before(node)) : node \in found}
<1>1. \A node \in found : /\ IsFiniteSet(Before(node))
                          /\ Cardinality(Before(node)) \in Nat
  <2> TAKE node \in found
  <2>1. Before(node) \in SUBSET found
    OBVIOUS
  <2> HIDE DEF Before
  <2> QED
    BY <2>1, FS_Subset, FS_CardinalityType
<1>2. PICK rank \in Ranks : \A other \in Ranks : rank <= other
  <2>1. Ranks \in SUBSET Nat /\ Ranks # {}
    BY <1>1
  <2> HIDE DEF Ranks
  <2> QED
    BY <2>1, LeastNatural
<1>3. PICK node \in found : rank = Cardinality(Before(node))
  OBVIOUS
<1>4. ASSUME NEW other \in Before(node)
      PROVE  FALSE
  <2>1. other \in found /\ Precedes(other, node)
    OBVIOUS
  <2>2. \A n \in Before(other) : n \in Before(node)
    BY <2>1, PrecedesOrder
  <2>3. other \notin Before(other)
    BY <2>1, PrecedesOrder
  <2>4. /\ Before(other) \in SUBSET Before(node)
        /\ Before(other) # Before(node)
    <3> HIDE DEF Before
    <3> QED
      BY <1>4, <2>2, <2>3
  <2>5. Cardinality(Before(node)) <= Cardinality(Before(other))
    BY <1>2, <1>3, <2>1
  <2> HIDE DEF Before
  <2> QED
    BY <1>1, <2>1, <2>4, <2>5, FS_Subset
<1>5. ASSUME NEW other \in found \ {node}
      PROVE  Precedes(node, other)
  <2>1. ~Precedes(other, node)
    BY <1>4
  <2>2. ~IsPrefix(node, other) /\ ~IsPrefix(other, node)
    BY DEF IsStrictPrefix
  <2> QED
    BY <2>1, <2>2, PrecedesTotal
<1> QED
  BY <1>5

-----------------------------------------------------------------------------
(* The service and its methods. *)

(* Every path of a service type is a sequence, and its prefixes are paths. *)
LEMMA PathsOfService ==
  ASSUME service \in Services
  PROVE  /\ ServiceType(service.request) /\ ServiceType(service.reply)
         /\ Paths(service.request) \subseteq Seq(Nat)
         /\ IsFiniteSet(Paths(service.request))
         /\ <<>> \in Paths(service.request) /\ <<>> \in Paths(service.reply)
         /\ None \notin Paths(service.request) /\ None \notin Methods
BY ServicesTyped, NoneIsNone DEF ServiceType, Methods

(* Whatever a method is configured with is of the service. *)
LEMMA MethodConfig ==
  ASSUME service \in Services, NEW m \in Methods
  PROVE  /\ ServiceMethod(service, service.methods[m])
         /\ RequestName(m) \in Names /\ ReplyName(m) \in Names
         /\ RequestName(m) \in RequestNames(m) /\ RequestNames(m) \subseteq Names
         /\ ReplyNames(m) \subseteq Names
         /\ service.methods[m].paired => ReplyName(m) \in ReplyNames(m)
         /\ MemberNames(m) \subseteq RequestNames(m) \cup ReplyNames(m)
<1>1. ServiceMethod(service, service.methods[m])
  BY ServicesTyped DEF Methods
<1>2. /\ service.request.name[service.methods[m].request] \in Names
      /\ service.reply.name[service.methods[m].reply] \in Names
  BY <1>1, PathsOfService DEF ServiceType, ServiceMethod
<1>3. /\ RequestName(m) \in Names /\ ReplyName(m) \in Names
      /\ Bare[service.methods[m].request_name] \in Names
      /\ Bare[service.methods[m].reply_name] \in Names
  BY <1>1, <1>2, BareTyped
     DEF RequestName, ReplyName, resolve_discriminator_type, ServiceMethod
<1> QED
  BY <1>1, <1>3 DEF RequestNames, ReplyNames, MemberNames

(* The search returns a member that it found, the first, unless there is none:
   two that it found do not contain each other. *)
LEMMA SearchFinds ==
  ASSUME service \in Services,
         NEW tree, tree \subseteq Paths(service.request), tree # {},
         NEW data, NEW member_types
  PROVE  LET type == service.request
             found == Found(tree, type, data, member_types)
             member == get_discriminator(tree, type, data, member_types, None)
         IN /\ found = {} <=> member = None
            /\ member # None => member \in found
            /\ found \subseteq tree
<1> DEFINE type == service.request
           found == Found(tree, type, data, member_types)
           member == get_discriminator(tree, type, data, member_types, None)
<1>1. found \subseteq tree
  BY DEF Found
<1>2. \A node, other \in found : ~IsStrictPrefix(node, other)
  BY DEF Found
<1>3. found \subseteq Seq(Nat) /\ IsFiniteSet(found) /\ None \notin found
  <2> HIDE DEF found
  <2> QED
    BY <1>1, PathsOfService, FS_Subset
<1>4. member = IF found = {} THEN None
               ELSE CHOOSE node \in found : \A other \in found \ {node} : Precedes(node, other)
  BY DEF get_discriminator
<1>5. CASE found # {}
  <2> HIDE DEF found, member
  <2>1. \E node \in found : \A other \in found \ {node} : Precedes(node, other)
    BY <1>2, <1>3, <1>5, FirstMet
  <2>2. member \in found
    BY <1>4, <1>5, <2>1
  <2> QED
    BY <1>1, <1>3, <1>5, <2>2 DEF found, member
<1>6. CASE found = {}
  BY <1>1, <1>4, <1>6
<1> QED
  BY <1>5, <1>6

(* A request whose method can be told is found in the data of the service if
   the method is configured, and nothing is found if it is not, whatever other
   methods are: what leads to their requests is in other cases of a union. *)
LEMMA SearchTold ==
  ASSUME service \in Services, TreeInv, offered \subseteq Methods, offered # {},
         NEW m \in Methods, Told(m), NEW c
  PROVE  LET data == [at |-> service.methods[m].request, value |-> c]
         IN get_discriminator(client.member_tree, service.request, data,
                              client.member_types, None)
              = IF m \in offered THEN service.methods[m].request ELSE None
<1> DEFINE at == service.methods[m].request
           data == [at |-> at, value |-> c]
           tree == client.member_tree
           found == Found(tree, service.request, data, client.member_types)
<1>1. /\ tree \subseteq Paths(service.request)
      /\ \A o \in offered : service.methods[o].request \in tree
      /\ \A node \in tree : \E o \in offered : IsPrefix(node, service.methods[o].request)
      /\ \A node \in Paths(service.request), o \in offered :
           IsPrefix(node, service.methods[o].request) => node \in tree
  <2>1. \A o \in offered : /\ service.methods[o].request \in Paths(service.request)
                           /\ service.methods[o].request \in Seq(Nat)
    BY MethodConfig, PathsOfService DEF ServiceMethod
  <2>2. \A o \in offered : IsPrefix(service.methods[o].request, service.methods[o].request)
    BY <2>1, PrefixItems
  <2> QED
    BY <2>1, <2>2 DEF TreeInv
<1>2. /\ at \in Seq(Nat) /\ at \in Paths(service.request)
      /\ Paths(service.request) \subseteq Seq(Nat)
      /\ \A o \in Methods : service.methods[o].request \in Seq(Nat)
  BY MethodConfig, PathsOfService DEF ServiceMethod
<1>3. \A above \in tree : IsStrictPrefix(above, at) =>
        service.request.name[above] \notin client.member_types
  BY <1>1 DEF Told, TreeInv
<1>4. ASSUME NEW node \in found
      PROVE  m \in offered /\ node = at
  <2>1. /\ node \in tree /\ node \in Seq(Nat)
        /\ service.request.name[node] \in client.member_types
        /\ \A above \in tree :
             IsStrictPrefix(above, node) /\ service.request.kind[above] = "union"
               => node[Len(above) + 1] = current_case(service.request, data, above)
    BY <1>1, <1>2 DEF Found
  <2>2. ~IsStrictPrefix(node, at)
    BY <1>3, <2>1
  <2>3. PICK o \in offered : IsPrefix(node, service.methods[o].request)
    BY <1>1, <2>1
  <2>4. CASE o = m
    BY <2>2, <2>3, <2>4 DEF IsStrictPrefix
  <2>5. CASE o # m
    <3> DEFINE there == service.methods[o].request
    <3>1. PICK common \in Paths(service.request) :
            /\ service.request.kind[common] = "union"
            /\ IsStrictPrefix(common, at) /\ IsStrictPrefix(common, there)
            /\ at[Len(common) + 1] # there[Len(common) + 1]
      BY <2>5 DEF Told, UnionParts
    <3>2. common \in Seq(Nat) /\ there \in Seq(Nat) /\ common \in tree
      BY <1>1, <1>2, <3>1 DEF IsStrictPrefix
    <3>3. Len(common) < Len(node)
      <4>1. SUFFICES ASSUME Len(node) <= Len(common)
                     PROVE  IsStrictPrefix(node, at)
        BY <2>1, <2>2, <3>2
      <4>2. Len(common) < Len(at) /\ \A i \in 1..Len(common) : at[i] = there[i]
        BY <1>2, <3>1, <3>2, PrefixItems
      <4>3. \A i \in 1..Len(node) : node[i] = there[i]
        BY <2>1, <2>3, <3>2, PrefixItems
      <4>4. /\ Len(node) \in Nat /\ Len(common) \in Nat /\ Len(at) \in Nat
            /\ Len(node) <= Len(common)
        BY <1>2, <2>1, <3>2, <4>1
      <4>5. Len(node) < Len(at) /\ \A i \in 1..Len(node) : node[i] = at[i]
        BY <4>2, <4>3, <4>4
      <4> QED
        BY <1>2, <2>1, <4>5, PrefixItems
    <3>4. IsStrictPrefix(common, node)
      BY <2>1, <2>3, <3>1, <3>2, <3>3, PrefixItems
    <3>5. node[Len(common) + 1] = at[Len(common) + 1]
      BY <2>1, <3>1, <3>2, <3>4 DEF current_case
    <3>6. node[Len(common) + 1] = there[Len(common) + 1]
      <4>1. Len(common) + 1 \in 1..Len(node)
        BY <2>1, <3>2, <3>3
      <4> QED
        BY <2>1, <2>3, <3>2, <4>1, PrefixItems
    <3> QED
      BY <3>1, <3>5, <3>6
  <2> QED
    BY <2>4, <2>5
<1>5. ASSUME m \in offered
      PROVE  at \in found
  <2>1. at \in tree /\ service.request.name[at] \in client.member_types
    BY <1>1, <1>5 DEF Told, TreeInv, MemberNames
  <2>2. \A above \in tree : IsStrictPrefix(above, at) =>
          at[Len(above) + 1] = current_case(service.request, data, above)
    BY DEF current_case
  <2> QED
    BY <1>3, <2>1, <2>2 DEF Found
<1> DEFINE member == get_discriminator(tree, service.request, data, client.member_types, None)
<1>6. (found = {} <=> member = None) /\ (member # None => member \in found)
  BY <1>1, SearchFinds
<1> QED
  <2> HIDE DEF found, member, tree
  <2>1. member = IF m \in offered THEN at ELSE None
    BY <1>4, <1>5, <1>6
  <2> QED
    BY <2>1 DEF member, tree

-----------------------------------------------------------------------------
(* The tables' entries. *)

(* A table keeps its type, and its other entries. *)
LEMMA Assigned ==
  ASSUME NEW S, NEW T, NEW table \in [S -> T], NEW entries,
         \A name \in DOMAIN entries : entries[name] \in T
  PROVE  /\ Assign(table, entries) \in [S -> T]
         /\ \A name \in S :
              Assign(table, entries)[name] =
                IF name \in DOMAIN entries THEN entries[name] ELSE table[name]
BY DEF Assign

(* What Server::add_config assigns, to names of the method alone; and where
   the caller's name for the request leads if the method can be told. *)
LEMMA ServerEntries ==
  ASSUME service \in Services, NEW m \in Methods
  PROVE  LET config == service.methods[m]
             paths == ServerDiscriminators(m)
             types == ServerReplyTypes(m)
         IN /\ DOMAIN paths \subseteq RequestNames(m) \cup ReplyNames(m)
            /\ \A name \in DOMAIN paths :
                 paths[name] \in Paths(service.request) \cup Paths(service.reply)
            /\ DOMAIN types \subseteq RequestNames(m)
            /\ \A name \in DOMAIN types : types[name] = ReplyName(m)
            /\ Told(m) =>
                 /\ config.request_name \in DOMAIN paths
                 /\ paths[config.request_name] = config.request
                 /\ config.paired =>
                      ReplyName(m) \in DOMAIN paths /\ paths[ReplyName(m)] = config.reply
                 /\ config.request_name \in DOMAIN types <=> config.paired
<1>1. ServiceMethod(service, service.methods[m])
  BY MethodConfig
<1>2. Told(m) => /\ service.methods[m].request_name \in RequestNames(m)
                 /\ service.methods[m].request_name \notin ReplyNames(m)
  BY DEF Told, RequestNames
<1>3. service.methods[m].paired /\ Told(m) =>
        Bare[service.methods[m].reply_name] # RequestName(m)
  BY DEF Told, RequestNames, ReplyNames
<1> USE DEF ServiceMethod
<1>4. /\ DOMAIN ServerDiscriminators(m) \subseteq RequestNames(m) \cup ReplyNames(m)
      /\ \A name \in DOMAIN ServerDiscriminators(m) :
           ServerDiscriminators(m)[name] \in Paths(service.request) \cup Paths(service.reply)
  BY <1>1 DEF ServerDiscriminators
<1>5. /\ DOMAIN ServerReplyTypes(m) \subseteq RequestNames(m)
      /\ \A name \in DOMAIN ServerReplyTypes(m) : ServerReplyTypes(m)[name] = ReplyName(m)
  BY DEF ServerReplyTypes, RequestNames
<1>6. ASSUME Told(m)
      PROVE  /\ service.methods[m].request_name \in DOMAIN ServerDiscriminators(m)
             /\ ServerDiscriminators(m)[service.methods[m].request_name]
                  = service.methods[m].request
  BY <1>2, <1>6 DEF ServerDiscriminators
<1>7. ASSUME service.methods[m].paired
      PROVE  /\ ReplyName(m) \in DOMAIN ServerDiscriminators(m)
             /\ ServerDiscriminators(m)[ReplyName(m)] = service.methods[m].reply
  BY <1>7, MethodConfig DEF ServerDiscriminators
<1>8. ASSUME Told(m)
      PROVE  service.methods[m].request_name \in DOMAIN ServerReplyTypes(m)
               <=> service.methods[m].paired
  BY <1>2, <1>3, <1>8 DEF ServerReplyTypes
<1> QED
  BY <1>4, <1>5, <1>6, <1>7, <1>8

(* What Client::add_config assigns. *)
LEMMA ClientEntries ==
  ASSUME service \in Services, NEW m \in Methods
  PROVE  LET config == service.methods[m]
             paths == ClientDiscriminators(m)
         IN /\ DOMAIN paths = MemberNames(m)
            /\ \A name \in DOMAIN paths :
                 paths[name] \in Paths(service.request) \cup Paths(service.reply)
            /\ config.paired =>
                 ReplyName(m) \in DOMAIN paths /\ paths[ReplyName(m)] = config.reply
<1>1. ServiceMethod(service, service.methods[m])
  BY MethodConfig
<1> QED
  BY <1>1 DEF ClientDiscriminators, MemberNames, ServiceMethod

(* Methods of which one can be told share no name. *)
LEMMA Apart ==
  ASSUME service \in Services, NEW m \in Methods, NEW other \in Methods \ {m},
         Told(m)
  PROVE  /\ service.methods[m].request_name \notin RequestNames(other) \cup ReplyNames(other)
         /\ RequestName(m) \notin RequestNames(other) \cup ReplyNames(other)
         /\ service.methods[m].paired =>
              ReplyName(m) \notin RequestNames(other) \cup ReplyNames(other)
<1>1. service.methods[m].request_name \in RequestNames(m)
  BY DEF Told, RequestNames
<1> QED
  BY <1>1, MethodConfig DEF Told

-----------------------------------------------------------------------------
(* Every variable keeps its type, and a call has what its stage says. *)
LEMMA TypeStep ==
  TypeOK /\ StageInv /\ [Next]_vars => TypeOK' /\ StageInv'
<1> SUFFICES ASSUME TypeOK, StageInv, [Next]_vars
             PROVE  TypeOK' /\ StageInv'
  OBVIOUS
<1> USE DEF configVars, callVars
<1>0. service \in Services
  BY DEF TypeOK
<1>1. CASE UNCHANGED vars
  <2> USE <1>1 DEF vars
  <2>1. TypeOK'
    BY DEF TypeOK, Methods, Discriminators, ReplyTypes, ReplyIds, Messages, Requests,
       Replies
  <2>2. StageInv'
    BY DEF StageInv, Methods, Requests, Replies, Messages
  <2> QED
    BY <2>1, <2>2
<1> DEFINE ServerTypes == [type_to_discriminator : Discriminators,
                           request_reply : ReplyTypes, reply_id_type : ReplyIds]
           ClientTypes == [type_to_discriminator : Discriminators,
                           request_reply : ReplyTypes, reply_id_type : ReplyIds,
                           callbacks : [Names -> Methods \cup {None}],
                           member_types : SUBSET Names,
                           member_tree : SUBSET Paths(service.request)]
<1>2. ASSUME service' = service
      PROVE  /\ Methods' = Methods /\ Requests' = Requests /\ Replies' = Replies
             /\ Messages' = Messages
             /\ TypeOK' <=>
                  /\ server' \in ServerTypes /\ client' \in ClientTypes
                  /\ served' \subseteq Methods /\ offered' \subseteq Methods
                  /\ stage' \in [Calls -> {"idle", "asked", "called", "dropped", "replied", "answered"}]
                  /\ method' \in [Calls -> Methods \cup {None}]
                  /\ request' \in [Calls -> Requests \cup {None}]
                  /\ reply' \in [Calls -> Replies \cup {None}]
                  /\ answer' \in [Calls -> Messages \cup {None}]
                  /\ handled' \in [Calls -> (Methods \X Messages) \cup {None}]
                  /\ undefined' \in Calls \cup {None}
  BY <1>0, <1>2 DEF TypeOK, Methods, Discriminators, ReplyTypes, ReplyIds, Messages,
     Requests, Replies
<1>3. /\ server \in ServerTypes /\ client \in ClientTypes
      /\ served \subseteq Methods /\ offered \subseteq Methods
      /\ stage \in [Calls -> {"idle", "asked", "called", "dropped", "replied", "answered"}]
      /\ method \in [Calls -> Methods \cup {None}]
      /\ request \in [Calls -> Requests \cup {None}]
      /\ reply \in [Calls -> Replies \cup {None}]
      /\ answer \in [Calls -> Messages \cup {None}]
      /\ handled \in [Calls -> (Methods \X Messages) \cup {None}]
      /\ undefined \in Calls \cup {None}
  BY DEF TypeOK
<1> HIDE DEF ServerTypes, ClientTypes
<1>4. ASSUME NEW m \in Methods, ServerAddConfig(m)
      PROVE  TypeOK' /\ StageInv'
  <2>1. server.type_to_discriminator \in Discriminators /\ server.request_reply \in ReplyTypes
    BY <1>3 DEF ServerTypes
  <2>2. /\ Assign(server.type_to_discriminator, ServerDiscriminators(m)) \in Discriminators
        /\ Assign(server.request_reply, ServerReplyTypes(m)) \in ReplyTypes
    <3>1. /\ \A name \in DOMAIN ServerDiscriminators(m) :
               ServerDiscriminators(m)[name] \in Paths(service.request) \cup Paths(service.reply)
          /\ \A name \in DOMAIN ServerReplyTypes(m) :
               ServerReplyTypes(m)[name] \in Names \cup {None}
      BY <1>0, ServerEntries, MethodConfig
    <3> QED
      BY <2>1, <3>1, Assigned DEF Discriminators, ReplyTypes
  <2>3. server' \in ServerTypes
    BY <1>3, <1>4, <2>2 DEF ServerAddConfig, ServerTypes
  <2> QED
    BY <1>2, <1>3, <1>4, <2>3 DEF ServerAddConfig, StageInv
<1>5. ASSUME NEW m \in Methods, ClientAddConfig(m)
      PROVE  TypeOK' /\ StageInv'
  <2>1. /\ client.type_to_discriminator \in Discriminators
        /\ client.request_reply \in ReplyTypes
        /\ client.callbacks \in [Names -> Methods \cup {None}]
        /\ client.member_types \subseteq Names
        /\ client.member_tree \subseteq Paths(service.request)
    BY <1>3 DEF ClientTypes
  <2>2. Assign(client.type_to_discriminator, ClientDiscriminators(m)) \in Discriminators
    <3>1. \A name \in DOMAIN ClientDiscriminators(m) :
            ClientDiscriminators(m)[name] \in Paths(service.request) \cup Paths(service.reply)
      BY <1>0, ClientEntries
    <3> DEFINE paths == ClientDiscriminators(m)
               T == Paths(service.request) \cup Paths(service.reply)
    <3>2. client.type_to_discriminator \in [Names -> T]
      BY <2>1 DEF Discriminators
    <3>3. \A name \in DOMAIN paths : paths[name] \in T
      BY <3>1
    <3> HIDE DEF paths, T
    <3>4. Assign(client.type_to_discriminator, paths) \in [Names -> T]
      BY <3>2, <3>3, Assigned
    <3> QED
      BY <3>4 DEF Discriminators, paths, T
  <2>3. /\ RequestName(m) \in Names /\ ReplyName(m) \in Names
        /\ client.member_types \cup MemberNames(m) \subseteq Names
        /\ fill_root_node(client.member_tree, service.request, service.methods[m].request)
             \subseteq Paths(service.request)
    BY <1>0, <2>1, MethodConfig DEF fill_root_node
  <2>4. client' \in ClientTypes
    BY <1>3, <1>5, <2>1, <2>2, <2>3 DEF ClientAddConfig, ClientTypes, ReplyTypes
  <2> QED
    BY <1>2, <1>3, <1>5, <2>4 DEF ClientAddConfig, StageInv
<1>6. ASSUME NEW c \in Calls, NEW m \in Methods, Undefined(c, m), undefined = None
      PROVE  TypeOK' /\ StageInv'
  BY <1>2, <1>3, <1>6 DEF Undefined, StageInv
<1>7. ASSUME NEW c \in Calls, NEW m \in Methods, CallService(c, m), undefined = None
      PROVE  TypeOK' /\ StageInv'
  <2> DEFINE path == server.type_to_discriminator[Bare[service.methods[m].request_name]]
  <2>1. CASE Undefined(c, m)
    BY <1>6, <1>7, <2>1
  <2>2. CASE /\ path \in Paths(service.request)
             /\ request' = [request EXCEPT ![c] = [at |-> path, value |-> c]]
             /\ server' = [server EXCEPT !.reply_id_type[c] =
                  server.request_reply[service.methods[m].request_name]]
             /\ stage' = [stage EXCEPT ![c] = "asked"]
             /\ method' = [method EXCEPT ![c] = m]
             /\ UNCHANGED <<service, client, served, offered, handled, reply, answer, undefined>>
    <3>1. service.methods[m].request_name \in Names
      BY <1>0, MethodConfig DEF ServiceMethod
    <3>2. server' \in ServerTypes
      BY <1>3, <2>2, <3>1 DEF ServerTypes, ReplyTypes, ReplyIds
    <3>3. request' \in [Calls -> Requests \cup {None}] /\ request'[c] \in Requests
      <4>1. [at |-> path, value |-> c] \in Requests
        BY <2>2 DEF Requests
      <4> QED
        BY <1>3, <2>2, <4>1
    <3> HIDE DEF path
    <3>4. TypeOK'
      BY <1>2, <1>3, <2>2, <3>2, <3>3
    <3>5. StageInv'
      BY <1>2, <1>3, <1>7, <2>2, <3>3 DEF StageInv, CallService
    <3> QED
      BY <3>4, <3>5
  <2> QED
    BY <1>7, <2>1, <2>2 DEF CallService
<1>8. ASSUME NEW c \in Calls, ClientReceive(c), undefined = None
      PROVE  TypeOK' /\ StageInv'
  <2> DEFINE member == get_discriminator(client.member_tree, service.request, request[c],
                                         client.member_types, None)
             message == access_member_data(service.request, request[c], member, None)
             callback == client.callbacks[message.type]
  <2>0. stage[c] = "asked" /\ method[c] \in Methods /\ request[c] \in Requests
    BY <1>8 DEF ClientReceive, StageInv
  <2>1. CASE Undefined(c, method[c])
    BY <1>6, <1>8, <2>0, <2>1
  <2>2. CASE /\ member # None
             /\ client' = [client EXCEPT !.reply_id_type[c] =
                             client.request_reply[message.type]]
             /\ handled' = [handled EXCEPT ![c] = IF callback = None THEN None
                                                  ELSE <<callback, message>>]
             /\ stage' = [stage EXCEPT ![c] = IF callback = None THEN "dropped" ELSE "called"]
             /\ UNCHANGED <<service, server, served, offered, method, request, reply, answer, undefined>>
    <3>1. member \in Paths(service.request)
      <4>1. client.member_tree \subseteq Paths(service.request)
        BY <1>3 DEF ClientTypes
      <4>2. CASE client.member_tree = {}
        BY <1>0, <4>2, PathsOfService DEF get_discriminator
      <4>3. CASE client.member_tree # {}
        BY <1>0, <2>2, <4>1, <4>3, SearchFinds
      <4> QED
        BY <4>2, <4>3
    <3>2. message \in Messages
      <4>1. service.request.name[member] \in Names
        BY <1>0, <3>1, PathsOfService DEF ServiceType
      <4>2. request[c].value \in Calls
        BY <2>0 DEF Requests
      <4> HIDE DEF member
      <4> QED
        BY <4>1, <4>2 DEF access_member_data, Messages
    <3> HIDE DEF member, message
    <3>3. message.type \in Names
      BY <3>2 DEF Messages
    <3>4. /\ callback \in Methods \cup {None}
          /\ client.request_reply[message.type] \in Names \cup {None}
      BY <1>3, <3>3 DEF ClientTypes, ReplyTypes
    <3> HIDE DEF callback
    <3>5. client' \in ClientTypes
      BY <1>3, <2>2, <3>4 DEF ClientTypes, ReplyIds
    <3>6. /\ handled' \in [Calls -> (Methods \X Messages) \cup {None}]
          /\ callback # None => handled'[c] \in Methods \X Messages
      BY <1>3, <2>2, <3>2, <3>4
    <3>7. TypeOK'
      BY <1>2, <1>3, <2>2, <3>5, <3>6
    <3>8. StageInv'
      BY <1>2, <1>3, <2>0, <2>2, <3>6 DEF StageInv
    <3> QED
      BY <3>7, <3>8
  <2> QED
    BY <1>8, <2>1, <2>2 DEF ClientReceive
<1>9. ASSUME NEW c \in Calls, ReceiveResponse(c), undefined = None
      PROVE  TypeOK' /\ StageInv'
  <2> DEFINE path == ReplyPath(client, c)
  <2>0. stage[c] = "called" /\ method[c] \in Methods
    BY <1>9 DEF ReceiveResponse, StageInv
  <2>1. CASE Undefined(c, method[c])
    BY <1>6, <1>9, <2>0, <2>1
  <2>2. CASE /\ path \in Paths(service.reply)
             /\ reply' = [reply EXCEPT ![c] = [at |-> path, value |-> c]]
             /\ client' = [client EXCEPT !.reply_id_type[c] = None]
             /\ stage' = [stage EXCEPT ![c] = "replied"]
             /\ UNCHANGED <<service, server, served, offered, method, request, handled, answer, undefined>>
    <3>1. client' \in ClientTypes
      BY <1>3, <2>2 DEF ClientTypes, ReplyIds
    <3>2. reply' \in [Calls -> Replies \cup {None}] /\ reply'[c] \in Replies
      <4>1. [at |-> path, value |-> c] \in Replies
        BY <2>2 DEF Replies
      <4> QED
        BY <1>3, <2>2, <4>1
    <3> HIDE DEF path
    <3>3. TypeOK'
      BY <1>2, <1>3, <2>2, <3>1, <3>2
    <3>4. StageInv'
      BY <1>2, <1>3, <2>0, <2>2, <3>2 DEF StageInv
    <3> QED
      BY <3>3, <3>4
  <2> QED
    BY <1>9, <2>1, <2>2 DEF ReceiveResponse
<1>10. ASSUME NEW c \in Calls, ServerReceive(c), undefined = None
       PROVE  TypeOK' /\ StageInv'
  <2> DEFINE path == ReplyPath(server, c)
             given == access_member_data(service.reply, reply[c], path, None)
  <2>0. stage[c] = "replied" /\ method[c] \in Methods /\ reply[c] \in Replies
    BY <1>10 DEF ServerReceive, StageInv
  <2>1. CASE Undefined(c, method[c])
    BY <1>6, <1>10, <2>0, <2>1
  <2>2. CASE /\ path \in Paths(service.reply)
             /\ answer' = [answer EXCEPT ![c] = given]
             /\ server' = [server EXCEPT !.reply_id_type[c] = None]
             /\ stage' = [stage EXCEPT ![c] = "answered"]
             /\ UNCHANGED <<service, client, served, offered, method, request, handled, reply, undefined>>
    <3>1. server' \in ServerTypes
      BY <1>3, <2>2 DEF ServerTypes, ReplyIds
    <3>2. given \in Messages
      <4>1. service.reply.name[path] \in Names
        BY <1>0, <2>2, PathsOfService DEF ServiceType
      <4>2. reply[c].value \in Calls
        BY <2>0 DEF Replies
      <4> HIDE DEF path
      <4> QED
        BY <4>1, <4>2 DEF access_member_data, Messages
    <3> HIDE DEF given, path
    <3>3. answer' \in [Calls -> Messages \cup {None}]
      BY <1>3, <2>2, <3>2
    <3>4. TypeOK'
      BY <1>2, <1>3, <2>2, <3>1, <3>3
    <3>5. StageInv'
      BY <1>2, <1>3, <2>0, <2>2 DEF StageInv
    <3> QED
      BY <3>4, <3>5
  <2> QED
    BY <1>10, <2>1, <2>2 DEF ServerReceive
<1> QED
  BY <1>1, <1>4, <1>5, <1>7, <1>8, <1>9, <1>10 DEF Next

-----------------------------------------------------------------------------
(* The tables, through any configuration. *)

(* The service stays, and with it what is said of its methods. *)
LEMMA ServiceStays ==
  ASSUME [Next]_vars
  PROVE  /\ service' = service /\ Methods' = Methods
         /\ Paths(service.request)' = Paths(service.request)
         /\ \A m : /\ RequestName(m)' = RequestName(m) /\ ReplyName(m)' = ReplyName(m)
                   /\ MemberNames(m)' = MemberNames(m)
                   /\ Told(m)' <=> Told(m)
<1>1. service' = service
  BY DEF Next, vars, ServerAddConfig, ClientAddConfig, CallService, ClientReceive,
     ReceiveResponse, ServerReceive, Undefined
<1>2. ASSUME NEW m
      PROVE  /\ RequestName(m)' = RequestName(m) /\ ReplyName(m)' = ReplyName(m)
             /\ RequestNames(m)' = RequestNames(m) /\ ReplyNames(m)' = ReplyNames(m)
             /\ MemberNames(m)' = MemberNames(m)
  BY <1>1 DEF RequestNames, ReplyNames, MemberNames, RequestName, ReplyName,
     resolve_discriminator_type
<1>3. Methods' = Methods
  BY <1>1 DEF Methods
<1>4. ASSUME NEW p, NEW q
      PROVE  UnionParts(p, q)' <=> UnionParts(p, q)
  BY <1>1 DEF UnionParts
<1>5. Paths(service.request)' = Paths(service.request)
  BY <1>1
<1>6. ASSUME NEW m
      PROVE  Told(m)' <=> Told(m)
  BY <1>1, <1>2, <1>3, <1>4, <1>5 DEF Told
<1> QED
  BY <1>1, <1>2, <1>3, <1>5, <1>6

(* No call changes them. *)
LEMMA TablesStay ==
  ASSUME TypeOK, [Next]_vars,
         \A m \in Methods : ~ServerAddConfig(m) /\ ~ClientAddConfig(m)
  PROVE  /\ served' = served /\ offered' = offered
         /\ server'.type_to_discriminator = server.type_to_discriminator
         /\ server'.request_reply = server.request_reply
         /\ client'.type_to_discriminator = client.type_to_discriminator
         /\ client'.request_reply = client.request_reply
         /\ client'.callbacks = client.callbacks
         /\ client'.member_types = client.member_types
         /\ client'.member_tree = client.member_tree
<1> USE DEF TypeOK
<1>1. CASE UNCHANGED vars
  BY <1>1 DEF vars, configVars
<1>2. ASSUME NEW c \in Calls, NEW m \in Methods, CallService(c, m)
      PROVE  /\ UNCHANGED <<client, served, offered>>
             /\ server'.type_to_discriminator = server.type_to_discriminator
             /\ server'.request_reply = server.request_reply
  BY <1>2 DEF CallService, Undefined, configVars
<1>3. ASSUME NEW c \in Calls, ClientReceive(c) \/ ReceiveResponse(c)
      PROVE  /\ UNCHANGED <<server, served, offered>>
             /\ client'.type_to_discriminator = client.type_to_discriminator
             /\ client'.request_reply = client.request_reply
             /\ client'.callbacks = client.callbacks
             /\ client'.member_types = client.member_types
             /\ client'.member_tree = client.member_tree
  BY <1>3 DEF ClientReceive, ReceiveResponse, Undefined, configVars
<1>4. ASSUME NEW c \in Calls, ServerReceive(c)
      PROVE  /\ UNCHANGED <<client, served, offered>>
             /\ server'.type_to_discriminator = server.type_to_discriminator
             /\ server'.request_reply = server.request_reply
  BY <1>4 DEF ServerReceive, Undefined, configVars
<1> HIDE DEF TypeOK
<1> QED
  BY <1>1, <1>2, <1>3, <1>4 DEF Next

(* Server's tables: its own entries are assigned once, and no other method has
   a name of them. *)
LEMMA ServerTablesStep ==
  TypeOK /\ ServerTablesInv /\ [Next]_vars => ServerTablesInv'
<1> SUFFICES ASSUME TypeOK, ServerTablesInv, [Next]_vars,
                    NEW m \in Methods, Told(m)
             PROVE  ServerTables(m)'
  BY ServiceStays DEF ServerTablesInv
<1>1. service \in Services /\ service' = service /\ ServerTables(m)
  BY ServiceStays DEF TypeOK, ServerTablesInv
<1>2. ReplyName(m)' = ReplyName(m)
  BY ServiceStays
<1>3. CASE /\ m \in served' <=> m \in served
           /\ server'.type_to_discriminator = server.type_to_discriminator
           /\ server'.request_reply = server.request_reply
  BY <1>1, <1>2, <1>3 DEF ServerTables
<1>4. ASSUME NEW other \in Methods, ServerAddConfig(other)
      PROVE  ServerTables(m)'
  <2> DEFINE config == service.methods[m]
             paths == ServerDiscriminators(other)
             types == ServerReplyTypes(other)
  <2>1. CASE ~service.methods[other].remap
    <3>1. m \in served' /\ config.remap => m \in served
      BY <1>4, <2>1 DEF ServerAddConfig
    <3>2. m \in served /\ config.remap => m \in served'
      BY <1>4 DEF ServerAddConfig
    <3>3. server' = server
      BY <1>4, <2>1 DEF ServerAddConfig
    <3> QED
      BY <1>1, <1>2, <3>1, <3>2, <3>3 DEF ServerTables
  <2>2. CASE service.methods[other].remap
    <3>1. /\ config.request_name \in Names /\ ReplyName(m) \in Names
          /\ \A name \in Names :
               /\ server'.type_to_discriminator[name] =
                    IF name \in DOMAIN paths THEN paths[name]
                    ELSE server.type_to_discriminator[name]
               /\ server'.request_reply[name] =
                    IF name \in DOMAIN types THEN types[name]
                    ELSE server.request_reply[name]
      <4>1. /\ server'.type_to_discriminator = Assign(server.type_to_discriminator, paths)
            /\ server'.request_reply = Assign(server.request_reply, types)
        BY <1>4, <2>2 DEF ServerAddConfig, TypeOK
      <4>2. /\ DOMAIN server.type_to_discriminator = Names
            /\ DOMAIN server.request_reply = Names
        BY DEF TypeOK, Discriminators, ReplyTypes
      <4>3. config.request_name \in Names /\ ReplyName(m) \in Names
        BY <1>1, MethodConfig DEF ServiceMethod
      <4> HIDE DEF paths, types
      <4> QED
        BY <4>1, <4>2, <4>3 DEF Assign
    <3>2. CASE other = m
      <4>1. m \in served' /\ config.remap
        BY <1>4, <2>2, <3>2 DEF ServerAddConfig
      <4>2. /\ config.request_name \in DOMAIN paths
            /\ paths[config.request_name] = config.request
            /\ config.paired =>
                 ReplyName(m) \in DOMAIN paths /\ paths[ReplyName(m)] = config.reply
            /\ config.request_name \in DOMAIN types <=> config.paired
            /\ \A name \in DOMAIN types : types[name] = ReplyName(m)
        BY <1>1, <3>2, ServerEntries
      <4>3. m \notin served
        BY <1>4, <3>2 DEF ServerAddConfig
      <4> HIDE DEF paths, types
      <4> QED
        BY <1>1, <1>2, <3>1, <4>1, <4>2, <4>3 DEF ServerTables
    <3>3. CASE other # m
      <4>1. m \in served' <=> m \in served
        BY <1>4, <3>3 DEF ServerAddConfig
      <4>2. /\ config.request_name \notin DOMAIN paths \cup DOMAIN types
            /\ config.paired => ReplyName(m) \notin DOMAIN paths
        BY <1>1, <3>3, Apart, ServerEntries
      <4> HIDE DEF paths, types
      <4> QED
        BY <1>1, <1>2, <3>1, <4>1, <4>2 DEF ServerTables
    <3> QED
      BY <3>2, <3>3
  <2> QED
    BY <2>1, <2>2
<1>5. ASSUME NEW other \in Methods, ClientAddConfig(other)
      PROVE  ServerTables(m)'
  BY <1>3, <1>5 DEF ClientAddConfig
<1>6. ASSUME \A other \in Methods : ~ServerAddConfig(other) /\ ~ClientAddConfig(other)
      PROVE  ServerTables(m)'
  BY <1>3, <1>6, TablesStay
<1> QED
  BY <1>4, <1>5, <1>6

(* So are Client's. *)
LEMMA ClientTablesStep ==
  TypeOK /\ ClientTablesInv /\ [Next]_vars => ClientTablesInv'
<1> SUFFICES ASSUME TypeOK, ClientTablesInv, [Next]_vars,
                    NEW m \in Methods, Told(m)
             PROVE  ClientTables(m)'
  BY ServiceStays DEF ClientTablesInv
<1>1. service \in Services /\ service' = service /\ ClientTables(m)
  BY ServiceStays DEF TypeOK, ClientTablesInv
<1>2. RequestName(m)' = RequestName(m) /\ ReplyName(m)' = ReplyName(m)
  BY ServiceStays
<1>3. CASE /\ offered' = offered
           /\ client'.type_to_discriminator = client.type_to_discriminator
           /\ client'.request_reply = client.request_reply
           /\ client'.callbacks = client.callbacks
  BY <1>1, <1>2, <1>3 DEF ClientTables
<1>4. ASSUME NEW other \in Methods, ClientAddConfig(other)
      PROVE  ClientTables(m)'
  <2> DEFINE config == service.methods[m]
             paths == ClientDiscriminators(other)
  <2>1. /\ RequestName(m) \in Names /\ ReplyName(m) \in Names
        /\ RequestName(other) \in Names
        /\ RequestName(other) \in RequestNames(other)
        /\ MemberNames(other) \subseteq RequestNames(other) \cup ReplyNames(other)
    BY <1>1, MethodConfig
  <2>2. /\ \A name \in Names :
             /\ client'.type_to_discriminator[name] =
                  IF name \in DOMAIN paths THEN paths[name]
                  ELSE client.type_to_discriminator[name]
             /\ client'.callbacks[name] =
                  IF name = RequestName(other) THEN other ELSE client.callbacks[name]
             /\ client'.request_reply[name] =
                  IF name = RequestName(other) /\ service.methods[other].paired
                  THEN ReplyName(other) ELSE client.request_reply[name]
        /\ offered' = offered \cup {other} /\ other \notin offered
    <3>1. /\ client'.type_to_discriminator = Assign(client.type_to_discriminator, paths)
          /\ client'.callbacks = [client.callbacks EXCEPT ![RequestName(other)] = other]
          /\ client'.request_reply = [client.request_reply EXCEPT ![RequestName(other)] =
               IF service.methods[other].paired THEN ReplyName(other) ELSE @]
          /\ offered' = offered \cup {other} /\ other \notin offered
      BY <1>4 DEF ClientAddConfig, TypeOK
    <3>2. /\ DOMAIN client.type_to_discriminator = Names
          /\ client.callbacks \in [Names -> Methods \cup {None}]
          /\ client.request_reply \in [Names -> Names \cup {None}]
      BY DEF TypeOK, Discriminators, ReplyTypes
    <3> HIDE DEF paths
    <3> QED
      BY <2>1, <3>1, <3>2 DEF Assign
  <2>3. CASE other = m
    <3>1. config.paired => ReplyName(m) \in DOMAIN paths /\ paths[ReplyName(m)] = config.reply
      BY <1>1, <2>3, ClientEntries
    <3> HIDE DEF paths
    <3> QED
      BY <1>1, <1>2, <2>1, <2>2, <2>3, <3>1 DEF ClientTables
  <2>4. CASE other # m
    <3>1. /\ RequestName(m) # RequestName(other)
          /\ config.paired => ReplyName(m) \notin DOMAIN paths
      BY <1>1, <2>1, <2>4, Apart, ClientEntries
    <3> HIDE DEF paths
    <3> QED
      BY <1>1, <1>2, <2>1, <2>2, <2>4, <3>1 DEF ClientTables
  <2> QED
    BY <2>3, <2>4
<1>5. ASSUME NEW other \in Methods, ServerAddConfig(other)
      PROVE  ClientTables(m)'
  BY <1>3, <1>5 DEF ServerAddConfig
<1>6. ASSUME \A other \in Methods : ~ServerAddConfig(other) /\ ~ClientAddConfig(other)
      PROVE  ClientTables(m)'
  BY <1>3, <1>6, TablesStay
<1> QED
  BY <1>4, <1>5, <1>6

(* The tree grows by the nodes of one request, the types by its method's. *)
LEMMA TreeStep ==
  TypeOK /\ TreeInv /\ [Next]_vars => TreeInv'
<1> SUFFICES ASSUME TypeOK, TreeInv, [Next]_vars
             PROVE  TreeInv'
  OBVIOUS
<1>1. /\ service' = service /\ Paths(service.request)' = Paths(service.request)
      /\ \A m : MemberNames(m)' = MemberNames(m)
  BY ServiceStays
<1>2. CASE /\ offered' = offered
           /\ client'.member_types = client.member_types
           /\ client'.member_tree = client.member_tree
  BY <1>1, <1>2 DEF TreeInv
<1>3. ASSUME NEW m \in Methods, ClientAddConfig(m)
      PROVE  TreeInv'
  <2>1. /\ client'.member_types = client.member_types \cup MemberNames(m)
        /\ client'.member_tree = client.member_tree \cup
             {node \in Paths(service.request) : IsPrefix(node, service.methods[m].request)}
        /\ offered' = offered \cup {m}
    BY <1>3 DEF ClientAddConfig, TypeOK, fill_root_node
  <2> QED
    BY <1>1, <2>1 DEF TreeInv
<1>4. ASSUME NEW m \in Methods, ServerAddConfig(m)
      PROVE  TreeInv'
  BY <1>2, <1>4 DEF ServerAddConfig
<1>5. ASSUME \A m \in Methods : ~ServerAddConfig(m) /\ ~ClientAddConfig(m)
      PROVE  TreeInv'
  BY <1>2, <1>5, TablesStay
<1> QED
  BY <1>3, <1>4, <1>5

-----------------------------------------------------------------------------
(* The course of a call whose method can be told: where each of its four steps
   finds the member that it looks for. *)

(* Server puts the request at its own path, and notes its own reply. *)
LEMMA RequestPath ==
  ASSUME TypeOK, ServerTablesInv, NEW m \in Methods, Told(m), m \in served
  PROVE  LET config == service.methods[m]
         IN /\ server.type_to_discriminator[Bare[config.request_name]] = config.request
            /\ config.request \in Paths(service.request)
            /\ server.request_reply[config.request_name] =
                 IF config.remap /\ config.paired THEN ReplyName(m) ELSE None
<1>1. ServerTables(m) /\ service \in Services
  BY DEF ServerTablesInv, TypeOK
<1>2. ServiceMethod(service, service.methods[m])
  BY <1>1, MethodConfig
<1>3. Bare[service.methods[m].request_name] = service.methods[m].request_name
  BY DEF Told
<1> QED
  BY <1>1, <1>2, <1>3 DEF ServerTables, ServiceMethod

(* Client finds the request there, once it knows the method. *)
LEMMA RequestMember ==
  ASSUME TypeOK, TreeInv, CourseInv, StageInv, NEW c \in Calls, stage[c] = "asked",
         offered # {}, Told(method[c])
  PROVE  LET m == method[c]
             member == get_discriminator(client.member_tree, service.request, request[c],
                                         client.member_types, None)
         IN /\ m \in Methods
            /\ member = IF m \in offered THEN service.methods[m].request ELSE None
            /\ member # None =>
                 /\ m \in offered
                 /\ access_member_data(service.request, request[c], member, None)
                      = [type |-> RequestName(m), value |-> c]
<1> DEFINE m == method[c]
           at == service.methods[m].request
           member == get_discriminator(client.member_tree, service.request, request[c],
                                       client.member_types, None)
<1>1. m \in Methods /\ service \in Services /\ offered \subseteq Methods
  BY DEF StageInv, TypeOK
<1>2. request[c] = [at |-> at, value |-> c]
  BY <1>1 DEF CourseInv, Course
<1>3. member = IF m \in offered THEN at ELSE None
  BY <1>1, <1>2, SearchTold
<1>4. ASSUME member # None
      PROVE  /\ m \in offered
             /\ access_member_data(service.request, request[c], member, None)
                  = [type |-> RequestName(m), value |-> c]
  <2>1. m \in offered /\ member = at
    BY <1>3, <1>4
  <2>2. IsPrefix(at, at)
    <3>1. at \in Seq(Nat)
      BY <1>1, MethodConfig, PathsOfService DEF ServiceMethod
    <3> QED
      BY <3>1, PrefixItems
  <2>3. service.request.name[at] = RequestName(m)
    BY DEF Told
  <2> HIDE DEF member, at
  <2> QED
    BY <1>2, <2>1, <2>2, <2>3 DEF access_member_data
<1> QED
  BY <1>1, <1>3, <1>4

(* Client puts the response at the path of the reply. *)
LEMMA ClientReplyPath ==
  ASSUME TypeOK, ClientTablesInv, CourseInv, StageInv, NEW c \in Calls,
         stage[c] = "called", Told(method[c])
  PROVE  /\ handled[c][1] = method[c]
         /\ ReplyPath(client, c) = service.methods[method[c]].reply
         /\ ReplyPath(client, c) \in Paths(service.reply)
<1> DEFINE m == method[c]
<1>1. m \in Methods /\ service \in Services
  BY DEF StageInv, TypeOK
<1>2. Course(c, m) /\ ClientTables(m)
  BY <1>1 DEF CourseInv, ClientTablesInv
<1>3. ServiceMethod(service, service.methods[m]) /\ ReplyName(m) # None
  BY <1>1, MethodConfig, NoneIsNone
<1>4. handled[c][1] = m
  BY <1>2 DEF Course
<1>5. ReplyPath(client, c) = service.methods[m].reply
  BY <1>2, <1>3 DEF Course, ClientTables, ServiceMethod, ReplyPath
<1> QED
  BY <1>3, <1>4, <1>5 DEF ServiceMethod

(* Server takes the reply out of the same. *)
LEMMA ServerReplyPath ==
  ASSUME TypeOK, ServerTablesInv, CourseInv, StageInv, NEW c \in Calls,
         stage[c] = "replied", Told(method[c])
  PROVE  LET config == service.methods[method[c]]
         IN /\ ReplyPath(server, c) = config.reply
            /\ config.reply \in Paths(service.reply)
            /\ access_member_data(service.reply, reply[c], config.reply, None)
                 = [type |-> service.reply.name[config.reply], value |-> c]
<1> DEFINE m == method[c]
           config == service.methods[m]
<1>1. m \in Methods /\ service \in Services
  BY DEF StageInv, TypeOK
<1>2. Course(c, m) /\ ServerTables(m)
  BY <1>1 DEF CourseInv, ServerTablesInv
<1>3. ServiceMethod(service, service.methods[m]) /\ ReplyName(m) # None
  BY <1>1, MethodConfig, NoneIsNone
<1>4. ReplyPath(server, c) = config.reply
  BY <1>2, <1>3 DEF Course, ServerTables, ServiceMethod, ReplyPath
<1>5. config.reply \in Paths(service.reply) /\ config.reply \in Seq(Nat)
  BY <1>1, <1>3, PathsOfService DEF ServiceMethod, ServiceType
<1>6. access_member_data(service.reply, reply[c], config.reply, None)
        = [type |-> service.reply.name[config.reply], value |-> c]
  <2>1. reply[c] = [at |-> config.reply, value |-> c]
    BY <1>2 DEF Course
  <2>2. IsPrefix(config.reply, config.reply)
    BY <1>5, PrefixItems
  <2> HIDE DEF config
  <2> QED
    BY <2>1, <2>2 DEF access_member_data
<1> QED
  BY <1>4, <1>5, <1>6

(* What another call does leaves a call alone. *)
LEMMA OthersStay ==
  ASSUME TypeOK, NEW c \in Calls, NEW d \in Calls \ {c},
         \/ \E n \in Methods : CallService(d, n)
         \/ ClientReceive(d) \/ ReceiveResponse(d) \/ ServerReceive(d)
  PROVE  /\ stage'[c] = stage[c] /\ method'[c] = method[c] /\ request'[c] = request[c]
         /\ handled'[c] = handled[c] /\ reply'[c] = reply[c] /\ answer'[c] = answer[c]
         /\ server'.reply_id_type[c] = server.reply_id_type[c]
         /\ client'.reply_id_type[c] = client.reply_id_type[c]
         /\ served' = served /\ offered' = offered
         /\ undefined' \in {undefined, d}
<1> DEFINE Alone ==
      /\ stage'[c] = stage[c] /\ method'[c] = method[c] /\ request'[c] = request[c]
      /\ handled'[c] = handled[c] /\ reply'[c] = reply[c] /\ answer'[c] = answer[c]
      /\ server'.reply_id_type[c] = server.reply_id_type[c]
      /\ client'.reply_id_type[c] = client.reply_id_type[c]
      /\ served' = served /\ offered' = offered
      /\ undefined' \in {undefined, d}
<1>1. ASSUME NEW n, Undefined(d, n)
      PROVE  Alone
  BY <1>1 DEF Undefined, configVars, TypeOK
<1>2. /\ server.reply_id_type \in [Calls -> Names \cup {None}]
      /\ client.reply_id_type \in [Calls -> Names \cup {None}]
      /\ DOMAIN stage = Calls /\ DOMAIN method = Calls
      /\ \A v : [server EXCEPT !.reply_id_type[d] = v].reply_id_type
                 = [server.reply_id_type EXCEPT ![d] = v]
      /\ \A v : [client EXCEPT !.reply_id_type[d] = v].reply_id_type
                 = [client.reply_id_type EXCEPT ![d] = v]
  BY DEF TypeOK, ReplyIds
<1>3. ASSUME NEW n \in Methods, CallService(d, n)
      PROVE  Alone
  <2>1. \/ Undefined(d, n)
        \/ \E at, type :
             /\ request' = [request EXCEPT ![d] = at]
             /\ server' = [server EXCEPT !.reply_id_type[d] = type]
             /\ stage' = [stage EXCEPT ![d] = "asked"]
             /\ method' = [method EXCEPT ![d] = n]
             /\ UNCHANGED <<client, served, offered, handled, reply, answer, undefined>>
    BY <1>3, Zenon DEF CallService
  <2> QED
    BY <1>1, <1>2, <2>1 DEF TypeOK
<1>4. CASE ClientReceive(d)
  <2>1. \/ Undefined(d, method[d])
        \/ \E type, given, next :
             /\ client' = [client EXCEPT !.reply_id_type[d] = type]
             /\ handled' = [handled EXCEPT ![d] = given]
             /\ stage' = [stage EXCEPT ![d] = next]
             /\ UNCHANGED <<server, served, offered, method, request, reply, answer, undefined>>
    BY <1>4, Zenon DEF ClientReceive
  <2> QED
    BY <1>1, <1>2, <2>1 DEF TypeOK
<1>5. CASE ReceiveResponse(d)
  <2>1. \/ Undefined(d, method[d])
        \/ \E at :
             /\ reply' = [reply EXCEPT ![d] = at]
             /\ client' = [client EXCEPT !.reply_id_type[d] = None]
             /\ stage' = [stage EXCEPT ![d] = "replied"]
             /\ UNCHANGED <<server, served, offered, method, request, handled, answer, undefined>>
    BY <1>5, Zenon DEF ReceiveResponse
  <2> QED
    BY <1>1, <1>2, <2>1 DEF TypeOK
<1>6. CASE ServerReceive(d)
  <2>1. \/ Undefined(d, method[d])
        \/ \E given :
             /\ answer' = [answer EXCEPT ![d] = given]
             /\ server' = [server EXCEPT !.reply_id_type[d] = None]
             /\ stage' = [stage EXCEPT ![d] = "answered"]
             /\ UNCHANGED <<client, served, offered, method, request, handled, reply, undefined>>
    BY <1>6, Zenon DEF ServerReceive
  <2> QED
    BY <1>1, <1>2, <2>1 DEF TypeOK
<1> QED
  BY <1>3, <1>4, <1>5, <1>6

(* So every step of such a call takes its course, and the others' steps leave
   it alone. *)
LEMMA CourseStep ==
  /\ TypeOK /\ StageInv /\ ServerTablesInv /\ ClientTablesInv /\ TreeInv /\ CourseInv
  /\ [Next]_vars
  => CourseInv'
<1> SUFFICES ASSUME TypeOK, StageInv, ServerTablesInv, ClientTablesInv, TreeInv, CourseInv,
                    [Next]_vars, NEW c \in Calls, NEW m \in Methods, Told(m),
                    method'[c] = m
             PROVE  /\ stage'[c] # "idle" => Course(c, m)'
                    /\ undefined' = c => stage'[c] = "asked" /\ m \notin offered'
  BY ServiceStays DEF CourseInv
<1> DEFINE config == service.methods[m]
<1>1. /\ service' = service /\ Methods' = Methods
      /\ RequestName(m)' = RequestName(m) /\ ReplyName(m)' = ReplyName(m)
  BY ServiceStays
<1>2. method[c] = m =>
        /\ stage[c] # "idle" => Course(c, m)
        /\ undefined = c => stage[c] = "asked" /\ m \notin offered
  BY DEF CourseInv
<1>3. ASSUME stage'[c] = stage[c], method'[c] = method[c], request'[c] = request[c],
             handled'[c] = handled[c], reply'[c] = reply[c], answer'[c] = answer[c],
             server'.reply_id_type[c] = server.reply_id_type[c],
             client'.reply_id_type[c] = client.reply_id_type[c],
             served \subseteq served', offered \subseteq offered'
      PROVE  stage'[c] # "idle" => Course(c, m)'
  BY <1>1, <1>2, <1>3 DEF Course
<1> DEFINE Goal == /\ stage'[c] # "idle" => Course(c, m)'
                   /\ undefined' = c => stage'[c] = "asked" /\ m \notin offered'
<1>4. ASSUME server'.reply_id_type[c] = server.reply_id_type[c],
             client'.reply_id_type[c] = client.reply_id_type[c],
             UNCHANGED <<callVars, undefined>>, undefined = None \/ offered' = offered,
             served \subseteq served', offered \subseteq offered'
      PROVE  Goal
  BY <1>2, <1>3, <1>4, NoneIsNone DEF callVars
<1>5. ASSUME Undefined(c, m), method[c] = m, stage[c] = "asked", m \notin offered
      PROVE  Goal
  BY <1>2, <1>3, <1>5 DEF Undefined, configVars
<1>6. ASSUME NEW d \in Calls \ {c}, undefined = None,
             \/ \E n \in Methods : CallService(d, n)
             \/ ClientReceive(d) \/ ReceiveResponse(d) \/ ServerReceive(d)
      PROVE  Goal
  BY <1>3, <1>6, OthersStay, NoneIsNone
<1>7. ASSUME NEW n \in Methods, ServerAddConfig(n) \/ ClientAddConfig(n), undefined = None
      PROVE  Goal
  <2>1. /\ server'.reply_id_type = server.reply_id_type
        /\ client'.reply_id_type = client.reply_id_type
    BY <1>7 DEF ServerAddConfig, ClientAddConfig, TypeOK
  <2> QED
    BY <1>4, <1>7, <2>1 DEF ServerAddConfig, ClientAddConfig
<1>8. ASSUME NEW n \in Methods, CallService(c, n), undefined = None
      PROVE  Goal
  <2> DEFINE path == server.type_to_discriminator[Bare[config.request_name]]
             type == server.request_reply[config.request_name]
  <2>1. n = m /\ m \in served
    <3>1. method' = [method EXCEPT ![c] = n] /\ n \in served
      BY <1>8 DEF CallService, Undefined
    <3> QED
      BY <3>1 DEF TypeOK
  <2>2. /\ path = config.request /\ path \in Paths(service.request)
        /\ type = IF config.remap /\ config.paired THEN ReplyName(m) ELSE None
    BY <2>1, RequestPath
  <2>3. /\ request' = [request EXCEPT ![c] = [at |-> path, value |-> c]]
        /\ server' = [server EXCEPT !.reply_id_type[c] = type]
        /\ stage' = [stage EXCEPT ![c] = "asked"]
        /\ served' = served /\ undefined' = undefined
    BY <1>8, <2>1, <2>2 DEF CallService
  <2>4. /\ request'[c] = [at |-> path, value |-> c]
        /\ server'.reply_id_type[c] = type
        /\ stage'[c] = "asked"
    <3> HIDE DEF path, type
    <3> QED
      BY <2>3 DEF TypeOK, ReplyIds
  <2> HIDE DEF path, type
  <2> QED
    BY <1>1, <1>8, <2>1, <2>2, <2>3, <2>4, NoneIsNone DEF Course
<1>9. ASSUME ClientReceive(c), undefined = None
      PROVE  Goal
  <2> DEFINE member == get_discriminator(client.member_tree, service.request, request[c],
                                         client.member_types, None)
             message == access_member_data(service.request, request[c], member, None)
             callback == client.callbacks[message.type]
  <2>0. stage[c] = "asked" /\ offered # {}
    BY <1>9 DEF ClientReceive
  <2>1. method'[c] = method[c]
    BY <1>9 DEF ClientReceive, Undefined, TypeOK
  <2>2. /\ member = IF m \in offered THEN config.request ELSE None
        /\ member # None =>
             m \in offered /\ message = [type |-> RequestName(m), value |-> c]
    BY <2>0, <2>1, RequestMember
  <2>3. config.request # None
    BY MethodConfig, PathsOfService DEF TypeOK, ServiceMethod
  <2>4. CASE m \notin offered
    <3>1. Undefined(c, method[c])
      <4>1. member = None
        BY <2>2, <2>4
      <4> HIDE DEF member
      <4> QED
        BY <1>9, <4>1 DEF ClientReceive, member
    <3> QED
      BY <1>5, <2>0, <2>1, <2>4, <3>1
  <2>5. CASE m \in offered
    <3>1. /\ member # None /\ message = [type |-> RequestName(m), value |-> c]
          /\ ClientTables(m)
      BY <2>2, <2>3, <2>5 DEF ClientTablesInv
    <3>2. callback = m /\ m # None
      <4> HIDE DEF message
      <4> QED
        BY <2>5, <3>1, PathsOfService DEF ClientTables, TypeOK
    <3>3. /\ client' = [client EXCEPT !.reply_id_type[c] = client.request_reply[message.type]]
          /\ handled' = [handled EXCEPT ![c] = <<callback, message>>]
          /\ stage' = [stage EXCEPT ![c] = "called"]
          /\ UNCHANGED <<server, served, offered, undefined>>
      <4> HIDE DEF member
      <4> QED
        BY <1>9, <3>1, <3>2 DEF ClientReceive, member
    <3>4. /\ client'.reply_id_type[c] = IF config.paired THEN ReplyName(m) ELSE None
          /\ handled'[c] = <<m, [type |-> RequestName(m), value |-> c]>>
          /\ stage'[c] = "called"
      <4>1. client.request_reply[message.type] = IF config.paired THEN ReplyName(m) ELSE None
        BY <2>5, <3>1 DEF ClientTables
      <4> HIDE DEF message, callback
      <4> QED
        BY <3>1, <3>2, <3>3, <4>1 DEF TypeOK, ReplyIds
    <3>5. Course(c, m)
      BY <1>2, <2>0, <2>1
    <3> HIDE DEF member, message, callback
    <3> QED
      BY <1>1, <1>9, <2>0, <2>5, <3>3, <3>4, <3>5, NoneIsNone DEF Course
  <2> QED
    BY <2>4, <2>5
<1>10. ASSUME ReceiveResponse(c), undefined = None
       PROVE  Goal
  <2>0. stage[c] = "called"
    BY <1>10 DEF ReceiveResponse
  <2>1. method'[c] = method[c]
    BY <1>10 DEF ReceiveResponse, Undefined, TypeOK
  <2>2. /\ handled[c][1] = m
        /\ ReplyPath(client, c) = config.reply
        /\ ReplyPath(client, c) \in Paths(service.reply)
    BY <2>0, <2>1, ClientReplyPath
  <2>3. /\ reply' = [reply EXCEPT ![c] = [at |-> config.reply, value |-> c]]
        /\ stage' = [stage EXCEPT ![c] = "replied"]
        /\ UNCHANGED <<server, served, offered, handled, undefined>>
    BY <1>10, <2>2 DEF ReceiveResponse
  <2>4. reply'[c] = [at |-> config.reply, value |-> c] /\ stage'[c] = "replied"
    BY <2>3 DEF TypeOK
  <2>5. Course(c, m)
    BY <1>2, <2>0, <2>1
  <2> QED
    BY <1>1, <1>10, <2>0, <2>3, <2>4, <2>5, NoneIsNone DEF Course
<1>11. ASSUME ServerReceive(c), undefined = None
       PROVE  Goal
  <2>0. stage[c] = "replied"
    BY <1>11 DEF ServerReceive
  <2>1. method'[c] = method[c]
    BY <1>11 DEF ServerReceive, Undefined, TypeOK
  <2>2. /\ ReplyPath(server, c) = config.reply
        /\ config.reply \in Paths(service.reply)
        /\ access_member_data(service.reply, reply[c], config.reply, None)
             = [type |-> service.reply.name[config.reply], value |-> c]
    BY <2>0, <2>1, ServerReplyPath
  <2>3. /\ answer' = [answer EXCEPT ![c] =
              [type |-> service.reply.name[config.reply], value |-> c]]
        /\ stage' = [stage EXCEPT ![c] = "answered"]
        /\ UNCHANGED <<served, offered, handled, undefined>>
    BY <1>11, <2>2 DEF ServerReceive
  <2>4. /\ answer'[c] = [type |-> service.reply.name[config.reply], value |-> c]
        /\ stage'[c] = "answered"
    BY <2>3 DEF TypeOK
  <2>5. Course(c, m)
    BY <1>2, <2>0, <2>1
  <2> QED
    BY <1>1, <1>11, <2>0, <2>3, <2>4, <2>5, NoneIsNone DEF Course
<1>12. CASE UNCHANGED vars
  BY <1>4, <1>12 DEF vars, configVars
<1> QED
  BY <1>6, <1>7, <1>8, <1>9, <1>10, <1>11, <1>12 DEF Next

-----------------------------------------------------------------------------
(* The invariant holds initially, *)
LEMMA InitIInv == Init => IInv
<1> SUFFICES ASSUME Init
             PROVE  IInv
  OBVIOUS
<1>1. TypeOK
  BY PathsOfService DEF Init, TypeOK, NoDiscriminators, NoName, NoCall, Discriminators,
     ReplyTypes, ReplyIds
<1>2. StageInv /\ TreeInv /\ CourseInv
  BY NoneIsNone DEF Init, StageInv, TreeInv, CourseInv
<1>3. ServerTablesInv /\ ClientTablesInv
  <2> SUFFICES ASSUME NEW m \in Methods
               PROVE  ServerTables(m) /\ ClientTables(m)
    BY DEF ServerTablesInv, ClientTablesInv
  <2>1. service.methods[m].request_name \in Names /\ RequestName(m) \in Names
    BY MethodConfig DEF Init, ServiceMethod
  <2> QED
    BY <2>1 DEF Init, ServerTables, ClientTables, NoDiscriminators, NoName
<1> QED
  BY <1>1, <1>2, <1>3 DEF IInv

(* every step keeps it, *)
LEMMA Inductive == IInv /\ [Next]_vars => IInv'
BY TypeStep, ServerTablesStep, ClientTablesStep, TreeStep, CourseStep DEF IInv

(* and so it always holds. *)
LEMMA Invariance == Spec => []IInv
BY InitIInv, Inductive, PTL DEF Spec

(* Every variable keeps its type: the search returns a member of the service
   or none. *)
THEOREM TypeCorrect == Spec => []TypeOK
<1>1. IInv => TypeOK
  BY DEF IInv
<1> QED
  BY <1>1, Invariance, PTL

(* Whatever the service and the order of its configuration, a request reaches
   the callback of its own method. *)
THEOREM Dispatched == Spec => []RequestsReachTheirCallback
<1>1. IInv => RequestsReachTheirCallback
  BY DEF IInv, StageInv, CourseInv, Course, RequestsReachTheirCallback
<1> QED
  BY <1>1, Invariance, PTL

(* A caller is given its own reply. *)
THEOREM Replied == Spec => []CallersGetTheirReply
<1>1. IInv => CallersGetTheirReply
  BY DEF IInv, StageInv, CourseInv, Course, CallersGetTheirReply
<1> QED
  BY <1>1, Invariance, PTL

(* What has no meaning is done only for a request that comes too early, or for
   a method that the tables cannot tell from another. *)
THEOREM Defined == Spec => []UndefinedOnlyWhere
<1>1. IInv => UndefinedOnlyWhere
  BY DEF IInv, StageInv, CourseInv, UndefinedOnlyWhere
<1> QED
  BY <1>1, Invariance, PTL

=============================================================================
