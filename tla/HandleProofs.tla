----------------------------- MODULE HandleProofs -----------------------------
(***************************************************************************)
(* SystemHandle's invariant is inductive, for any proxies, endpoints,      *)
(* topics and types, and any number of constructors that fail.             *)
(***************************************************************************)
EXTENDS SystemHandle, FiniteSetTheorems, TLAPS

USE NoTypeIsNone, EndpointsTyped, ProxiesTyped, MaxThrowsIsNat

(* A proxy's endpoints are a finite sequence of endpoints. *)
LEMMA EndpointsOfType ==
  ASSUME NEW p \in Proxies
  PROVE  /\ Len(EndpointsOf[p]) \in Nat
         /\ DOMAIN EndpointsOf[p] = 1..Len(EndpointsOf[p])
         /\ \A i \in DOMAIN EndpointsOf[p] :
              EndpointsOf[p][i] \in EndpointsIn(p) \cap Endpoints
         /\ EndpointsIn(p) \subseteq Endpoints
<1>1. EndpointsOf[p] \in Seq(Endpoints)
  OBVIOUS
<1>2. /\ Len(EndpointsOf[p]) \in Nat
      /\ DOMAIN EndpointsOf[p] = 1..Len(EndpointsOf[p])
  BY <1>1
<1>3. \A i \in DOMAIN EndpointsOf[p] : EndpointsOf[p][i] \in Endpoints
  BY <1>1, <1>2
<1> QED
  BY <1>2, <1>3 DEF EndpointsIn

(* The constructor's next endpoint to register is one of its own. *)
LEMMA NextToRegisterIn ==
  ASSUME TypeOK, building # NoProxy, ~AllRegistered
  PROVE  /\ NextToRegister \in Endpoints
         /\ registered + 1 \in 0..Len(EndpointsOf[building])
<1>1. building \in Proxies
  BY DEF TypeOK
<1>2. registered \in 0..Len(EndpointsOf[building])
  BY DEF TypeOK
<1>3. registered + 1 \in 1..Len(EndpointsOf[building])
  BY <1>1, <1>2, EndpointsOfType DEF AllRegistered
<1> QED
  BY <1>1, <1>3, EndpointsOfType DEF NextToRegister

(* The next endpoint to create is one of its own, as long as one is missing:
   the existing ones are fewer than the constructor's. *)
LEMMA NextToCreateIn ==
  ASSUME building \in Proxies, ~ EndpointsIn(building) \subseteq dds_entities
  PROVE  NextToCreate \in EndpointsIn(building) \cap Endpoints
<1> DEFINE n == Len(EndpointsOf[building])
           created == {i \in DOMAIN EndpointsOf[building] :
                         EndpointsOf[building][i] \in dds_entities}
<1>1. n \in Nat /\ DOMAIN EndpointsOf[building] = 1..n
  BY EndpointsOfType
<1>2. IsFiniteSet(1..n) /\ Cardinality(1..n) = n
  <2>1. 1 \in Int /\ n \in Int
    BY <1>1
  <2> HIDE DEF n
  <2>2. IsFiniteSet(1..n) /\ Cardinality(1..n) = IF 1 > n THEN 0 ELSE n - 1 + 1
    BY <2>1, FS_Interval
  <2> QED
    BY <1>1, <2>2
<1>3. created \subseteq 1..n /\ created # 1..n
  BY <1>1 DEF EndpointsIn
<1>4. Cardinality(created) <= n /\ Cardinality(created) # n
  <2> HIDE DEF created, n
  <2>1. /\ Cardinality(created) <= Cardinality(1..n)
        /\ Cardinality(1..n) = Cardinality(created) => 1..n = created
    <3> DEFINE indexes == 1..n
    <3>1. IsFiniteSet(indexes) /\ created \in SUBSET indexes
      BY <1>2, <1>3
    <3> HIDE DEF indexes
    <3>2. /\ Cardinality(created) <= Cardinality(indexes)
          /\ Cardinality(indexes) = Cardinality(created) => indexes = created
      BY <3>1, FS_Subset
    <3> QED
      BY <3>2 DEF indexes
  <2> QED
    BY <2>1, <1>2, <1>3
<1>5. Cardinality(created) \in Nat
  <2> HIDE DEF created, n
  <2> QED
    BY <1>2, <1>3, FS_Subset, FS_CardinalityType
<1>6. Cardinality(created) + 1 \in 1..n
  BY <1>1, <1>4, <1>5
<1>7. NextToCreate = EndpointsOf[building][Cardinality(created) + 1]
  BY DEF NextToCreate
<1> QED
  <2> HIDE DEF created
  <2> QED
    BY <1>1, <1>6, <1>7, EndpointsOfType

(* What dissociate looks at decides whether an endpoint is the last of its
   topic, because the count is exact. *)
LEMMA LastOfTopic ==
  ASSUME TypeOK, EntitiesExact, NEW e \in dds_entities
  PROVE  /\ LastEntity(e) =>
              \A f \in dds_entities : TopicOf[f] = TopicOf[e] => f = e
         /\ ~LastEntity(e) =>
              \E f \in dds_entities : TopicOf[f] = TopicOf[e] /\ f # e
<1> DEFINE users == topic_to_entities[TopicOf[e]]
<1>1. e \in Endpoints /\ TopicOf[e] \in Topics
  BY DEF TypeOK, ParticipantTypeOK
<1>2. users = {f \in dds_entities : TopicOf[f] = TopicOf[e]}
  BY <1>1 DEF EntitiesExact
<1>3. users \subseteq Endpoints /\ e \in users
  BY <1>1, <1>2 DEF TypeOK, ParticipantTypeOK
<1>4. IsFiniteSet(users)
  <2> HIDE DEF users
  <2> QED
    BY <1>3, EndpointsFinite, FS_Subset
<1>5. LastEntity(e) <=> \E f : users = {f}
  <2>1. LastEntity(e) <=> Cardinality(users) = 1
    BY DEF LastEntity
  <2> HIDE DEF users
  <2> QED
    BY <2>1, <1>4, FS_Singleton
<1>6. LastEntity(e) <=> users = {e}
  <2> HIDE DEF users
  <2> QED
    BY <1>3, <1>5
<1> QED
  BY <1>2, <1>3, <1>6

-----------------------------------------------------------------------------
(* Every variable keeps its type. *)
LEMMA TypeStep == TypeOK /\ [Next]_vars => TypeOK'
<1> SUFFICES ASSUME TypeOK, [Next]_vars
             PROVE  TypeOK'
  OBVIOUS
<1> USE DEF TypeOK, ParticipantTypeOK, participantVars, handleVars, typeVars,
     entityVars
<1>1. CASE UNCHANGED vars
  BY <1>1 DEF vars
<1>2. CASE Configure
  BY <1>2 DEF Configure
<1>3. ASSUME NEW p \in Proxies, Construct(p)
      PROVE  TypeOK'
  BY <1>3, EndpointsOfType DEF Construct
<1>4. CASE Register
  <2>1. /\ NextToRegister \in Endpoints
        /\ registered + 1 \in 0..Len(EndpointsOf[building])
    BY <1>4, NextToRegisterIn DEF Register
  <2>2. ParticipantTypeOK'
    <3> HIDE DEF TypeOK
    <3>1. ParticipantTypeOK
      BY DEF TypeOK
    <3> QED
      BY <1>4, <2>1, <3>1 DEF Register, RegisterReturns
  <2> HIDE DEF ParticipantTypeOK
  <2> QED
    BY <1>4, <2>1, <2>2 DEF Register
<1>5. CASE RegisterFails
  <2>1. NextToRegister \in Endpoints
    BY <1>5, NextToRegisterIn DEF RegisterFails
  <2>2. ParticipantTypeOK'
    <3> HIDE DEF TypeOK
    <3>1. ParticipantTypeOK
      BY DEF TypeOK
    <3>2. CASE UNCHANGED participantVars
      BY <3>1, <3>2
    <3>3. CASE RegisterThrows(NextToRegister)
      BY <2>1, <3>1, <3>3 DEF RegisterThrows
    <3> QED
      BY <1>5, <3>2, <3>3 DEF RegisterFails
  <2> HIDE DEF ParticipantTypeOK
  <2> QED
    BY <1>5, <2>2 DEF RegisterFails, Unwind
<1>6. CASE Create
  <2>1. NextToCreate \in Endpoints
    BY <1>6, NextToCreateIn DEF Create, AllRegistered
  <2>2. ParticipantTypeOK'
    <3> HIDE DEF TypeOK
    <3>1. ParticipantTypeOK
      BY DEF TypeOK
    <3> QED
      BY <1>6, <2>1, <3>1 DEF Create, CreateEndpoint, TopicReady, Associate
  <2> HIDE DEF ParticipantTypeOK
  <2> QED
    BY <1>6, <2>2 DEF Create
<1>7. CASE CreateFails
  <2>1. NextToCreate \in Endpoints
    BY <1>7, NextToCreateIn DEF CreateFails, AllRegistered
  <2>2. ParticipantTypeOK'
    <3> HIDE DEF TypeOK
    <3>1. ParticipantTypeOK
      BY DEF TypeOK
    <3> QED
      BY <1>7, <2>1, <3>1 DEF CreateFails, CreateThrows, TopicReady
  <2> HIDE DEF ParticipantTypeOK
  <2> QED
    BY <1>7, <2>2 DEF CreateFails, Unwind
<1>8. CASE Complete
  BY <1>8 DEF Complete, AllRegistered
<1>9. CASE Destroy
  BY <1>9 DEF Destroy
<1>10. ASSUME NEW p \in Proxies, DestroyProxy(p)
       PROVE  TypeOK'
  <2>1. PICK i \in DOMAIN EndpointsOf[p] :
          /\ DeleteEndpoint(EndpointsOf[p][i])
          /\ proxies' \in {proxies, proxies \ {p}}
    BY <1>10 DEF DestroyProxy
  <2>2. ParticipantTypeOK'
    <3> HIDE DEF TypeOK
    <3>1. ParticipantTypeOK
      BY DEF TypeOK
    <3> QED
      BY <2>1, <3>1 DEF DeleteEndpoint, Dissociate
  <2> HIDE DEF ParticipantTypeOK
  <2> QED
    BY <1>10, <2>1, <2>2 DEF DestroyProxy
<1>11. CASE DestroyParticipant
  BY <1>11 DEF DestroyParticipant, DeleteParticipant
<1> QED
  BY <1>1, <1>2, <1>3, <1>4, <1>5, <1>6, <1>7, <1>8, <1>9, <1>10, <1>11
     DEF Next

-----------------------------------------------------------------------------
(* A destructor deletes an endpoint that exists, and does it in this order. *)
LEMMA DestroyProxyEffect ==
  ASSUME NEW p \in Proxies, TypeOK, EntitiesExact, DestroyProxy(p)
  PROVE  \E e \in dds_entities \cap EndpointsIn(p) :
           /\ DeleteEndpoint(e)
           /\ TopicOf[e] \in Topics
           /\ proxies' # proxies => \A f \in EndpointsIn(p) : f \notin dds_entities'
           /\ proxies' \in {proxies, proxies \ {p}}
<1>1. PICK i \in DOMAIN EndpointsOf[p] :
        LET e == EndpointsOf[p][i]
        IN /\ e \in dds_entities
           /\ \A j \in 1..(i - 1) : EndpointsOf[p][j] \notin dds_entities
           /\ DeleteEndpoint(e)
           /\ proxies' = IF i = Len(EndpointsOf[p]) THEN proxies \ {p} ELSE proxies
  BY DEF DestroyProxy
<1> DEFINE e == EndpointsOf[p][i]
<1>2. e \in dds_entities \cap EndpointsIn(p) /\ TopicOf[e] \in Topics
  BY <1>1, EndpointsOfType
<1>3. ASSUME proxies' # proxies, NEW f \in EndpointsIn(p)
      PROVE  f \notin dds_entities'
  <2>1. PICK j \in DOMAIN EndpointsOf[p] : f = EndpointsOf[p][j]
    BY DEF EndpointsIn
  <2>2. i = Len(EndpointsOf[p])
    BY <1>1, <1>3
  <2>3. j \in 1..(i - 1) \/ j = i
    BY <2>1, <2>2, EndpointsOfType
  <2>4. dds_entities' = dds_entities \ {e}
    BY <1>1 DEF DeleteEndpoint
  <2> QED
    BY <1>1, <2>1, <2>3, <2>4
<1> QED
  BY <1>1, <1>2, <1>3

(* The reference count stays exact. *)
LEMMA ExactStep ==
  TypeOK /\ EntitiesExact /\ [Next]_vars => EntitiesExact'
<1> SUFFICES ASSUME TypeOK, EntitiesExact, [Next]_vars
             PROVE  EntitiesExact'
  OBVIOUS
<1> USE DEF participantVars, typeVars, entityVars
<1>1. CASE UNCHANGED <<topic_to_entities, dds_entities>>
  BY <1>1 DEF EntitiesExact
<1>2. CASE Create
  <2>1. NextToCreate \in Endpoints
    BY <1>2, NextToCreateIn DEF Create, AllRegistered, TypeOK
  <2>2. /\ dds_entities' = dds_entities \cup {NextToCreate}
        /\ Associate(NextToCreate)
    BY <1>2 DEF Create, CreateEndpoint
  <2> QED
    BY <2>1, <2>2 DEF Associate, EntitiesExact, TypeOK, ParticipantTypeOK
<1>3. ASSUME NEW p \in Proxies, DestroyProxy(p)
      PROVE  EntitiesExact'
  <2>1. PICK e \in dds_entities : DeleteEndpoint(e) /\ TopicOf[e] \in Topics
    BY <1>3, DestroyProxyEffect
  <2>2. LastEntity(e) => topic_to_entities[TopicOf[e]] \ {e} = {}
    BY <2>1, LastOfTopic DEF EntitiesExact
  <2>3. topic_to_entities' = [topic_to_entities EXCEPT ![TopicOf[e]] = @ \ {e}]
    BY <2>1, <2>2 DEF DeleteEndpoint, Dissociate, TypeOK, ParticipantTypeOK
  <2>4. dds_entities' = dds_entities \ {e}
    BY <2>1 DEF DeleteEndpoint
  <2> QED
    BY <2>1, <2>3, <2>4 DEF EntitiesExact, TypeOK, ParticipantTypeOK
<1>4. CASE Register \/ RegisterFails
  BY <1>1, <1>4 DEF Register, RegisterReturns, RegisterFails, RegisterThrows
<1>5. CASE CreateFails
  BY <1>1, <1>5 DEF CreateFails, CreateThrows
<1> QED
  BY <1>1, <1>2, <1>3, <1>4, <1>5
     DEF Next, vars, Configure, Construct, Complete, Destroy,
         DestroyParticipant, DeleteParticipant

(* A topic in use is not deleted: a destructor deletes it only for its last
   reader or writer, a constructor creates it before it creates either. *)
LEMMA TopicStep ==
  TypeOK /\ EntitiesExact /\ TopicOutlivesEndpoints /\ [Next]_vars
    => TopicOutlivesEndpoints'
<1> SUFFICES ASSUME TypeOK, EntitiesExact, TopicOutlivesEndpoints, [Next]_vars
             PROVE  TopicOutlivesEndpoints'
  OBVIOUS
<1> USE DEF participantVars, typeVars, entityVars
<1>1. CASE UNCHANGED <<dds_topics, dds_entities>>
  BY <1>1 DEF TopicOutlivesEndpoints
<1>2. dds_entities \subseteq Endpoints
  BY DEF TypeOK, ParticipantTypeOK
<1>3. ASSUME NEW e \in Endpoints, TopicReady(e)
      PROVE  /\ dds_topics'[TopicOf[e]] # NoType
             /\ \A t \in Topics :
                  dds_topics[t] # NoType => dds_topics'[t] # NoType
  BY <1>3 DEF TopicReady, TypeOK, ParticipantTypeOK
<1>4. CASE Create
  <2>1. NextToCreate \in Endpoints
    BY <1>4, NextToCreateIn DEF Create, AllRegistered, TypeOK
  <2>2. /\ dds_entities' = dds_entities \cup {NextToCreate}
        /\ TopicReady(NextToCreate)
    BY <1>4 DEF Create, CreateEndpoint
  <2> QED
    BY <1>2, <1>3, <2>1, <2>2 DEF TopicOutlivesEndpoints
<1>5. CASE CreateFails
  <2>1. NextToCreate \in Endpoints
    BY <1>5, NextToCreateIn DEF CreateFails, AllRegistered, TypeOK
  <2>2. /\ dds_entities' = dds_entities
        /\ UNCHANGED dds_topics \/ TopicReady(NextToCreate)
    BY <1>5 DEF CreateFails, CreateThrows
  <2> QED
    BY <1>1, <1>2, <1>3, <2>1, <2>2 DEF TopicOutlivesEndpoints
<1>6. ASSUME NEW p \in Proxies, DestroyProxy(p)
      PROVE  TopicOutlivesEndpoints'
  <2>1. PICK e \in dds_entities : DeleteEndpoint(e)
    BY <1>6, DestroyProxyEffect
  <2>2. /\ dds_entities' = dds_entities \ {e}
        /\ dds_topics' = IF LastEntity(e)
                         THEN [dds_topics EXCEPT ![TopicOf[e]] = NoType]
                         ELSE dds_topics
    BY <2>1 DEF DeleteEndpoint
  <2>3. CASE LastEntity(e)
    <3>1. \A f \in dds_entities' : TopicOf[f] # TopicOf[e]
      BY <2>2, <2>3, LastOfTopic
    <3> QED
      BY <1>2, <2>2, <2>3, <3>1
         DEF TopicOutlivesEndpoints, TypeOK, ParticipantTypeOK
  <2>4. CASE ~LastEntity(e)
    BY <2>2, <2>4 DEF TopicOutlivesEndpoints
  <2> QED
    BY <2>3, <2>4
<1>7. CASE Register \/ RegisterFails
  BY <1>1, <1>7 DEF Register, RegisterReturns, RegisterFails, RegisterThrows
<1> QED
  BY <1>1, <1>4, <1>5, <1>6, <1>7
     DEF Next, vars, Configure, Construct, Complete, Destroy,
         DestroyParticipant, DeleteParticipant

(* The maps of types stay in step: each writes to both, or to neither. *)
LEMMA TypesStep ==
  TypeOK /\ TopicTypesDefined /\ [Next]_vars => TopicTypesDefined'
<1> SUFFICES ASSUME TypeOK, TopicTypesDefined, [Next]_vars
             PROVE  TopicTypesDefined'
  OBVIOUS
<1> USE DEF participantVars, typeVars
<1>1. CASE UNCHANGED <<types, topic_to_type>>
  BY <1>1 DEF TopicTypesDefined
<1>2. CASE Register
  BY <1>1, <1>2 DEF Register, RegisterReturns, TopicTypesDefined, TypeOK,
     ParticipantTypeOK
<1>3. CASE RegisterFails
  <2>1. CASE UNCHANGED participantVars
    BY <1>1, <2>1
  <2>2. CASE RegisterThrows(NextToRegister)
    BY <1>1, <2>2 DEF RegisterThrows, TopicTypesDefined, TypeOK,
       ParticipantTypeOK
  <2> QED
    BY <1>3, <2>1, <2>2 DEF RegisterFails
<1>4. CASE Create \/ CreateFails
  BY <1>1, <1>4 DEF Create, CreateEndpoint, CreateFails, CreateThrows
<1>5. ASSUME NEW p \in Proxies, DestroyProxy(p)
      PROVE  TopicTypesDefined'
  BY <1>1, <1>5 DEF DestroyProxy, DeleteEndpoint
<1> QED
  BY <1>1, <1>2, <1>3, <1>4, <1>5
     DEF Next, vars, Configure, Construct, Complete, Destroy,
         DestroyParticipant, DeleteParticipant

-----------------------------------------------------------------------------
(* OwnedInv, part by part: a constructor is interrupted only by the end. *)
BuildingInv == building # NoProxy => phase \in {"running", "terminated"}
GroupsInv == NoneFailed => dds_groups = dds_entities
TopicsUsed == NoneFailed =>
  \A t \in Topics :
    dds_topics[t] # NoType => \E e \in dds_entities : TopicOf[e] = t
EntitiesOwned == NoneFailed =>
  \A e \in dds_entities :
    \E p \in Proxies : p \in proxies \cup {building} /\ e \in EndpointsIn(p)

LEMMA OwnedParts ==
  OwnedInv <=> BuildingInv /\ GroupsInv /\ TopicsUsed /\ EntitiesOwned
BY DEF OwnedInv, BuildingInv, GroupsInv, TopicsUsed, EntitiesOwned

(* A failure is never forgotten, and a constructor that fails is one. *)
LEMMA FailureStays ==
  ASSUME TypeOK, [Next]_vars
  PROVE  /\ NoneFailed' => NoneFailed
         /\ RegisterFails \/ CreateFails => ~NoneFailed'
<1>1. ASSUME Unwind, phase = "running"
      PROVE  ~NoneFailed'
  BY <1>1 DEF Unwind, NoneFailed, TypeOK
<1>2. RegisterFails \/ CreateFails => ~NoneFailed'
  BY <1>1 DEF RegisterFails, CreateFails
<1>3. ASSUME NoneFailed', ~(RegisterFails \/ CreateFails)
      PROVE  NoneFailed
  BY <1>3
     DEF NoneFailed, Next, vars, handleVars, Configure, Construct, Register,
         Create, Complete, Destroy, DestroyProxy, DestroyParticipant
<1> QED
  BY <1>2, <1>3

(* While none has failed, a constructor leaves no DDS publisher or subscriber
   without its endpoint, nor a topic without one, nor an endpoint without its
   proxy; and no destructor does. *)
LEMMA OwnedStep ==
  TypeOK /\ EntitiesExact /\ OwnedInv /\ [Next]_vars => OwnedInv'
<1> SUFFICES ASSUME TypeOK, EntitiesExact, OwnedInv, [Next]_vars
             PROVE  BuildingInv' /\ GroupsInv' /\ TopicsUsed' /\ EntitiesOwned'
  BY OwnedParts DEF OwnedInv, BuildingInv, GroupsInv, TopicsUsed, EntitiesOwned
<1> USE DEF participantVars, handleVars, typeVars, entityVars
<1>1. BuildingInv /\ GroupsInv /\ TopicsUsed /\ EntitiesOwned
  BY OwnedParts
<1>2. BuildingInv'
  BY <1>1
     DEF BuildingInv, Next, vars, Configure, Construct, Register,
         RegisterFails, Create, CreateFails, Complete, Unwind, Destroy,
         DestroyProxy, DestroyParticipant
<1>3. SUFFICES ASSUME NoneFailed'
               PROVE  GroupsInv' /\ TopicsUsed' /\ EntitiesOwned'
  BY <1>2 DEF GroupsInv, TopicsUsed, EntitiesOwned
<1>4. NoneFailed /\ ~RegisterFails /\ ~CreateFails
  BY <1>3, FailureStays
<1>5. ASSUME UNCHANGED entityVars,
             (proxies \cup {building}) \ {NoProxy}
               \subseteq proxies' \cup {building'}
      PROVE  GroupsInv' /\ TopicsUsed' /\ EntitiesOwned'
  BY <1>1, <1>4, <1>5 DEF GroupsInv, TopicsUsed, EntitiesOwned, EndpointsIn
<1>6. CASE Create
  <2>1. /\ NextToCreate \in EndpointsIn(building) \cap Endpoints
        /\ building \in Proxies
    BY <1>6, NextToCreateIn DEF Create, AllRegistered, TypeOK
  <2>2. /\ dds_groups' = dds_groups \cup {NextToCreate}
        /\ dds_entities' = dds_entities \cup {NextToCreate}
        /\ TopicReady(NextToCreate)
        /\ UNCHANGED <<proxies, building>>
    BY <1>6 DEF Create, CreateEndpoint
  <2>3. \A t \in Topics : dds_topics'[t] # NoType =>
          dds_topics[t] # NoType \/ t = TopicOf[NextToCreate]
    BY <2>1, <2>2 DEF TopicReady, TypeOK, ParticipantTypeOK
  <2>4. GroupsInv' /\ TopicsUsed'
    BY <1>1, <1>4, <2>2, <2>3 DEF GroupsInv, TopicsUsed
  <2>5. EntitiesOwned'
    BY <1>1, <1>4, <2>1, <2>2 DEF EntitiesOwned, EndpointsIn
  <2> QED
    BY <2>4, <2>5
<1>7. ASSUME NEW p \in Proxies, DestroyProxy(p)
      PROVE  GroupsInv' /\ TopicsUsed' /\ EntitiesOwned'
  <2>1. PICK e \in dds_entities \cap EndpointsIn(p) :
          /\ DeleteEndpoint(e)
          /\ TopicOf[e] \in Topics
          /\ proxies' # proxies =>
               \A f \in EndpointsIn(p) : f \notin dds_entities'
          /\ proxies' \in {proxies, proxies \ {p}}
    BY <1>7, DestroyProxyEffect
  <2>2. /\ dds_entities' = dds_entities \ {e}
        /\ dds_groups' = dds_groups \ {e}
        /\ dds_topics' = IF LastEntity(e)
                         THEN [dds_topics EXCEPT ![TopicOf[e]] = NoType]
                         ELSE dds_topics
        /\ UNCHANGED building
    BY <1>7, <2>1 DEF DeleteEndpoint, DestroyProxy
  <2>3. GroupsInv'
    BY <1>1, <1>4, <2>2 DEF GroupsInv
  <2>4. TopicsUsed'
    <3> SUFFICES ASSUME NEW t \in Topics, dds_topics'[t] # NoType
                 PROVE  \E f \in dds_entities' : TopicOf[f] = t
      BY DEF TopicsUsed
    <3>1. dds_topics[t] # NoType /\ (LastEntity(e) => t # TopicOf[e])
      BY <2>1, <2>2 DEF TypeOK, ParticipantTypeOK
    <3>2. PICK f \in dds_entities : TopicOf[f] = t
      BY <1>1, <1>4, <3>1 DEF TopicsUsed
    <3>3. CASE f # e
      BY <2>2, <3>2, <3>3
    <3>4. CASE f = e
      BY <2>2, <3>1, <3>2, <3>4, LastOfTopic
    <3> QED
      BY <3>3, <3>4
  <2>5. EntitiesOwned'
    <3> SUFFICES ASSUME NEW f \in dds_entities'
                 PROVE  \E q \in Proxies :
                          q \in proxies' \cup {building'} /\ f \in EndpointsIn(q)
      BY DEF EntitiesOwned, EndpointsIn
    <3>1. PICK q \in Proxies : q \in proxies \cup {building} /\ f \in EndpointsIn(q)
      BY <1>1, <1>4, <2>2 DEF EntitiesOwned
    <3>2. q = p => proxies' = proxies
      BY <2>1, <3>1
    <3> QED
      BY <2>1, <2>2, <3>1, <3>2
  <2> QED
    BY <2>3, <2>4, <2>5
<1>8. ASSUME NEW p \in Proxies, Construct(p)
      PROVE  GroupsInv' /\ TopicsUsed' /\ EntitiesOwned'
  BY <1>5, <1>8 DEF Construct
<1>9. CASE Register
  BY <1>5, <1>9 DEF Register, RegisterReturns
<1> QED
  BY <1>4, <1>5, <1>6, <1>7, <1>8, <1>9
     DEF Next, vars, Configure, Complete, Destroy, DestroyParticipant,
         DeleteParticipant

(* With every proxy destroyed, nothing is owned and so nothing is left: the
   participant has no active entity when its turn comes. *)
LEMMA NothingLeftStep ==
  TypeOK /\ OwnedInv /\ NothingLeftBehind /\ [Next]_vars => NothingLeftBehind'
<1> SUFFICES ASSUME TypeOK, OwnedInv, NothingLeftBehind, [Next]_vars,
                    phase' = "destroyed", throws' = 0
             PROVE  dds_participant' = "deleted"
  BY DEF NothingLeftBehind
<1> USE DEF participantVars, handleVars, typeVars, entityVars
<1>1. CASE DestroyParticipant
  <2>1. NoneFailed /\ proxies = {} /\ building = NoProxy
    BY <1>1 DEF DestroyParticipant, NoneFailed, OwnedInv
  <2>2. dds_groups = {} /\ \A t \in Topics : dds_topics[t] = NoType
    BY <2>1 DEF OwnedInv
  <2> QED
    BY <1>1, <2>2 DEF DestroyParticipant, DeleteParticipant, HasActiveEntities
<1>2. ASSUME ~DestroyParticipant
      PROVE  UNCHANGED <<phase, dds_participant>> /\ throws = 0
  <2>1. \/ UNCHANGED <<phase, throws, dds_participant>>
        \/ phase' # "destroyed" \/ throws' # 0
    BY <1>2
       DEF Next, vars, Configure, Construct, Register, RegisterFails, Create,
           CreateFails, Complete, Unwind, Destroy, DestroyProxy,
           RegisterReturns, CreateEndpoint, DeleteEndpoint, TypeOK
  <2> QED
    BY <2>1
<1> QED
  BY <1>1, <1>2 DEF NothingLeftBehind

-----------------------------------------------------------------------------
(* The invariant holds initially, *)
LEMMA InitIInv == Init => IInv
BY DEF Init, ParticipantInit, IInv, TypeOK, ParticipantTypeOK, EntitiesExact,
   TopicOutlivesEndpoints, TopicTypesDefined, OwnedInv, NoneFailed,
   NothingLeftBehind

(* every step keeps it, *)
LEMMA Inductive == IInv /\ [Next]_vars => IInv'
BY TypeStep, ExactStep, TopicStep, TypesStep, OwnedStep, NothingLeftStep
   DEF IInv

(* and so it always holds. *)
LEMMA Invariance == Spec => []IInv
BY InitIInv, Inductive, PTL DEF Spec

(* Each map and list keeps its type, through every failure. *)
THEOREM TypeCorrect == Spec => []TypeOK
<1>1. IInv => TypeOK
  BY DEF IInv
<1> QED
  BY <1>1, Invariance, PTL

(* topic_to_entities_ counts the readers and writers of each topic exactly,
   whatever fails, so dissociate erases only the entry of its own argument. *)
THEOREM CountExact == Spec => []EntitiesExact
<1>1. IInv => EntitiesExact
  BY DEF IInv
<1> QED
  BY <1>1, Invariance, PTL

(* No topic is deleted under a reader or writer of another proxy. *)
THEOREM TopicsOutlive == Spec => []TopicOutlivesEndpoints
<1>1. IInv => TopicOutlivesEndpoints
  BY DEF IInv
<1> QED
  BY <1>1, Invariance, PTL

(* A topic never has a type that types_ does not know. *)
THEOREM TypesDefined == Spec => []TopicTypesDefined
<1>1. IInv => TopicTypesDefined
  BY DEF IInv
<1> QED
  BY <1>1, Invariance, PTL

(* Without a failed constructor, the handle's destruction leaves nothing. *)
THEOREM LeavesNothing == Spec => []NothingLeftBehind
<1>1. IInv => NothingLeftBehind
  BY DEF IInv
<1> QED
  BY <1>1, Invariance, PTL

=============================================================================
