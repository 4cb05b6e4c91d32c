------------------------------ MODULE Participant ------------------------------
(***************************************************************************)
(* Participant.cpp: the DomainParticipant with the types and topics that   *)
(* the publishers, subscribers, servers and clients of one SystemHandle    *)
(* share.  The operators are the steps their constructors and destructors  *)
(* take on it, all on the configuring thread.                              *)
(***************************************************************************)
EXTENDS FiniteSets, Naturals

CONSTANTS Topics, Types, Endpoints,   \* an endpoint: a datareader or datawriter
          TopicOf, TypeOf,            \* each endpoint's topic name and type
          NoType

ASSUME NoTypeIsNone == NoType \notin Types
ASSUME EndpointsFinite == IsFiniteSet(Endpoints)
ASSUME EndpointsTyped ==
  TopicOf \in [Endpoints -> Topics] /\ TypeOf \in [Endpoints -> Types]

VARIABLES
  dds_participant,    \* "none", "active" or "deleted"
  types,              \* keys of types_
  topic_to_type,      \* topic_to_type_, NoType where there is no entry
  topic_to_entities,  \* topic_to_entities_, {} where there is no entry
  dds_types,          \* types registered in the DomainParticipant
  dds_topics,         \* its topics with their type, NoType if not created
  dds_groups,         \* endpoints whose DDS publisher or subscriber exists
  dds_entities        \* endpoints whose datareader or datawriter exists

typeVars == <<types, topic_to_type, dds_types>>
entityVars == <<topic_to_entities, dds_topics, dds_groups, dds_entities>>
participantVars == <<dds_participant, typeVars, entityVars>>

ParticipantTypeOK ==
  /\ dds_participant \in {"none", "active", "deleted"}
  /\ types \subseteq Types /\ dds_types \subseteq Types
  /\ topic_to_type \in [Topics -> Types \cup {NoType}]
  /\ dds_topics \in [Topics -> Types \cup {NoType}]
  /\ topic_to_entities \in [Topics -> SUBSET Endpoints]
  /\ dds_groups \subseteq Endpoints /\ dds_entities \subseteq dds_groups

ParticipantInit ==
  /\ dds_participant = "none"
  /\ types = {} /\ dds_types = {}
  /\ topic_to_type = [t \in Topics |-> NoType]
  /\ dds_topics = [t \in Topics |-> NoType]
  /\ topic_to_entities = [t \in Topics |-> {}]
  /\ dds_groups = {} /\ dds_entities = {}

-----------------------------------------------------------------------------
(* register_dynamic_type returns: the topic has a type already, whichever it
   is; or the type is known; or it is new and DDS has or accepts it. *)
RegisterReturns(e) ==
  LET topic == TopicOf[e]
      type == TypeOf[e]
      Record == topic_to_type' = [topic_to_type EXCEPT ![topic] = type]
  IN /\ \/ /\ topic_to_type[topic] # NoType
           /\ UNCHANGED typeVars
        \/ /\ topic_to_type[topic] = NoType
           /\ type \in types
           /\ Record
           /\ UNCHANGED <<types, dds_types>>
        \/ /\ topic_to_type[topic] = NoType
           /\ type \notin types
           /\ Record
           /\ types' = types \cup {type}
           /\ dds_types' = dds_types \cup {type}
     /\ UNCHANGED <<dds_participant, entityVars>>

(* Mutant: the refused type is forgotten, its topic is not. *)
RegisterThrowsHalf(e) ==
  LET topic == TopicOf[e]
      type == TypeOf[e]
  IN /\ topic_to_type[topic] = NoType
     /\ type \notin types
     /\ topic_to_type' = [topic_to_type EXCEPT ![topic] = type]
     /\ UNCHANGED <<dds_participant, types, dds_types, entityVars>>

(* It throws: nothing happened if the type could not be built, but both maps
   keep the entry if DDS refused the type. *)
RegisterThrows(e) ==
  LET topic == TopicOf[e]
      type == TypeOf[e]
  IN /\ topic_to_type[topic] = NoType
     /\ type \notin types
     /\ \/ UNCHANGED typeVars
        \/ /\ type \notin dds_types
           /\ types' = types \cup {type}
           /\ topic_to_type' = [topic_to_type EXCEPT ![topic] = type]
           /\ UNCHANGED dds_types
     /\ UNCHANGED <<dds_participant, entityVars>>

(* lookup_topicdescription, or else create_topic, which DDS refuses for a
   type that is not registered. *)
TopicReady(e) ==
  IF dds_topics[TopicOf[e]] # NoType
  THEN UNCHANGED dds_topics
  ELSE /\ TypeOf[e] \in dds_types
       /\ dds_topics' = [dds_topics EXCEPT ![TopicOf[e]] = TypeOf[e]]

(* associate_topic_to_dds_entity *)
Associate(e) ==
  topic_to_entities' = [topic_to_entities EXCEPT ![TopicOf[e]] = @ \cup {e}]

(* Mutant: off by one. *)
FewEntities(e) == Cardinality(topic_to_entities[TopicOf[e]]) <= 2

(* dissociate_topic_from_dds_entity: TRUE if the topic loses its last entity,
   whose entry is erased without a look at the entity. *)
LastEntity(e) == Cardinality(topic_to_entities[TopicOf[e]]) = 1

(* Mutant: the whole entry is erased for any entity. *)
DissociateAll(e) ==
  topic_to_entities' = [topic_to_entities EXCEPT ![TopicOf[e]] = {}]

Dissociate(e) ==
  topic_to_entities' = [topic_to_entities EXCEPT ![TopicOf[e]] =
                          IF LastEntity(e) THEN {} ELSE @ \ {e}]

(* A constructor creates the publisher or subscriber, the topic and then the
   writer or reader, and associates it. *)
CreateEndpoint(e) ==
  /\ dds_groups' = dds_groups \cup {e}
  /\ TopicReady(e)
  /\ dds_entities' = dds_entities \cup {e}
  /\ Associate(e)
  /\ UNCHANGED <<dds_participant, typeVars>>

(* It throws at one of the three, and what was created before stays. *)
CreateThrows(e) ==
  /\ \/ UNCHANGED <<dds_groups, dds_topics>>
     \/ dds_groups' = dds_groups \cup {e} /\ UNCHANGED dds_topics
     \/ dds_groups' = dds_groups \cup {e} /\ TopicReady(e)
  /\ UNCHANGED <<dds_participant, typeVars, topic_to_entities, dds_entities>>

(* Mutants: the topic is never deleted; the reader or writer is not deleted. *)
DeleteKeepsTopic(e) ==
  /\ Dissociate(e)
  /\ dds_entities' = dds_entities \ {e}
  /\ dds_groups' = dds_groups \ {e}
  /\ UNCHANGED <<dds_participant, typeVars, dds_topics>>
DeleteKeepsEntity(e) ==
  /\ Dissociate(e)
  /\ dds_groups' = dds_groups \ {e}
  /\ UNCHANGED <<dds_participant, typeVars, dds_topics, dds_entities>>

(* A destructor dissociates and deletes the reader or writer, its subscriber
   or publisher, and the topic if nobody else uses it. *)
DeleteEndpoint(e) ==
  /\ Dissociate(e)
  /\ dds_entities' = dds_entities \ {e}
  /\ dds_groups' = dds_groups \ {e}
  /\ dds_topics' = IF LastEntity(e)
                   THEN [dds_topics EXCEPT ![TopicOf[e]] = NoType]
                   ELSE dds_topics
  /\ UNCHANGED <<dds_participant, typeVars>>

(* ~Participant: a participant with active entities is left behind. *)
HasActiveEntities ==
  \/ dds_groups # {}
  \/ \E t \in Topics : dds_topics[t] # NoType
DeleteParticipant ==
  /\ dds_participant' = IF HasActiveEntities THEN dds_participant ELSE "deleted"
  /\ UNCHANGED <<typeVars, entityVars>>

=============================================================================
