----------------------------- MODULE SystemHandle -----------------------------
(***************************************************************************)
(* SystemHandle.cpp: the Integration Service configures the handle, asks   *)
(* it for publishers, subscribers, client and service proxies, and in the  *)
(* end destroys it.  All of it runs on the configuring thread; what can go *)
(* wrong is a DDS call that fails in the middle of a constructor.          *)
(***************************************************************************)
EXTENDS Participant, Sequences

CONSTANTS Proxies,       \* the things the core asks for, one per topic or service
          Kind,          \* "publisher", "subscriber", "client" or "server"
          EndpointsOf,   \* each proxy's endpoints, in their constructor's order
          NoProxy,
          MaxThrows      \* bound: constructors that fail and are survived

Kinds == {"publisher", "subscriber", "client", "server"}

ASSUME ProxiesTyped ==
  /\ NoProxy \notin Proxies
  /\ Kind \in [Proxies -> Kinds]
  /\ EndpointsOf \in [Proxies -> Seq(Endpoints)]
ASSUME MaxThrowsIsNat == MaxThrows \in Nat

VARIABLES
  phase,       \* of the handle, or of the process when it dies
  building,    \* the proxy whose constructor runs, or NoProxy
  registered,  \* how many of its endpoints have their type registered
  proxies,     \* publishers_, subscribers_, clients_ and servers_ together
  throws       \* constructors that threw and were caught

handleVars == <<phase, building, registered, proxies, throws>>
vars == <<participantVars, handleVars>>

EndpointsIn(p) == {EndpointsOf[p][i] : i \in DOMAIN EndpointsOf[p]}

TypeOK ==
  /\ ParticipantTypeOK
  /\ phase \in {"new", "running", "rejected", "destroying", "destroyed",
                "crashed", "terminated"}
  /\ building \in Proxies \cup {NoProxy}
  /\ registered \in
       0..(IF building = NoProxy THEN 0 ELSE Len(EndpointsOf[building]))
  /\ proxies \subseteq Proxies
  /\ throws \in 0..MaxThrows

Init ==
  /\ ParticipantInit
  /\ phase = "new" /\ building = NoProxy /\ registered = 0
  /\ proxies = {} /\ throws = 0

-----------------------------------------------------------------------------
(* configure: the DDS participant is created; or the configuration is refused
   and configure returns false; or the profile's participant is not created,
   and the error path dereferences the null pointer it reports. *)
Configure ==
  /\ phase = "new"
  /\ \/ phase' = "running" /\ dds_participant' = "active"
     \/ phase' \in {"rejected", "crashed"} /\ UNCHANGED dds_participant
  /\ UNCHANGED <<typeVars, entityVars, building, registered, proxies, throws>>

(* subscribe, advertise, create_client_proxy, create_service_proxy: a service
   that has a proxy already is only given one more add_config. *)
Construct(p) ==
  /\ phase = "running"
  /\ building = NoProxy
  /\ p \notin proxies
  /\ building' = p
  /\ registered' = 0
  /\ UNCHANGED <<participantVars, phase, proxies, throws>>

NextToRegister == EndpointsOf[building][registered + 1]
AllRegistered ==
  building # NoProxy /\ registered = Len(EndpointsOf[building])
NextToCreate ==
  LET created == {i \in DOMAIN EndpointsOf[building] :
                    EndpointsOf[building][i] \in dds_entities}
  IN EndpointsOf[building][Cardinality(created) + 1]

Register ==
  /\ building # NoProxy /\ ~AllRegistered
  /\ phase = "running"
  /\ RegisterReturns(NextToRegister)
  /\ registered' = registered + 1
  /\ UNCHANGED <<phase, building, proxies, throws>>

Create ==
  /\ AllRegistered
  /\ phase = "running"
  /\ ~ EndpointsIn(building) \subseteq dds_entities
  /\ CreateEndpoint(NextToCreate)
  /\ UNCHANGED handleVars

Complete ==
  /\ AllRegistered
  /\ phase = "running"
  /\ EndpointsIn(building) \subseteq dds_entities
  /\ proxies' = proxies \cup {building}
  /\ building' = NoProxy /\ registered' = 0
  /\ UNCHANGED <<participantVars, phase, throws>>

(* A DDSMiddlewareException leaves the constructor: advertise catches it, and
   returns no publisher; the other three run cleaner_thread_ by then, and the
   destruction of that joinable std::thread ends the process. *)
Unwind ==
  IF Kind[building] = "publisher"
  THEN /\ throws < MaxThrows
       /\ throws' = throws + 1
       /\ building' = NoProxy /\ registered' = 0
       /\ UNCHANGED <<phase, proxies>>
  ELSE /\ phase' = "terminated"
       /\ UNCHANGED <<building, registered, proxies, throws>>

(* No builder for the type, or the registration fails. *)
RegisterFails ==
  /\ building # NoProxy /\ ~AllRegistered
  /\ phase = "running"
  /\ UNCHANGED participantVars \/ RegisterThrows(NextToRegister)
  /\ Unwind

CreateFails ==
  /\ AllRegistered
  /\ phase = "running"
  /\ ~ EndpointsIn(building) \subseteq dds_entities
  /\ CreateThrows(NextToCreate)
  /\ Unwind

-----------------------------------------------------------------------------
(* ~SystemHandle destroys its members from the last to the first. *)
Destroy ==
  /\ phase = "running" /\ building = NoProxy
  /\ phase' = "destroying"
  /\ UNCHANGED <<participantVars, building, registered, proxies, throws>>

Rank(p) == CASE Kind[p] = "server" -> 1
             [] Kind[p] = "client" -> 2
             [] Kind[p] = "subscriber" -> 3
             [] Kind[p] = "publisher" -> 4

DestroyProxy(p) ==
  /\ phase = "destroying"
  /\ p \in proxies
  /\ \A q \in proxies : Rank(p) <= Rank(q)
  /\ \E i \in DOMAIN EndpointsOf[p] :
       LET e == EndpointsOf[p][i]
       IN /\ e \in dds_entities
          /\ \A j \in 1..(i - 1) : EndpointsOf[p][j] \notin dds_entities
          /\ DeleteEndpoint(e)
          /\ proxies' = IF i = Len(EndpointsOf[p]) THEN proxies \ {p} ELSE proxies
  /\ UNCHANGED <<phase, building, registered, throws>>

DestroyParticipant ==
  /\ phase = "destroying"
  /\ proxies = {}
  /\ DeleteParticipant
  /\ phase' = "destroyed"
  /\ UNCHANGED <<building, registered, proxies, throws>>

Next ==
  \/ Configure
  \/ \E p \in Proxies : Construct(p) \/ DestroyProxy(p)
  \/ Register \/ RegisterFails \/ Create \/ CreateFails \/ Complete
  \/ Destroy \/ DestroyParticipant

Spec == Init /\ [][Next]_vars

-----------------------------------------------------------------------------
(* topic_to_entities_ is an exact reference count: it holds, for every topic,
   the readers and writers that exist on it, through any mix of successes,
   failures and deletions.  dissociate relies on it when it erases an entry
   of size one without looking at the entity in it (Participant.cpp:312). *)
EntitiesExact ==
  \A t \in Topics :
    topic_to_entities[t] = {e \in dds_entities : TopicOf[e] = t}

(* A topic shared by several proxies outlives each of them: no destructor
   deletes it under another's reader or writer (Subscriber.cpp:168). *)
TopicOutlivesEndpoints ==
  \A e \in dds_entities : dds_topics[TopicOf[e]] # NoType

(* A topic's type is always defined, also after a registration failed, so
   create_dynamic_data never takes its second error path, which reads past
   the end of types_ (Participant.cpp:254). *)
TopicTypesDefined ==
  \A t \in Topics : topic_to_type[t] \in types \cup {NoType}

(* If no constructor failed, destroying the handle deletes the participant:
   every DDS entity was deleted before it. *)
NothingLeftBehind ==
  phase = "destroyed" /\ throws = 0 => dds_participant = "deleted"

(* Subscriber.hpp:77, Server.hpp:93: the constructors throw a
   DDSMiddlewareException if an error occurs while creating the entities. *)
ConstructionReportsFailure == phase # "terminated"

-----------------------------------------------------------------------------
(* The inductive invariant: what makes the properties above hold at every
   step.  Until a constructor fails, the DDS entities are those of the proxies,
   the one in construction included, and only a topic of theirs exists. *)
NoneFailed == throws = 0 /\ phase # "terminated"

OwnedInv ==
  /\ building # NoProxy => phase \in {"running", "terminated"}
  /\ NoneFailed =>
       /\ dds_groups = dds_entities
       /\ \A t \in Topics :
            dds_topics[t] # NoType => \E e \in dds_entities : TopicOf[e] = t
       /\ \A e \in dds_entities :
            \E p \in Proxies :
              p \in proxies \cup {building} /\ e \in EndpointsIn(p)

IInv ==
  /\ TypeOK
  /\ EntitiesExact
  /\ TopicOutlivesEndpoints
  /\ TopicTypesDefined
  /\ OwnedInv
  /\ NothingLeftBehind

=============================================================================
