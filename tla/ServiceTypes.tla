------------------------------ MODULE ServiceTypes ------------------------------
(***************************************************************************)
(* The methods of one DDS service: how Server.cpp puts each request where  *)
(* its type belongs in the type of the service, how Client.cpp, on the     *)
(* other side of DDS, tells from it which callback the request is for, and *)
(* how the two find the reply of each request.  Both keep tables that      *)
(* add_config fills from the configuration, one method at a time.          *)
(*                                                                         *)
(* A service has a request type, a reply type and, per method, the paths   *)
(* of its request and reply in them and the names its types have in the    *)
(* Integration Service: the DDS names, or others that the configuration    *)
(* gives without a leading "::".  A method that is configured by a `type`  *)
(* alone is not paired with a type of reply: its reply is the whole one.   *)
(***************************************************************************)
EXTENDS Navigation

CONSTANTS Calls,      \* the calls of the service, and their samples
          Services,   \* the services it may be
          Bare,       \* Bare[name]: the type's name without a leading "::"
          None        \* no value, no path, no callback

VARIABLES
  service,     \* the service
  server,      \* Server's tables
  client,      \* Client's tables
  served,      \* methods that Server was configured with
  offered,     \* methods that Client was configured with
  stage,       \* where each call is
  method,      \* the method called
  request,     \* the DDS data of each request
  handled,     \* <<callback, message>> that the request was given to
  reply,       \* the DDS data of each reply
  answer,      \* the message that the caller was given
  undefined    \* the call with which the program did what has no meaning

configVars == <<server, client, served, offered>>
callVars == <<stage, method, request, handled, reply, answer>>
vars == <<service, configVars, callVars, undefined>>

Names == DOMAIN Bare

(* A service type has a kind and a name at each path, the empty one first. *)
ServiceType(type) ==
  /\ DOMAIN type.name = Paths(type)
  /\ Paths(type) \subseteq Seq(Nat) /\ IsFiniteSet(Paths(type)) /\ <<>> \in Paths(type)
  /\ \A path \in Paths(type) : \A n \in 0..Len(path) : SubSeq(path, 1, n) \in Paths(type)
  /\ \A path \in Paths(type) : type.name[path] \in Names

(* Without a remap, what is configured is the service type itself; a method
   that is not paired has the whole reply. *)
ServiceMethod(s, config) ==
  /\ config.request \in Paths(s.request) /\ config.reply \in Paths(s.reply)
  /\ config.remap \in BOOLEAN /\ config.paired \in BOOLEAN
  /\ config.request_name \in Names /\ config.reply_name \in Names
  /\ ~config.remap => config.request = <<>> /\ config.reply = <<>>
  /\ ~config.paired => config.reply = <<>>

ASSUME BareTyped == Bare \in [Names -> Names]
ASSUME ServicesTyped == \A s \in Services :
  /\ ServiceType(s.request) /\ ServiceType(s.reply)
  /\ \A m \in DOMAIN s.methods : ServiceMethod(s, s.methods[m])
ASSUME NoneIsNone ==
  /\ None \notin Names /\ None \notin Calls
  /\ \A s \in Services : None \notin Paths(s.request) \cup DOMAIN s.methods

Methods == DOMAIN service.methods
Discriminators == [Names -> Paths(service.request) \cup Paths(service.reply)]
ReplyTypes == [Names -> Names \cup {None}]
ReplyIds == [Calls -> Names \cup {None}]
Requests == [at : Paths(service.request), value : Calls]
Replies == [at : Paths(service.reply), value : Calls]
Messages == [type : Names, value : Calls \cup {None}]

(* Every variable ranges over what the C++ declaration allows. *)
TypeOK ==
  /\ service \in Services
  /\ server \in [type_to_discriminator : Discriminators, request_reply : ReplyTypes,
                 reply_id_type : ReplyIds]
  /\ client \in [type_to_discriminator : Discriminators, request_reply : ReplyTypes,
                 reply_id_type : ReplyIds, callbacks : [Names -> Methods \cup {None}],
                 member_types : SUBSET Names, member_tree : SUBSET Paths(service.request)]
  /\ served \subseteq Methods /\ offered \subseteq Methods
  /\ stage \in [Calls -> {"idle", "asked", "called", "dropped", "replied", "answered"}]
  /\ method \in [Calls -> Methods \cup {None}]
  /\ request \in [Calls -> Requests \cup {None}] /\ reply \in [Calls -> Replies \cup {None}]
  /\ answer \in [Calls -> Messages \cup {None}]
  /\ handled \in [Calls -> (Methods \X Messages) \cup {None}]
  /\ undefined \in Calls \cup {None}

(* No key: a path that is not there is the empty one, which is the whole data. *)
NoDiscriminators == [name \in Names |-> <<>>]
NoName == [name \in Names |-> None]
NoCall == [c \in Calls |-> None]

Init ==
  /\ service \in Services
  /\ server = [type_to_discriminator |-> NoDiscriminators, request_reply |-> NoName,
               reply_id_type |-> NoCall]
  /\ client = [type_to_discriminator |-> NoDiscriminators, request_reply |-> NoName,
               reply_id_type |-> NoCall, callbacks |-> NoName,
               member_types |-> {}, member_tree |-> {}]
  /\ served = {} /\ offered = {}
  /\ stage = [c \in Calls |-> "idle"]
  /\ method = NoCall /\ request = NoCall /\ reply = NoCall
  /\ handled = NoCall /\ answer = NoCall
  /\ undefined = None

-----------------------------------------------------------------------------
(* Configuration. *)

(* The names under which add_config keeps a method's types. *)
RequestName(m) ==
  Bare[resolve_discriminator_type(service.request, service.methods[m].request)]
ReplyName(m) ==
  Bare[resolve_discriminator_type(service.reply, service.methods[m].reply)]

(* The names that the tables have for them: those, and the aliases. *)
RequestNames(m) == {RequestName(m), Bare[service.methods[m].request_name]}
ReplyNames(m) ==
  {name \in {ReplyName(m), Bare[service.methods[m].reply_name]} : service.methods[m].paired}

(* A table after some of its entries are assigned. *)
Assign(table, entries) ==
  [name \in DOMAIN table |-> IF name \in DOMAIN entries THEN entries[name] ELSE table[name]]

(* Mutant: a path begins with the service type, as it is written. *)
ServerDiscriminatorsRooted(m) ==
  [name \in {RequestName(m)} |-> <<0>> \o service.methods[m].request]

(* The paths of a method's types, and of the aliases they have.  A reply whose
   alias is the request's name is not added. *)
ServerDiscriminators(m) ==
  LET replies == {name \in ReplyNames(m) : name = ReplyName(m) \/ name # RequestName(m)}
  IN [name \in RequestNames(m) \cup replies |->
        IF name \in replies THEN service.methods[m].reply ELSE service.methods[m].request]

(* Mutant: the alias of a request has no reply type. *)
ServerReplyTypesOwn(m) == [name \in {RequestName(m)} |-> ReplyName(m)]

(* The reply type of a method's request, and of its alias. *)
ServerReplyTypes(m) ==
  LET config == service.methods[m]
      aliases == {name \in RequestNames(m) : Bare[config.reply_name] # RequestName(m)}
  IN [name \in {n \in {RequestName(m)} \cup aliases : config.paired} |-> ReplyName(m)]

(* A remapped method adds its types; of another nothing is known. *)
ServerAddConfig(m) ==
  /\ m \notin served
  /\ served' = served \cup {m}
  /\ server' = IF service.methods[m].remap
       THEN [server EXCEPT !.type_to_discriminator = Assign(@, ServerDiscriminators(m)),
                           !.request_reply = Assign(@, ServerReplyTypes(m))]
       ELSE server
  /\ UNCHANGED <<service, client, offered, callVars, undefined>>

(* The paths of a method's types; the reply's comes last. *)
MemberNames(m) == {RequestName(m)} \cup {name \in {ReplyName(m)} : service.methods[m].paired}
ClientDiscriminators(m) ==
  [name \in MemberNames(m) |->
     IF service.methods[m].paired /\ name = ReplyName(m)
       THEN service.methods[m].reply ELSE service.methods[m].request]

(* Mutant: a method replaces the callbacks of those before it. *)
ClientAddConfigAlone(m) ==
  /\ m \notin offered
  /\ offered' = offered \cup {m}
  /\ client' = [client EXCEPT
       !.type_to_discriminator = Assign(@, ClientDiscriminators(m)),
       !.member_types = MemberNames(m),
       !.member_tree = fill_root_node(@, service.request, service.methods[m].request),
       !.request_reply[RequestName(m)] =
          IF service.methods[m].paired THEN ReplyName(m) ELSE @,
       !.callbacks[RequestName(m)] = m]
  /\ UNCHANGED <<service, server, served, callVars, undefined>>

(* add_config: without a remap the types of the service are the method's.
   The tree of the reply type is filled too, and never searched. *)
ClientAddConfig(m) ==
  /\ m \notin offered
  /\ offered' = offered \cup {m}
  /\ client' = [client EXCEPT
       !.type_to_discriminator = Assign(@, ClientDiscriminators(m)),
       !.member_types = @ \cup MemberNames(m),
       !.member_tree = fill_root_node(@, service.request, service.methods[m].request),
       !.request_reply[RequestName(m)] =
          IF service.methods[m].paired THEN ReplyName(m) ELSE @,
       !.callbacks[RequestName(m)] = m]
  /\ UNCHANGED <<service, server, served, callVars, undefined>>

-----------------------------------------------------------------------------
(* Calls. *)

(* What has no meaning: a path that the type has not, or a member of another
   type than the message.  Nothing is said of what comes after it. *)
Undefined(c, m) ==
  /\ undefined' = c
  /\ method' = [method EXCEPT ![c] = m]
  /\ UNCHANGED <<service, configVars, stage, request, handled, reply, answer>>

(* Server::call_service puts the request where the table says that its type
   belongs.  Only the first of its two look-ups drops a leading "::". *)
CallService(c, m) ==
  LET config == service.methods[m]
      path == server.type_to_discriminator[Bare[config.request_name]]
  IN
  /\ stage[c] = "idle" /\ m \in served
  /\ IF path \in Paths(service.request) /\ service.request.name[path] = service.request.name[config.request]
     THEN /\ request' = [request EXCEPT ![c] = [at |-> path, value |-> c]]
          /\ server' = [server EXCEPT !.reply_id_type[c] =
               server.request_reply[config.request_name]]
          /\ stage' = [stage EXCEPT ![c] = "asked"]
          /\ method' = [method EXCEPT ![c] = m]
          /\ UNCHANGED <<service, client, served, offered, handled, reply, answer, undefined>>
     ELSE Undefined(c, m)

(* Client::receive, once the first configuration has made the Client, finds the
   member of the request, notes the reply's type and gives the message to the
   callback of its type, if there is one. *)
ClientReceive(c) ==
  LET member == get_discriminator(client.member_tree, service.request, request[c],
                                  client.member_types, None)
      message == access_member_data(service.request, request[c], member, None)
      callback == client.callbacks[message.type]
  IN
  /\ stage[c] = "asked" /\ offered # {}
  /\ IF member # None
     THEN /\ client' = [client EXCEPT !.reply_id_type[c] = client.request_reply[message.type]]
          /\ handled' = [handled EXCEPT ![c] = IF callback = None THEN None
                                               ELSE <<callback, message>>]
          /\ stage' = [stage EXCEPT ![c] = IF callback = None THEN "dropped" ELSE "called"]
          /\ UNCHANGED <<service, server, served, offered, method, request, reply, answer, undefined>>
     ELSE Undefined(c, method[c])

(* The path of the reply to c, in the tables of either side. *)
ReplyPath(tables, c) ==
  IF tables.reply_id_type[c] # None
    THEN tables.type_to_discriminator[tables.reply_id_type[c]]
    ELSE <<>>

(* Client::receive_response puts the response of the callback's method in the
   reply, and forgets the type it had noted. *)
ReceiveResponse(c) ==
  LET path == ReplyPath(client, c)
      response == service.reply.name[service.methods[handled[c][1]].reply]
  IN
  /\ stage[c] = "called"
  /\ IF path \in Paths(service.reply) /\ service.reply.name[path] = response
     THEN /\ reply' = [reply EXCEPT ![c] = [at |-> path, value |-> c]]
          /\ client' = [client EXCEPT !.reply_id_type[c] = None]
          /\ stage' = [stage EXCEPT ![c] = "replied"]
          /\ UNCHANGED <<service, server, served, offered, method, request, handled, answer, undefined>>
     ELSE Undefined(c, method[c])

(* Mutant: the whole reply is given to the caller. *)
ServerReceiveWhole(c) ==
  /\ stage[c] = "replied"
  /\ answer' = [answer EXCEPT ![c] = access_member_data(service.reply, reply[c], <<>>, None)]
  /\ server' = [server EXCEPT !.reply_id_type[c] = None]
  /\ stage' = [stage EXCEPT ![c] = "answered"]
  /\ UNCHANGED <<service, client, served, offered, method, request, handled, reply, undefined>>

(* Server::receive takes the member of the reply that the request's type has,
   and gives it to the caller. *)
ServerReceive(c) ==
  LET path == ReplyPath(server, c) IN
  /\ stage[c] = "replied"
  /\ IF path \in Paths(service.reply)
     THEN /\ answer' = [answer EXCEPT ![c] = access_member_data(service.reply, reply[c], path, None)]
          /\ server' = [server EXCEPT !.reply_id_type[c] = None]
          /\ stage' = [stage EXCEPT ![c] = "answered"]
          /\ UNCHANGED <<service, client, served, offered, method, request, handled, reply, undefined>>
     ELSE Undefined(c, method[c])

Next ==
  /\ undefined = None
  /\ \/ \E m \in Methods : ServerAddConfig(m) \/ ClientAddConfig(m)
     \/ \E c \in Calls :
          \/ \E m \in Methods : CallService(c, m)
          \/ ClientReceive(c) \/ ReceiveResponse(c) \/ ServerReceive(c)

Spec == Init /\ [][Next]_vars

-----------------------------------------------------------------------------
(* Properties. *)

(* The tables can tell the method from the others: the types of its request
   and reply have names of their own, the request's without a leading "::";
   nothing above its request has the type of a method; and a union has its
   request in another case than theirs. *)
UnionParts(p, q) ==
  \E common \in Paths(service.request) :
    /\ service.request.kind[common] = "union"
    /\ IsStrictPrefix(common, p) /\ IsStrictPrefix(common, q)
    /\ p[Len(common) + 1] # q[Len(common) + 1]

Told(m) ==
  LET config == service.methods[m] IN
  /\ RequestNames(m) \cap ReplyNames(m) = {}
  /\ Bare[config.request_name] = config.request_name
  /\ service.request.name[config.request] = RequestName(m)
  /\ \A above \in Paths(service.request) : IsStrictPrefix(above, config.request) =>
       \A other \in Methods : service.request.name[above] \notin MemberNames(other)
  /\ \A other \in Methods \ {m} :
       /\ (RequestNames(m) \cup ReplyNames(m))
            \cap (RequestNames(other) \cup ReplyNames(other)) = {}
       /\ UnionParts(config.request, service.methods[other].request)

(* Whatever else the service is configured with, before or meanwhile, a
   request is given, with what the caller put in it, to the callback of its
   own method (Client.cpp:588, :602). *)
RequestsReachTheirCallback ==
  \A c \in Calls : stage[c] \notin {"idle", "asked"} /\ Told(method[c]) =>
    handled[c] = <<method[c], [type |-> RequestName(method[c]), value |-> c]>>

(* The caller is given the reply to its own request, of the type configured for
   it and out of the member that it was put in (Server.cpp:607-611). *)
CallersGetTheirReply ==
  \A c \in Calls : stage[c] = "answered" /\ Told(method[c]) =>
    answer[c] = [type |-> service.reply.name[service.methods[method[c]].reply], value |-> c]

(* A call has no undefined outcome unless the tables cannot tell its method, or
   its request comes before Client is configured with it (Client.cpp:593,
   Server.cpp:436). *)
UndefinedOnlyWhere ==
  \A c \in Calls : undefined = c /\ Told(method[c]) =>
    stage[c] = "asked" /\ method[c] \notin offered

-----------------------------------------------------------------------------
(* The inductive invariant: what makes the properties above hold at every
   step. *)

(* A call has what its stage says. *)
StageInv == \A c \in Calls :
  /\ stage[c] # "idle" \/ undefined = c => method[c] \in Methods
  /\ stage[c] # "idle" => request[c] \in Requests
  /\ stage[c] \in {"called", "replied", "answered"} => handled[c] \in Methods \X Messages
  /\ stage[c] \in {"replied", "answered"} => reply[c] \in Replies

(* The tables of Server have, for a method that can be told, its own entries
   and no other, also after methods that cannot be told were added. *)
ServerTables(m) ==
  LET config == service.methods[m]
      name == config.request_name
      added == m \in served /\ config.remap
  IN
  /\ server.type_to_discriminator[name] = IF added THEN config.request ELSE <<>>
  /\ server.request_reply[name] = IF added /\ config.paired THEN ReplyName(m) ELSE None
  /\ added /\ config.paired =>
       server.type_to_discriminator[ReplyName(m)] = config.reply
ServerTablesInv == \A m \in Methods : Told(m) => ServerTables(m)

(* So have those of Client. *)
ClientTables(m) ==
  LET config == service.methods[m]
      added == m \in offered
  IN
  /\ added => client.callbacks[RequestName(m)] = m
  /\ client.request_reply[RequestName(m)] =
       IF added /\ config.paired THEN ReplyName(m) ELSE None
  /\ added /\ config.paired =>
       client.type_to_discriminator[ReplyName(m)] = config.reply
ClientTablesInv == \A m \in Methods : Told(m) => ClientTables(m)

(* The tree has the members that lead to a request, the search their types. *)
TreeInv ==
  /\ client.member_tree =
       {node \in Paths(service.request) :
          \E m \in offered : IsPrefix(node, service.methods[m].request)}
  /\ client.member_types = UNION {MemberNames(m) : m \in offered}

(* The course of a call whose method can be told. *)
Course(c, m) ==
  LET config == service.methods[m] IN
  /\ m \in served
  /\ stage[c] # "dropped"
  /\ stage[c] = "asked" => request[c] = [at |-> config.request, value |-> c]
  /\ stage[c] # "answered" =>
       server.reply_id_type[c] =
         IF config.remap /\ config.paired THEN ReplyName(m) ELSE None
  /\ stage[c] # "asked" =>
       m \in offered /\ handled[c] = <<m, [type |-> RequestName(m), value |-> c]>>
  /\ stage[c] = "called" =>
       client.reply_id_type[c] = IF config.paired THEN ReplyName(m) ELSE None
  /\ stage[c] = "replied" => reply[c] = [at |-> config.reply, value |-> c]
  /\ stage[c] = "answered" =>
       answer[c] = [type |-> service.reply.name[config.reply], value |-> c]
CourseInv == \A c \in Calls, m \in Methods :
  method[c] = m /\ Told(m) =>
    /\ stage[c] # "idle" => Course(c, m)
    /\ undefined = c => stage[c] = "asked" /\ m \notin offered

IInv ==
  /\ TypeOK
  /\ StageInv
  /\ ServerTablesInv
  /\ ClientTablesInv
  /\ TreeInv
  /\ CourseInv

=============================================================================
