SPECIFICATION Spec
CONSTANTS
  pub = pub
  sub = sub
  cli = cli
  srv = srv
  chatter = chatter
  request = request
  reply = reply
  Text = Text
  Query = Query
  ePub = ePub
  eSub = eSub
  eCliReq = eCliReq
  eCliRep = eCliRep
  eSrvReq = eSrvReq
  eSrvRep = eSrvRep
  NoType = NoType
  NoProxy = NoProxy
  Proxies <- MCProxies
  Kind <- MCKind
  Topics <- MCTopics
  Types <- MCTypes
  Endpoints <- MCEndpoints
  TopicOf <- MCTopicOf
  TypeOf <- MCTypeOf
  EndpointsOf <- MCEndpointsOf
  MaxThrows = 2
INVARIANTS
  TypeOK
  EntitiesExact
  TopicOutlivesEndpoints
  TopicTypesDefined
  NothingLeftBehind
CHECK_DEADLOCK FALSE
