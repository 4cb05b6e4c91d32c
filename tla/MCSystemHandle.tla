---------------------------- MODULE MCSystemHandle ----------------------------
(* Instances of SystemHandle for TLC: a publisher and a subscriber of the same
   topic, and a client and a server of the same service. *)
EXTENDS SystemHandle, TLC

CONSTANTS pub, sub, cli, srv,                     \* proxies
          chatter, request, reply,                \* topics
          Text, Query,                            \* types
          ePub, eSub, eCliReq, eCliRep, eSrvReq, eSrvRep

MCProxies == {pub, sub, cli, srv}
MCKind == (pub :> "publisher") @@ (sub :> "subscriber")
          @@ (cli :> "client") @@ (srv :> "server")
MCTopics == {chatter, request, reply}
MCTypes == {Text, Query}
MCEndpoints == {ePub, eSub, eCliReq, eCliRep, eSrvReq, eSrvRep}
MCTopicOf == [e \in MCEndpoints |->
  CASE e \in {ePub, eSub} -> chatter
    [] e \in {eCliReq, eSrvReq} -> request
    [] OTHER -> reply]
MCTypeOf == [e \in MCEndpoints |-> IF e \in {ePub, eSub} THEN Text ELSE Query]
MCEndpointsOf == (pub :> <<ePub>>) @@ (sub :> <<eSub>>)
                 @@ (cli :> <<eCliReq, eCliRep>>) @@ (srv :> <<eSrvReq, eSrvRep>>)

=============================================================================
