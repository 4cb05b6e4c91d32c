------------------------------- MODULE CallReply -------------------------------
(***************************************************************************)
(* What a server promises, without threads, mutexes, maps or handles: DDS  *)
(* brings replies to the requests it was given, any number to each and     *)
(* some to other clients'; the reader keeps the latest; with a reply that  *)
(* is taken the client of the request it relates to is called, if no other *)
(* reply did or is doing that, or it is dropped.                           *)
(***************************************************************************)

CONSTANTS Calls,       \* requests, each made once
          Replies,     \* what the reader may receive
          Foreign,     \* the request of somebody else
          RelatedTo,   \* the request that each reply relates to
          NoReply

VARIABLES
  asked,        \* requests written
  arrived,      \* replies the reader has received so far
  latest,       \* the one that waits to be taken
  carried,      \* replies taken and not yet dealt with
  answering,    \* replies with which a client is being called
  answered      \* requests whose client was called

vars == <<asked, arrived, latest, carried, answering, answered>>

Init ==
  /\ asked = {} /\ answering = {} /\ answered = {}
  /\ arrived = {} /\ latest = NoReply /\ carried = {}

Ask(c) ==
  /\ c \notin asked
  /\ asked' = asked \cup {c}
  /\ UNCHANGED <<arrived, latest, carried, answering, answered>>

Receive(r) ==
  /\ r \notin arrived
  /\ RelatedTo[r] \in asked \cup {Foreign}
  /\ arrived' = arrived \cup {r}
  /\ latest' = r
  /\ UNCHANGED <<asked, carried, answering, answered>>

Take ==
  /\ latest # NoReply
  /\ latest' = NoReply
  /\ carried' \in {carried, carried \cup {latest}}
  /\ UNCHANGED <<asked, arrived, answering, answered>>

Answer(r) ==
  /\ r \in carried
  /\ RelatedTo[r] \in asked \ answered
  /\ \A other \in answering : RelatedTo[other] # RelatedTo[r]
  /\ carried' = carried \ {r}
  /\ answering' = answering \cup {r}
  /\ UNCHANGED <<asked, arrived, latest, answered>>

Answered(r) ==
  /\ r \in answering
  /\ answering' = answering \ {r}
  /\ answered' = answered \cup {RelatedTo[r]}
  /\ UNCHANGED <<asked, arrived, latest, carried>>

Drop(r) ==
  /\ r \in carried
  /\ carried' = carried \ {r}
  /\ UNCHANGED <<asked, arrived, latest, answering, answered>>

Next ==
  \/ \E c \in Calls : Ask(c)
  \/ Take
  \/ \E r \in Replies : Receive(r) \/ Answer(r) \/ Answered(r) \/ Drop(r)

Spec == Init /\ [][Next]_vars

=============================================================================
