------------------------------ MODULE ServiceBridge ------------------------------
(***************************************************************************)
(* A Client and a Server that the Integration Service routes to each other:*)
(* requests of DDS clients are called on a DDS server in another domain,   *)
(* and its replies are given back.  A thread of one component enters the   *)
(* other: a receive thread of the Client runs Server::call_service, and one*)
(* of the Server runs Client::receive_response with Server's mtx_ held.    *)
(*                                                                         *)
(* This module keeps the mutexes of both, who waits for which, and the     *)
(* order in which each thread takes them; what the data and the maps hold  *)
(* is in Client and Server, and the destructors are there as well.         *)
(***************************************************************************)
EXTENDS Naturals, FiniteSets

CONSTANTS Requests, None

ASSUME NoneIsNoRequest == None \notin Requests

VARIABLES
  owner,              \* owner of each mutex, Free or Constructor
  listener,           \* request whose sample a component's listener holds
  receiver,           \* where the Client's thread of each request is
  replier,            \* where the Server's thread of each reply is
  callhandle_client,  \* requests with an entry in callhandle_client_
  sample_callhandle,  \* requests with an entry in sample_callhandle_
  answered            \* requests that the DDS server replied to

mapVars == <<callhandle_client, sample_callhandle>>
vars == <<owner, listener, receiver, replier, mapVars, answered>>

Sides == {"client", "server"}

(* cleaner_mtx_, the data_mtx of the reader's and of the writer's entities and
   mtx_ of each component. *)
Mutexes == Sides \X {"cleaner", "reader", "writer", "maps"}
Threads == ({"listener"} \X Sides) \cup ({"receiver", "replier"} \X Requests)

Free == <<"free", None>>
Constructor == <<"constructor", None>>

Receiving == {"convert", "record", "callback", "call", "insert", "write", "report"}
Replying == {"lookup", "convert", "answer", "path", "reply", "write", "report"}

(* Every variable ranges over what the C++ declaration allows. *)
TypeOK ==
  /\ owner \in [Mutexes -> Threads \cup {Free, Constructor}]
  /\ listener \in [Sides -> Requests \cup {None}]
  /\ receiver \in [Requests -> Receiving \cup {"idle", "done"}]
  /\ replier \in [Requests -> Replying \cup {"idle", "done"}]
  /\ callhandle_client \subseteq Requests /\ sample_callhandle \subseteq Requests
  /\ answered \subseteq Requests

(* Each constructor keeps its mtx_ until both its endpoints have matched. *)
Init ==
  /\ owner = [m \in Mutexes |-> IF m[2] = "maps" THEN Constructor ELSE Free]
  /\ listener = [s \in Sides |-> None]
  /\ receiver = [r \in Requests |-> "idle"]
  /\ replier = [r \in Requests |-> "idle"]
  /\ callhandle_client = {} /\ sample_callhandle = {}
  /\ answered = {}

(* The ways in which a step changes the mutexes. *)
Locks(thread, m) == owner[m] = Free /\ owner' = [owner EXCEPT ![m] = thread]
Unlocks(ms) == owner' = [m \in Mutexes |-> IF m \in ms THEN Free ELSE owner[m]]
Passes(m) == owner[m] = Free /\ UNCHANGED owner

(* The second match unlocks mtx_. *)
OpenGate(s) ==
  /\ owner[<<s, "maps">>] = Constructor
  /\ Unlocks({<<s, "maps">>})
  /\ UNCHANGED <<listener, receiver, replier, mapVars, answered>>

(* on_data_available of either component locks cleaner_mtx_ ... *)
ListenerCall(s, r) ==
  /\ IF s = "client" THEN receiver[r] = "idle" ELSE r \in answered /\ replier[r] = "idle"
  /\ listener[s] = None
  /\ Locks(<<"listener", s>>, <<s, "cleaner">>)
  /\ listener' = [listener EXCEPT ![s] = r]
  /\ UNCHANGED <<receiver, replier, mapVars, answered>>

(* ... and data_mtx, which it leaves to the thread it starts. *)
ListenerSpawn(s) ==
  LET r == listener[s]
      thread == IF s = "client" THEN <<"receiver", r>> ELSE <<"replier", r>>
  IN
  /\ r # None
  /\ owner[<<s, "reader">>] = Free
  /\ owner' = [owner EXCEPT ![<<s, "reader">>] = thread, ![<<s, "cleaner">>] = Free]
  /\ IF s = "client" THEN receiver' = [receiver EXCEPT ![r] = "convert"] /\ UNCHANGED replier
                     ELSE replier' = [replier EXCEPT ![r] = "lookup"] /\ UNCHANGED receiver
  /\ listener' = [listener EXCEPT ![s] = None]
  /\ UNCHANGED <<mapVars, answered>>

-----------------------------------------------------------------------------
(* Client::receive, and in its callback Server::call_service. *)

Receiver(r, from, to) == receiver[r] = from /\ receiver' = [receiver EXCEPT ![r] = to]

ReceiveConvert(r) ==
  /\ Receiver(r, "convert", "record") \/ Receiver(r, "convert", "report")
  /\ Unlocks({<<"client", "reader">>})
  /\ UNCHANGED <<listener, replier, mapVars, answered>>

ReceiveRecord(r) ==
  /\ Receiver(r, "record", "callback")
  /\ Passes(<<"client", "maps">>)
  /\ UNCHANGED <<listener, replier, mapVars, answered>>

(* No lock of the Client is held in the callback; there may be none to call. *)
ReceiveCallback(r) ==
  /\ Receiver(r, "callback", "call") \/ Receiver(r, "callback", "report")
  /\ UNCHANGED <<owner, listener, replier, mapVars, answered>>

(* Mutant: the conversion is made under mtx_ instead. *)
CallConvertMaps(r) ==
  /\ Receiver(r, "call", "insert")
  /\ Locks(<<"receiver", r>>, <<"server", "maps">>)
  /\ UNCHANGED <<listener, replier, mapVars, answered>>

(* Lock the data of the requests and convert into it, or fail and unlock it. *)
CallConvert(r) ==
  /\ \/ /\ Receiver(r, "call", "insert")
        /\ Locks(<<"receiver", r>>, <<"server", "writer">>)
     \/ /\ Receiver(r, "call", "report")
        /\ Passes(<<"server", "writer">>)
  /\ UNCHANGED <<listener, replier, mapVars, answered>>

(* Lock mtx_, keep the client of the call. *)
CallInsert(r) ==
  /\ Receiver(r, "insert", "write")
  /\ Locks(<<"receiver", r>>, <<"server", "maps">>)
  /\ callhandle_client' = callhandle_client \cup {r}
  /\ UNCHANGED <<listener, replier, sample_callhandle, answered>>

(* Write the request, or fail to; the locks end. *)
CallWrite(r) ==
  /\ Receiver(r, "write", "report")
  /\ sample_callhandle' = sample_callhandle \cup {r} \/ UNCHANGED sample_callhandle
  /\ Unlocks({<<"server", "writer">>, <<"server", "maps">>})
  /\ UNCHANGED <<listener, replier, callhandle_client, answered>>

(* Report the end of the thread under cleaner_mtx_. *)
ReceiveReport(r) ==
  /\ Receiver(r, "report", "done")
  /\ Passes(<<"client", "cleaner">>)
  /\ UNCHANGED <<listener, replier, mapVars, answered>>

-----------------------------------------------------------------------------
(* Server::receive, and in it Client::receive_response. *)

(* The DDS server replies to what was written. *)
Answer(r) ==
  /\ r \in sample_callhandle \ answered
  /\ answered' = answered \cup {r}
  /\ UNCHANGED <<owner, listener, receiver, replier, mapVars>>

Replier(r, from, to) == replier[r] = from /\ replier' = [replier EXCEPT ![r] = to]

(* Lock mtx_, find the call of the reply, unlock it. *)
ReplyLookup(r) ==
  /\ Replier(r, "lookup", "convert")
  /\ Passes(<<"server", "maps">>)
  /\ UNCHANGED <<listener, receiver, mapVars, answered>>

ReplyConvert(r) ==
  /\ Replier(r, "convert", "answer") \/ Replier(r, "convert", "report")
  /\ Unlocks({<<"server", "reader">>})
  /\ UNCHANGED <<listener, receiver, mapVars, answered>>

(* Lock mtx_ until the response has returned; the call is forgotten. *)
ReplyAnswer(r) ==
  /\ r \in callhandle_client
  /\ Replier(r, "answer", "path")
  /\ Locks(<<"replier", r>>, <<"server", "maps">>)
  /\ callhandle_client' = callhandle_client \ {r}
  /\ sample_callhandle' = sample_callhandle \ {r}
  /\ UNCHANGED <<listener, receiver, answered>>

(* receive_response looks the reply's type up under the Client's mtx_. *)
ResponsePath(r) ==
  /\ Replier(r, "path", "reply")
  /\ Passes(<<"client", "maps">>)
  /\ UNCHANGED <<listener, receiver, mapVars, answered>>

(* Lock the data of the Client's replies and convert into it, or fail, which
   ends the locks of both functions. *)
ResponseConvert(r) ==
  /\ owner[<<"client", "writer">>] = Free
  /\ \/ Replier(r, "reply", "write") /\ Locks(<<"replier", r>>, <<"client", "writer">>)
     \/ Replier(r, "reply", "report") /\ Unlocks({<<"server", "maps">>})
  /\ UNCHANGED <<listener, receiver, mapVars, answered>>

(* Mutant: Server's mtx_ stays locked. *)
ResponseWriteKeeps(r) ==
  /\ Replier(r, "write", "report")
  /\ Unlocks({<<"client", "writer">>})
  /\ UNCHANGED <<listener, receiver, mapVars, answered>>

ResponseWrite(r) ==
  /\ Replier(r, "write", "report")
  /\ Unlocks({<<"client", "writer">>, <<"server", "maps">>})
  /\ UNCHANGED <<listener, receiver, mapVars, answered>>

ReplyReport(r) ==
  /\ Replier(r, "report", "done")
  /\ Passes(<<"server", "cleaner">>)
  /\ UNCHANGED <<listener, receiver, mapVars, answered>>

ReceiveThread(r) ==
  \/ ReceiveConvert(r) \/ ReceiveRecord(r) \/ ReceiveCallback(r)
  \/ CallConvert(r) \/ CallInsert(r) \/ CallWrite(r) \/ ReceiveReport(r)

ReplyThread(r) ==
  \/ ReplyLookup(r) \/ ReplyConvert(r) \/ ReplyAnswer(r)
  \/ ResponsePath(r) \/ ResponseConvert(r) \/ ResponseWrite(r) \/ ReplyReport(r)

Next ==
  \/ \E s \in Sides :
       OpenGate(s) \/ ListenerSpawn(s) \/ \E r \in Requests : ListenerCall(s, r)
  \/ \E r \in Requests : ReceiveThread(r) \/ ReplyThread(r) \/ Answer(r)

Spec == Init /\ [][Next]_vars

(* The threads run when they can; no peer has to match, nor any sample to come. *)
Fairness ==
  /\ \A s \in Sides : WF_vars(ListenerSpawn(s))
  /\ \A r \in Requests : WF_vars(ReceiveThread(r)) /\ WF_vars(ReplyThread(r))

FairSpec == Spec /\ Fairness

-----------------------------------------------------------------------------
(* Properties. *)

(* The mutex that each thread is about to lock. *)
Wants(thread) ==
  IF thread[1] = "listener"
    THEN IF listener[thread[2]] = None THEN {} ELSE {<<thread[2], "reader">>}
    ELSE LET r == thread[2] IN
         IF thread[1] = "receiver"
           THEN CASE receiver[r] = "record" -> {<<"client", "maps">>}
                  [] receiver[r] = "call" -> {<<"server", "writer">>}
                  [] receiver[r] = "insert" -> {<<"server", "maps">>}
                  [] receiver[r] = "report" -> {<<"client", "cleaner">>}
                  [] OTHER -> {}
           ELSE CASE replier[r] \in {"lookup", "answer"} -> {<<"server", "maps">>}
                  [] replier[r] = "path" -> {<<"client", "maps">>}
                  [] replier[r] = "reply" -> {<<"client", "writer">>}
                  [] replier[r] = "report" -> {<<"server", "cleaner">>}
                  [] OTHER -> {}

(* An order of the mutexes of both components. *)
Rank(m) ==
  CASE m[2] = "cleaner" -> 1
    [] m[2] = "reader" -> 2
    [] m = <<"server", "writer">> -> 3
    [] m = <<"server", "maps">> -> 4
    [] m = <<"client", "maps">> -> 5
    [] m = <<"client", "writer">> -> 6

(* Each thread, whichever component it is of or runs in, takes the mutexes of
   the two in one order, so that no circle of threads can wait for each other
   (Server.cpp:621 with Client.cpp:450, :465). *)
LocksInOrder ==
  \A thread \in Threads : \A wanted \in Wants(thread) :
    \A held \in Mutexes : owner[held] = thread => Rank(held) < Rank(wanted)

(* The threads that have begun and not ended, and those that wait for a mutex. *)
Unfinished ==
  {<<"listener", s>> : s \in {side \in Sides : listener[side] # None}} \cup
  {<<"receiver", r>> : r \in {q \in Requests : receiver[q] \in Receiving}} \cup
  {<<"replier", r>> : r \in {q \in Requests : replier[q] \in Replying}}

Waits(thread) == \E wanted \in Wants(thread) : owner[wanted] # Free

(* In every set of threads there is one that waits for none of them. *)
NoCircle ==
  \A circle \in SUBSET Threads : circle # {} =>
    \E thread \in circle : \A wanted \in Wants(thread) : owner[wanted] \notin circle

(* Once both components have matched, some unfinished thread waits for nothing. *)
WaitsEnd ==
  (\A s \in Sides : owner[<<s, "maps">>] # Constructor) /\ Unfinished # {} =>
    \E thread \in Unfinished : ~Waits(thread)

(* A reply's call is known until its thread forgets it: receive finds the client
   of the call in callhandle_client_ (Server.cpp:615). *)
CallKnown ==
  \A r \in Requests : replier[r] \in {"lookup", "convert", "answer"} => r \in callhandle_client

(* A reply that was taken gets to the end of its response, and a request to the
   end of its call once both components have matched. *)
BridgeServes ==
  \A r \in Requests :
    /\ replier[r] = "lookup" ~> replier[r] = "done"
    /\ (receiver[r] = "convert" /\ \A s \in Sides : owner[<<s, "maps">>] # Constructor) ~>
         receiver[r] = "done"

=============================================================================
