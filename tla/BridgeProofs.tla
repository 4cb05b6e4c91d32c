------------------------------ MODULE BridgeProofs ------------------------------
(***************************************************************************)
(* For any number of requests, the threads of a Client and a Server that   *)
(* call each other take the mutexes of the two in one order.               *)
(*                                                                         *)
(* The order is not inductive: it speaks of what a thread is about to lock *)
(* and says nothing of what one holds elsewhere.  HeldInv does: it names,  *)
(* for each place of each thread, all that it may hold there.              *)
(***************************************************************************)
EXTENDS ServiceBridge, TLAPS

(* A listener holds the cleaner's mutex of its own component; nothing else of
   it is held between two steps, as the lock of data_mtx goes with the thread. *)
ListenerHolds ==
  \A s \in Sides : \A m \in Mutexes : owner[m] = <<"listener", s>> =>
    listener[s] # None /\ m = <<s, "cleaner">>

(* Client::receive and, in its callback, Server::call_service. *)
ReceiverHolds ==
  \A r \in Requests : \A m \in Mutexes : owner[m] = <<"receiver", r>> =>
    \/ m = <<"client", "reader">> /\ receiver[r] = "convert"
    \/ m = <<"server", "writer">> /\ receiver[r] \in {"insert", "write"}
    \/ m = <<"server", "maps">> /\ receiver[r] = "write"

(* Server::receive and, in it, Client::receive_response. *)
ReplierHolds ==
  \A r \in Requests : \A m \in Mutexes : owner[m] = <<"replier", r>> =>
    \/ m = <<"server", "reader">> /\ replier[r] \in {"lookup", "convert"}
    \/ m = <<"server", "maps">> /\ replier[r] \in {"path", "reply", "write"}
    \/ m = <<"client", "writer">> /\ replier[r] = "write"

(* A listener has a sample that no thread was started for. *)
ListenerFresh ==
  /\ listener["client"] # None => receiver[listener["client"]] = "idle"
  /\ listener["server"] # None => replier[listener["server"]] = "idle"

(* A constructor keeps mtx_ only. *)
ConstructorHolds ==
  \A m \in Mutexes : owner[m] = Constructor => \E s \in Sides : m = <<s, "maps">>

HeldInv == ListenerHolds /\ ReceiverHolds /\ ReplierHolds

IInv == TypeOK /\ ListenerFresh /\ HeldInv /\ ConstructorHolds

-----------------------------------------------------------------------------
(* The constructors hold their mtx_, and no thread holds anything. *)
LEMMA InitInv == Init => IInv
<1> SUFFICES ASSUME Init PROVE IInv
  OBVIOUS
<1>1. TypeOK
  BY DEF Init, TypeOK, Receiving, Replying
<1>2. HeldInv
  BY DEF Init, HeldInv, ListenerHolds, ReceiverHolds, ReplierHolds, Free, Constructor
<1>3. ListenerFresh
  BY DEF Init, ListenerFresh, Sides
<1>4. ConstructorHolds
  BY DEF Init, ConstructorHolds, Free, Constructor, Mutexes, Sides
<1> QED BY <1>1, <1>2, <1>3, <1>4 DEF IInv

(* Every step is one of a listener or the gate, of a receive thread of either
   component, or of the DDS server. *)
LEMMA StepCases ==
  Next =>
    \/ \E s \in Sides : OpenGate(s) \/ ListenerSpawn(s)
    \/ \E s \in Sides, r \in Requests : ListenerCall(s, r)
    \/ \E r \in Requests : ReceiveThread(r)
    \/ \E r \in Requests : ReplyThread(r)
    \/ \E r \in Requests : Answer(r)
BY DEF Next

(* Every step keeps the variables in their types. *)
LEMMA TypeStep == TypeOK /\ [Next]_vars => TypeOK'
<1> SUFFICES ASSUME TypeOK, [Next]_vars PROVE TypeOK'
  OBVIOUS
<1> USE DEF TypeOK, Receiving, Replying
<1>0. CASE UNCHANGED vars
  BY <1>0 DEF vars, mapVars
<1>1. ASSUME NEW s \in Sides, OpenGate(s) \/ ListenerSpawn(s) PROVE TypeOK'
  <2>1. CASE OpenGate(s)
    BY <2>1 DEF OpenGate, Unlocks, mapVars
  <2>2. CASE ListenerSpawn(s)
    BY <2>2, <1>1 DEF ListenerSpawn, mapVars, Threads, Sides, Mutexes
  <2> QED BY <1>1, <2>1, <2>2
<1>2. ASSUME NEW s \in Sides, NEW r \in Requests, ListenerCall(s, r) PROVE TypeOK'
  BY <1>2 DEF ListenerCall, Locks, mapVars, Threads
<1>3. ASSUME NEW r \in Requests, ReceiveThread(r) PROVE TypeOK'
  <2>1. CASE ReceiveConvert(r)
    BY <2>1 DEF ReceiveConvert, Receiver, Unlocks, mapVars
  <2>2. CASE ReceiveRecord(r)
    BY <2>2 DEF ReceiveRecord, Receiver, Passes, mapVars
  <2>3. CASE ReceiveCallback(r)
    BY <2>3 DEF ReceiveCallback, Receiver, mapVars
  <2>4. CASE CallConvert(r)
    BY <2>4 DEF CallConvert, Receiver, Locks, Passes, mapVars, Threads
  <2>5. CASE CallInsert(r)
    BY <2>5 DEF CallInsert, Receiver, Locks, Threads
  <2>6. CASE CallWrite(r)
    BY <2>6 DEF CallWrite, Receiver, Unlocks
  <2>7. CASE ReceiveReport(r)
    BY <2>7 DEF ReceiveReport, Receiver, Passes, mapVars
  <2> QED BY <1>3, <2>1, <2>2, <2>3, <2>4, <2>5, <2>6, <2>7 DEF ReceiveThread
<1>4. ASSUME NEW r \in Requests, ReplyThread(r) PROVE TypeOK'
  <2>1. CASE ReplyLookup(r)
    BY <2>1 DEF ReplyLookup, Replier, Passes, mapVars
  <2>2. CASE ReplyConvert(r)
    BY <2>2 DEF ReplyConvert, Replier, Unlocks, mapVars
  <2>3. CASE ReplyAnswer(r)
    BY <2>3 DEF ReplyAnswer, Replier, Locks, Threads
  <2>4. CASE ResponsePath(r)
    BY <2>4 DEF ResponsePath, Replier, Passes, mapVars
  <2>5. CASE ResponseConvert(r)
    BY <2>5 DEF ResponseConvert, Replier, Locks, Unlocks, mapVars, Threads
  <2>6. CASE ResponseWrite(r)
    BY <2>6 DEF ResponseWrite, Replier, Unlocks, mapVars
  <2>7. CASE ReplyReport(r)
    BY <2>7 DEF ReplyReport, Replier, Passes, mapVars
  <2> QED BY <1>4, <2>1, <2>2, <2>3, <2>4, <2>5, <2>6, <2>7 DEF ReplyThread
<1>5. ASSUME NEW r \in Requests, Answer(r) PROVE TypeOK'
  BY <1>5 DEF Answer, mapVars
<1> HIDE DEF TypeOK
<1> QED BY <1>0, <1>1, <1>2, <1>3, <1>4, <1>5, StepCases

(* A thread that moves has been started, so it is not the listener's. *)
LEMMA FreshStep == TypeOK /\ ListenerFresh /\ [Next]_vars => ListenerFresh'
<1> SUFFICES ASSUME TypeOK, ListenerFresh, [Next]_vars PROVE ListenerFresh'
  OBVIOUS
<1> USE DEF TypeOK, ListenerFresh, Sides
<1>0. CASE UNCHANGED vars
  BY <1>0 DEF vars
<1>1. ASSUME NEW s \in Sides, OpenGate(s) \/ ListenerSpawn(s) PROVE ListenerFresh'
  BY <1>1 DEF OpenGate, ListenerSpawn
<1>2. ASSUME NEW s \in Sides, NEW r \in Requests, ListenerCall(s, r) PROVE ListenerFresh'
  BY <1>2 DEF ListenerCall
<1>3. ASSUME NEW r \in Requests, ReceiveThread(r) PROVE ListenerFresh'
  <2>1. receiver[r] # "idle" /\ UNCHANGED <<listener, replier>>
    BY <1>3 DEF ReceiveThread, Receiver, ReceiveConvert, ReceiveRecord, ReceiveCallback,
                CallConvert, CallInsert, CallWrite, ReceiveReport
  <2>2. \A q \in Requests : receiver'[q] = receiver[q] \/ q = r
    BY <1>3 DEF ReceiveThread, Receiver, ReceiveConvert, ReceiveRecord, ReceiveCallback,
                CallConvert, CallInsert, CallWrite, ReceiveReport
  <2> QED BY <2>1, <2>2
<1>4. ASSUME NEW r \in Requests, ReplyThread(r) PROVE ListenerFresh'
  <2>1. replier[r] # "idle" /\ UNCHANGED <<listener, receiver>>
    BY <1>4 DEF ReplyThread, Replier, ReplyLookup, ReplyConvert, ReplyAnswer,
                ResponsePath, ResponseConvert, ResponseWrite, ReplyReport
  <2>2. \A q \in Requests : replier'[q] = replier[q] \/ q = r
    BY <1>4 DEF ReplyThread, Replier, ReplyLookup, ReplyConvert, ReplyAnswer,
                ResponsePath, ResponseConvert, ResponseWrite, ReplyReport
  <2> QED BY <2>1, <2>2
<1>5. ASSUME NEW r \in Requests, Answer(r) PROVE ListenerFresh'
  BY <1>5 DEF Answer
<1> HIDE DEF TypeOK, ListenerFresh
<1> QED BY <1>0, <1>1, <1>2, <1>3, <1>4, <1>5, StepCases

(* A thread that locks m holds m then, and m is what it may hold where it goes;
   a thread that moves on holds nothing that it may not hold there. *)
LEMMA HeldStep == TypeOK /\ ListenerFresh /\ HeldInv /\ [Next]_vars => HeldInv'
<1> SUFFICES ASSUME TypeOK, ListenerFresh, HeldInv, [Next]_vars PROVE HeldInv'
  OBVIOUS
<1> USE DEF TypeOK, HeldInv, ListenerHolds, ReceiverHolds, ReplierHolds
<1>0. CASE UNCHANGED vars
  BY <1>0 DEF vars
<1>1. ASSUME NEW s \in Sides, OpenGate(s) \/ ListenerSpawn(s) PROVE HeldInv'
  <2>1. CASE OpenGate(s)
    BY <2>1 DEF OpenGate, Unlocks, Free
  <2>2. CASE ListenerSpawn(s)
    <3>1. PICK r \in Requests : r = listener[s]
      BY <2>2 DEF ListenerSpawn
    <3>2. CASE s = "client"
      <4>1. owner' = [owner EXCEPT ![<<"client", "reader">>] = <<"receiver", r>>,
                                   ![<<"client", "cleaner">>] = Free]
        BY <2>2, <3>1, <3>2 DEF ListenerSpawn
      <4>2. receiver[r] = "idle" /\ receiver' = [receiver EXCEPT ![r] = "convert"]
        BY <2>2, <3>1, <3>2, NoneIsNoRequest DEF ListenerSpawn, ListenerFresh
      <4>3. replier' = replier /\ listener' = [listener EXCEPT !["client"] = None]
        BY <2>2, <3>2 DEF ListenerSpawn
      <4>4. ListenerHolds'
        BY <4>1, <4>3 DEF Free, Sides
      <4>5. ReceiverHolds'
        BY <4>1, <4>2 DEF Free
      <4>6. ReplierHolds'
        BY <4>1, <4>3 DEF Free
      <4> QED BY <4>4, <4>5, <4>6
    <3>3. CASE s = "server"
      <4>1. owner' = [owner EXCEPT ![<<"server", "reader">>] = <<"replier", r>>,
                                   ![<<"server", "cleaner">>] = Free]
        BY <2>2, <3>1, <3>3 DEF ListenerSpawn
      <4>2. replier[r] = "idle" /\ replier' = [replier EXCEPT ![r] = "lookup"]
        BY <2>2, <3>1, <3>3, NoneIsNoRequest DEF ListenerSpawn, ListenerFresh
      <4>3. receiver' = receiver /\ listener' = [listener EXCEPT !["server"] = None]
        BY <2>2, <3>3 DEF ListenerSpawn
      <4>4. ListenerHolds'
        BY <4>1, <4>3 DEF Free, Sides
      <4>5. ReceiverHolds'
        BY <4>1, <4>3 DEF Free
      <4>6. ReplierHolds'
        BY <4>1, <4>2 DEF Free
      <4> QED BY <4>4, <4>5, <4>6
    <3> QED BY <3>2, <3>3 DEF Sides
  <2> QED BY <1>1, <2>1, <2>2
<1>2. ASSUME NEW s \in Sides, NEW r \in Requests, ListenerCall(s, r) PROVE HeldInv'
  BY <1>2, NoneIsNoRequest DEF ListenerCall, Locks
<1>3. ASSUME NEW r \in Requests, ReceiveThread(r) PROVE HeldInv'
  <2>1. CASE ReceiveConvert(r)
    BY <2>1 DEF ReceiveConvert, Receiver, Unlocks, Free
  <2>2. CASE ReceiveRecord(r)
    BY <2>2 DEF ReceiveRecord, Receiver, Passes
  <2>3. CASE ReceiveCallback(r)
    BY <2>3 DEF ReceiveCallback, Receiver
  <2>4. CASE CallConvert(r)
    <3>1. CASE Receiver(r, "call", "insert") /\ Locks(<<"receiver", r>>, <<"server", "writer">>)
      BY <2>4, <3>1 DEF CallConvert, Receiver, Locks
    <3>2. CASE Receiver(r, "call", "report") /\ Passes(<<"server", "writer">>)
      BY <2>4, <3>2 DEF CallConvert, Receiver, Passes
    <3> QED BY <2>4, <3>1, <3>2 DEF CallConvert
  <2>5. CASE CallInsert(r)
    BY <2>5 DEF CallInsert, Receiver, Locks
  <2>6. CASE CallWrite(r)
    BY <2>6 DEF CallWrite, Receiver, Unlocks, Free
  <2>7. CASE ReceiveReport(r)
    BY <2>7 DEF ReceiveReport, Receiver, Passes
  <2> QED BY <1>3, <2>1, <2>2, <2>3, <2>4, <2>5, <2>6, <2>7 DEF ReceiveThread
<1>4. ASSUME NEW r \in Requests, ReplyThread(r) PROVE HeldInv'
  <2>1. CASE ReplyLookup(r)
    BY <2>1 DEF ReplyLookup, Replier, Passes
  <2>2. CASE ReplyConvert(r)
    BY <2>2 DEF ReplyConvert, Replier, Unlocks, Free
  <2>3. CASE ReplyAnswer(r)
    BY <2>3 DEF ReplyAnswer, Replier, Locks
  <2>4. CASE ResponsePath(r)
    BY <2>4 DEF ResponsePath, Replier, Passes
  <2>5. CASE ResponseConvert(r)
    <3>1. CASE Replier(r, "reply", "write") /\ Locks(<<"replier", r>>, <<"client", "writer">>)
      BY <2>5, <3>1 DEF ResponseConvert, Replier, Locks
    <3>2. CASE Replier(r, "reply", "report") /\ Unlocks({<<"server", "maps">>})
      BY <2>5, <3>2 DEF ResponseConvert, Replier, Unlocks, Free
    <3> QED BY <2>5, <3>1, <3>2 DEF ResponseConvert
  <2>6. CASE ResponseWrite(r)
    BY <2>6 DEF ResponseWrite, Replier, Unlocks, Free
  <2>7. CASE ReplyReport(r)
    BY <2>7 DEF ReplyReport, Replier, Passes
  <2> QED BY <1>4, <2>1, <2>2, <2>3, <2>4, <2>5, <2>6, <2>7 DEF ReplyThread
<1>5. ASSUME NEW r \in Requests, Answer(r) PROVE HeldInv'
  BY <1>5 DEF Answer
<1> HIDE DEF TypeOK, HeldInv
<1> QED BY <1>0, <1>1, <1>2, <1>3, <1>4, <1>5, StepCases

(* A mutex is given to a thread or to nobody, so a constructor has those only
   that it had. *)
LEMMA ConstructorStep == TypeOK /\ ConstructorHolds /\ [Next]_vars => ConstructorHolds'
<1> SUFFICES ASSUME TypeOK, ConstructorHolds, [Next]_vars PROVE ConstructorHolds'
  OBVIOUS
<1>1. \A m \in Mutexes : owner'[m] = Constructor => owner[m] = Constructor
  <2> USE DEF TypeOK, Constructor, Free
  <2>0. CASE UNCHANGED vars
    BY <2>0 DEF vars
  <2>1. ASSUME NEW s \in Sides, OpenGate(s) \/ ListenerSpawn(s)
        PROVE  \A m \in Mutexes : owner'[m] = Constructor => owner[m] = Constructor
    BY <2>1 DEF OpenGate, ListenerSpawn, Unlocks
  <2>2. ASSUME NEW s \in Sides, NEW r \in Requests, ListenerCall(s, r)
        PROVE  \A m \in Mutexes : owner'[m] = Constructor => owner[m] = Constructor
    BY <2>2 DEF ListenerCall, Locks
  <2>3. ASSUME NEW r \in Requests, ReceiveThread(r)
        PROVE  \A m \in Mutexes : owner'[m] = Constructor => owner[m] = Constructor
    BY <2>3 DEF ReceiveThread, ReceiveConvert, ReceiveRecord, ReceiveCallback, CallConvert,
                CallInsert, CallWrite, ReceiveReport, Locks, Unlocks, Passes
  <2>4. ASSUME NEW r \in Requests, ReplyThread(r)
        PROVE  \A m \in Mutexes : owner'[m] = Constructor => owner[m] = Constructor
    BY <2>4 DEF ReplyThread, ReplyLookup, ReplyConvert, ReplyAnswer, ResponsePath,
                ResponseConvert, ResponseWrite, ReplyReport, Locks, Unlocks, Passes
  <2>5. ASSUME NEW r \in Requests, Answer(r)
        PROVE  \A m \in Mutexes : owner'[m] = Constructor => owner[m] = Constructor
    BY <2>5 DEF Answer
  <2> HIDE DEF TypeOK
  <2> QED BY <2>0, <2>1, <2>2, <2>3, <2>4, <2>5, StepCases
<1> QED BY <1>1 DEF ConstructorHolds

(* What a thread may hold where it is comes before what it locks next. *)
LEMMA HeldInOrder == IInv => LocksInOrder
<1> SUFFICES ASSUME IInv,
                    NEW thread \in Threads, NEW wanted \in Wants(thread),
                    NEW held \in Mutexes, owner[held] = thread
             PROVE  Rank(held) < Rank(wanted)
  BY DEF LocksInOrder
<1>1. CASE \E s \in Sides : thread = <<"listener", s>>
  BY <1>1 DEF IInv, HeldInv, ListenerHolds, Wants, Rank, Sides
<1>2. CASE \E r \in Requests : thread = <<"receiver", r>>
  BY <1>2 DEF IInv, HeldInv, ReceiverHolds, Wants, Rank
<1>3. CASE \E r \in Requests : thread = <<"replier", r>>
  BY <1>3 DEF IInv, HeldInv, ReplierHolds, Wants, Rank
<1> QED BY <1>1, <1>2, <1>3 DEF Threads

(* No behaviour leaves the invariant. *)
LEMMA Invariance == Spec => []IInv
<1>1. IInv /\ [Next]_vars => IInv'
  BY TypeStep, FreshStep, HeldStep, ConstructorStep DEF IInv
<1> QED BY InitInv, <1>1, PTL DEF Spec

(* Server.cpp:621 with Client.cpp:450, :465: for any number of requests, each
   thread of the two components takes their mutexes in one order. *)
THEOREM OrderHolds == Spec => []LocksInOrder
BY Invariance, HeldInOrder, PTL

(* The threads of a circle want mutexes of the circle.  The one whose mutex
   comes last in the order wants one that a thread of the circle holds, and that
   one wants a mutex that comes later still. *)
LEMMA OrderBreaksCircles == IInv /\ LocksInOrder => NoCircle
<1> SUFFICES ASSUME IInv, LocksInOrder, NEW circle \in SUBSET Threads, circle # {},
                    \A thread \in circle : \E wanted \in Wants(thread) : owner[wanted] \in circle
             PROVE  FALSE
  BY DEF NoCircle
<1> DEFINE wants(thread, k) ==
      \E wanted \in Wants(thread) : owner[wanted] \in circle /\ Rank(wanted) = k
           ranks == {k \in 1..6 : \E thread \in circle : wants(thread, k)}
<1>1. ASSUME NEW thread \in circle PROVE \E k \in ranks : wants(thread, k)
  <2>1. PICK wanted \in Wants(thread) : owner[wanted] \in circle
    OBVIOUS
  <2>2. Rank(wanted) \in 1..6
    BY <2>1 DEF Wants, Rank, Threads, Sides
  <2> QED BY <2>1, <2>2
<1>2. ASSUME NEW k \in ranks PROVE \E j \in ranks : j > k
  <2>0. PICK thread \in circle : wants(thread, k)
    OBVIOUS
  <2>1. PICK wanted \in Wants(thread) : owner[wanted] \in circle /\ Rank(wanted) = k
    BY <2>0
  <2>2. wanted \in Mutexes
    BY <2>1 DEF Wants, Mutexes, Threads, Sides
  <2>3. PICK next \in Wants(owner[wanted]) : owner[next] \in circle
    BY <2>1
  <2>4. Rank(wanted) < Rank(next)
    BY <2>1, <2>2, <2>3 DEF LocksInOrder
  <2>5. Rank(next) \in 1..6
    BY <2>1, <2>3 DEF Wants, Rank, Threads, Sides
  <2> QED BY <2>1, <2>3, <2>4, <2>5
<1>3. \E k \in ranks : TRUE
  BY <1>1
<1>4. ranks \subseteq 1..6
  OBVIOUS
<1> HIDE DEF ranks
<1> QED BY <1>2, <1>3, <1>4

(* A request that was recorded has been called, and the server replies to what
   was written; until its thread forgets it, a call keeps its client. *)
CallInv ==
  /\ \A r \in sample_callhandle \cup answered : receiver[r] \in {"report", "done"}
  /\ \A r \in Requests : replier[r] # "idle" => r \in answered
  /\ \A r \in Requests : listener["server"] = r => r \in answered
  /\ \A r \in Requests : receiver[r] = "write" => r \in callhandle_client
  /\ \A r \in sample_callhandle \cup answered :
       replier[r] \in {"idle", "lookup", "convert", "answer"} => r \in callhandle_client

(* Only the threads of a call enter it in the maps and take it out again. *)
LEMMA CallStep == TypeOK /\ ListenerFresh /\ CallInv /\ [Next]_vars => CallInv'
<1> SUFFICES ASSUME TypeOK, ListenerFresh, CallInv, [Next]_vars PROVE CallInv'
  OBVIOUS
<1> USE DEF TypeOK, CallInv, Sides
<1>0. CASE UNCHANGED vars
  BY <1>0 DEF vars, mapVars
<1>1. ASSUME NEW s \in Sides, OpenGate(s) \/ ListenerSpawn(s) PROVE CallInv'
  <2>1. CASE OpenGate(s)
    BY <2>1 DEF OpenGate, mapVars
  <2>2. CASE ListenerSpawn(s)
    <3>1. CASE s = "client"
      BY <2>2, <3>1, NoneIsNoRequest DEF ListenerSpawn, ListenerFresh, mapVars
    <3>2. CASE s = "server"
      BY <2>2, <3>2, NoneIsNoRequest DEF ListenerSpawn, ListenerFresh, mapVars
    <3> QED BY <3>1, <3>2
  <2> QED BY <1>1, <2>1, <2>2
<1>2. ASSUME NEW s \in Sides, NEW r \in Requests, ListenerCall(s, r) PROVE CallInv'
  BY <1>2, NoneIsNoRequest DEF ListenerCall, mapVars
<1>3. ASSUME NEW r \in Requests, ReceiveThread(r) PROVE CallInv'
  <2>1. CASE ReceiveConvert(r) \/ ReceiveRecord(r) \/ ReceiveCallback(r)
    BY <2>1 DEF ReceiveConvert, ReceiveRecord, ReceiveCallback, Receiver, mapVars
  <2>2. CASE CallConvert(r) \/ ReceiveReport(r)
    BY <2>2 DEF CallConvert, ReceiveReport, Receiver, mapVars
  <2>3. CASE CallInsert(r)
    BY <2>3 DEF CallInsert, Receiver
  <2>4. CASE CallWrite(r)
    BY <2>4 DEF CallWrite, Receiver
  <2> QED BY <1>3, <2>1, <2>2, <2>3, <2>4 DEF ReceiveThread
<1>4. ASSUME NEW r \in Requests, ReplyThread(r) PROVE CallInv'
  <2>1. CASE ReplyLookup(r) \/ ReplyConvert(r)
    BY <2>1 DEF ReplyLookup, ReplyConvert, Replier, mapVars
  <2>2. CASE ReplyAnswer(r)
    BY <2>2 DEF ReplyAnswer, Replier
  <2>3. CASE ResponsePath(r) \/ ResponseConvert(r) \/ ResponseWrite(r) \/ ReplyReport(r)
    BY <2>3 DEF ResponsePath, ResponseConvert, ResponseWrite, ReplyReport, Replier, mapVars
  <2> QED BY <1>4, <2>1, <2>2, <2>3 DEF ReplyThread
<1>5. ASSUME NEW r \in Requests, Answer(r) PROVE CallInv'
  BY <1>5 DEF Answer, mapVars
<1> HIDE DEF TypeOK, CallInv
<1> QED BY <1>0, <1>1, <1>2, <1>3, <1>4, <1>5, StepCases

(* Who holds a mutex has not ended: a thread at its end holds nothing. *)
LEMMA HoldersUnfinished ==
  IInv => \A m \in Mutexes : owner[m] \in Threads => owner[m] \in Unfinished
<1> SUFFICES ASSUME IInv, NEW m \in Mutexes, owner[m] \in Threads
             PROVE  owner[m] \in Unfinished
  OBVIOUS
<1>1. CASE \E s \in Sides : owner[m] = <<"listener", s>>
  BY <1>1 DEF IInv, HeldInv, ListenerHolds, Unfinished
<1>2. CASE \E r \in Requests : owner[m] = <<"receiver", r>>
  BY <1>2 DEF IInv, HeldInv, ReceiverHolds, Unfinished, Receiving
<1>3. CASE \E r \in Requests : owner[m] = <<"replier", r>>
  BY <1>3 DEF IInv, HeldInv, ReplierHolds, Unfinished, Replying
<1> QED BY <1>1, <1>2, <1>3 DEF Threads

(* If every unfinished thread waited, each would wait for an unfinished one, as
   the constructors hold nothing: a circle. *)
LEMMA SomeoneMoves == IInv /\ NoCircle => WaitsEnd
<1> SUFFICES ASSUME IInv, NoCircle, Unfinished # {},
                    \A s \in Sides : owner[<<s, "maps">>] # Constructor,
                    \A thread \in Unfinished : Waits(thread)
             PROVE  FALSE
  BY DEF WaitsEnd
<1>1. Unfinished \in SUBSET Threads
  BY DEF Unfinished, Threads
<1>2. PICK thread \in Unfinished : \A wanted \in Wants(thread) : owner[wanted] \notin Unfinished
  BY <1>1 DEF NoCircle
<1>3. PICK wanted \in Wants(thread) : owner[wanted] # Free
  BY DEF Waits
<1>4. wanted \in Mutexes
  BY <1>1, <1>3 DEF Wants, Mutexes, Threads, Sides
<1>5. owner[wanted] # Constructor
  BY <1>4 DEF IInv, ConstructorHolds
<1>6. owner[wanted] \in Threads
  BY <1>3, <1>4, <1>5 DEF IInv, TypeOK
<1> QED BY <1>2, <1>3, <1>4, <1>6, HoldersUnfinished

(* Server.cpp:621 with Client.cpp:450, :465: for any number of requests, no set of
   the threads of the two components ever wait for each other in a circle; and
   once both components have matched, so that no constructor keeps its mtx_, some
   thread waits for no mutex as long as any of them has not ended. *)
THEOREM NoDeadlock == Spec => [](NoCircle /\ WaitsEnd)
<1>1. IInv => NoCircle /\ WaitsEnd
  BY HeldInOrder, OrderBreaksCircles, SomeoneMoves
<1> QED BY Invariance, <1>1, PTL

(* Server.cpp:615: for any number of requests, the thread of a reply that was
   taken finds the client of the call in callhandle_client_ when it comes to
   answer it, whatever the other threads call, answer and forget meanwhile: the
   lookup and the answer are two critical sections. *)
THEOREM CallKept == Spec => []CallKnown
<1>1. Init => CallInv
  BY NoneIsNoRequest DEF Init, CallInv, Sides
<1>2. IInv /\ CallInv /\ [Next]_vars => CallInv'
  BY CallStep DEF IInv
<1>3. CallInv => CallKnown
  BY DEF CallInv, CallKnown
<1> QED BY Invariance, <1>1, <1>2, <1>3, PTL DEF Spec

=============================================================================
