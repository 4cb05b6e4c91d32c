----------------------------- MODULE ServerProofs -----------------------------
(***************************************************************************)
(* Proofs about Server for any calls, replies and threads.  The maps agree *)
(* and a client is answered once whatever the gate does; only what needs   *)
(* mtx_ to be a mutex assumes one match per endpoint.                      *)
(***************************************************************************)
EXTENDS Server, ReceptionProofs

USE NullsDistinct, FixedThreads, DisposedAreSamples, CallsDistinct,
    RelatedToType, TypedAreCalls, BoundsAreNat

-----------------------------------------------------------------------------
(* A step moves a reply, a call, a peer, a thread that has a reply, or none of
   them. *)
LEMMA StepCases ==
  ASSUME [Next]_vars
  PROVE  \/ \E r \in Samples : Reply(r) /\ UNCHANGED otherVars
         \/ ListenerDiscard /\ UNCHANGED otherVars
         \/ \E t \in Tids : ListenerSpawn(t) /\ UNCHANGED otherVars
         \/ \E t \in Tids : ReceiveLookup(t)
         \/ \E t \in Tids : ReceiveParse(t)
         \/ \E t \in Tids : ReceiveRespond(t)
         \/ \E t \in Tids : ReceiveResponded(t)
         \/ \E t \in Tids : WorkerFinish(t) /\ UNCHANGED otherVars
         \/ \E t \in Tids : (CleanerReap(t) \/ DrainJoin(t)) /\ UNCHANGED otherVars
         \/ \E c \in Calls : CallService(c)
         \/ \E c \in Calls : CallConvert(c)
         \/ \E c \in Calls : CallLock(c)
         \/ \E c \in Calls : CallWrite(c)
         \/ \E c \in Calls : CallRecord(c)
         \/ \E e \in Endpoints :
              /\ OnMatched(e) \/ OnUnmatched(e)
              /\ UNCHANGED <<receptionVars, callerVars, mapVars, answered>>
         \/ UNCHANGED <<arrived, unread, worker, sample, otherVars>>
<1>1. CASE UNCHANGED vars
  BY <1>1 DEF vars, receptionVars, otherVars, readerVars, workerVars
<1>2. CASE Listener
  BY <1>2 DEF Listener, ListenerCall, ListenerLock, ListenerSkip,
              ListenerDiscard, ListenerEmplace, readerVars, workerVars
<1>3. CASE Cleaner
  BY <1>3 DEF Cleaner, CleanerLock, CleanerWake, CleanerYield, DrainEnd,
              readerVars, workerVars
<1>4. CASE Destructor
  BY <1>4 DEF Destructor, DtorJoinCleaner, DtorLockData, DtorDeleteReader,
              DtorDeleteRequest, readerVars, workerVars, otherVars
<1>5. CASE \E t \in Tids : Worker(t)
  BY <1>5 DEF Worker
<1>6. CASE \E c \in Calls : Caller(c)
  BY <1>6 DEF Caller
<1>7. CASE Environment
  BY <1>7 DEF Environment, CleanerSpuriousWake, DtorStop, readerVars, workerVars
<1> QED
  BY <1>1, <1>2, <1>3, <1>4, <1>5, <1>6, <1>7 DEF Next, Progress

(* What a server does to the reception machinery is what the three do. *)
LEMMA ReceptionStep ==
  TypeOK /\ ReceptionInv /\ [Next]_vars => [ReceptionNext]_receptionVars
<1> SUFFICES ASSUME TypeOK, ReceptionInv, Next
             PROVE  ReceptionNext \/ UNCHANGED receptionVars
  BY DEF vars
<1> USE DEF ServerPhases, CommonPhases, ReceivePhases, Converting
<1>1. ASSUME NEW t \in Tids, Worker(t) PROVE ReceptionNext
  <2>1. CASE ReceiveLookup(t)
    <3>1. PassesTo(t, "parse") \/ PassesTo(t, "terminated")
      BY <2>1 DEF ReceiveLookup, Ignore, Return, PassesTo
    <3> QED
      BY <3>1 DEF ReceiveStep, ReceptionNext
  <2>2. CASE ReceiveParse(t)
    <3>1. PassesTo(t, "respond") \/ PassesTo(t, "finish")
      BY <2>2 DEF ReceiveParse, PassesTo
    <3> QED
      BY <3>1 DEF ReceiveStep, ReceptionNext
  <2>3. CASE ReceiveRespond(t)
    <3>1. PassesTo(t, "responding") \/ PassesTo(t, "finish")
      BY <2>3 DEF ReceiveRespond, PassesTo, mutexVars
    <3> QED
      BY <3>1 DEF ReceiveStep, ReceptionNext
  <2>4. CASE ReceiveResponded(t)
    <3>1. PassesTo(t, "finish")
      BY <2>4 DEF ReceiveResponded, PassesTo, mutexVars
    <3> QED
      BY <3>1 DEF ReceiveStep, ReceptionNext
  <2>5. CASE WorkerFinish(t)
    BY <2>5 DEF ReceptionNext
  <2> QED
    BY <1>1, <2>1, <2>2, <2>3, <2>4, <2>5 DEF Worker
<1>2. CASE Listener \/ Cleaner
  BY <1>2 DEF Listener, Cleaner, ReceptionNext
<1>3. CASE Destructor
  <2>1. DtorDeleteRequest => DeletionStep
    BY DEF DtorDeleteRequest, DeletionStep, mutexVars, ReceptionInv, LockInv
  <2>2. DtorDeleteReader("detaching") => DeletionStep
    BY DEF DtorDeleteReader, DeletionStep
  <2> QED
    BY <1>3, <2>1, <2>2 DEF Destructor, ReceptionNext
<1>4. CASE \E c \in Calls : Caller(c)
  BY <1>4 DEF Caller, CallConvert, CallLock, CallWrite, CallRecord
<1>5. CASE Environment
  BY <1>5 DEF Environment, CallService, Reply, ReceptionNext
<1> QED
  BY <1>1, <1>2, <1>3, <1>4, <1>5 DEF Next, Progress

(* Every variable keeps its type. *)
LEMMA TypeStep ==
  TypeOK /\ ReplyInv /\ ReceptionType' /\ [Next]_vars =>
    TypeOK'
<1> SUFFICES ASSUME TypeOK, ReplyInv, ReceptionType',
                    [Next]_vars
             PROVE  TypeOK'
  OBVIOUS
<1>typed. ReceptionTypeOK'
  BY DEF ReceptionType
<1> USE DEF TypeOK, ServerPhases, CommonPhases, GateTypeOK, ReceptionTypeOK,
            otherVars, callerVars, mapVars, gateVars, receptionVars,
            readerVars, workerVars
<1>0. CASE UNCHANGED <<worker, otherVars>>
  BY <1>0, <1>typed
<1>1. CASE \E t \in Tids : ListenerSpawn(t) /\ UNCHANGED otherVars
  BY <1>1, <1>typed DEF ListenerSpawn, StartReceive
<1>2. CASE \E t \in Tids : ReceiveLookup(t)
  BY <1>2, <1>typed DEF ReceiveLookup, Ignore, Return
<1>3. CASE \E t \in Tids : ReceiveParse(t)
  BY <1>3, <1>typed DEF ReceiveParse
<1>4. CASE \E t \in Tids : ReceiveRespond(t)
  BY <1>4, <1>typed DEF ReceiveRespond, Forget
<1>5. CASE \E t \in Tids : ReceiveResponded(t)
  BY <1>5, <1>typed DEF ReceiveResponded, ReplyInv
<1>6. CASE \E t \in Tids : WorkerFinish(t) /\ UNCHANGED otherVars
  BY <1>6, <1>typed DEF WorkerFinish
<1>7. CASE \E t \in Tids : (CleanerReap(t) \/ DrainJoin(t)) /\ UNCHANGED otherVars
  BY <1>7, <1>typed DEF CleanerReap, DrainJoin
<1>8. CASE \E c \in Calls : CallService(c)
  BY <1>8, <1>typed DEF CallService
<1>9. CASE \E c \in Calls : CallConvert(c)
  BY <1>9, <1>typed DEF CallConvert
<1>10. CASE \E c \in Calls : CallLock(c)
  BY <1>10, <1>typed DEF CallLock
<1>11. CASE \E c \in Calls : CallWrite(c)
  BY <1>11, <1>typed DEF CallWrite, WriteSucceeds, WriteFails
<1>12. CASE \E c \in Calls : CallRecord(c)
  BY <1>12, <1>typed DEF CallRecord
<1>13. CASE \E e \in Endpoints :
             /\ OnMatched(e) \/ OnUnmatched(e)
             /\ UNCHANGED <<receptionVars, callerVars, mapVars, answered>>
  <2>1. PICK e \in Endpoints :
              /\ OnMatched(e) \/ OnUnmatched(e)
              /\ UNCHANGED <<receptionVars, callerVars, mapVars, answered>>
    BY <1>13
  <2>2. pub_sub_matched' \in 0..255 /\ mtx' \in {"free", mtx}
    <3>1. pub_sub_matched \in 0..255
      OBVIOUS
    <3>2. (pub_sub_matched + 1) % 256 \in 0..255 /\ (pub_sub_matched + 255) % 256 \in 0..255
      BY ONLY <3>1
    <3> QED
      BY ONLY <2>1, <3>2 DEF OnMatched, OnUnmatched
  <2>3. peers' \in [Endpoints -> 0..MaxPeers] /\ joined' \in [Endpoints -> 0..MaxJoins]
    BY <2>1 DEF OnMatched, OnUnmatched
  <2>4. GateTypeOK(Calls \cup Tids)'
    BY <2>2, <2>3
  <2> QED
    BY <1>typed, <2>1, <2>4
<1> HIDE DEF TypeOK, ServerPhases, CommonPhases, GateTypeOK, ReceptionTypeOK
<1> QED
  BY <1>0, <1>1, <1>2, <1>3, <1>4, <1>5, <1>6, <1>7, <1>8, <1>9, <1>10, <1>11,
            <1>12, <1>13, StepCases
  DEF Reply, Arrive, ListenerDiscard

(* A call is in the maps where it should be. *)
LEMMA CallStep ==
  TypeOK /\ ReceptionInv /\ MapsCoherent /\ ReplyInv /\ CallInv /\ [Next]_vars =>
    CallInv'
<1> SUFFICES ASSUME TypeOK, ReceptionInv, MapsCoherent, ReplyInv, CallInv,
                    [Next]_vars
             PROVE  CallInv'
  OBVIOUS
<1> USE DEF TypeOK, CallInv, MapsCoherent, ReplyInv, otherVars, callerVars,
            mapVars, gateVars, receptionVars, readerVars, workerVars
<1>0. CASE UNCHANGED <<callerVars, mapVars>>
  BY <1>0
<1>1. CASE \E t \in Tids : ReceiveRespond(t)
  BY <1>1 DEF ReceiveRespond, Forget
<1>2. CASE \E c \in Calls : CallService(c)
  BY <1>2 DEF CallService
<1>3. CASE \E c \in Calls : CallConvert(c)
  BY <1>3 DEF CallConvert
<1>4. CASE \E c \in Calls : CallLock(c)
  BY <1>4 DEF CallLock
<1>5. CASE \E c \in Calls : CallWrite(c)
  BY <1>5 DEF CallWrite, WriteSucceeds, WriteFails
<1>6. CASE \E c \in Calls : CallRecord(c)
  BY <1>6 DEF CallRecord
<1> HIDE DEF TypeOK, CallInv, MapsCoherent, ReplyInv
<1> QED
  BY <1>0, <1>1, <1>2, <1>3, <1>4, <1>5, <1>6, StepCases
  DEF Reply, Arrive, ListenerDiscard, ListenerSpawn, StartReceive,
            ReceiveLookup, Ignore,
            Return, ReceiveParse, ReceiveResponded, WorkerFinish, CleanerReap,
            DrainJoin, OnMatched, OnUnmatched

(* The maps change together. *)
LEMMA MapsStep ==
  TypeOK /\ CallInv /\ ReplyInv /\ MapsCoherent /\ [Next]_vars =>
    MapsCoherent'
<1> SUFFICES ASSUME TypeOK, CallInv, ReplyInv, MapsCoherent,
                    [Next]_vars
             PROVE  MapsCoherent'
  OBVIOUS
<1> USE DEF TypeOK, CallInv, ReplyInv, MapsCoherent, otherVars, callerVars,
            mapVars, gateVars, receptionVars, readerVars, workerVars
<1>0. CASE UNCHANGED <<mapVars>>
  BY <1>0
<1>1. CASE \E t \in Tids : ReceiveRespond(t)
  BY <1>1 DEF ReceiveRespond, Forget
<1>2. CASE \E c \in Calls : CallLock(c)
  BY <1>2 DEF CallLock
<1>3. CASE \E c \in Calls : CallRecord(c)
  BY <1>3 DEF CallRecord
<1> HIDE DEF TypeOK, CallInv, ReplyInv, MapsCoherent
<1> QED
  BY <1>0, <1>1, <1>2, <1>3, StepCases
  DEF Reply, Arrive, ListenerDiscard, ListenerSpawn, StartReceive,
            ReceiveLookup, Ignore,
            Return, ReceiveParse, ReceiveResponded, WorkerFinish, CleanerReap,
            DrainJoin, CallService, CallConvert, CallWrite, WriteSucceeds,
            WriteFails, OnMatched, OnUnmatched

(* A thread goes on only with the reply of a recorded request. *)
LEMMA ReplyStep ==
  TypeOK /\ ReceptionInv /\ CallInv /\ ReplyInv /\ [Next]_vars =>
    ReplyInv'
<1> SUFFICES ASSUME TypeOK, ReceptionInv, CallInv, ReplyInv,
                    [Next]_vars
             PROVE  ReplyInv'
  OBVIOUS
<1> USE DEF TypeOK, ReceptionTypeOK, ServerPhases, CommonPhases, CallInv,
            ReplyInv, Request, otherVars, callerVars, mapVars, gateVars,
            receptionVars, readerVars, workerVars
<1>0. CASE UNCHANGED <<arrived, worker, sample, caller, written>>
  BY <1>0
<1>1. CASE \E r \in Samples : Reply(r) /\ UNCHANGED otherVars
  BY <1>1 DEF Reply, Arrive
<1>2. CASE \E t \in Tids : ListenerSpawn(t) /\ UNCHANGED otherVars
  BY <1>2 DEF ListenerSpawn, StartReceive
<1>3. CASE \E t \in Tids : ReceiveLookup(t)
  BY <1>3 DEF ReceiveLookup, Ignore, Return
<1>4. CASE \E t \in Tids : ReceiveParse(t)
  BY <1>4 DEF ReceiveParse
<1>5. CASE \E t \in Tids : ReceiveRespond(t)
  BY <1>5 DEF ReceiveRespond, Forget
<1>6. CASE \E t \in Tids : ReceiveResponded(t)
  BY <1>6 DEF ReceiveResponded
<1>7. CASE \E t \in Tids : WorkerFinish(t) /\ UNCHANGED otherVars
  BY <1>7 DEF WorkerFinish
<1>8. CASE \E t \in Tids : (CleanerReap(t) \/ DrainJoin(t)) /\ UNCHANGED otherVars
  BY <1>8 DEF CleanerReap, DrainJoin
<1>9. CASE \E c \in Calls : CallService(c)
  BY <1>9 DEF CallService
<1>10. CASE \E c \in Calls : CallConvert(c)
  BY <1>10 DEF CallConvert
<1>11. CASE \E c \in Calls : CallLock(c)
  BY <1>11 DEF CallLock
<1>12. CASE \E c \in Calls : CallWrite(c)
  BY <1>12 DEF CallWrite, WriteSucceeds, WriteFails
<1>13. CASE \E c \in Calls : CallRecord(c)
  BY <1>13 DEF CallRecord
<1> HIDE DEF TypeOK, ReceptionTypeOK, ServerPhases, CommonPhases, CallInv,
            ReplyInv, Request
<1> QED
  BY <1>0, <1>1, <1>2, <1>3, <1>4, <1>5, <1>6, <1>7, <1>8, <1>9, <1>10, <1>11,
            <1>12, <1>13, StepCases
  DEF ListenerDiscard, OnMatched, OnUnmatched

(* The client is called by the one thread that removed its handle. *)
LEMMA AnswerStep ==
  TypeOK /\ ReceptionInv /\ CallInv /\ MapsCoherent /\ ReplyInv /\ AnswerInv /\ [Next]_vars =>
    AnswerInv'
<1> SUFFICES ASSUME TypeOK, ReceptionInv, CallInv, MapsCoherent, ReplyInv, AnswerInv,
                    [Next]_vars
             PROVE  AnswerInv'
  OBVIOUS
<1> USE DEF TypeOK, ReceptionTypeOK, ServerPhases, CommonPhases, CallInv,
            ReplyInv, AnswerInv, Request, otherVars, callerVars, mapVars,
            gateVars, receptionVars, readerVars, workerVars
<1>0. CASE UNCHANGED <<worker, sample, caller, callhandle_client, answered>>
  BY <1>0
<1>1. CASE \E t \in Tids : ListenerSpawn(t) /\ UNCHANGED otherVars
  BY <1>1 DEF ListenerSpawn, StartReceive
<1>2. CASE \E t \in Tids : ReceiveLookup(t)
  BY <1>2 DEF ReceiveLookup, Ignore, Return
<1>3. CASE \E t \in Tids : ReceiveParse(t)
  BY <1>3 DEF ReceiveParse
<1>4. CASE \E t \in Tids : ReceiveRespond(t)
  BY <1>4 DEF ReceiveRespond, Forget
<1>5. CASE \E t \in Tids : ReceiveResponded(t)
  BY <1>5 DEF ReceiveResponded
<1>6. CASE \E t \in Tids : WorkerFinish(t) /\ UNCHANGED otherVars
  BY <1>6 DEF WorkerFinish
<1>7. CASE \E t \in Tids : (CleanerReap(t) \/ DrainJoin(t)) /\ UNCHANGED otherVars
  BY <1>7 DEF CleanerReap, DrainJoin
<1>8. CASE \E c \in Calls : CallService(c)
  BY <1>8 DEF CallService
<1>9. CASE \E c \in Calls : CallConvert(c)
  BY <1>9 DEF CallConvert
<1>10. CASE \E c \in Calls : CallLock(c)
  BY <1>10 DEF CallLock
<1>11. CASE \E c \in Calls : CallWrite(c)
  BY <1>11 DEF CallWrite, WriteSucceeds, WriteFails
<1>12. CASE \E c \in Calls : CallRecord(c)
  BY <1>12 DEF CallRecord
<1> HIDE DEF TypeOK, ReceptionTypeOK, ServerPhases, CommonPhases, CallInv,
            ReplyInv, AnswerInv, Request
<1> QED
  BY <1>0, <1>1, <1>2, <1>3, <1>4, <1>5, <1>6, <1>7, <1>8, <1>9, <1>10, <1>11,
            <1>12, StepCases
  DEF Reply, Arrive, ListenerDiscard, OnMatched, OnUnmatched

(* What leaves the maps is being answered, or was. *)
LEMMA KeptStep ==
  TypeOK /\ CallInv /\ ReplyInv /\ KeptInv /\ [Next]_vars =>
    KeptInv'
<1> SUFFICES ASSUME TypeOK, CallInv, ReplyInv, KeptInv,
                    [Next]_vars
             PROVE  KeptInv'
  OBVIOUS
<1> USE DEF TypeOK, ReceptionTypeOK, ServerPhases, CommonPhases, CallInv,
            KeptInv, Responding, Request, otherVars, callerVars, mapVars,
            gateVars, receptionVars, readerVars, workerVars
<1>0. CASE UNCHANGED <<worker, sample, caller, written, sample_callhandle, answered>>
  BY <1>0
<1>1. CASE \E t \in Tids : ListenerSpawn(t) /\ UNCHANGED otherVars
  BY <1>1 DEF ListenerSpawn, StartReceive
<1>2. CASE \E t \in Tids : ReceiveLookup(t)
  BY <1>2 DEF ReceiveLookup, Ignore, Return
<1>3. CASE \E t \in Tids : ReceiveParse(t)
  BY <1>3 DEF ReceiveParse
<1>4. CASE \E t \in Tids : ReceiveRespond(t)
  BY <1>4 DEF ReceiveRespond, Forget
<1>5. CASE \E t \in Tids : ReceiveResponded(t)
  BY <1>5 DEF ReceiveResponded
<1>6. CASE \E t \in Tids : WorkerFinish(t) /\ UNCHANGED otherVars
  BY <1>6 DEF WorkerFinish
<1>7. CASE \E t \in Tids : (CleanerReap(t) \/ DrainJoin(t)) /\ UNCHANGED otherVars
  BY <1>7 DEF CleanerReap, DrainJoin
<1>8. CASE \E c \in Calls : CallService(c)
  BY <1>8 DEF CallService
<1>9. CASE \E c \in Calls : CallConvert(c)
  BY <1>9 DEF CallConvert
<1>10. CASE \E c \in Calls : CallLock(c)
  BY <1>10 DEF CallLock
<1>11. CASE \E c \in Calls : CallWrite(c)
  BY <1>11 DEF CallWrite, WriteSucceeds, WriteFails
<1>12. CASE \E c \in Calls : CallRecord(c)
  BY <1>12 DEF CallRecord
<1> HIDE DEF TypeOK, ReceptionTypeOK, ServerPhases, CommonPhases, CallInv,
            KeptInv, Responding, Request
<1> QED
  BY <1>0, <1>1, <1>2, <1>3, <1>4, <1>5, <1>6, <1>7, <1>8, <1>9, <1>10, <1>11,
            <1>12, StepCases
  DEF Reply, Arrive, ListenerDiscard, OnMatched, OnUnmatched

(* With one match per endpoint in all, mtx_ stays with who locked it. *)
LEMMA OwnerStep ==
  MaxJoins = 1 /\ TypeOK /\ OwnerInv /\ [Next]_vars =>
    OwnerInv'
<1> SUFFICES ASSUME MaxJoins = 1, TypeOK, OwnerInv,
                    [Next]_vars
             PROVE  OwnerInv'
  OBVIOUS
<1> USE DEF TypeOK, ReceptionTypeOK, ServerPhases, CommonPhases, GateTypeOK,
            OwnerInv, MapsLocked, otherVars, callerVars, mapVars, gateVars,
            receptionVars, readerVars, workerVars
<1>0. CASE UNCHANGED <<worker, caller, gateVars>>
  BY <1>0
<1>1. CASE \E t \in Tids : ListenerSpawn(t) /\ UNCHANGED otherVars
  BY <1>1 DEF ListenerSpawn, StartReceive
<1>2. CASE \E t \in Tids : ReceiveLookup(t)
  BY <1>2 DEF ReceiveLookup, Ignore, Return
<1>3. CASE \E t \in Tids : ReceiveParse(t)
  BY <1>3 DEF ReceiveParse
<1>4. CASE \E t \in Tids : ReceiveRespond(t)
  BY <1>4 DEF ReceiveRespond, Forget
<1>5. CASE \E t \in Tids : ReceiveResponded(t)
  BY <1>5 DEF ReceiveResponded
<1>6. CASE \E t \in Tids : WorkerFinish(t) /\ UNCHANGED otherVars
  BY <1>6 DEF WorkerFinish
<1>7. CASE \E t \in Tids : (CleanerReap(t) \/ DrainJoin(t)) /\ UNCHANGED otherVars
  BY <1>7 DEF CleanerReap, DrainJoin
<1>8. CASE \E c \in Calls : CallService(c)
  BY <1>8 DEF CallService
<1>9. CASE \E c \in Calls : CallConvert(c)
  BY <1>9 DEF CallConvert
<1>10. CASE \E c \in Calls : CallLock(c)
  BY <1>10 DEF CallLock
<1>11. CASE \E c \in Calls : CallWrite(c)
  BY <1>11 DEF CallWrite, WriteSucceeds, WriteFails
<1>12. CASE \E c \in Calls : CallRecord(c)
  BY <1>12 DEF CallRecord
<1>13. CASE \E e \in Endpoints :
             /\ OnMatched(e) \/ OnUnmatched(e)
             /\ UNCHANGED <<receptionVars, callerVars, mapVars, answered>>
  <2>1. PICK e \in Endpoints :
              /\ OnMatched(e) \/ OnUnmatched(e)
              /\ UNCHANGED <<receptionVars, callerVars, mapVars, answered>>
    BY <1>13
  <2>2. e = "writer" \/ e = "reader"
    BY DEF Endpoints
  <2>3. \A d \in Endpoints : joined[d] \in 0..1 /\ peers[d] \in 0..1
    BY DEF Endpoints
  <2>4. CASE OnMatched(e)
    <3>1. mtx = "constructor"
      BY <2>4 DEF OnMatched
    <3>2. MapsLocked'
      BY <2>1, <3>1
    <3>3. pub_sub_matched' = peers'["writer"] + peers'["reader"]
      BY <2>2, <2>3, <2>4 DEF OnMatched, Endpoints
    <3>4. \A d \in Endpoints :
            peers'[d] <= joined'[d] /\ joined'[d] \in 0..1 /\ peers'[d] \in Nat
      BY <2>3, <2>4 DEF OnMatched
    <3>5. mtx' # "constructor" => peers'["writer"] + peers'["reader"] = 2
      BY <2>4, <3>1, <3>3 DEF OnMatched
    <3>6. mtx' # "constructor" => \A d \in Endpoints : joined'[d] = 1
      BY <3>4, <3>5 DEF Endpoints
    <3> QED
      BY <3>2, <3>3, <3>4, <3>6
  <2>5. CASE OnUnmatched(e)
    <3>1. pub_sub_matched' = peers'["writer"] + peers'["reader"]
      BY <2>2, <2>3, <2>5 DEF OnUnmatched, Endpoints
    <3>2. \A d \in Endpoints : peers'[d] <= joined'[d]
      BY <2>3, <2>5 DEF OnUnmatched
    <3>3. UNCHANGED <<mtx, joined, caller, worker>>
      BY <2>1, <2>5 DEF OnUnmatched
    <3> QED
      BY <3>1, <3>2, <3>3
  <2> QED
    BY <2>1, <2>4, <2>5
<1> HIDE DEF TypeOK, OwnerInv, MapsLocked
<1> QED
  BY <1>0, <1>1, <1>2, <1>3, <1>4, <1>5, <1>6, <1>7, <1>8, <1>9, <1>10, <1>11,
            <1>12, <1>13, StepCases
  DEF Reply, Arrive, ListenerDiscard

-----------------------------------------------------------------------------
(* The whole invariant holds at the start and is preserved by every step. *)
LEMMA InitIInv == Init => IInv
<1> SUFFICES ASSUME Init PROVE IInv
  OBVIOUS
<1>1. ReceptionInv
  BY ReceptionStart DEF Init
<1>2. TypeOK
  <2>1. GateTypeOK(Calls \cup Tids)
    BY DEF Init, GateInit, GateTypeOK
  <2>2. worker \in [Tids -> ServerPhases]
    BY DEF Init, ReceptionInit, ServerPhases, CommonPhases
  <2> QED
    BY <1>1, <2>1, <2>2 DEF Init, TypeOK, ReceptionInv, ReceptionType
<1>3. CallInv /\ MapsCoherent /\ KeptInv
  BY DEF Init, CallInv, MapsCoherent, KeptInv
<1>4. ReplyInv /\ AnswerInv
  BY DEF Init, ReceptionInit, ReplyInv, AnswerInv
<1> QED
  BY <1>1, <1>2, <1>3, <1>4 DEF IInv

LEMMA Inductive == IInv /\ [Next]_vars => IInv'
<1> SUFFICES ASSUME IInv, [Next]_vars PROVE IInv'
  OBVIOUS
<1> USE DEF IInv
<1>1. ReceptionInv'
  BY ReceptionStep, ReceptionInductive
<1>2. TypeOK'
  BY <1>1, TypeStep DEF ReceptionInv
<1>3. CallInv' /\ MapsCoherent'
  BY CallStep, MapsStep
<1>4. ReplyInv' /\ AnswerInv' /\ KeptInv'
  BY ReplyStep, AnswerStep, KeptStep
<1> QED
  BY <1>1, <1>2, <1>3, <1>4

LEMMA Invariance == Spec => []IInv
BY InitIInv, Inductive, PTL DEF Spec

LEMMA OwnerInvariance == MaxJoins = 1 /\ Spec => []OwnerInv
<1> SUFFICES ASSUME MaxJoins = 1 PROVE Spec => []OwnerInv
  OBVIOUS
<1>1. Init => OwnerInv
  BY DEF Init, GateInit, OwnerInv, MapsLocked, ReceptionInit, Endpoints
<1>2. IInv /\ OwnerInv /\ [Next]_vars => OwnerInv'
  BY OwnerStep DEF IInv
<1> QED
  BY <1>1, <1>2, Invariance, PTL DEF Spec

(* A thread that ignores its reply looked it up while nobody held mtx_: no call
   was then between the writing of its request and the recording of it. *)
LEMMA IgnoredStep ==
  ASSUME IInv, OwnerInv, [Next]_vars,
         NEW t \in Tids, worker[t] = "started", worker'[t] = "terminated"
  PROVE  Request(t) \in answered \cup {Foreign} \/ Responding(Request(t))
<1> USE DEF IInv, TypeOK, ReceptionTypeOK, ServerPhases, CommonPhases
<1>1. ReceiveLookup(t) /\ Ignore(t)
  <2>1. \/ \E u \in Tids : ReceiveLookup(u)
        \/ UNCHANGED worker
        \/ \E u \in Tids : worker[u] # "started"
                          /\ \E p \in ServerPhases \cup {"started"} : worker' = [worker EXCEPT ![u] = p]
    BY StepCases
    DEF Reply, Arrive, ListenerDiscard, ListenerSpawn, StartReceive,
        ReceiveParse,
        ReceiveRespond, ReceiveResponded, WorkerFinish, CleanerReap, DrainJoin,
        CallService, CallConvert, CallLock, CallWrite, CallRecord, workerVars,
        receptionVars
  <2>2. PICK u \in Tids : ReceiveLookup(u)
    BY <2>1
  <2>3. u = t
    BY <2>2 DEF ReceiveLookup, Ignore, Return
  <2> QED
    BY <2>2, <2>3 DEF ReceiveLookup
<1>2. mtx = "free" /\ Request(t) \notin sample_callhandle
  BY <1>1 DEF ReceiveLookup, Ignore, Return
<1>3. sample[t] \in arrived \cap Samples
  BY DEF ReceptionInv, BufferInv, OnceInv
<1>4. CASE Request(t) = Foreign
  BY <1>4
<1>5. CASE Request(t) \in written
  <2>1. caller[Request(t)] # "recording"
    BY <1>2, <1>5 DEF OwnerInv, MapsLocked
  <2>2. caller[Request(t)] = "done"
    BY <1>5, <2>1 DEF CallInv
  <2> QED
    BY <1>2, <1>5, <2>2 DEF KeptInv
<1> QED
  BY <1>3, <1>4, <1>5 DEF ReplyInv, Request

-----------------------------------------------------------------------------
(* Where the server may stop. *)

(* A mutex is held by who is in its section, and nothing passes the gate before
   it opens. *)
LEMMA SectionStep ==
  TypeOK /\ CallInv /\ MapsCoherent /\ SectionInv /\ [Next]_vars => SectionInv'
<1> SUFFICES ASSUME TypeOK, CallInv, MapsCoherent, SectionInv, [Next]_vars
             PROVE  SectionInv'
  OBVIOUS
<1> USE DEF TypeOK, ReceptionTypeOK, GateTypeOK, ServerPhases, CommonPhases,
            CallInv, MapsCoherent, SectionInv, Request, otherVars, callerVars,
            mapVars, gateVars, receptionVars, readerVars, workerVars
<1>0. CASE UNCHANGED <<worker, mtx, callerVars, mapVars>>
  BY <1>0
<1>1. CASE \E t \in Tids : ListenerSpawn(t) /\ UNCHANGED otherVars
  BY <1>1 DEF ListenerSpawn, StartReceive
<1>2. CASE \E t \in Tids : ReceiveLookup(t)
  BY <1>2 DEF ReceiveLookup, Ignore, Return
<1>3. CASE \E t \in Tids : ReceiveParse(t)
  BY <1>3 DEF ReceiveParse
<1>4. CASE \E t \in Tids : ReceiveRespond(t)
  BY <1>4 DEF ReceiveRespond, Forget
<1>5. CASE \E t \in Tids : ReceiveResponded(t)
  BY <1>5 DEF ReceiveResponded
<1>6. CASE \E t \in Tids : WorkerFinish(t) /\ UNCHANGED otherVars
  BY <1>6 DEF WorkerFinish
<1>7. CASE \E t \in Tids : (CleanerReap(t) \/ DrainJoin(t)) /\ UNCHANGED otherVars
  BY <1>7 DEF CleanerReap, DrainJoin
<1>8. CASE \E c \in Calls : CallService(c)
  BY <1>8 DEF CallService
<1>9. CASE \E c \in Calls : CallConvert(c)
  BY <1>9 DEF CallConvert
<1>10. CASE \E c \in Calls : CallLock(c)
  BY <1>10 DEF CallLock
<1>11. CASE \E c \in Calls : CallWrite(c)
  BY <1>11 DEF CallWrite, WriteSucceeds, WriteFails
<1>12. CASE \E c \in Calls : CallRecord(c)
  BY <1>12 DEF CallRecord
<1>13. CASE \E e \in Endpoints :
             /\ OnMatched(e) \/ OnUnmatched(e)
             /\ UNCHANGED <<receptionVars, callerVars, mapVars, answered>>
  BY <1>13 DEF OnMatched, OnUnmatched
<1> HIDE DEF TypeOK, ReceptionTypeOK, GateTypeOK, ServerPhases, CommonPhases,
            CallInv, MapsCoherent, SectionInv, Request
<1> QED
  BY <1>0, <1>1, <1>2, <1>3, <1>4, <1>5, <1>6, <1>7, <1>8, <1>9, <1>10, <1>11,
            <1>12, <1>13, StepCases
  DEF Reply, Arrive, ListenerDiscard

LEMMA RestStep == IInv /\ RestInv /\ [Next]_vars => RestInv'
<1> SUFFICES ASSUME IInv, RestInv, [Next]_vars PROVE RestInv'
  OBVIOUS
<1>1. CountInv'
  BY ReceptionStep, CountStep DEF IInv, RestInv
<1>2. SectionInv'
  BY SectionStep DEF IInv, RestInv
<1>3. teardown' # "detached"
  <2>1. CASE UNCHANGED teardown
    BY <2>1 DEF RestInv
  <2>2. CASE Destructor
    BY <2>2 DEF RestInv, Destructor, DtorJoinCleaner, DtorLockData,
                DtorDeleteRequest, DtorDeleteReader
  <2>3. CASE DtorStop
    BY <2>3 DEF DtorStop
  <2> QED
    BY <2>1, <2>2, <2>3
    DEF Next, Progress, Environment, Listener, Worker, Cleaner, Caller, Reply,
        Arrive, ListenerCall, ListenerLock, ListenerSkip, ListenerDiscard,
        ListenerSpawn, StartReceive, ListenerEmplace, ReceiveLookup,
        ReceiveParse, ReceiveRespond, ReceiveResponded, WorkerFinish,
        CallService, CallConvert, CallLock, CallWrite, CallRecord, CleanerLock,
        CleanerWake, CleanerSpuriousWake, CleanerReap, CleanerYield, DrainJoin,
        DrainEnd, vars, receptionVars
<1> QED
  BY <1>1, <1>2, <1>3 DEF RestInv

LEMMA RestInvariance == Spec => []RestInv
<1>1. Init => RestInv
  BY CountStart
  DEF Init, ReceptionInit, GateInit, RestInv, SectionInv
<1> QED
  BY <1>1, RestStep, Invariance, PTL DEF Spec

(* The guards leave out no step of a thread: where one moves, Runnable holds. *)
LEMMA MovesOnlyIfRunnable == Progress => Runnable
<1>1. Listener => ListenerCanMove
  BY DEF Listener, ListenerCall, ListenerLock, ListenerSkip, ListenerDiscard,
         ListenerSpawn, StartReceive, ListenerEmplace, ListenerCanMove
<1>2. Cleaner => CleanerCanMove
  BY DEF Cleaner, CleanerLock, CleanerWake, CleanerReap, CleanerYield,
         DrainJoin, DrainEnd, CleanerCanMove
<1>3. Destructor => DestructorCanMove
  BY DEF Destructor, DtorJoinCleaner, DtorLockData, DtorDeleteRequest,
         DtorDeleteReader, DestructorCanMove
<1>4. \A t \in Tids : Worker(t) => WorkerCanMove(t)
  BY DEF Worker, ReceiveLookup, ReceiveParse, ReceiveRespond, ReceiveResponded,
         WorkerFinish, WorkerCanMove
<1>5. \A c \in Calls : Caller(c) => CallerCanMove(c)
  BY DEF Caller, CallConvert, CallLock, CallWrite, CallRecord, CallerCanMove
<1> QED
  BY <1>1, <1>2, <1>3, <1>4, <1>5 DEF Progress, Runnable

(* Calls and threads wait for one another in no circle: where none of the
   server's threads can move, there is nothing left to do, or the gate is
   closed, or the destructor is at its end or in one of its lock cycles.
   Of StopsOnlyWhere that leaves to TLC only that the guards are exact. *)
THEOREM Stops ==
  Spec => [](/\ StuckOnlyWhere
             /\ StopsOnlyWhere <=> (Runnable <=> ENABLED Progress))
<1>1. IInv /\ RestInv => StuckOnlyWhere
  <2> SUFFICES ASSUME IInv, RestInv, ~Runnable, ~BehindGate, ~CleanerJoinCycle,
                      ~ListenerDeleteCycle
               PROVE  (teardown = "none" /\ AtRest) \/ teardown = "destroyed"
    BY DEF StuckOnlyWhere
  <2>1. /\ ReceptionInv /\ CountInv /\ SectionInv /\ TypeOK
        /\ ~ListenerCanMove /\ ~CleanerCanMove /\ ~DestructorCanMove
        /\ \A t \in Tids : ~WorkerCanMove(t)
        /\ \A c \in Calls : ~CallerCanMove(c)
    BY DEF IInv, RestInv, Runnable
  <2>2. mtx \in {"free", "constructor"}
    BY <2>1 DEF TypeOK, GateTypeOK, SectionInv, WorkerCanMove, CallerCanMove
  <2>3. \A c \in Calls : caller[c] # "locking"
    BY <2>1, <2>2 DEF CallerCanMove, BehindGate
  <2>4. request_data_mtx = "free"
    BY <2>1, <2>3 DEF TypeOK, SectionInv, CallerCanMove
  <2>5. \A c \in Calls : caller[c] \in {"idle", "done"}
    BY <2>1, <2>3, <2>4 DEF TypeOK, CallerCanMove
  <2>6. \A t \in Tids :
          /\ worker[t] \in {"none", "finish", "terminated"}
          /\ worker[t] = "finish" => cleaner_mtx # "free"
    BY <2>1, <2>2 DEF TypeOK, ServerPhases, CommonPhases, SectionInv,
                      WorkerCanMove, BehindGate
  <2>7. ~(listener = "take" /\ data_mtx = "destructor" /\ teardown \in {"detaching", "detached"})
    BY DEF ListenerDeleteCycle, RestInv
  <2>8. CASE teardown = "none"
    <3>1. /\ signals = 0 /\ listener = "idle" /\ cleaner = "blocked"
          /\ \A t \in Tids : worker[t] \in {"none", "terminated"}
      BY <2>1, <2>6, <2>7, <2>8, ReceptionStuck
    <3> QED
      BY <2>5, <2>8, <3>1 DEF AtRest
  <2>9. CASE teardown # "none"
    <3>1. /\ cleaner = "exited" /\ listener = "idle"
          /\ data_mtx = "destructor" => teardown \in {"detaching", "detached"}
          /\ data_mtx \in {"free", "destructor"}
      BY <2>1, <2>6, <2>7, <2>9, ReceptionStuck
    <3> QED
      BY <2>1, <2>4, <2>9, <3>1
      DEF TypeOK, ReceptionTypeOK, RestInv, DestructorCanMove
  <2> QED
    BY <2>8, <2>9
<1>2. StuckOnlyWhere => (StopsOnlyWhere <=> (Runnable <=> ENABLED Progress))
  BY DEF StopsOnlyWhere
<1> QED
  BY <1>1, <1>2, Invariance, RestInvariance, PTL

-----------------------------------------------------------------------------
(* The safety properties of Server, for any calls, replies and threads. *)

(* Every variable keeps its type. *)
THEOREM TypeCorrect == Spec => []TypeOK
<1>1. IInv => TypeOK
  BY DEF IInv
<1> QED
  BY <1>1, Invariance, PTL

(* A thread that has yet to convert its reply owns data_mtx, and finds in the
   buffer the reply whose related identity it looks up. *)
THEOREM BufferOwned == Spec => []BufferOwnership
<1>1. IInv => BufferOwnership
  BY DEF IInv, ReceptionInv, LockInv, BufferInv, Converting, BufferOwnership
<1> QED
  BY <1>1, Invariance, PTL

(* The three maps agree, whatever the gate does and however many replies a
   request gets. *)
THEOREM MapsAgree == Spec => []MapsCoherent
<1>1. IInv => MapsCoherent
  BY DEF IInv
<1> QED
  BY <1>1, Invariance, PTL

(* A client is answered at most once per call, whatever the gate does. *)
THEOREM Once == Spec => []AnsweredOnce
<1>1. IInv => AnsweredOnce
  BY DEF IInv, AnswerInv, AnsweredOnce
<1> QED
  BY <1>1, Invariance, PTL

(* Nothing the destructor deletes is used by a thread afterwards. *)
THEOREM DeletionSafe == Spec => []NothingRunsOnDeleted
<1>1. IInv => NothingRunsOnDeleted
  BY DEF IInv, ReceptionInv, ShutdownInv, NothingRunsOnDeleted
<1> QED
  BY <1>1, Invariance, PTL

(* With one match per endpoint in all, mtx_ is owned by whoever is between its
   lock and its unlock, for any number of calls and threads. *)
THEOREM Locked == MaxJoins = 1 /\ Spec => []MapsLocked
<1>1. OwnerInv => MapsLocked
  BY DEF OwnerInv
<1> QED
  BY <1>1, OwnerInvariance, PTL

(* With one match per endpoint in all, no reply to a request that waits for one
   is ignored, however early it comes. *)
THEOREM NoneLost == MaxJoins = 1 /\ Spec => NoReplyLost
<1>1. IInv /\ OwnerInv /\ [Next]_vars =>
        [\A t \in Tids :
           worker[t] = "started" /\ worker'[t] = "terminated" =>
             Request(t) \in answered \cup {Foreign} \/
             \E u \in Tids : worker[u] = "responding" /\ Request(u) = Request(t)]_vars
  BY IgnoredStep DEF Responding
<1> QED
  BY <1>1, Invariance, OwnerInvariance, PTL DEF Spec, NoReplyLost

-----------------------------------------------------------------------------
(* The server implements calls and replies. *)

(* A thread that goes on with its reply, or is done with it, takes it from where
   it was to where it is: no other thread has it. *)
LEMMA ReplyMoves ==
  ASSUME ReceptionInv, NEW t \in Tids,
         worker[t] \in {"started", "parse", "respond", "responding"},
         \A u \in Tids \ {t} : worker'[u] = worker[u] /\ sample'[u] = sample[u],
         worker'[t] \in {"started", "parse", "respond", "responding"} => sample'[t] = sample[t]
  PROVE  /\ sample[t] \in Samples
         /\ worker[t] = "responding" => sample[t] \in Answering \ Carried
         /\ worker[t] # "responding" => sample[t] \in Carried \ Answering
         /\ Carried' = IF worker'[t] \in {"started", "parse", "respond"}
                         THEN Carried \cup {sample[t]} ELSE Carried \ {sample[t]}
         /\ Answering' = IF worker'[t] = "responding"
                           THEN Answering \cup {sample[t]} ELSE Answering \ {sample[t]}
<1>1. sample[t] \in Samples /\ sample[t] # NoSample
  BY DEF ReceptionInv, BufferInv
<1>2. \A u \in Tids \ {t} : sample[u] # sample[t]
  BY <1>1 DEF ReceptionInv, OnceInv
<1>3. /\ worker[t] = "responding" => sample[t] \in Answering \ Carried
      /\ worker[t] # "responding" => sample[t] \in Carried \ Answering
  BY <1>2 DEF Carried, Answering, SamplesAt
<1>4. Carried' = IF worker'[t] \in {"started", "parse", "respond"}
                   THEN Carried \cup {sample[t]} ELSE Carried \ {sample[t]}
  BY <1>2 DEF Carried, SamplesAt
<1>5. Answering' = IF worker'[t] = "responding"
                     THEN Answering \cup {sample[t]} ELSE Answering \ {sample[t]}
  BY <1>2 DEF Answering, SamplesAt
<1> QED
  BY <1>1, <1>3, <1>4, <1>5

(* A thread that has no reply, before and after, changes neither. *)
LEMMA RepliesStay ==
  ASSUME NEW t \in Tids,
         worker[t] \notin {"started", "parse", "respond", "responding"},
         worker'[t] \notin {"started", "parse", "respond", "responding"},
         \A u \in Tids \ {t} : worker'[u] = worker[u] /\ sample'[u] = sample[u]
  PROVE  Carried' = Carried /\ Answering' = Answering
BY DEF Carried, Answering, SamplesAt

(* Every step of the server is a step of calls and replies or a stutter. *)
LEMMA CallReplyStep == IInv /\ [Next]_vars => [C!Next]_C!vars
<1> SUFFICES ASSUME IInv, [Next]_vars PROVE [C!Next]_C!vars
  OBVIOUS
<1>typed. /\ TypeOK /\ ReceptionInv /\ worker \in [Tids -> ServerPhases]
          /\ sample \in [Tids -> Samples \cup {NoSample}]
          /\ unread \in Samples \cup {NoSample}
  BY DEF IInv, TypeOK, ReceptionTypeOK
<1>stutter. ASSUME UNCHANGED <<arrived, unread, written, answered>>,
                   Carried' = Carried, Answering' = Answering
            PROVE  UNCHANGED C!vars
  BY <1>stutter DEF C!vars
<1>drop. ASSUME NEW t \in Tids,
                UNCHANGED <<arrived, unread, written, answered>>,
                Carried' = Carried \ {sample[t]}, sample[t] \in Carried \cap Samples,
                Answering' = Answering
         PROVE  C!Next
  <2>1. C!Drop(sample[t])
    BY <1>drop DEF C!Drop
  <2> QED
    BY <1>drop, <2>1 DEF C!Next
<1> USE DEF otherVars, callerVars, mapVars, gateVars, receptionVars, readerVars,
            workerVars
<1>1. CASE \E r \in Samples : Reply(r) /\ UNCHANGED otherVars
  <2> PICK r \in Samples : Reply(r) /\ UNCHANGED otherVars
    BY <1>1
  <2>1. C!Receive(r)
    BY DEF Reply, Arrive, C!Receive, Carried, Answering, SamplesAt
  <2> QED
    BY <2>1 DEF C!Next
<1>2. CASE ListenerDiscard /\ UNCHANGED otherVars
  <2>1. C!Take
    BY <1>2 DEF ListenerDiscard, C!Take, Carried, Answering, SamplesAt
  <2> QED
    BY <2>1 DEF C!Next
<1>3. CASE \E t \in Tids : ListenerSpawn(t) /\ UNCHANGED otherVars
  <2> PICK t \in Tids : ListenerSpawn(t) /\ UNCHANGED otherVars
    BY <1>3
  <2>1. /\ unread \in Samples /\ unread' = NoSample /\ worker[t] = "none"
        /\ worker' = [worker EXCEPT ![t] = "started"]
        /\ sample' = [sample EXCEPT ![t] = unread]
        /\ UNCHANGED <<arrived, written, answered>>
    BY DEF ListenerSpawn, StartReceive
  <2>2. \A u \in Tids :
          /\ worker'[u] = IF u = t THEN "started" ELSE worker[u]
          /\ sample'[u] = IF u = t THEN unread ELSE sample[u]
    BY <1>typed, <2>1
  <2>3. Carried' = Carried \cup {unread} /\ Answering' = Answering
    BY <2>1, <2>2 DEF Carried, Answering, SamplesAt
  <2>4. C!Take
    BY <2>1, <2>3 DEF C!Take
  <2> QED
    BY <2>4 DEF C!Next
<1>4. CASE \E t \in Tids : ReceiveLookup(t)
  <2> PICK t \in Tids : ReceiveLookup(t)
    BY <1>4
  <2>1. worker[t] = "started" /\ UNCHANGED <<arrived, unread, written, answered>>
    BY DEF ReceiveLookup
  <2>2. CASE worker' = [worker EXCEPT ![t] = "parse"] /\ UNCHANGED sample
    <3>1. /\ worker'[t] = "parse"
          /\ \A u \in Tids \ {t} : worker'[u] = worker[u] /\ sample'[u] = sample[u]
      BY <1>typed, <2>2
    <3>2. Carried' = Carried /\ Answering' = Answering
      BY <1>typed, <2>1, <2>2, <3>1, ReplyMoves
    <3> QED
      BY <1>stutter, <2>1, <3>2
  <2>3. CASE Ignore(t)
    <3>1. /\ worker' = [worker EXCEPT ![t] = "terminated"]
          /\ sample' = [sample EXCEPT ![t] = NoSample]
      BY <2>3 DEF Ignore, Return
    <3>2. /\ worker'[t] = "terminated"
          /\ \A u \in Tids \ {t} : worker'[u] = worker[u] /\ sample'[u] = sample[u]
      BY <1>typed, <3>1
    <3>3. /\ Carried' = Carried \ {sample[t]} /\ sample[t] \in Carried \cap Samples
          /\ Answering' = Answering
      BY <1>typed, <2>1, <3>2, ReplyMoves
    <3> QED
      BY <1>drop, <2>1, <3>3
  <2> QED
    BY <2>2, <2>3 DEF ReceiveLookup
<1>5. CASE \E t \in Tids : ReceiveParse(t) \/ ReceiveRespond(t)
  <2> PICK t \in Tids : ReceiveParse(t) \/ ReceiveRespond(t)
    BY <1>5
  <2>1. PICK next \in {"respond", "responding", "finish"} :
          /\ worker[t] \in {"parse", "respond"}
          /\ worker' = [worker EXCEPT ![t] = next]
          /\ next = "responding" => Request(t) \in callhandle_client
          /\ UNCHANGED <<sample, arrived, unread, written, answered>>
    BY DEF ReceiveParse, ReceiveRespond
  <2>2. /\ worker'[t] = next
        /\ \A u \in Tids \ {t} : worker'[u] = worker[u] /\ sample'[u] = sample[u]
    BY <1>typed, <2>1
  <2>3. /\ sample[t] \in Carried \cap Samples
        /\ Carried' = IF next = "respond" THEN Carried ELSE Carried \ {sample[t]}
        /\ Answering' = IF next = "responding" THEN Answering \cup {sample[t]} ELSE Answering
    BY <1>typed, <2>1, <2>2, ReplyMoves
  <2>4. CASE next = "finish"
    BY <1>drop, <2>1, <2>3, <2>4
  <2>5. CASE next = "respond"
    BY <1>stutter, <2>1, <2>3, <2>5
  <2>6. CASE next = "responding"
    <3>1. Carried' = Carried \ {sample[t]} /\ Answering' = Answering \cup {sample[t]}
      BY <2>3, <2>6
    <3>2. sample[t] \in arrived
      BY <2>3 DEF IInv, ReceptionInv, OnceInv
    <3>3. Request(t) \in written \ answered
      BY <2>1, <2>6, <3>2 DEF IInv, ReplyInv, AnswerInv, Request
    <3>4. \A other \in Answering : RelatedTo[other] # Request(t)
      BY <2>1, <2>6 DEF Answering, SamplesAt, IInv, AnswerInv, Request
    <3>5. C!Answer(sample[t])
      BY <2>1, <2>3, <3>1, <3>3, <3>4 DEF C!Answer, Request
    <3> QED
      BY <2>3, <3>5 DEF C!Next
  <2> QED
    BY <2>4, <2>5, <2>6
<1>6. CASE \E t \in Tids : ReceiveResponded(t)
  <2> PICK t \in Tids : ReceiveResponded(t)
    BY <1>6
  <2>1. /\ worker[t] = "responding" /\ worker' = [worker EXCEPT ![t] = "finish"]
        /\ answered' = answered \cup {Request(t)}
        /\ UNCHANGED <<sample, arrived, unread, written>>
    BY DEF ReceiveResponded
  <2>2. /\ worker'[t] = "finish"
        /\ \A u \in Tids \ {t} : worker'[u] = worker[u] /\ sample'[u] = sample[u]
    BY <1>typed, <2>1
  <2>3. /\ Answering' = Answering \ {sample[t]} /\ sample[t] \in Answering \cap Samples
        /\ Carried' = Carried
    BY <1>typed, <2>1, <2>2, ReplyMoves
  <2>4. C!Answered(sample[t])
    BY <2>1, <2>3 DEF C!Answered, Request
  <2> QED
    BY <2>3, <2>4 DEF C!Next
<1>7. CASE \E t \in Tids : WorkerFinish(t) /\ UNCHANGED otherVars
  <2> PICK t \in Tids : WorkerFinish(t) /\ UNCHANGED otherVars
    BY <1>7
  <2>1. /\ worker[t] = "finish" /\ worker' = [worker EXCEPT ![t] = "terminated"]
        /\ sample' = [sample EXCEPT ![t] = NoSample]
        /\ UNCHANGED <<arrived, unread, written, answered>>
    BY DEF WorkerFinish
  <2>2. /\ worker'[t] = "terminated"
        /\ \A u \in Tids \ {t} : worker'[u] = worker[u] /\ sample'[u] = sample[u]
    BY <1>typed, <2>1
  <2>3. Carried' = Carried /\ Answering' = Answering
    BY <2>1, <2>2, RepliesStay
  <2> QED
    BY <1>stutter, <2>1, <2>3
<1>8. CASE \E t \in Tids : (CleanerReap(t) \/ DrainJoin(t)) /\ UNCHANGED otherVars
  <2> PICK t \in Tids : (CleanerReap(t) \/ DrainJoin(t)) /\ UNCHANGED otherVars
    BY <1>8
  <2>1. /\ worker[t] = "terminated" /\ worker' = [worker EXCEPT ![t] = "none"]
        /\ UNCHANGED <<sample, arrived, unread, written, answered>>
    BY DEF CleanerReap, DrainJoin
  <2>2. /\ worker'[t] = "none"
        /\ \A u \in Tids \ {t} : worker'[u] = worker[u] /\ sample'[u] = sample[u]
    BY <1>typed, <2>1
  <2>3. Carried' = Carried /\ Answering' = Answering
    BY <2>1, <2>2, RepliesStay
  <2> QED
    BY <1>stutter, <2>1, <2>3
<1>9. CASE \E c \in Calls : CallWrite(c)
  <2> PICK c \in Calls : CallWrite(c)
    BY <1>9
  <2>1. caller[c] = "writing" /\ UNCHANGED <<worker, sample, arrived, unread, answered>>
    BY DEF CallWrite
  <2>2. c \notin written
    BY <2>1 DEF IInv, CallInv
  <2>3. Carried' = Carried /\ Answering' = Answering
    BY <2>1 DEF Carried, Answering, SamplesAt
  <2>4. CASE written' = written \cup {c}
    <3>1. C!Ask(c)
      BY <2>1, <2>2, <2>3, <2>4 DEF C!Ask
    <3> QED
      BY <3>1 DEF C!Next
  <2>5. CASE UNCHANGED written
    BY <1>stutter, <2>1, <2>3, <2>5
  <2> QED
    BY <2>4, <2>5 DEF CallWrite, WriteSucceeds, WriteFails
<1>10. CASE UNCHANGED <<arrived, unread, worker, sample, written, answered>>
  BY <1>stutter, <1>10 DEF Carried, Answering, SamplesAt
<1> QED
  BY <1>1, <1>2, <1>3, <1>4, <1>5, <1>6, <1>7, <1>8, <1>9, <1>10, StepCases
  DEF CallService, CallConvert, CallLock, CallRecord

(* Whatever the threads, the calls and the gate do, a client is called once for
   its request, with a reply to it, after the request was written. *)
THEOREM Implements == Spec => ImplementsCallReply
<1>1. Init => C!Init
  BY DEF Init, ReceptionInit, C!Init, Carried, Answering, SamplesAt
<1> QED
  BY <1>1, CallReplyStep, Invariance, PTL DEF Spec, ImplementsCallReply, C!Spec

=============================================================================
