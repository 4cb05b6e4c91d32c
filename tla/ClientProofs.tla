----------------------------- MODULE ClientProofs -----------------------------
(***************************************************************************)
(* Proofs about Client for any requests and threads, whatever the gate     *)
(* does: mtx_ is never held from one step of Client to the next.           *)
(***************************************************************************)
EXTENDS Client, ReceptionProofs

USE NullsDistinct, FixedThreads, DisposedAreSamples, OwnersDistinct,
    TypedAreRequests, BoundsAreNat

-----------------------------------------------------------------------------
(* A step moves a request, a response, a peer, a thread that has a request, or
   none of them. *)
LEMMA StepCases ==
  ASSUME [Next]_vars
  PROVE  \/ \E r \in Samples : Arrive(r) /\ UNCHANGED otherVars
         \/ ListenerDiscard /\ UNCHANGED otherVars
         \/ \E t \in Tids : ListenerSpawn(t) /\ UNCHANGED otherVars
         \/ \E t \in Tids : ReceiveConvert(t)
         \/ \E t \in Tids : ReceiveRecord(t)
         \/ \E t \in Tids : ReceiveCallback(t)
         \/ \E t \in Tids : WorkerFinish(t) /\ UNCHANGED otherVars
         \/ \E t \in Tids : CleanerReap(t) /\ UNCHANGED otherVars
         \/ \E t \in Tids : DrainJoin(t) /\ UNCHANGED otherVars
         \/ \E r \in Samples : Respond(r)
         \/ \E r \in Samples : ResponseLookup(r)
         \/ \E r \in Samples : ResponseConvert(r)
         \/ \E r \in Samples : ResponseRefused(r)
         \/ \E r \in Samples : ResponseWrite(r)
         \/ DtorDeleteReply
         \/ \E e \in Endpoints :
              /\ OnMatched(e) \/ OnUnmatched(e)
              /\ UNCHANGED <<receptionVars, requestVars, reply_id_type,
                             responseVars>>
         \/ UNCHANGED <<arrived, unread, worker, sample, otherVars>>
<1>1. CASE UNCHANGED vars
  BY <1>1 DEF vars, receptionVars, readerVars, workerVars
<1>2. CASE Listener
  BY <1>2 DEF Listener, ListenerCall, ListenerLock, ListenerSkip,
              ListenerEmplace, readerVars, workerVars
<1>3. CASE Cleaner
  BY <1>3 DEF Cleaner, CleanerLock, CleanerWake, CleanerYield, DrainEnd,
              readerVars, workerVars
<1>4. CASE Destructor
  BY <1>4 DEF Destructor, DtorJoinCleaner, DtorLockData, DtorDeleteRequest,
              readerVars, workerVars
<1>5. CASE \E t \in Tids : Worker(t)
  BY <1>5 DEF Worker
<1>6. CASE \E r \in Samples : Responder(r)
  BY <1>6 DEF Responder
<1>7. CASE Environment
  BY <1>7 DEF Environment, CleanerSpuriousWake, DtorStop, readerVars,
              workerVars
<1> QED
  BY <1>1, <1>2, <1>3, <1>4, <1>5, <1>6, <1>7 DEF Next, Progress

(* What a client does to the reception machinery is what the three do. *)
LEMMA ReceptionStep ==
  TypeOK /\ ReceptionInv /\ RequestDeletedInv /\ [Next]_vars =>
    [ReceptionNext]_receptionVars
<1> SUFFICES ASSUME TypeOK, ReceptionInv, RequestDeletedInv, Next
             PROVE  ReceptionNext \/ UNCHANGED receptionVars
  BY DEF vars
<1> USE DEF ClientPhases, CommonPhases, ReceivePhases, Converting
<1>1. ASSUME NEW t \in Tids, Worker(t) PROVE ReceptionNext
  <2>1. CASE ReceiveConvert(t)
    <3>1. PassesTo(t, "record") \/ PassesTo(t, "finish")
      BY <2>1 DEF ReceiveConvert, PassesTo
    <3> QED
      BY <3>1 DEF ReceiveStep, ReceptionNext
  <2>2. CASE ReceiveRecord(t)
    <3>1. PassesTo(t, "callback")
      BY <2>2 DEF ReceiveRecord, PassesTo, mutexVars
    <3> QED
      BY <3>1 DEF ReceiveStep, ReceptionNext
  <2>3. CASE ReceiveCallback(t)
    <3>1. PassesTo(t, "finish")
      BY <2>3 DEF ReceiveCallback, Ask, PassesTo, mutexVars
    <3> QED
      BY <3>1 DEF ReceiveStep, ReceptionNext
  <2>4. CASE WorkerFinish(t)
    BY <2>4 DEF ReceptionNext
  <2> QED
    BY <1>1, <2>1, <2>2, <2>3, <2>4 DEF Worker
<1>2. CASE Listener \/ Cleaner
  BY <1>2 DEF Listener, Cleaner, ReceptionNext
<1>3. CASE Destructor
  <2>1. DtorDeleteRequest => DeletionStep
    BY DEF DtorDeleteRequest, DeletionStep
  <2>2. DtorDeleteReply => DeletionStep
    BY DEF DtorDeleteReply, DeletionStep, mutexVars, RequestDeletedInv
  <2> QED
    BY <1>3, <2>1, <2>2 DEF Destructor, ReceptionNext
<1>4. CASE \E r \in Samples : Responder(r)
  BY <1>4 DEF Responder, ResponseLookup, ResponseConvert, ResponseRefused,
              ResponseWrite
<1>5. CASE Environment
  BY <1>5 DEF Environment, Respond, ReceptionNext
<1> QED
  BY <1>1, <1>2, <1>3, <1>4, <1>5 DEF Next, Progress

(* Every variable keeps its type. *)
LEMMA TypeStep ==
  TypeOK /\ ReceptionInv /\ ReplyBufferInv /\ ReceptionType' /\ [Next]_vars =>
    TypeOK'
<1> SUFFICES ASSUME TypeOK, ReceptionInv, ReplyBufferInv, ReceptionType',
                    [Next]_vars
             PROVE  TypeOK'
  OBVIOUS
<1>typed. ReceptionTypeOK'
  BY DEF ReceptionType
<1> USE DEF TypeOK, ReceptionTypeOK, ClientPhases, CommonPhases, GateTypeOK,
            otherVars, requestVars, responseVars, gateVars, receptionVars,
            readerVars, workerVars
<1>0. CASE UNCHANGED <<worker, otherVars>>
  BY <1>0, <1>typed
<1>1. CASE \E t \in Tids : ListenerSpawn(t) /\ UNCHANGED otherVars
  BY <1>1, <1>typed DEF ListenerSpawn, StartReceive
<1>2. CASE \E t \in Tids : ReceiveConvert(t)
  BY <1>2, <1>typed DEF ReceiveConvert
<1>3. CASE \E t \in Tids : ReceiveRecord(t)
  BY <1>3, <1>typed DEF ReceiveRecord, ReceptionInv, BufferInv
<1>4. CASE \E t \in Tids : ReceiveCallback(t)
  BY <1>4, <1>typed DEF ReceiveCallback, Ask, ReceptionInv, BufferInv
<1>5. CASE \E t \in Tids : WorkerFinish(t) /\ UNCHANGED otherVars
  BY <1>5, <1>typed DEF WorkerFinish
<1>6. CASE \E t \in Tids : CleanerReap(t) /\ UNCHANGED otherVars
  BY <1>6, <1>typed DEF CleanerReap
<1>7. CASE \E t \in Tids : DrainJoin(t) /\ UNCHANGED otherVars
  BY <1>7, <1>typed DEF DrainJoin
<1>8. CASE \E r \in Samples : Respond(r)
  BY <1>8, <1>typed DEF Respond
<1>9. CASE \E r \in Samples : ResponseLookup(r)
  BY <1>9, <1>typed DEF ResponseLookup, FindPath
<1>10. CASE \E r \in Samples : ResponseConvert(r)
  BY <1>10, <1>typed DEF ResponseConvert, LockReply
<1>11. CASE \E r \in Samples : ResponseRefused(r)
  BY <1>11, <1>typed DEF ResponseRefused
<1>12. CASE \E r \in Samples : ResponseWrite(r)
  BY <1>12, <1>typed DEF ResponseWrite, UnlockReply, ReplyBufferInv
<1>13. CASE DtorDeleteReply
  BY <1>13, <1>typed DEF DtorDeleteReply
<1>14. CASE \E e \in Endpoints :
             /\ OnMatched(e) \/ OnUnmatched(e)
             /\ UNCHANGED <<receptionVars, requestVars, reply_id_type,
                            responseVars>>
  <2>1. PICK e \in Endpoints :
              /\ OnMatched(e) \/ OnUnmatched(e)
              /\ UNCHANGED <<receptionVars, requestVars, reply_id_type,
                             responseVars>>
    BY <1>14
  <2>2. pub_sub_matched' \in 0..255 /\ mtx' \in {"free", mtx}
    <3>1. pub_sub_matched \in 0..255
      OBVIOUS
    <3>2. /\ (pub_sub_matched + 1) % 256 \in 0..255
          /\ (pub_sub_matched + 255) % 256 \in 0..255
      BY ONLY <3>1
    <3> QED
      BY ONLY <2>1, <3>2 DEF OnMatched, OnUnmatched
  <2>3. /\ peers' \in [Endpoints -> 0..MaxPeers]
        /\ joined' \in [Endpoints -> 0..MaxJoins]
    BY <2>1 DEF OnMatched, OnUnmatched
  <2>4. GateTypeOK(Tids \cup Samples)'
    BY <2>2, <2>3
  <2> QED
    BY <1>typed, <2>1, <2>4
<1> HIDE DEF TypeOK, ReceptionTypeOK, ClientPhases, CommonPhases, GateTypeOK
<1> QED
  BY <1>0, <1>1, <1>2, <1>3, <1>4, <1>5, <1>6, <1>7, <1>8, <1>9, <1>10, <1>11,
            <1>12, <1>13, <1>14, StepCases
  DEF Arrive, ListenerDiscard

(* The request side is deleted before the reply side, and once. *)
LEMMA RequestDeletedStep ==
  TypeOK /\ ReceptionInv /\ RequestDeletedInv /\ [Next]_vars =>
    RequestDeletedInv'
<1> SUFFICES ASSUME TypeOK, ReceptionInv, RequestDeletedInv, [Next]_vars
             PROVE  RequestDeletedInv'
  OBVIOUS
<1>1. [ReceptionNext]_receptionVars
  BY ReceptionStep
<1>2. ReceptionInv'
  BY <1>1, ReceptionInductive
<1>3. teardown' = "destroyed" => listener' = "idle" /\ data_mtx' # "destructor"
  BY <1>2 DEF ReceptionInv, ShutdownInv, LockInv
<1>4. CASE teardown' = "detached" /\ teardown # "detached"
  <2>1. DtorDeleteRequest
    BY <1>4 DEF Next, Progress, Environment, Listener, Cleaner, Destructor,
      Worker, Responder, Arrive, ListenerCall, ListenerLock, ListenerSkip,
      ListenerDiscard, ListenerSpawn, StartReceive, ListenerEmplace,
      ReceiveConvert, ReceiveRecord, ReceiveCallback, Ask, WorkerFinish,
      CleanerLock, CleanerWake, CleanerSpuriousWake, CleanerYield, CleanerReap,
      DrainJoin, DrainEnd, DtorStop, DtorJoinCleaner, DtorLockData,
      DtorDeleteReply, Respond, ResponseLookup, ResponseConvert,
      ResponseRefused, ResponseWrite, vars, receptionVars
  <2> QED
    BY <2>1, <1>4 DEF DtorDeleteRequest, RequestDeletedInv, listenerVars
<1>5. CASE teardown' = "detached" /\ teardown = "detached"
  <2>1. stop_cleaner /\ listener = "idle" /\ data_mtx # "destructor"
    BY <1>5 DEF ReceptionInv, ShutdownInv, RequestDeletedInv
  <2>2. listener' = "idle" /\ data_mtx' # "destructor"
    BY <1>1, <1>5, <2>1
    DEF ReceptionNext, Arrive, ListenerCall, ListenerLock, ListenerSkip,
      ListenerDiscard, ListenerSpawn, StartReceive, ListenerEmplace,
      ReceiveStep, PassesTo, WorkerFinish,
      CleanerLock, CleanerWake, CleanerSpuriousWake, CleanerYield, CleanerReap,
      DrainJoin, DrainEnd, DtorStop, DtorJoinCleaner, DtorLockData,
      DeletionStep, receptionVars, listenerVars, mutexVars
  <2> QED
    BY <2>2 DEF RequestDeletedInv
<1> QED
  BY <1>3, <1>4, <1>5 DEF RequestDeletedInv

(* A thread converts its own request, and keeps it until the callback. *)
LEMMA OwnStep ==
  TypeOK /\ ReceptionInv /\ OwnRequestAsked /\ [Next]_vars =>
    OwnRequestAsked'
<1> SUFFICES ASSUME TypeOK, ReceptionInv, OwnRequestAsked,
                    [Next]_vars
             PROVE  OwnRequestAsked'
  OBVIOUS
<1> USE DEF TypeOK, ReceptionTypeOK, ClientPhases, CommonPhases,
            OwnRequestAsked, ReceptionInv, BufferInv, Converting, otherVars,
            requestVars, responseVars, gateVars, receptionVars, readerVars,
            workerVars
<1>0. CASE UNCHANGED <<worker, sample, received>>
  BY <1>0
<1>1. CASE \E t \in Tids : ListenerSpawn(t) /\ UNCHANGED otherVars
  BY <1>1 DEF ListenerSpawn, StartReceive
<1>2. CASE \E t \in Tids : ReceiveConvert(t)
  BY <1>2 DEF ReceiveConvert
<1>3. CASE \E t \in Tids : ReceiveRecord(t)
  BY <1>3 DEF ReceiveRecord
<1>4. CASE \E t \in Tids : ReceiveCallback(t)
  BY <1>4 DEF ReceiveCallback, Ask
<1>5. CASE \E t \in Tids : WorkerFinish(t) /\ UNCHANGED otherVars
  BY <1>5 DEF WorkerFinish
<1>6. CASE \E t \in Tids : CleanerReap(t) /\ UNCHANGED otherVars
  BY <1>6 DEF CleanerReap
<1>7. CASE \E t \in Tids : DrainJoin(t) /\ UNCHANGED otherVars
  BY <1>7 DEF DrainJoin
<1> HIDE DEF TypeOK, ReceptionTypeOK, ClientPhases, CommonPhases,
            OwnRequestAsked, ReceptionInv, BufferInv, Converting
<1> QED
  BY <1>0, <1>1, <1>2, <1>3, <1>4, <1>5, <1>6, <1>7, StepCases
  DEF Arrive, ListenerDiscard, Respond, ResponseLookup, FindPath,
            ResponseConvert, LockReply, ResponseRefused, ResponseWrite,
            UnlockReply, DtorDeleteReply, OnMatched, OnUnmatched

(* A request is given to its callback by the only thread that has it. *)
LEMMA AskedStep ==
  TypeOK /\ ReceptionInv /\ AskedInv /\ [Next]_vars =>
    AskedInv'
<1> SUFFICES ASSUME TypeOK, ReceptionInv, AskedInv,
                    [Next]_vars
             PROVE  AskedInv'
  OBVIOUS
<1> USE DEF TypeOK, ReceptionTypeOK, ClientPhases, CommonPhases, AskedInv,
            ReceptionInv, BufferInv, OnceInv, otherVars, requestVars,
            responseVars, gateVars, receptionVars, readerVars, workerVars
<1>0. CASE UNCHANGED <<arrived, unread, worker, sample, asked, responder>>
  BY <1>0
<1>1. CASE \E r \in Samples : Arrive(r) /\ UNCHANGED otherVars
  BY <1>1 DEF Arrive
<1>2. CASE ListenerDiscard /\ UNCHANGED otherVars
  BY <1>2 DEF ListenerDiscard
<1>3. CASE \E t \in Tids : ListenerSpawn(t) /\ UNCHANGED otherVars
  BY <1>3 DEF ListenerSpawn, StartReceive
<1>4. CASE \E t \in Tids : ReceiveConvert(t)
  BY <1>4 DEF ReceiveConvert
<1>5. CASE \E t \in Tids : ReceiveRecord(t)
  BY <1>5 DEF ReceiveRecord
<1>6. CASE \E t \in Tids : ReceiveCallback(t)
  BY <1>6 DEF ReceiveCallback, Ask
<1>7. CASE \E t \in Tids : WorkerFinish(t) /\ UNCHANGED otherVars
  BY <1>7 DEF WorkerFinish
<1>8. CASE \E t \in Tids : CleanerReap(t) /\ UNCHANGED otherVars
  BY <1>8 DEF CleanerReap
<1>9. CASE \E t \in Tids : DrainJoin(t) /\ UNCHANGED otherVars
  BY <1>9 DEF DrainJoin
<1>10. CASE \E r \in Samples : Respond(r)
  BY <1>10 DEF Respond
<1>11. CASE \E r \in Samples : ResponseLookup(r)
  BY <1>11 DEF ResponseLookup, FindPath
<1>12. CASE \E r \in Samples : ResponseConvert(r)
  BY <1>12 DEF ResponseConvert, LockReply
<1>13. CASE \E r \in Samples : ResponseRefused(r)
  BY <1>13 DEF ResponseRefused
<1>14. CASE \E r \in Samples : ResponseWrite(r)
  BY <1>14 DEF ResponseWrite, UnlockReply
<1> HIDE DEF TypeOK, ReceptionTypeOK, ClientPhases, CommonPhases, AskedInv,
            ReceptionInv, BufferInv, OnceInv
<1> QED
  BY <1>0, <1>1, <1>2, <1>3, <1>4, <1>5, <1>6, <1>7, <1>8, <1>9, <1>10, <1>11,
            <1>12, <1>13, <1>14, StepCases
  DEF DtorDeleteReply, OnMatched, OnUnmatched

(* A type is kept again by no thread once the request was asked. *)
LEMMA ForgottenStep ==
  TypeOK /\ AskedInv /\ TypesForgotten /\ [Next]_vars =>
    TypesForgotten'
<1> SUFFICES ASSUME TypeOK, AskedInv, TypesForgotten,
                    [Next]_vars
             PROVE  TypesForgotten'
  OBVIOUS
<1> USE DEF TypeOK, ReceptionTypeOK, ClientPhases, CommonPhases, AskedInv,
            TypesForgotten, otherVars, requestVars, responseVars, gateVars,
            receptionVars, readerVars, workerVars
<1>0. CASE UNCHANGED <<responder, reply_id_type>>
  BY <1>0
<1>1. CASE \E t \in Tids : ReceiveRecord(t)
  BY <1>1 DEF ReceiveRecord
<1>2. CASE \E r \in Samples : Respond(r)
  BY <1>2 DEF Respond
<1>3. CASE \E r \in Samples : ResponseLookup(r)
  BY <1>3 DEF ResponseLookup, FindPath
<1>4. CASE \E r \in Samples : ResponseConvert(r)
  BY <1>4 DEF ResponseConvert, LockReply
<1>5. CASE \E r \in Samples : ResponseRefused(r)
  BY <1>5 DEF ResponseRefused
<1>6. CASE \E r \in Samples : ResponseWrite(r)
  BY <1>6 DEF ResponseWrite, UnlockReply
<1> HIDE DEF TypeOK, ReceptionTypeOK, ClientPhases, CommonPhases, AskedInv,
            TypesForgotten
<1> QED
  BY <1>0, <1>1, <1>2, <1>3, <1>4, <1>5, <1>6, StepCases
  DEF Arrive, ListenerDiscard, ListenerSpawn, StartReceive, ReceiveConvert,
            ReceiveCallback, Ask, WorkerFinish, CleanerReap, DrainJoin,
            DtorDeleteReply, OnMatched, OnUnmatched

(* A type stays until the response to its own request. *)
LEMMA KeptStep ==
  TypeOK /\ ReceptionInv /\ OwnRequestAsked /\ AskedInv /\ KeptInv /\ [Next]_vars =>
    KeptInv'
<1> SUFFICES ASSUME TypeOK, ReceptionInv, OwnRequestAsked, AskedInv,
                    KeptInv,
                    [Next]_vars
             PROVE  KeptInv'
  OBVIOUS
<1> USE DEF TypeOK, ReceptionTypeOK, ClientPhases, CommonPhases, AskedInv,
            KeptInv, OwnRequestAsked, ReceptionInv, OnceInv, otherVars,
            requestVars, responseVars, gateVars, receptionVars, readerVars,
            workerVars
<1>0. CASE UNCHANGED <<worker, sample, reply_id_type, asked, responder>>
  BY <1>0
<1>1. CASE \E t \in Tids : ListenerSpawn(t) /\ UNCHANGED otherVars
  BY <1>1 DEF ListenerSpawn, StartReceive
<1>2. CASE \E t \in Tids : ReceiveConvert(t)
  BY <1>2 DEF ReceiveConvert
<1>3. CASE \E t \in Tids : ReceiveRecord(t)
  BY <1>3 DEF ReceiveRecord
<1>4. CASE \E t \in Tids : ReceiveCallback(t)
  BY <1>4 DEF ReceiveCallback, Ask
<1>5. CASE \E t \in Tids : WorkerFinish(t) /\ UNCHANGED otherVars
  BY <1>5 DEF WorkerFinish
<1>6. CASE \E t \in Tids : CleanerReap(t) /\ UNCHANGED otherVars
  BY <1>6 DEF CleanerReap
<1>7. CASE \E t \in Tids : DrainJoin(t) /\ UNCHANGED otherVars
  BY <1>7 DEF DrainJoin
<1>8. CASE \E r \in Samples : Respond(r)
  BY <1>8 DEF Respond
<1>9. CASE \E r \in Samples : ResponseLookup(r)
  BY <1>9 DEF ResponseLookup, FindPath
<1>10. CASE \E r \in Samples : ResponseConvert(r)
  BY <1>10 DEF ResponseConvert, LockReply
<1>11. CASE \E r \in Samples : ResponseRefused(r)
  BY <1>11 DEF ResponseRefused
<1>12. CASE \E r \in Samples : ResponseWrite(r)
  BY <1>12 DEF ResponseWrite, UnlockReply
<1> HIDE DEF TypeOK, ReceptionTypeOK, ClientPhases, CommonPhases, AskedInv,
            KeptInv, OwnRequestAsked, ReceptionInv, OnceInv
<1> QED
  BY <1>0, <1>1, <1>2, <1>3, <1>4, <1>5, <1>6, <1>7, <1>8, <1>9, <1>10, <1>11,
            <1>12, StepCases
  DEF Arrive, ListenerDiscard, DtorDeleteReply, OnMatched, OnUnmatched

(* The look-up finds the type exactly if there is one. *)
LEMMA PathStep ==
  TypeOK /\ AskedInv /\ KeptInv /\ PathInv /\ [Next]_vars =>
    PathInv'
<1> SUFFICES ASSUME TypeOK, AskedInv, KeptInv, PathInv,
                    [Next]_vars
             PROVE  PathInv'
  OBVIOUS
<1> USE DEF TypeOK, ReceptionTypeOK, ClientPhases, CommonPhases, AskedInv,
            KeptInv, PathInv, otherVars, requestVars, responseVars, gateVars,
            receptionVars, readerVars, workerVars
<1>0. CASE UNCHANGED <<path, responder>>
  BY <1>0
<1>1. CASE \E r \in Samples : Respond(r)
  BY <1>1 DEF Respond
<1>2. CASE \E r \in Samples : ResponseLookup(r)
  BY <1>2 DEF ResponseLookup, FindPath
<1>3. CASE \E r \in Samples : ResponseConvert(r)
  BY <1>3 DEF ResponseConvert, LockReply
<1>4. CASE \E r \in Samples : ResponseRefused(r)
  BY <1>4 DEF ResponseRefused
<1>5. CASE \E r \in Samples : ResponseWrite(r)
  BY <1>5 DEF ResponseWrite, UnlockReply
<1> HIDE DEF TypeOK, ReceptionTypeOK, ClientPhases, CommonPhases, AskedInv,
            KeptInv, PathInv
<1> QED
  BY <1>0, <1>1, <1>2, <1>3, <1>4, <1>5, StepCases
  DEF Arrive, ListenerDiscard, ListenerSpawn, StartReceive, ReceiveConvert,
            ReceiveRecord, ReceiveCallback, Ask, WorkerFinish, CleanerReap,
            DrainJoin, DtorDeleteReply, OnMatched, OnUnmatched

(* Nobody else writes to the buffer of a reply. *)
LEMMA ReplyBufferStep ==
  TypeOK /\ ReplyBufferInv /\ [Next]_vars =>
    ReplyBufferInv'
<1> SUFFICES ASSUME TypeOK, ReplyBufferInv,
                    [Next]_vars
             PROVE  ReplyBufferInv'
  OBVIOUS
<1> USE DEF TypeOK, ReceptionTypeOK, ClientPhases, CommonPhases,
            ReplyBufferInv, otherVars, requestVars, responseVars, gateVars,
            receptionVars, readerVars, workerVars
<1>0. CASE UNCHANGED <<reply_data_mtx, reply_data, responder>>
  BY <1>0
<1>1. CASE \E r \in Samples : Respond(r)
  BY <1>1 DEF Respond
<1>2. CASE \E r \in Samples : ResponseLookup(r)
  BY <1>2 DEF ResponseLookup, FindPath
<1>3. CASE \E r \in Samples : ResponseConvert(r)
  BY <1>3 DEF ResponseConvert, LockReply
<1>4. CASE \E r \in Samples : ResponseRefused(r)
  BY <1>4 DEF ResponseRefused
<1>5. CASE \E r \in Samples : ResponseWrite(r)
  BY <1>5 DEF ResponseWrite, UnlockReply
<1>6. CASE DtorDeleteReply
  BY <1>6 DEF DtorDeleteReply
<1> HIDE DEF TypeOK, ReceptionTypeOK, ClientPhases, CommonPhases,
            ReplyBufferInv
<1> QED
  BY <1>0, <1>1, <1>2, <1>3, <1>4, <1>5, <1>6, StepCases
  DEF Arrive, ListenerDiscard, ListenerSpawn, StartReceive, ReceiveConvert,
            ReceiveRecord, ReceiveCallback, Ask, WorkerFinish, CleanerReap,
            DrainJoin, OnMatched, OnUnmatched

(* What is written is the response, where the request says. *)
LEMMA RepliesStep ==
  TypeOK /\ PathInv /\ ReplyBufferInv /\ RepliesMatch /\ [Next]_vars =>
    RepliesMatch'
<1> SUFFICES ASSUME TypeOK, PathInv, ReplyBufferInv, RepliesMatch,
                    [Next]_vars
             PROVE  RepliesMatch'
  OBVIOUS
<1> USE DEF TypeOK, ReceptionTypeOK, ClientPhases, CommonPhases, PathInv,
            ReplyBufferInv, RepliesMatch, otherVars, requestVars,
            responseVars, gateVars, receptionVars, readerVars, workerVars
<1>0. CASE UNCHANGED <<replied>>
  BY <1>0
<1>1. CASE \E r \in Samples : ResponseWrite(r)
  BY <1>1 DEF ResponseWrite, UnlockReply
<1> HIDE DEF TypeOK, ReceptionTypeOK, ClientPhases, CommonPhases, PathInv,
            ReplyBufferInv, RepliesMatch
<1> QED
  BY <1>0, <1>1, StepCases
  DEF Arrive, ListenerDiscard, ListenerSpawn, StartReceive, ReceiveConvert,
            ReceiveRecord, ReceiveCallback, Ask, WorkerFinish, CleanerReap,
            DrainJoin, Respond, ResponseLookup, FindPath, ResponseConvert,
            LockReply, ResponseRefused, DtorDeleteReply, OnMatched,
            OnUnmatched

-----------------------------------------------------------------------------
(* The whole invariant holds at the start and is preserved by every step. *)
LEMMA InitIInv == Init => IInv
<1> SUFFICES ASSUME Init PROVE IInv
  OBVIOUS
<1>1. ReceptionInv
  BY ReceptionStart DEF Init
<1>2. TypeOK
  <2>1. GateTypeOK(Tids \cup Samples)
    BY DEF Init, GateInit, GateTypeOK
  <2>2. worker \in [Tids -> ClientPhases]
    BY DEF Init, ReceptionInit, ClientPhases, CommonPhases
  <2> QED
    BY <1>1, <2>1, <2>2 DEF Init, TypeOK, ReceptionInv, ReceptionType
<1>3. RequestDeletedInv /\ OwnRequestAsked /\ AskedInv /\ TypesForgotten
  BY DEF Init, ReceptionInit, RequestDeletedInv, OwnRequestAsked, AskedInv,
         TypesForgotten
<1>4. KeptInv /\ PathInv /\ ReplyBufferInv /\ RepliesMatch
  BY DEF Init, ReceptionInit, KeptInv, PathInv, ReplyBufferInv, RepliesMatch
<1> QED
  BY <1>1, <1>2, <1>3, <1>4 DEF IInv

LEMMA Inductive == IInv /\ [Next]_vars => IInv'
<1> SUFFICES ASSUME IInv, [Next]_vars PROVE IInv'
  OBVIOUS
<1> USE DEF IInv
<1>1. ReceptionInv'
  BY ReceptionStep, ReceptionInductive
<1>2. TypeOK'
  BY <1>1, TypeStep DEF ReceptionInv
<1>3. RequestDeletedInv' /\ OwnRequestAsked' /\ AskedInv' /\ TypesForgotten'
  BY RequestDeletedStep, OwnStep, AskedStep, ForgottenStep
<1>4. KeptInv' /\ PathInv' /\ ReplyBufferInv' /\ RepliesMatch'
  BY KeptStep, PathStep, ReplyBufferStep, RepliesStep
<1> QED
  BY <1>1, <1>2, <1>3, <1>4

LEMMA Invariance == Spec => []IInv
BY InitIInv, Inductive, PTL DEF Spec

-----------------------------------------------------------------------------
(* Where the client may stop. *)

(* The reply's buffer is held by who writes it, and nothing passes the gate
   before it opens. *)
LEMMA SectionStep ==
  TypeOK /\ AskedInv /\ SectionInv /\ [Next]_vars => SectionInv'
<1> SUFFICES ASSUME TypeOK, AskedInv, SectionInv, [Next]_vars
             PROVE  SectionInv'
  OBVIOUS
<1> USE DEF TypeOK, ReceptionTypeOK, ClientPhases, CommonPhases, AskedInv,
            SectionInv, otherVars, requestVars, responseVars, gateVars,
            receptionVars, readerVars, workerVars
<1>0. CASE UNCHANGED <<worker, mtx, asked, responder, reply_data_mtx>>
  BY <1>0
<1>1. CASE \E t \in Tids : ListenerSpawn(t) /\ UNCHANGED otherVars
  BY <1>1 DEF ListenerSpawn, StartReceive
<1>2. CASE \E t \in Tids : ReceiveConvert(t)
  BY <1>2 DEF ReceiveConvert
<1>3. CASE \E t \in Tids : ReceiveRecord(t)
  BY <1>3 DEF ReceiveRecord
<1>4. CASE \E t \in Tids : ReceiveCallback(t)
  BY <1>4 DEF ReceiveCallback, Ask
<1>5. CASE \E t \in Tids : WorkerFinish(t) /\ UNCHANGED otherVars
  BY <1>5 DEF WorkerFinish
<1>6. CASE \E t \in Tids : CleanerReap(t) /\ UNCHANGED otherVars
  BY <1>6 DEF CleanerReap
<1>7. CASE \E t \in Tids : DrainJoin(t) /\ UNCHANGED otherVars
  BY <1>7 DEF DrainJoin
<1>8. CASE \E r \in Samples : Respond(r)
  BY <1>8 DEF Respond
<1>9. CASE \E r \in Samples : ResponseLookup(r)
  BY <1>9 DEF ResponseLookup, FindPath
<1>10. CASE \E r \in Samples : ResponseConvert(r)
  BY <1>10 DEF ResponseConvert, LockReply
<1>11. CASE \E r \in Samples : ResponseRefused(r)
  BY <1>11 DEF ResponseRefused
<1>12. CASE \E r \in Samples : ResponseWrite(r)
  BY <1>12 DEF ResponseWrite, UnlockReply
<1>13. CASE \E e \in Endpoints :
             /\ OnMatched(e) \/ OnUnmatched(e)
             /\ UNCHANGED <<receptionVars, requestVars, reply_id_type,
                            responseVars>>
  BY <1>13 DEF OnMatched, OnUnmatched
<1>14. CASE DtorDeleteReply
  BY <1>14 DEF DtorDeleteReply
<1> HIDE DEF TypeOK, ReceptionTypeOK, ClientPhases, CommonPhases, AskedInv,
            SectionInv
<1> QED
  BY <1>0, <1>1, <1>2, <1>3, <1>4, <1>5, <1>6, <1>7, <1>8, <1>9, <1>10, <1>11,
            <1>12, <1>13, <1>14, StepCases
  DEF Arrive, ListenerDiscard

LEMMA RestStep == IInv /\ RestInv /\ [Next]_vars => RestInv'
<1> SUFFICES ASSUME IInv, RestInv, [Next]_vars PROVE RestInv'
  OBVIOUS
<1>1. [ReceptionNext]_receptionVars
  BY ReceptionStep DEF IInv
<1>2. CountInv'
  BY <1>1, CountStep DEF IInv, RestInv
<1>3. SectionInv'
  BY SectionStep DEF IInv, RestInv
<1>4. Reported'
  <2>1. \A t \in Tids : worker'[t] = "terminated" =>
          worker[t] \in {"finish", "terminated"}
    BY StepCases
    DEF IInv, TypeOK, Arrive, ListenerDiscard, ListenerSpawn, StartReceive,
        ReceiveConvert, ReceiveRecord, ReceiveCallback, Ask, WorkerFinish,
        CleanerReap, DrainJoin, Respond, ResponseLookup, ResponseConvert,
        ResponseRefused, ResponseWrite, DtorDeleteReply, workerVars,
        receptionVars
  <2> QED
    BY <1>1, <2>1, ReportedStep DEF IInv, ReceptionInv, RestInv
<1>5. teardown' # "reception"
  <2>1. CASE UNCHANGED teardown
    BY <2>1 DEF RestInv
  <2>2. CASE Destructor
    BY <2>2 DEF RestInv, Destructor, DtorJoinCleaner, DtorLockData,
                DtorDeleteRequest, DtorDeleteReply
  <2>3. CASE DtorStop
    BY <2>3 DEF DtorStop
  <2> QED
    BY <2>1, <2>2, <2>3
    DEF Next, Progress, Environment, Listener, Worker, Cleaner, Responder,
        Arrive, ListenerCall, ListenerLock, ListenerSkip, ListenerDiscard,
        ListenerSpawn, StartReceive, ListenerEmplace, ReceiveConvert,
        ReceiveRecord, ReceiveCallback, Ask, WorkerFinish, Respond,
        ResponseLookup, ResponseConvert, ResponseRefused, ResponseWrite,
        CleanerLock, CleanerWake, CleanerSpuriousWake, CleanerReap,
        CleanerYield, DrainJoin, DrainEnd, vars, receptionVars
<1> QED
  BY <1>2, <1>3, <1>4, <1>5 DEF RestInv

LEMMA RestInvariance == Spec => []RestInv
<1>1. Init => RestInv
  BY CountStart
  DEF Init, ReceptionInit, GateInit, RestInv, SectionInv, Reported
<1> QED
  BY <1>1, RestStep, Invariance, PTL DEF Spec

(* The guards leave out no step of a thread: where one moves, Runnable holds. *)
LEMMA MovesOnlyIfRunnable == Progress => Runnable
<1>1. Listener => ListenerCanMove
  BY DEF Listener, ListenerCall, ListenerLock, ListenerSkip, ListenerDiscard,
         ListenerSpawn, StartReceive, ListenerEmplace, ListenerCanMove
<1>2. Cleaner => CleanerCanMove
  BY DEF Cleaner, CleanerLock, CleanerWake, CleanerReap, CleanerYield,
         DrainJoin, DrainEnd, CleanerCanMove
<1>3. Destructor => DestructorCanMove
  BY DEF Destructor, DtorJoinCleaner, DtorLockData, DtorDeleteRequest,
         DtorDeleteReply, DestructorCanMove
<1>4. \A t \in Tids : Worker(t) => WorkerCanMove(t)
  BY DEF Worker, ReceiveConvert, ReceiveRecord, ReceiveCallback, WorkerFinish,
         WorkerCanMove
<1>5. \A r \in Samples : Responder(r) => ResponderCanMove(r)
  BY DEF Responder, ResponseLookup, ResponseConvert, LockReply,
         ResponseRefused, ResponseWrite, ResponderCanMove
<1> QED
  BY <1>1, <1>2, <1>3, <1>4, <1>5 DEF Progress, Runnable

(* Threads and responders wait for one another in no circle: where none of the
   client's threads can move, there is nothing left to do, or the gate is
   closed, or the destructor is at its end or in one of its lock cycles.
   Of StopsOnlyWhere that leaves to TLC only that the guards are exact. *)
THEOREM Stops ==
  Spec => [](/\ StuckOnlyWhere
             /\ StopsOnlyWhere <=> (Runnable <=> ENABLED Progress))
<1>1. IInv /\ RestInv => StuckOnlyWhere
  <2> SUFFICES ASSUME IInv, RestInv, ~Runnable, ~BehindGate, ~CleanerJoinCycle,
                      ~ListenerDeleteCycle
               PROVE  (teardown = "none" /\ AtRest) \/ teardown = "destroyed"
    BY DEF StuckOnlyWhere
  <2>1. /\ ReceptionInv /\ CountInv /\ SectionInv /\ Reported /\ TypeOK
        /\ RequestDeletedInv /\ AskedInv
        /\ ~ListenerCanMove /\ ~CleanerCanMove /\ ~DestructorCanMove
        /\ \A t \in Tids : ~WorkerCanMove(t)
        /\ \A r \in Samples : ~ResponderCanMove(r)
    BY DEF IInv, RestInv, Runnable
  <2>2. \A t \in Tids :
          /\ worker[t] \in {"none", "finish", "terminated"}
          /\ worker[t] = "finish" => cleaner_mtx # "free"
    BY <2>1 DEF TypeOK, ClientPhases, CommonPhases, SectionInv, WorkerCanMove,
                BehindGate
  <2>3. reply_data_mtx = "free"
    BY <2>1 DEF TypeOK, SectionInv, ResponderCanMove
  <2>4. \A r \in Samples : responder[r] \in {"idle", "done"}
    BY <2>1, <2>3 DEF TypeOK, SectionInv, AskedInv, ResponderCanMove
  <2>5. ~(listener = "take" /\ data_mtx = "destructor" /\ teardown \in {"detaching", "detached"})
    BY <2>1 DEF ListenerDeleteCycle, RequestDeletedInv
  <2>6. CASE teardown = "none"
    <3>1. /\ signals = 0 /\ listener = "idle" /\ cleaner = "blocked"
          /\ \A t \in Tids : worker[t] \in {"none", "terminated"}
          /\ finished_threads = {}
      BY <2>1, <2>2, <2>5, <2>6, ReceptionStuck
    <3> QED
      BY <2>1, <2>4, <2>6, <3>1 DEF Reported, AtRest
  <2>7. CASE teardown # "none"
    <3>1. /\ cleaner = "exited" /\ listener = "idle"
          /\ data_mtx = "destructor" => teardown \in {"detaching", "detached"}
          /\ data_mtx \in {"free", "destructor"}
      BY <2>1, <2>2, <2>5, <2>7, ReceptionStuck
    <3> QED
      BY <2>1, <2>3, <2>7, <3>1
      DEF TypeOK, ReceptionTypeOK, RestInv, DestructorCanMove
  <2> QED
    BY <2>6, <2>7
<1>2. StuckOnlyWhere => (StopsOnlyWhere <=> (Runnable <=> ENABLED Progress))
  BY DEF StopsOnlyWhere
<1> QED
  BY <1>1, <1>2, Invariance, RestInvariance, PTL

-----------------------------------------------------------------------------
(* The safety properties of Client, for any requests and threads. *)

(* Every variable keeps its type. *)
THEOREM TypeCorrect == Spec => []TypeOK
<1>1. IInv => TypeOK
  BY DEF IInv
<1> QED
  BY <1>1, Invariance, PTL

(* What a thread gives to the callback is the request whose identity goes with
   it, though the buffer was another's by then. *)
THEOREM OwnAsked == Spec => []OwnRequestAsked
<1>1. IInv => OwnRequestAsked
  BY DEF IInv
<1> QED
  BY <1>1, Invariance, PTL

(* A response is written under the identity of its request, with the path of
   the type that was kept for it. *)
THEOREM Matched == Spec => []RepliesMatch
<1>1. IInv => RepliesMatch
  BY DEF IInv
<1> QED
  BY <1>1, Invariance, PTL

(* No type is kept for a request that was responded. *)
THEOREM Forgotten == Spec => []TypesForgotten
<1>1. IInv => TypesForgotten
  BY DEF IInv
<1> QED
  BY <1>1, Invariance, PTL

(* Nothing the destructor deletes is used by a thread of `receive`, nor by the
   middleware, afterwards. *)
THEOREM DeletionSafe == Spec => []NothingRunsOnDeleted
<1>1. IInv => NothingRunsOnDeleted
  BY DEF IInv, ReceptionInv, ShutdownInv, NothingRunsOnDeleted
<1> QED
  BY <1>1, Invariance, PTL

-----------------------------------------------------------------------------
(* The client implements the relay. *)

(* A thread that is done with its request takes it out of what is carried: no
   other thread carries it. *)
LEMMA CarriedLeaves ==
  ASSUME TypeOK, ReceptionInv,
         NEW t \in Tids, worker[t] \in {"started", "record", "callback"},
         worker' = [worker EXCEPT ![t] = "finish"], UNCHANGED sample
  PROVE  Carried' = Carried \ {sample[t]} /\ sample[t] \in Carried \cap Samples
<1>1. sample[t] \in Samples /\ sample[t] # NoSample
  BY DEF ReceptionInv, BufferInv
<1>2. ASSUME NEW u \in Tids \ {t} PROVE sample[u] # sample[t]
  BY <1>1, <1>2 DEF ReceptionInv, OnceInv
<1>3. \A u \in Tids : worker'[u] = IF u = t THEN "finish" ELSE worker[u]
  BY DEF TypeOK
<1>4. Carried' = Carried \ {sample[t]}
  BY <1>2, <1>3 DEF Carried
<1> QED
  BY <1>1, <1>4 DEF Carried

(* A thread that goes on keeps its request. *)
LEMMA CarriedStays ==
  ASSUME TypeOK, NEW t \in Tids, NEW next,
         worker' = [worker EXCEPT ![t] = next], UNCHANGED sample,
         worker[t] \in {"started", "record", "callback"} <=>
           next \in {"started", "record", "callback"}
  PROVE  Carried' = Carried
<1>1. \A u \in Tids : worker'[u] = IF u = t THEN next ELSE worker[u]
  BY DEF TypeOK
<1> QED
  BY <1>1 DEF Carried

(* Every step of the client is a step of the relay or a stutter. *)
LEMMA RelayStep == IInv /\ [Next]_vars => [R!Next]_R!vars
<1> SUFFICES ASSUME IInv, [Next]_vars PROVE [R!Next]_R!vars
  OBVIOUS
<1>typed. /\ TypeOK /\ ReceptionInv /\ worker \in [Tids -> ClientPhases]
          /\ sample \in [Tids -> Samples \cup {NoSample}]
          /\ unread \in Samples \cup {NoSample}
  BY DEF IInv, TypeOK, ReceptionTypeOK
<1>stutter. ASSUME UNCHANGED <<arrived, unread, asked>>, Carried' = Carried
            PROVE  UNCHANGED R!vars
  BY <1>stutter DEF R!vars
<1> USE DEF otherVars, requestVars, responseVars, receptionVars, readerVars,
            workerVars
<1>1. CASE \E r \in Samples : Arrive(r) /\ UNCHANGED otherVars
  <2> PICK r \in Samples : Arrive(r) /\ UNCHANGED otherVars
    BY <1>1
  <2>1. R!Receive(r)
    BY DEF Arrive, R!Receive, Carried
  <2> QED
    BY <2>1 DEF R!Next
<1>2. CASE ListenerDiscard /\ UNCHANGED otherVars
  <2>1. R!Take
    BY <1>2 DEF ListenerDiscard, R!Take, Carried
  <2> QED
    BY <2>1 DEF R!Next
<1>3. CASE \E t \in Tids : ListenerSpawn(t) /\ UNCHANGED otherVars
  <2> PICK t \in Tids : ListenerSpawn(t) /\ UNCHANGED otherVars
    BY <1>3
  <2>1. /\ unread \in Samples /\ unread' = NoSample /\ worker[t] = "none"
        /\ worker' = [worker EXCEPT ![t] = "started"]
        /\ sample' = [sample EXCEPT ![t] = unread]
        /\ UNCHANGED <<arrived, asked>>
    BY DEF ListenerSpawn, StartReceive
  <2>2. \A u \in Tids :
          /\ worker'[u] = IF u = t THEN "started" ELSE worker[u]
          /\ sample'[u] = IF u = t THEN unread ELSE sample[u]
    BY <1>typed, <2>1
  <2>3. Carried' = Carried \cup {unread}
    BY <2>1, <2>2 DEF Carried
  <2>4. R!Take
    BY <2>1, <2>3 DEF R!Take
  <2> QED
    BY <2>4 DEF R!Next
<1>4. CASE \E t \in Tids : ReceiveConvert(t) \/ ReceiveRecord(t)
  <2> PICK t \in Tids : ReceiveConvert(t) \/ ReceiveRecord(t)
    BY <1>4
  <2>1. PICK next \in {"record", "callback", "finish"} :
          /\ worker[t] \in {"started", "record"}
          /\ worker' = [worker EXCEPT ![t] = next]
          /\ UNCHANGED <<sample, arrived, unread, asked>>
    BY DEF ReceiveConvert, ReceiveRecord
  <2>2. CASE next = "finish"
    <3>1. Carried' = Carried \ {sample[t]} /\ sample[t] \in Carried \cap Samples
      BY <1>typed, <2>1, <2>2, CarriedLeaves
    <3>2. R!Drop(sample[t])
      BY <2>1, <3>1 DEF R!Drop
    <3> QED
      BY <3>1, <3>2 DEF R!Next
  <2>3. CASE next # "finish"
    <3>1. Carried' = Carried
      BY <1>typed, <2>1, <2>3, CarriedStays
    <3> QED
      BY <1>stutter, <2>1, <3>1
  <2> QED
    BY <2>2, <2>3
<1>5. CASE \E t \in Tids : ReceiveCallback(t)
  <2> PICK t \in Tids : ReceiveCallback(t)
    BY <1>5
  <2>1. /\ worker[t] = "callback" /\ worker' = [worker EXCEPT ![t] = "finish"]
        /\ asked' = asked \cup {sample[t]} \/ UNCHANGED asked
        /\ UNCHANGED <<sample, arrived, unread>>
    BY DEF ReceiveCallback, Ask
  <2>2. Carried' = Carried \ {sample[t]} /\ sample[t] \in Carried \cap Samples
    BY <1>typed, <2>1, CarriedLeaves
  <2>3. sample[t] \notin asked
    BY <2>1 DEF IInv, AskedInv
  <2>4. R!Deliver(sample[t]) \/ R!Drop(sample[t])
    BY <2>1, <2>2, <2>3 DEF R!Deliver, R!Drop
  <2> QED
    BY <2>2, <2>4 DEF R!Next
<1>6. CASE \E t \in Tids : WorkerFinish(t) /\ UNCHANGED otherVars
  <2> PICK t \in Tids : WorkerFinish(t) /\ UNCHANGED otherVars
    BY <1>6
  <2>1. /\ worker[t] = "finish" /\ worker' = [worker EXCEPT ![t] = "terminated"]
        /\ sample' = [sample EXCEPT ![t] = NoSample]
        /\ UNCHANGED <<arrived, unread, asked>>
    BY DEF WorkerFinish
  <2>2. \A u \in Tids :
          /\ worker'[u] = IF u = t THEN "terminated" ELSE worker[u]
          /\ sample'[u] = IF u = t THEN NoSample ELSE sample[u]
    BY <1>typed, <2>1
  <2>3. Carried' = Carried
    BY <2>1, <2>2 DEF Carried
  <2> QED
    BY <1>stutter, <2>1, <2>3
<1>7. CASE \E t \in Tids : (CleanerReap(t) \/ DrainJoin(t)) /\ UNCHANGED otherVars
  <2> PICK t \in Tids : (CleanerReap(t) \/ DrainJoin(t)) /\ UNCHANGED otherVars
    BY <1>7
  <2>1. /\ worker[t] = "terminated" /\ worker' = [worker EXCEPT ![t] = "none"]
        /\ UNCHANGED <<sample, arrived, unread, asked>>
    BY DEF CleanerReap, DrainJoin
  <2>2. Carried' = Carried
    BY <1>typed, <2>1, CarriedStays
  <2> QED
    BY <1>stutter, <2>1, <2>2
<1>8. CASE UNCHANGED <<arrived, unread, worker, sample, asked>>
  BY <1>stutter, <1>8 DEF Carried
<1> QED
  BY <1>1, <1>2, <1>3, <1>4, <1>5, <1>6, <1>7, <1>8, StepCases
  DEF Respond, ResponseLookup, ResponseConvert, ResponseRefused, ResponseWrite,
      DtorDeleteReply

(* The client implements the relay: a request that is taken is given to its
   callback once, as itself, or dropped, whatever the gate does. *)
THEOREM Implements == Spec => ImplementsRelay
<1>1. Init => R!Init
  BY DEF Init, ReceptionInit, R!Init, Carried
<1> QED
  BY <1>1, RelayStep, Invariance, PTL DEF Spec, ImplementsRelay, R!Spec

=============================================================================
