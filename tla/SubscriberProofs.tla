--------------------------- MODULE SubscriberProofs ---------------------------
(***************************************************************************)
(* Proofs about Subscriber for any set of samples and of threads: its      *)
(* safety properties, and that it implements Relay.                        *)
(***************************************************************************)
EXTENDS Subscriber, ReceptionProofs

USE NullsDistinct, FixedThreads, DisposedAreSamples

-----------------------------------------------------------------------------
(* A step moves a sample or a thread that carries one, or neither. *)
LEMMA StepCases ==
  ASSUME [Next]_vars
  PROVE  \/ \E s \in Samples : Arrive(s) /\ UNCHANGED <<message, forwarded>>
         \/ ListenerDiscard /\ UNCHANGED <<message, forwarded>>
         \/ \E t \in Tids : ListenerSpawn(t) /\ UNCHANGED <<message, forwarded>>
         \/ \E t \in Tids : ReceiveConvert(t)
         \/ \E t \in Tids : ReceiveCallback(t)
         \/ \E t \in Tids : WorkerFinish(t) /\ UNCHANGED <<message, forwarded>>
         \/ \E t \in Tids : (CleanerReap(t) \/ DrainJoin(t))
                             /\ UNCHANGED <<message, forwarded>>
         \/ UNCHANGED <<arrived, unread, worker, sample, message, forwarded>>
BY DEF Next, Progress, Environment, Listener, Worker, Cleaner, Destructor,
   ListenerCall, ListenerLock, ListenerSkip, ListenerEmplace, CleanerLock,
   CleanerWake, CleanerSpuriousWake, CleanerYield, DrainEnd, DtorStop,
   NotifyCleaner, DtorJoinCleaner, DtorLockData, DtorDetach, DtorDeleteReader,
   vars, receptionVars, readerVars, workerVars

(* What a subscriber does to the reception machinery is what the three do. *)
LEMMA ReceptionStep ==
  TypeOK /\ [Next]_vars => [ReceptionNext]_receptionVars
<1> SUFFICES ASSUME TypeOK, Next PROVE ReceptionNext
  BY DEF vars
<1> USE DEF SubscriberPhases, CommonPhases, ReceivePhases, Converting
<1>1. ASSUME NEW t \in Tids, ReceiveConvert(t) PROVE ReceiveStep(t)
  <2>1. PassesTo(t, "callback") \/ PassesTo(t, "finish")
    BY <1>1 DEF ReceiveConvert, PassesTo
  <2> QED
    BY <2>1 DEF ReceiveStep
<1>2. ASSUME NEW t \in Tids, ReceiveCallback(t) PROVE ReceiveStep(t)
  <2>1. PassesTo(t, "finish")
    BY <1>2 DEF ReceiveCallback, Forward, PassesTo, mutexVars
  <2> QED
    BY <2>1 DEF ReceiveStep
<1>3. ASSUME DtorDetach PROVE DeletionStep
  BY <1>3 DEF DtorDetach, DeletionStep, mutexVars
<1>4. ASSUME DtorDeleteReader("detached") PROVE DeletionStep
  BY <1>4 DEF DtorDeleteReader, DeletionStep
<1>5. Listener \/ Cleaner \/ Environment => ReceptionNext
  BY DEF Listener, Cleaner, Environment, ReceptionNext
<1>6. Destructor => ReceptionNext
  BY <1>3, <1>4 DEF Destructor, ReceptionNext
<1>7. ASSUME NEW t \in Tids, Worker(t) PROVE ReceptionNext
  BY <1>1, <1>2, <1>7 DEF Worker, ReceptionNext
<1> QED
  BY <1>5, <1>6, <1>7 DEF Next, Progress

(* Every variable keeps its type. *)
LEMMA TypeStep == TypeOK /\ ReceptionType' /\ [Next]_vars => TypeOK'
<1> SUFFICES ASSUME TypeOK, ReceptionType', [Next]_vars PROVE TypeOK'
  OBVIOUS
<1>0. ReceptionTypeOK'
  BY DEF ReceptionType
<1> USE DEF TypeOK, ReceptionTypeOK, SubscriberPhases, CommonPhases
<1>1. CASE UNCHANGED <<worker, message, forwarded>>
  BY <1>0, <1>1
<1>2. CASE \E t \in Tids : ListenerSpawn(t) /\ UNCHANGED <<message, forwarded>>
  BY <1>0, <1>2 DEF ListenerSpawn, StartReceive
<1>3. CASE \E t \in Tids : ReceiveConvert(t)
  BY <1>0, <1>3 DEF ReceiveConvert
<1>4. CASE \E t \in Tids : ReceiveCallback(t)
  BY <1>0, <1>4 DEF ReceiveCallback, Forward
<1>5. CASE \E t \in Tids : WorkerFinish(t) /\ UNCHANGED <<message, forwarded>>
  BY <1>0, <1>5 DEF WorkerFinish
<1>6. CASE \E t \in Tids : (CleanerReap(t) \/ DrainJoin(t))
                            /\ UNCHANGED <<message, forwarded>>
  BY <1>0, <1>6 DEF CleanerReap, DrainJoin
<1> HIDE DEF TypeOK, ReceptionTypeOK
<1> QED
  BY <1>1, <1>2, <1>3, <1>4, <1>5, <1>6, StepCases
  DEF Arrive, ListenerDiscard, workerVars

(* A thread converts its own sample, and keeps it until the callback. *)
LEMMA MessageStep ==
  TypeOK /\ ReceptionInv /\ MessageInv /\ [Next]_vars => MessageInv'
<1> SUFFICES ASSUME TypeOK, ReceptionInv, MessageInv, [Next]_vars
             PROVE  MessageInv'
  OBVIOUS
<1> USE DEF TypeOK, ReceptionTypeOK, SubscriberPhases, CommonPhases, MessageInv
<1>1. CASE UNCHANGED <<worker, sample, message>>
  BY <1>1
<1>2. CASE \E t \in Tids : ListenerSpawn(t) /\ UNCHANGED <<message, forwarded>>
  BY <1>2 DEF ListenerSpawn, StartReceive
<1>3. CASE \E t \in Tids : ReceiveConvert(t)
  BY <1>3 DEF ReceiveConvert, ReceptionInv, BufferInv, Converting
<1>4. CASE \E t \in Tids : ReceiveCallback(t)
  BY <1>4 DEF ReceiveCallback, Forward
<1>5. CASE \E t \in Tids : WorkerFinish(t) /\ UNCHANGED <<message, forwarded>>
  BY <1>5 DEF WorkerFinish
<1>6. CASE \E t \in Tids : (CleanerReap(t) \/ DrainJoin(t))
                            /\ UNCHANGED <<message, forwarded>>
  BY <1>6 DEF CleanerReap, DrainJoin
<1> HIDE DEF TypeOK, ReceptionTypeOK, MessageInv
<1> QED
  BY <1>1, <1>2, <1>3, <1>4, <1>5, <1>6, StepCases
  DEF Arrive, ListenerDiscard, workerVars

(* What is forwarded is forwarded by the only thread that carries it. *)
LEMMA ForwardedStep ==
  TypeOK /\ ReceptionInv /\ MessageInv /\ ForwardedInv /\ [Next]_vars =>
    ForwardedInv'
<1> SUFFICES ASSUME TypeOK, ReceptionInv, MessageInv, ForwardedInv, [Next]_vars
             PROVE  ForwardedInv'
  OBVIOUS
<1> USE DEF TypeOK, ReceptionTypeOK, SubscriberPhases, CommonPhases,
            ReceptionInv, OnceInv, ForwardedInv
<1>1. CASE UNCHANGED <<arrived, unread, worker, sample, message, forwarded>>
  BY <1>1
<1>2. CASE \E s \in Samples : Arrive(s) /\ UNCHANGED <<message, forwarded>>
  BY <1>2 DEF Arrive, workerVars
<1>3. CASE ListenerDiscard /\ UNCHANGED <<message, forwarded>>
  BY <1>3 DEF ListenerDiscard, workerVars
<1>4. CASE \E t \in Tids : ListenerSpawn(t) /\ UNCHANGED <<message, forwarded>>
  BY <1>4 DEF ListenerSpawn, StartReceive
<1>5. CASE \E t \in Tids : ReceiveConvert(t)
  BY <1>5 DEF ReceiveConvert, readerVars
<1>6. CASE \E t \in Tids : ReceiveCallback(t)
  BY <1>6 DEF ReceiveCallback, Forward, MessageInv, BufferInv, readerVars
<1>7. CASE \E t \in Tids : WorkerFinish(t) /\ UNCHANGED <<message, forwarded>>
  BY <1>7 DEF WorkerFinish, readerVars
<1>8. CASE \E t \in Tids : (CleanerReap(t) \/ DrainJoin(t))
                            /\ UNCHANGED <<message, forwarded>>
  BY <1>8 DEF CleanerReap, DrainJoin, readerVars
<1> HIDE DEF TypeOK, ReceptionTypeOK, ReceptionInv, OnceInv, ForwardedInv
<1> QED
  BY <1>1, <1>2, <1>3, <1>4, <1>5, <1>6, <1>7, <1>8, StepCases

(* The whole invariant holds at the start and is preserved by every step. *)
LEMMA InitIInv == Init => IInv
<1> SUFFICES ASSUME Init PROVE IInv
  OBVIOUS
<1>1. ReceptionInv
  BY ReceptionStart DEF Init
<1>2. TypeOK
  BY DEF Init, ReceptionInit, TypeOK, ReceptionTypeOK, SubscriberPhases,
         CommonPhases
<1>3. MessageInv /\ ForwardedInv
  BY DEF Init, ReceptionInit, MessageInv, ForwardedInv
<1> QED
  BY <1>1, <1>2, <1>3 DEF IInv

LEMMA Inductive == IInv /\ [Next]_vars => IInv'
<1> SUFFICES ASSUME IInv, [Next]_vars PROVE IInv'
  OBVIOUS
<1>1. ReceptionInv'
  BY ReceptionStep, ReceptionInductive DEF IInv
<1>2. TypeOK'
  BY <1>1, TypeStep DEF IInv, ReceptionInv
<1>3. MessageInv' /\ ForwardedInv'
  BY MessageStep, ForwardedStep DEF IInv
<1> QED
  BY <1>1, <1>2, <1>3 DEF IInv

LEMMA Invariance == Spec => []IInv
BY InitIInv, Inductive, PTL DEF Spec

-----------------------------------------------------------------------------
(* The safety properties of Subscriber, for any samples and threads. *)

(* Every variable keeps its type. *)
THEOREM TypeCorrect == Spec => []TypeOK
<1>1. IInv => TypeOK
  BY DEF IInv
<1> QED
  BY <1>1, Invariance, PTL

(* A thread that has yet to convert owns data_mtx_, and finds in
   dynamic_data_ the sample it was started for. *)
THEOREM BufferOwned == Spec => []BufferOwnership
<1>1. IInv => BufferOwnership
  BY DEF IInv, ReceptionInv, LockInv, BufferInv, Converting, BufferOwnership
<1> QED
  BY <1>1, Invariance, PTL

(* What is forwarded is the data of the sample it is forwarded with. *)
THEOREM OwnData == Spec => []OwnDataForwarded
<1>1. IInv => OwnDataForwarded
  BY DEF IInv, MessageInv, OwnDataForwarded
<1> QED
  BY <1>1, Invariance, PTL

(* No sample is forwarded twice. *)
THEOREM ForwardedOnce == Spec => []AtMostOnce
<1>1. IInv => AtMostOnce
  BY DEF IInv, ReceptionInv, BufferInv, OnceInv, ForwardedInv, AtMostOnce
<1> QED
  BY <1>1, Invariance, PTL

(* The cleaner can find every thread that is or will be finished. *)
THEOREM Tracked == Spec => []ThreadsTracked
<1>1. IInv => ThreadsTracked
  BY DEF IInv, ReceptionInv, ReceptionType, ReceptionTypeOK, PoolInv,
         ThreadsTracked
<1> QED
  BY <1>1, Invariance, PTL

(* Nothing the destructor deletes is used by a thread afterwards. *)
THEOREM DeletionSafe == Spec => []NothingRunsOnDeleted
<1>1. IInv => NothingRunsOnDeleted
  BY DEF IInv, ReceptionInv, ReceptionType, ReceptionTypeOK, LockInv,
         ShutdownInv, Converting, NothingRunsOnDeleted
<1> QED
  BY <1>1, Invariance, PTL

-----------------------------------------------------------------------------
(* Where the subscriber may stop. *)

(* There is a thread for every sample, and what is not joined is reported. *)
LEMMA RestStep == IInv /\ RestInv /\ [Next]_vars => RestInv'
<1> SUFFICES ASSUME IInv, RestInv, [Next]_vars PROVE RestInv'
  OBVIOUS
<1>1. [ReceptionNext]_receptionVars
  BY ReceptionStep DEF IInv
<1>2. CountInv'
  BY <1>1, CountStep DEF IInv, RestInv
<1>3. Reported'
  <2>1. \A t \in Tids : worker'[t] = "terminated" =>
          worker[t] \in {"finish", "terminated"}
    BY StepCases
    DEF IInv, TypeOK, Arrive, ListenerDiscard, ListenerSpawn, StartReceive,
        ReceiveConvert, ReceiveCallback, Forward, WorkerFinish, CleanerReap,
        DrainJoin, workerVars
  <2> QED
    BY <1>1, <2>1, ReportedStep DEF IInv, ReceptionInv, RestInv
<1>4. teardown' # "reception"
  BY DEF RestInv, Next, Progress, Environment, Listener, Worker, Cleaner,
     Destructor, Arrive, ListenerCall, ListenerLock, ListenerSkip,
     ListenerDiscard, ListenerSpawn, StartReceive, ListenerEmplace,
     ReceiveConvert, ReceiveCallback, Forward, WorkerFinish, CleanerLock,
     CleanerWake, CleanerSpuriousWake, CleanerReap, CleanerYield, DrainJoin,
     DrainEnd, DtorStop, DtorJoinCleaner, DtorLockData, DtorDetach,
     DtorDeleteReader, vars, receptionVars
<1> QED
  BY <1>2, <1>3, <1>4 DEF RestInv

LEMMA RestInvariance == Spec => []RestInv
<1>1. Init => RestInv
  BY CountStart DEF Init, ReceptionInit, RestInv, Reported
<1> QED
  BY <1>1, RestStep, Invariance, PTL DEF Spec

(* The guards leave out no step of a thread: where one moves, Runnable holds. *)
LEMMA MovesOnlyIfRunnable == Progress => Runnable
<1>1. Listener => ListenerCanMove
  BY DEF Listener, ListenerCall, ListenerLock, ListenerSkip, ListenerDiscard,
         ListenerSpawn, StartReceive, ListenerEmplace, ListenerCanMove
<1>2. Cleaner => CleanerCanMove
  BY DEF Cleaner, CleanerLock, CleanerWake, CleanerReap, CleanerYield,
         DrainJoin, DrainEnd, CleanerCanMove
<1>3. Destructor => DestructorCanMove
  BY DEF Destructor, DtorJoinCleaner, DtorLockData, DtorDetach,
         DtorDeleteReader, DestructorCanMove
<1>4. \A t \in Tids : Worker(t) => WorkerCanMove(t)
  BY DEF Worker, ReceiveConvert, ReceiveCallback, WorkerFinish, WorkerCanMove
<1> QED
  BY <1>1, <1>2, <1>3, <1>4 DEF Progress, Runnable

(* No thread of a living subscriber waits for ever: where no thread can move,
   all is done, or its end is reached, or the destructor is in one of its two
   lock cycles.
   Of DeadlockOnlyInDestructor that leaves to TLC only that the guards are exact. *)
THEOREM Stops ==
  Spec => [](/\ StuckOnlyWhere
             /\ DeadlockOnlyInDestructor <=> (Runnable <=> ENABLED Progress))
<1>1. IInv /\ RestInv => StuckOnlyWhere
  <2> SUFFICES ASSUME IInv, RestInv, ~Runnable, ~CleanerJoinCycle,
                      ~ListenerDeleteCycle
               PROVE  (teardown = "none" /\ Quiescent) \/ teardown = "destroyed"
    BY DEF StuckOnlyWhere
  <2>1. ReceptionInv /\ CountInv /\ ~ListenerCanMove /\ ~CleanerCanMove
    BY DEF IInv, RestInv, Runnable
  <2>2. \A t \in Tids :
          /\ worker[t] \in {"none", "finish", "terminated"}
          /\ worker[t] = "finish" => cleaner_mtx # "free"
    BY DEF IInv, TypeOK, SubscriberPhases, CommonPhases, Runnable, WorkerCanMove
  <2>3. ~(listener = "take" /\ data_mtx = "destructor")
    BY <2>1 DEF ReceptionInv, LockInv, Runnable, DestructorCanMove,
                ListenerDeleteCycle
  <2>4. CASE teardown = "none"
    <3>1. /\ signals = 0 /\ listener = "idle" /\ cleaner = "blocked"
          /\ \A t \in Tids : worker[t] \in {"none", "terminated"}
          /\ finished_threads = {}
      BY <2>1, <2>2, <2>3, <2>4, ReceptionStuck
    <3> QED
      BY <2>4, <3>1 DEF RestInv, Reported, Quiescent
  <2>5. CASE teardown # "none"
    <3>1. /\ cleaner = "exited" /\ listener = "idle"
          /\ data_mtx = "destructor" => teardown \in {"detaching", "detached"}
          /\ data_mtx \in {"free", "destructor"}
      BY <2>1, <2>2, <2>3, <2>5, ReceptionStuck
    <3> QED
      BY <2>5, <3>1
      DEF IInv, TypeOK, ReceptionTypeOK, RestInv, Runnable, DestructorCanMove
  <2> QED
    BY <2>4, <2>5
<1>2. StuckOnlyWhere => (DeadlockOnlyInDestructor <=> (Runnable <=> ENABLED Progress))
  BY DEF DeadlockOnlyInDestructor
<1> QED
  BY <1>1, <1>2, Invariance, RestInvariance, PTL

-----------------------------------------------------------------------------
(* The subscriber implements the relay. *)

(* A step that changes no reader, thread or forwarded sample is a stutter. *)
LEMMA RelayStutter ==
  ASSUME UNCHANGED <<arrived, unread, worker, sample, forwarded>>
  PROVE  UNCHANGED R!vars
BY DEF R!vars, Carried

(* A sample that is handed over, or given up, leaves what is carried: no other
   thread carries it. *)
LEMMA CarriedLeaves ==
  ASSUME TypeOK, ReceptionInv,
         NEW t \in Tids, worker[t] \in {"started", "callback"},
         worker' = [worker EXCEPT ![t] = "finish"], UNCHANGED sample
  PROVE  Carried' = Carried \ {sample[t]} /\ sample[t] \in Carried \cap Samples
<1>1. sample[t] \in Samples /\ sample[t] # NoSample
  BY DEF ReceptionInv, BufferInv
<1>2. ASSUME NEW u \in Tids \ {t} PROVE sample[u] # sample[t]
  BY <1>1, <1>2 DEF ReceptionInv, OnceInv
<1>3. \A u \in Tids : worker'[u] = IF u = t THEN "finish" ELSE worker[u]
  BY DEF TypeOK
<1>4. Carried' = Carried \ {sample[t]}
  BY <1>2, <1>3 DEF Carried
<1> QED
  BY <1>1, <1>4 DEF Carried

(* Every step of the subscriber is a step of the relay or a stutter. *)
LEMMA RelayStep == IInv /\ [Next]_vars => [R!Next]_R!vars
<1> SUFFICES ASSUME IInv, [Next]_vars PROVE [R!Next]_R!vars
  OBVIOUS
<1> USE DEF IInv, readerVars, listenerVars, workerVars, poolVars, mutexVars
<1>typed. worker \in [Tids -> SubscriberPhases] /\ unread \in Samples \cup {NoSample}
  BY DEF TypeOK, ReceptionTypeOK
<1>1. CASE UNCHANGED <<arrived, unread, worker, sample, forwarded>>
  BY <1>1, RelayStutter
<1>2. CASE \E s \in Samples : Arrive(s) /\ UNCHANGED <<message, forwarded>>
  <2> PICK s \in Samples : Arrive(s) /\ UNCHANGED <<message, forwarded>>
    BY <1>2
  <2>1. R!Receive(s)
    BY DEF Arrive, R!Receive, Carried
  <2> QED
    BY <2>1 DEF R!Next
<1>3. CASE ListenerDiscard /\ UNCHANGED <<message, forwarded>>
  <2>1. R!Take
    BY <1>3 DEF ListenerDiscard, R!Take, Carried
  <2> QED
    BY <2>1 DEF R!Next
<1>4. CASE \E t \in Tids : ListenerSpawn(t) /\ UNCHANGED <<message, forwarded>>
  <2> PICK t \in Tids : ListenerSpawn(t) /\ UNCHANGED <<message, forwarded>>
    BY <1>4
  <2>1. /\ unread \in Samples /\ unread' = NoSample /\ worker[t] = "none"
        /\ worker' = [worker EXCEPT ![t] = "started"]
        /\ sample' = [sample EXCEPT ![t] = unread]
        /\ UNCHANGED <<arrived, forwarded>>
    BY DEF ListenerSpawn, StartReceive
  <2>2. sample \in [Tids -> Samples \cup {NoSample}]
    BY DEF TypeOK, ReceptionTypeOK
  <2>3. \A u \in Tids :
          /\ worker'[u] = IF u = t THEN "started" ELSE worker[u]
          /\ sample'[u] = IF u = t THEN unread ELSE sample[u]
    BY <1>typed, <2>1, <2>2
  <2>4. Carried' = Carried \cup {unread}
    BY <2>1, <2>3 DEF Carried
  <2>5. R!Take
    BY <2>1, <2>4, NullsDistinct DEF R!Take
  <2> QED
    BY <2>5 DEF R!Next
<1>5. CASE \E t \in Tids : ReceiveConvert(t)
  <2> PICK t \in Tids : ReceiveConvert(t)
    BY <1>5
  <2>1. worker[t] = "started" /\ UNCHANGED <<arrived, unread, sample, forwarded>>
    BY DEF ReceiveConvert
  <2>2. CASE worker' = [worker EXCEPT ![t] = "callback"]
    <3>1. Carried' = Carried
      BY <1>typed, <2>1, <2>2 DEF Carried
    <3> QED
      BY <2>1, <3>1 DEF R!vars
  <2>3. CASE worker' = [worker EXCEPT ![t] = "finish"]
    <3>1. Carried' = Carried \ {sample[t]} /\ sample[t] \in Carried \cap Samples
      BY <2>1, <2>3, CarriedLeaves
    <3>2. R!Drop(sample[t])
      BY <2>1, <3>1 DEF R!Drop
    <3> QED
      BY <3>1, <3>2 DEF R!Next
  <2> QED
    BY <2>2, <2>3 DEF ReceiveConvert
<1>6. CASE \E t \in Tids : ReceiveCallback(t)
  <2> PICK t \in Tids : ReceiveCallback(t)
    BY <1>6
  <2>1. /\ worker[t] = "callback" /\ worker' = [worker EXCEPT ![t] = "finish"]
        /\ forwarded' = forwarded \cup {message[t]}
        /\ UNCHANGED <<arrived, unread, sample>>
    BY DEF ReceiveCallback, Forward
  <2>2. message[t] = sample[t] /\ sample[t] \notin forwarded
    BY <2>1 DEF MessageInv, ForwardedInv
  <2>3. Carried' = Carried \ {sample[t]} /\ sample[t] \in Carried \cap Samples
    BY <2>1, CarriedLeaves
  <2>4. R!Deliver(sample[t])
    BY <2>1, <2>2, <2>3 DEF R!Deliver
  <2> QED
    BY <2>3, <2>4 DEF R!Next
<1>7. CASE \E t \in Tids : WorkerFinish(t) /\ UNCHANGED <<message, forwarded>>
  <2> PICK t \in Tids : WorkerFinish(t) /\ UNCHANGED <<message, forwarded>>
    BY <1>7
  <2>1. /\ worker[t] = "finish" /\ worker' = [worker EXCEPT ![t] = "terminated"]
        /\ sample' = [sample EXCEPT ![t] = NoSample]
        /\ UNCHANGED <<arrived, unread, forwarded>>
    BY DEF WorkerFinish
  <2>2. sample \in [Tids -> Samples \cup {NoSample}]
    BY DEF TypeOK, ReceptionTypeOK
  <2>3. \A u \in Tids :
          /\ worker'[u] = IF u = t THEN "terminated" ELSE worker[u]
          /\ sample'[u] = IF u = t THEN NoSample ELSE sample[u]
    BY <1>typed, <2>1, <2>2
  <2>4. Carried' = Carried
    BY <2>1, <2>3 DEF Carried
  <2> QED
    BY <2>1, <2>4 DEF R!vars
<1>8. CASE \E t \in Tids : (CleanerReap(t) \/ DrainJoin(t)) /\ UNCHANGED <<message, forwarded>>
  <2> PICK t \in Tids :
        (CleanerReap(t) \/ DrainJoin(t)) /\ UNCHANGED <<message, forwarded>>
    BY <1>8
  <2>1. /\ worker[t] = "terminated" /\ worker' = [worker EXCEPT ![t] = "none"]
        /\ UNCHANGED <<arrived, unread, sample, forwarded>>
    BY DEF CleanerReap, DrainJoin
  <2>2. Carried' = Carried
    BY <1>typed, <2>1 DEF Carried
  <2> QED
    BY <2>1, <2>2 DEF R!vars
<1> QED
  BY <1>1, <1>2, <1>3, <1>4, <1>5, <1>6, <1>7, <1>8, StepCases

(* The subscriber implements the relay: a sample that is taken is handed over
   once, as itself, or dropped. *)
THEOREM Implements == Spec => ImplementsRelay
<1>1. Init => R!Init
  BY DEF Init, ReceptionInit, R!Init, Carried
<1> QED
  BY <1>1, RelayStep, Invariance, PTL DEF Spec, ImplementsRelay, R!Spec

=============================================================================
