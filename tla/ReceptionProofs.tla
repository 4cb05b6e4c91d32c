---------------------------- MODULE ReceptionProofs ----------------------------
(***************************************************************************)
(* What Subscriber, Server and Client share is proved once: the invariant  *)
(* of the reception machinery, for any samples and threads, whatever       *)
(* `receive` does between its start and its end.                           *)
(***************************************************************************)
EXTENDS ReceptionThreads, FiniteSetTheorems, TLAPS

USE NullsDistinct, FixedThreads, DisposedAreSamples

(* All that `receive` may do to the machinery before it ends: pass from one
   phase to another, with data_mtx_ unlocked when it stops converting; or
   return without having reported itself. *)
PassesTo(t, next) ==
  /\ worker[t] \notin {"none", "finish", "terminated"}
  /\ worker' = [worker EXCEPT ![t] = next]
  /\ next \in Converting => worker[t] \in Converting
  /\ data_mtx' = IF worker[t] \in Converting /\ next \notin Converting
                 THEN "free" ELSE data_mtx
  /\ sample' = IF next = "terminated"
               THEN [sample EXCEPT ![t] = NoSample] ELSE sample
  /\ UNCHANGED <<readerVars, cleaner_mtx, dynamic_data, listenerVars, poolVars,
                 cleaner, teardown>>
ReceiveStep(t) ==
  \E next \in ReceivePhases \ {"none", "started"} : PassesTo(t, next)

(* All that a destructor may do to it after the cleaner's end, beside taking
   data_mtx_: unlock it, and delete the reader when no callback of it runs. *)
DeletionStep ==
  /\ teardown \notin {"none", "joining"}
  /\ teardown' \in {"reception", "detached", "destroyed"}
  /\ data_mtx' \in {data_mtx, "free"}
  /\ teardown' # "detached" => data_mtx' # "destructor"
  /\ teardown' = "destroyed" => listener = "idle"
  /\ UNCHANGED <<readerVars, cleaner_mtx, dynamic_data, listenerVars,
                 workerVars, poolVars, cleaner>>

ReceptionNext ==
  \/ \E s \in Samples : Arrive(s)
  \/ ListenerCall \/ ListenerLock \/ ListenerSkip \/ ListenerDiscard
  \/ ListenerEmplace
  \/ \E t \in Tids : ListenerSpawn(t) \/ ReceiveStep(t) \/ WorkerFinish(t)
  \/ CleanerLock \/ CleanerWake \/ CleanerSpuriousWake
  \/ CleanerYield \/ DrainEnd
  \/ \E t \in Tids : CleanerReap(t) \/ DrainJoin(t)
  \/ DtorStop \/ DtorJoinCleaner
  \/ \E from \in {"locking", "reception"} : DtorLockData(from)
  \/ DeletionStep

(* Every variable keeps its type. *)
LEMMA ReceptionTypeStep ==
  ReceptionType /\ [ReceptionNext]_receptionVars => ReceptionType'
<1> SUFFICES ASSUME ReceptionType, [ReceptionNext]_receptionVars
             PROVE  ReceptionType'
  OBVIOUS
<1> USE DEF ReceptionType, ReceptionTypeOK, ReceivePhases, CommonPhases,
     Converting, readerVars, listenerVars, workerVars, poolVars, mutexVars
<1>1. CASE UNCHANGED receptionVars
  BY <1>1 DEF receptionVars
<1>2. CASE \E s \in Samples : Arrive(s)
  BY <1>2 DEF Arrive
<1>3. CASE ListenerCall
  BY <1>3 DEF ListenerCall
<1>4. CASE ListenerLock
  BY <1>4 DEF ListenerLock
<1>5. CASE ListenerSkip
  BY <1>5 DEF ListenerSkip
<1>6. CASE ListenerDiscard
  BY <1>6 DEF ListenerDiscard
<1>7. CASE ListenerEmplace
  BY <1>7 DEF ListenerEmplace
<1>8. CASE \E t \in Tids : ListenerSpawn(t)
  BY <1>8 DEF ListenerSpawn, StartReceive
<1>9. CASE \E t \in Tids : ReceiveStep(t)
  BY <1>9 DEF ReceiveStep, PassesTo
<1>10. CASE \E t \in Tids : WorkerFinish(t)
  BY <1>10 DEF WorkerFinish, NotifyCleaner
<1>11. CASE CleanerLock
  BY <1>11 DEF CleanerLock
<1>12. CASE CleanerWake
  BY <1>12 DEF CleanerWake
<1>13. CASE CleanerSpuriousWake
  BY <1>13 DEF CleanerSpuriousWake
<1>14. CASE CleanerYield
  BY <1>14 DEF CleanerYield
<1>15. CASE DrainEnd
  BY <1>15 DEF DrainEnd
<1>16. CASE \E t \in Tids : CleanerReap(t)
  BY <1>16 DEF CleanerReap
<1>17. CASE \E t \in Tids : DrainJoin(t)
  BY <1>17 DEF DrainJoin
<1>18. CASE DtorStop
  BY <1>18 DEF DtorStop, NotifyCleaner
<1>19. CASE DtorJoinCleaner
  BY <1>19 DEF DtorJoinCleaner
<1>20. CASE \E from \in {"locking", "reception"} : DtorLockData(from)
  BY <1>20 DEF DtorLockData
<1>21. CASE DeletionStep
  BY <1>21 DEF DeletionStep
<1> HIDE DEF ReceptionType
<1> QED
  BY <1>1, <1>2, <1>3, <1>4, <1>5, <1>6, <1>7, <1>8, <1>9, <1>10, <1>11,
     <1>12, <1>13, <1>14, <1>15, <1>16, <1>17, <1>18, <1>19, <1>20, <1>21
  DEF ReceptionNext, receptionVars

(* The mutexes are owned by whoever is between their lock and unlock. *)
LEMMA LockStep ==
  ReceptionType /\ LockInv /\ ShutdownInv /\ [ReceptionNext]_receptionVars =>
    LockInv'
<1> SUFFICES ASSUME ReceptionType, LockInv, ShutdownInv,
                    [ReceptionNext]_receptionVars
             PROVE  LockInv'
  OBVIOUS
<1> USE DEF ReceptionType, ReceptionTypeOK, ReceivePhases, CommonPhases,
     Converting, LockInv, ShutdownInv, readerVars, listenerVars, workerVars,
     poolVars, mutexVars
<1>1. CASE UNCHANGED <<cleaner_mtx, data_mtx, listener, cleaner, teardown,
                       worker>>
  BY <1>1
<1>2. CASE ListenerCall
  BY <1>2 DEF ListenerCall
<1>3. CASE ListenerLock
  BY <1>3 DEF ListenerLock
<1>4. CASE ListenerSkip
  BY <1>4 DEF ListenerSkip
<1>5. CASE ListenerDiscard
  BY <1>5 DEF ListenerDiscard
<1>6. CASE ListenerEmplace
  BY <1>6 DEF ListenerEmplace
<1>7. CASE \E t \in Tids : ListenerSpawn(t)
  BY <1>7 DEF ListenerSpawn, StartReceive
<1>8. CASE \E t \in Tids : ReceiveStep(t)
  BY <1>8 DEF ReceiveStep, PassesTo
<1>9. CASE \E t \in Tids : WorkerFinish(t)
  BY <1>9 DEF WorkerFinish, NotifyCleaner
<1>10. CASE CleanerLock
  BY <1>10 DEF CleanerLock
<1>11. CASE CleanerWake
  BY <1>11 DEF CleanerWake
<1>12. CASE CleanerSpuriousWake
  BY <1>12 DEF CleanerSpuriousWake
<1>13. CASE CleanerYield
  BY <1>13 DEF CleanerYield
<1>14. CASE DrainEnd
  BY <1>14 DEF DrainEnd
<1>15. CASE \E t \in Tids : CleanerReap(t)
  BY <1>15 DEF CleanerReap
<1>16. CASE \E t \in Tids : DrainJoin(t)
  BY <1>16 DEF DrainJoin
<1>17. CASE DtorStop
  BY <1>17 DEF DtorStop, NotifyCleaner
<1>18. CASE DtorJoinCleaner
  BY <1>18 DEF DtorJoinCleaner
<1>19. CASE \E from \in {"locking", "reception"} : DtorLockData(from)
  BY <1>19 DEF DtorLockData
<1>20. CASE DeletionStep
  BY <1>20 DEF DeletionStep
<1> HIDE DEF ReceptionType, LockInv, ShutdownInv
<1> QED
  BY <1>1, <1>2, <1>3, <1>4, <1>5, <1>6, <1>7, <1>8, <1>9, <1>10, <1>11,
     <1>12, <1>13, <1>14, <1>15, <1>16, <1>17, <1>18, <1>19, <1>20
  DEF ReceptionNext, receptionVars, Arrive

(* The buffer is not overwritten before its thread has converted it. *)
LEMMA BufferStep ==
  ReceptionType /\ LockInv /\ BufferInv /\ [ReceptionNext]_receptionVars =>
    BufferInv'
<1> SUFFICES ASSUME ReceptionType, LockInv, BufferInv,
                    [ReceptionNext]_receptionVars
             PROVE  BufferInv'
  OBVIOUS
<1> USE DEF ReceptionType, ReceptionTypeOK, ReceivePhases, CommonPhases,
     Converting, LockInv, BufferInv, readerVars, listenerVars, workerVars,
     poolVars, mutexVars
<1>1. CASE UNCHANGED <<worker, sample, dynamic_data>>
  BY <1>1
<1>2. CASE ListenerDiscard
  BY <1>2 DEF ListenerDiscard
<1>3. CASE \E t \in Tids : ListenerSpawn(t)
  BY <1>3 DEF ListenerSpawn, StartReceive
<1>4. CASE \E t \in Tids : ReceiveStep(t)
  BY <1>4 DEF ReceiveStep, PassesTo
<1>5. CASE \E t \in Tids : WorkerFinish(t)
  BY <1>5 DEF WorkerFinish, NotifyCleaner
<1>6. CASE \E t \in Tids : CleanerReap(t)
  BY <1>6 DEF CleanerReap
<1>7. CASE \E t \in Tids : DrainJoin(t)
  BY <1>7 DEF DrainJoin
<1>8. CASE \E from \in {"locking", "reception"} : DtorLockData(from)
  BY <1>8 DEF DtorLockData
<1> HIDE DEF ReceptionType, LockInv, BufferInv
<1> QED
  BY <1>1, <1>2, <1>3, <1>4, <1>5, <1>6, <1>7, <1>8
  DEF ReceptionNext, receptionVars, Arrive, ListenerCall, ListenerLock,
     ListenerSkip, ListenerEmplace, CleanerLock, CleanerWake,
     CleanerSpuriousWake, CleanerYield, DrainEnd, DtorStop, DtorJoinCleaner,
     DeletionStep, NotifyCleaner

(* No thread escapes the cleaner. *)
LEMMA PoolStep ==
  ReceptionType /\ LockInv /\ PoolInv /\ ShutdownInv /\ [ReceptionNext]_receptionVars =>
    PoolInv'
<1> SUFFICES ASSUME ReceptionType, LockInv, PoolInv, ShutdownInv,
                    [ReceptionNext]_receptionVars
             PROVE  PoolInv'
  OBVIOUS
<1> USE DEF ReceptionType, ReceptionTypeOK, ReceivePhases, CommonPhases,
     Converting, LockInv, PoolInv, ShutdownInv, readerVars, listenerVars,
     workerVars, poolVars, mutexVars
<1>1. CASE UNCHANGED <<worker, listener, thread, cleaner, reception_threads,
                       finished_threads>>
  BY <1>1
<1>2. CASE ListenerCall
  BY <1>2 DEF ListenerCall
<1>3. CASE ListenerLock
  BY <1>3 DEF ListenerLock
<1>4. CASE ListenerSkip
  BY <1>4 DEF ListenerSkip
<1>5. CASE ListenerDiscard
  BY <1>5 DEF ListenerDiscard
<1>6. CASE ListenerEmplace
  <2>1. thread \in Tids /\ worker[thread] # "none"
    BY <1>6 DEF ListenerEmplace
  <2>2. UNCHANGED <<worker, finished_threads, cleaner>>
    BY <1>6 DEF ListenerEmplace
  <2>3. reception_threads' = reception_threads \cup {thread}
    BY <1>6 DEF ListenerEmplace
  <2> QED
    BY <1>6, <2>1, <2>2, <2>3 DEF ListenerEmplace
<1>7. CASE \E t \in Tids : ListenerSpawn(t)
  BY <1>7 DEF ListenerSpawn, StartReceive
<1>8. CASE \E t \in Tids : ReceiveStep(t)
  BY <1>8 DEF ReceiveStep, PassesTo
<1>9. CASE \E t \in Tids : WorkerFinish(t)
  BY <1>9 DEF WorkerFinish, NotifyCleaner
<1>10. CASE CleanerLock
  BY <1>10 DEF CleanerLock
<1>11. CASE CleanerWake
  BY <1>11 DEF CleanerWake
<1>12. CASE CleanerSpuriousWake
  BY <1>12 DEF CleanerSpuriousWake
<1>13. CASE CleanerYield
  BY <1>13 DEF CleanerYield
<1>14. CASE DrainEnd
  BY <1>14 DEF DrainEnd
<1>15. CASE \E t \in Tids : CleanerReap(t)
  BY <1>15 DEF CleanerReap
<1>16. CASE \E t \in Tids : DrainJoin(t)
  BY <1>16 DEF DrainJoin
<1>17. CASE DtorStop
  BY <1>17 DEF DtorStop, NotifyCleaner
<1> HIDE DEF ReceptionType, LockInv, PoolInv, ShutdownInv
<1> QED
  BY <1>1, <1>2, <1>3, <1>4, <1>5, <1>6, <1>7, <1>8, <1>9, <1>10, <1>11,
     <1>12, <1>13, <1>14, <1>15, <1>16, <1>17
  DEF ReceptionNext, receptionVars, Arrive, DtorJoinCleaner, DtorLockData,
     DeletionStep

(* Nothing starts after the stop, and the cleaner leaves last. *)
LEMMA ShutdownStep ==
  ReceptionType /\ LockInv /\ PoolInv /\ ShutdownInv /\ [ReceptionNext]_receptionVars =>
    ShutdownInv'
<1> SUFFICES ASSUME ReceptionType, LockInv, PoolInv, ShutdownInv,
                    [ReceptionNext]_receptionVars
             PROVE  ShutdownInv'
  OBVIOUS
<1> USE DEF ReceptionType, ReceptionTypeOK, ReceivePhases, CommonPhases,
     Converting, LockInv, PoolInv, ShutdownInv, readerVars, listenerVars,
     workerVars, poolVars, mutexVars
<1>1. CASE UNCHANGED <<worker, listener, cleaner, stop_cleaner, teardown>>
  BY <1>1
<1>2. CASE ListenerCall
  BY <1>2 DEF ListenerCall
<1>3. CASE ListenerLock
  BY <1>3 DEF ListenerLock
<1>4. CASE ListenerSkip
  BY <1>4 DEF ListenerSkip
<1>5. CASE ListenerDiscard
  BY <1>5 DEF ListenerDiscard
<1>6. CASE ListenerEmplace
  BY <1>6 DEF ListenerEmplace
<1>7. CASE \E t \in Tids : ListenerSpawn(t)
  BY <1>7 DEF ListenerSpawn, StartReceive
<1>8. CASE \E t \in Tids : ReceiveStep(t)
  BY <1>8 DEF ReceiveStep, PassesTo
<1>9. CASE \E t \in Tids : WorkerFinish(t)
  BY <1>9 DEF WorkerFinish, NotifyCleaner
<1>10. CASE CleanerLock
  BY <1>10 DEF CleanerLock
<1>11. CASE CleanerWake
  BY <1>11 DEF CleanerWake
<1>12. CASE CleanerSpuriousWake
  BY <1>12 DEF CleanerSpuriousWake
<1>13. CASE CleanerYield
  BY <1>13 DEF CleanerYield
<1>14. CASE DrainEnd
  BY <1>14 DEF DrainEnd
<1>15. CASE \E t \in Tids : CleanerReap(t)
  BY <1>15 DEF CleanerReap
<1>16. CASE \E t \in Tids : DrainJoin(t)
  BY <1>16 DEF DrainJoin
<1>17. CASE DtorStop
  BY <1>17 DEF DtorStop, NotifyCleaner
<1>18. CASE DtorJoinCleaner
  BY <1>18 DEF DtorJoinCleaner
<1>19. CASE \E from \in {"locking", "reception"} : DtorLockData(from)
  BY <1>19 DEF DtorLockData
<1>20. CASE DeletionStep
  BY <1>20 DEF DeletionStep
<1> HIDE DEF ReceptionType, LockInv, PoolInv, ShutdownInv
<1> QED
  BY <1>1, <1>2, <1>3, <1>4, <1>5, <1>6, <1>7, <1>8, <1>9, <1>10, <1>11,
     <1>12, <1>13, <1>14, <1>15, <1>16, <1>17, <1>18, <1>19, <1>20
  DEF ReceptionNext, receptionVars, Arrive

(* No wakeup is lost. *)
LEMMA WakeStep ==
  ReceptionType /\ ShutdownInv /\ WakeInv /\ [ReceptionNext]_receptionVars => WakeInv'
<1> SUFFICES ASSUME ReceptionType, ShutdownInv, WakeInv,
                    [ReceptionNext]_receptionVars
             PROVE  WakeInv'
  OBVIOUS
<1> USE DEF WakeInv, readerVars, listenerVars, workerVars, poolVars, mutexVars
<1>1. CASE UNCHANGED <<cleaner, stop_cleaner, finished_threads>>
  BY <1>1
<1>2. CASE \E t \in Tids : WorkerFinish(t)
  BY <1>2 DEF WorkerFinish, NotifyCleaner
<1>3. CASE DtorStop
  BY <1>3 DEF DtorStop, NotifyCleaner
<1>4. CASE CleanerLock \/ CleanerWake
  BY <1>4 DEF CleanerLock, CleanerWake
<1>5. CASE CleanerSpuriousWake \/ CleanerYield \/ DrainEnd
  BY <1>5 DEF CleanerSpuriousWake, CleanerYield, DrainEnd
<1>6. CASE \E t \in Tids : CleanerReap(t) \/ DrainJoin(t)
  BY <1>6 DEF CleanerReap, DrainJoin
<1> HIDE DEF WakeInv
<1> QED
  BY <1>1, <1>2, <1>3, <1>4, <1>5, <1>6
  DEF ReceptionNext, receptionVars, Arrive, ListenerCall, ListenerLock,
     ListenerSkip, ListenerDiscard, ListenerEmplace, ListenerSpawn,
     StartReceive, ReceiveStep, PassesTo, DtorJoinCleaner, DtorLockData,
     DeletionStep

(* A sample is never in two places. *)
LEMMA OnceStep ==
  ReceptionType /\ BufferInv /\ OnceInv /\ [ReceptionNext]_receptionVars =>
    OnceInv'
<1> SUFFICES ASSUME ReceptionType, BufferInv, OnceInv,
                    [ReceptionNext]_receptionVars
             PROVE  OnceInv'
  OBVIOUS
<1> USE DEF ReceptionType, ReceptionTypeOK, ReceivePhases, CommonPhases,
     Converting, BufferInv, OnceInv, readerVars, listenerVars, workerVars,
     poolVars, mutexVars
<1>1. CASE UNCHANGED <<sample, unread, arrived>>
  BY <1>1
<1>2. CASE \E s \in Samples : Arrive(s)
  BY <1>2 DEF Arrive
<1>3. CASE ListenerDiscard
  BY <1>3 DEF ListenerDiscard
<1>4. CASE \E t \in Tids : ListenerSpawn(t)
  BY <1>4 DEF ListenerSpawn, StartReceive
<1>5. CASE \E t \in Tids : ReceiveStep(t)
  BY <1>5 DEF ReceiveStep, PassesTo
<1>6. CASE \E t \in Tids : WorkerFinish(t)
  BY <1>6 DEF WorkerFinish, NotifyCleaner
<1> HIDE DEF ReceptionType, BufferInv, OnceInv
<1> QED
  BY <1>1, <1>2, <1>3, <1>4, <1>5, <1>6
  DEF ReceptionNext, receptionVars, ListenerCall, ListenerLock, ListenerSkip,
     ListenerEmplace, CleanerLock, CleanerWake, CleanerSpuriousWake,
     CleanerYield, DrainEnd, CleanerReap, DrainJoin, DtorStop,
     DtorJoinCleaner, DtorLockData, DeletionStep, NotifyCleaner

-----------------------------------------------------------------------------
(* The invariant holds at the start and is preserved by every step. *)
LEMMA ReceptionStart ==
  ReceptionInit => ReceptionInv
<1> SUFFICES ASSUME ReceptionInit PROVE ReceptionInv
  OBVIOUS
<1> USE DEF ReceptionInit
<1>1. ReceptionType
  BY DEF ReceptionType, ReceptionTypeOK, ReceivePhases, CommonPhases
<1>2. LockInv
  BY DEF LockInv, Converting
<1>3. BufferInv /\ PoolInv /\ ShutdownInv /\ WakeInv /\ OnceInv
  BY DEF BufferInv, PoolInv, ShutdownInv, WakeInv, OnceInv, Converting
<1> QED
  BY <1>1, <1>2, <1>3 DEF ReceptionInv

LEMMA ReceptionInductive ==
  ReceptionInv /\ [ReceptionNext]_receptionVars => ReceptionInv'
BY ReceptionTypeStep, LockStep, BufferStep, PoolStep, ShutdownStep, WakeStep,
   OnceStep
   DEF ReceptionInv

-----------------------------------------------------------------------------
(* There is a thread for every live sample. *)

(* All the sets that are counted are finite. *)
LEMMA Counted ==
  ASSUME ReceptionType
  PROVE  /\ IsFiniteSet(Busy) /\ IsFiniteSet(arrived \cap Live)
         /\ Cardinality(Busy) \in Nat /\ Cardinality(arrived \cap Live) \in Nat
         /\ Cardinality({unread} \cap Live) = IF unread \in Live THEN 1 ELSE 0
<1>1. Busy \in SUBSET Tids /\ arrived \cap Live \in SUBSET Samples
  BY DEF Busy, Live
<1>2. IsFiniteSet(Busy) /\ IsFiniteSet(arrived \cap Live)
  BY <1>1, EnoughThreads, FS_Subset
<1>3. {unread} \cap Live = IF unread \in Live THEN {unread} ELSE {}
  OBVIOUS
<1> QED
  BY <1>2, <1>3, FS_CardinalityType, FS_Singleton, FS_EmptySet

(* A thread that is started raises the count by one; one that was joined does
   not raise it. *)
LEMMA BusyStep ==
  ASSUME ReceptionType, NEW t \in Tids, NEW next,
         worker' = [worker EXCEPT ![t] = next]
  PROVE  Busy' = IF next = "none" THEN Busy \ {t} ELSE Busy \cup {t}
<1>1. \A u \in Tids : worker'[u] = IF u = t THEN next ELSE worker[u]
  BY DEF ReceptionType
<1> QED
  BY <1>1 DEF Busy

(* Only the arrival of a live sample lets there be one thread more. *)
LEMMA CountStep ==
  ReceptionInv /\ CountInv /\ [ReceptionNext]_receptionVars => CountInv'
<1> SUFFICES ASSUME ReceptionInv, CountInv, [ReceptionNext]_receptionVars
             PROVE  CountInv'
  OBVIOUS
<1>type. ReceptionType /\ ReceptionType'
  BY ReceptionInductive DEF ReceptionInv
<1>sum. Cardinality(Busy) + (IF unread \in Live THEN 1 ELSE 0)
          <= Cardinality(arrived \cap Live)
  BY <1>type, Counted DEF CountInv
<1>counted. /\ IsFiniteSet(Busy) /\ IsFiniteSet(arrived \cap Live)
            /\ Cardinality(Busy) \in Nat /\ Cardinality(arrived \cap Live) \in Nat
  BY <1>type, Counted
<1>goal. SUFFICES Cardinality(Busy') + (IF unread' \in Live THEN 1 ELSE 0)
                    <= Cardinality(arrived' \cap Live)
  <2>1. Cardinality({unread'} \cap Live) = IF unread' \in Live THEN 1 ELSE 0
    <3>1. {unread'} \cap Live = IF unread' \in Live THEN {unread'} ELSE {}
      OBVIOUS
    <3> QED
      BY <3>1, FS_Singleton, FS_EmptySet
  <2> QED
    BY <2>1 DEF CountInv, Live
<1> USE DEF readerVars, listenerVars, workerVars, poolVars, mutexVars
<1>1. CASE UNCHANGED <<arrived, unread, worker>>
  BY <1>1, <1>sum DEF Busy
<1>2. CASE \E s \in Samples : Arrive(s)
  <2> PICK s \in Samples : Arrive(s)
    BY <1>2
  <2>1. s \notin arrived /\ arrived' = arrived \cup {s} /\ unread' = s /\ Busy' = Busy
    BY DEF Arrive, Busy
  <2>2. CASE s \in Live
    <3>1. arrived' \cap Live = (arrived \cap Live) \cup {s}
      BY <2>1, <2>2
    <3>2. Cardinality(arrived' \cap Live) = Cardinality(arrived \cap Live) + 1
      BY <2>1, <3>1, <1>counted, FS_AddElement
    <3> QED
      BY <2>1, <2>2, <3>2, <1>counted, <1>sum
  <2>3. CASE s \notin Live
    <3>1. arrived' \cap Live = arrived \cap Live
      BY <2>1, <2>3
    <3> QED
      BY <2>1, <2>3, <3>1, <1>counted, <1>sum
  <2> QED
    BY <2>2, <2>3
<1>3. CASE ListenerDiscard
  <2>1. unread' \notin Live /\ UNCHANGED <<arrived, worker>>
    BY <1>3 DEF ListenerDiscard, Live
  <2> QED
    BY <2>1, <1>counted, <1>sum DEF Busy
<1>4. CASE \E t \in Tids : ListenerSpawn(t)
  <2> PICK t \in Tids : ListenerSpawn(t)
    BY <1>4
  <2>1. /\ unread \in Live /\ unread' = NoSample /\ UNCHANGED arrived
        /\ worker[t] = "none" /\ worker' = [worker EXCEPT ![t] = "started"]
    BY DEF ListenerSpawn, StartReceive, Live
  <2>2. t \notin Busy
    BY <2>1 DEF Busy
  <2>3. Cardinality(Busy') = Cardinality(Busy) + 1
    <3>1. worker' = [worker EXCEPT ![t] = "started"] /\ "started" # "none"
      BY <2>1
    <3>2. Busy' = Busy \cup {t}
      BY <1>type, <3>1, BusyStep
    <3> QED
      BY <2>2, <3>2, <1>counted, FS_AddElement
  <2>4. unread' \notin Live
    BY <2>1 DEF Live
  <2> QED
    BY <2>1, <2>3, <2>4, <1>counted, <1>sum
<1>5. CASE \E t \in Tids : ReceiveStep(t) \/ WorkerFinish(t)
  <2> PICK t \in Tids : ReceiveStep(t) \/ WorkerFinish(t)
    BY <1>5
  <2>1. PICK next \in ReceivePhases \ {"none"} :
          /\ worker[t] # "none" /\ worker' = [worker EXCEPT ![t] = next]
          /\ UNCHANGED <<arrived, unread>>
    BY DEF ReceiveStep, PassesTo, WorkerFinish, ReceivePhases, CommonPhases
  <2>2. Busy' = Busy
    BY <1>type, <2>1, BusyStep DEF Busy
  <2> QED
    BY <2>1, <2>2, <1>sum
<1>6. CASE \E t \in Tids : CleanerReap(t) \/ DrainJoin(t)
  <2> PICK t \in Tids : CleanerReap(t) \/ DrainJoin(t)
    BY <1>6
  <2>1. worker' = [worker EXCEPT ![t] = "none"] /\ UNCHANGED <<arrived, unread>>
    BY DEF CleanerReap, DrainJoin
  <2>2. Busy' = Busy \ {t}
    BY <1>type, <2>1, BusyStep
  <2>3. Cardinality(Busy') \in Nat /\ Cardinality(Busy') <= Cardinality(Busy)
    <3>1. Busy' \in SUBSET Busy
      BY <2>2
    <3>2. IsFiniteSet(Busy') /\ Cardinality(Busy') <= Cardinality(Busy)
      BY <3>1, <1>counted, FS_Subset
    <3> QED
      BY <3>2, FS_CardinalityType
  <2> QED
    BY <2>1, <2>3, <1>counted, <1>sum
<1> QED
  BY <1>1, <1>2, <1>3, <1>4, <1>5, <1>6
  DEF ReceptionNext, receptionVars, ListenerCall, ListenerLock, ListenerSkip,
     ListenerEmplace, CleanerLock, CleanerWake, CleanerSpuriousWake,
     CleanerYield, DrainEnd, DtorStop, DtorJoinCleaner, DtorLockData,
     DeletionStep, NotifyCleaner

LEMMA CountStart == ReceptionInit => CountInv
<1> SUFFICES ASSUME ReceptionInit PROVE CountInv
  OBVIOUS
<1>1. Busy = {} /\ {unread} \cap Live = {} /\ arrived \cap Live = {}
  BY DEF ReceptionInit, Busy, Live
<1> QED
  BY <1>1, FS_EmptySet DEF CountInv

(* So a live sample that waits to be taken finds a thread. *)
LEMMA ThreadFree ==
  ASSUME ReceptionInv, CountInv, unread \in Live
  PROVE  \E t \in Tids : worker[t] = "none"
<1>1. Busy # Tids
  <2>1. /\ Cardinality(Busy) + 1 <= Cardinality(arrived \cap Live)
        /\ Cardinality(Busy) \in Nat /\ Cardinality(arrived \cap Live) \in Nat
    BY Counted DEF ReceptionInv, CountInv
  <2>2. IsFiniteSet(Live) /\ Cardinality(arrived \cap Live) <= Cardinality(Live)
    BY EnoughThreads, FS_Subset DEF Live
  <2>3. Cardinality(Live) <= Cardinality(Tids)
    BY EnoughThreads DEF Live
  <2>4. Cardinality(Live) \in Nat /\ Cardinality(Tids) \in Nat
    BY <2>2, EnoughThreads, FS_CardinalityType
  <2> QED
    BY <2>1, <2>2, <2>3, <2>4
<1> QED
  BY <1>1 DEF Busy

(* Where a thread of `receive` terminates by reporting itself only, what is not
   joined is reported. *)
LEMMA ReportedStep ==
  ASSUME ReceptionType, Reported, [ReceptionNext]_receptionVars,
         \A t \in Tids : worker'[t] = "terminated" =>
           worker[t] \in {"finish", "terminated"}
  PROVE  Reported'
<1> USE DEF ReceptionType, Reported, readerVars, listenerVars, workerVars,
            poolVars, mutexVars
<1>1. CASE UNCHANGED <<worker, finished_threads>>
  BY <1>1
<1>2. CASE \E t \in Tids : ListenerSpawn(t)
  BY <1>2 DEF ListenerSpawn, StartReceive
<1>3. CASE \E t \in Tids : ReceiveStep(t)
  BY <1>3 DEF ReceiveStep, PassesTo
<1>4. CASE \E t \in Tids : WorkerFinish(t)
  BY <1>4 DEF WorkerFinish
<1>5. CASE \E t \in Tids : CleanerReap(t) \/ DrainJoin(t)
  BY <1>5 DEF CleanerReap, DrainJoin
<1> HIDE DEF Reported
<1> QED
  BY <1>1, <1>2, <1>3, <1>4, <1>5
  DEF ReceptionNext, receptionVars, Arrive, ListenerCall, ListenerLock,
     ListenerSkip, ListenerDiscard, ListenerEmplace, CleanerLock, CleanerWake,
     CleanerSpuriousWake, CleanerYield, DrainEnd, DtorStop, DtorJoinCleaner,
     DtorLockData, DeletionStep, NotifyCleaner

-----------------------------------------------------------------------------
(* Where the machinery can be when none of its threads can take a step: the
   middleware waits for data_mtx_ which the destructor holds, or the cleaner
   joins a thread that waits for it, or all there was to do is done, or the
   cleaner is gone and the rest is the destructor's. *)
LEMMA ReceptionStuck ==
  ASSUME ReceptionInv, CountInv, ~ListenerCanMove, ~CleanerCanMove,
         \A t \in Tids : worker[t] \in {"none", "finish", "terminated"},
         \A t \in Tids : worker[t] = "finish" => cleaner_mtx # "free"
  PROVE  \/ /\ listener = "take" /\ data_mtx = "destructor"
            /\ teardown \in {"detaching", "detached"}
         \/ CleanerJoinCycle
         \/ /\ teardown = "none"
            /\ signals = 0 /\ listener = "idle" /\ cleaner = "blocked"
            /\ \A t \in Tids : worker[t] \in {"none", "terminated"}
            /\ finished_threads = {}
         \/ /\ teardown # "none" /\ cleaner = "exited" /\ listener = "idle"
            /\ data_mtx = "destructor" => teardown \in {"detaching", "detached"}
            /\ data_mtx \in {"free", "destructor"}
<1> USE DEF ReceptionInv, ReceptionType, ReceptionTypeOK, LockInv, ShutdownInv
<1>1. data_mtx \in {"free", "destructor"}
  BY DEF Converting
<1>2. CASE listener = "take"
  <2>1. data_mtx # "free"
    <3>1. CASE unread \in Live
      BY <1>2, <3>1, ThreadFree DEF ListenerCanMove
    <3>2. CASE unread \notin Live
      BY <1>2, <3>2 DEF ListenerCanMove, Live
    <3> QED
      BY <3>1, <3>2
  <2> QED
    BY <1>1, <1>2, <2>1
<1>3. CASE cleaner = "drain"
  BY <1>3 DEF CleanerCanMove, CleanerJoinCycle
<1>4. CASE listener # "take" /\ cleaner # "drain"
  <2>1. listener \in {"idle", "enter"}
    BY <1>4 DEF ListenerCanMove
  <2>2. cleaner # "scan"
    BY DEF CleanerCanMove, PoolInv
  <2>3. cleaner_mtx = "free"
    BY <1>4, <2>1, <2>2
  <2>4. listener = "idle" /\ cleaner \in {"blocked", "exited"}
    BY <1>4, <2>1, <2>2, <2>3 DEF ListenerCanMove, CleanerCanMove
  <2>5. CASE cleaner = "blocked"
    <3>1. teardown = "none" /\ finished_threads = {}
      BY <2>5 DEF WakeInv
    <3>2. signals = 0
      BY <2>4, <3>1 DEF ListenerCanMove
    <3> QED
      BY <2>3, <2>4, <2>5, <3>1, <3>2
  <2>6. CASE cleaner = "exited"
    BY <1>1, <2>4, <2>6
  <2> QED
    BY <2>4, <2>5, <2>6
<1> QED
  BY <1>2, <1>3, <1>4

=============================================================================
