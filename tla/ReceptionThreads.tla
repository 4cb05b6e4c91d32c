--------------------------- MODULE ReceptionThreads ---------------------------
(***************************************************************************)
(* The reception machinery that Subscriber, Server and Client repeat line  *)
(* for line: a middleware listener thread takes one sample into the shared *)
(* dynamic_data_ buffer and hands data_mtx_ over to a new thread running   *)
(* `receive`; that thread ends by registering itself in finished_threads_; *)
(* a cleaner thread joins the finished ones; the destructor stops the      *)
(* cleaner, joins it and deletes the DDS entities.  What `receive` does in *)
(* between is left to the module that extends this one.                    *)
(*                                                                         *)
(* A step is a maximal piece of one thread's code that no other thread can *)
(* observe in the middle: it ends where a mutex or a join is waited for.   *)
(***************************************************************************)
EXTENDS FiniteSets, Naturals

CONSTANTS Samples,    \* what the DDS reader receives
          Disposed,   \* samples whose instance_state is not ALIVE
          Tids,       \* thread identifiers, reused after a join
          NoSample, NoThread

(* A sample and a thread identifier are never the null values, and a thread
   of `receive` is none of the three fixed threads that take the mutexes. *)
ASSUME NullsDistinct == NoSample \notin Samples /\ NoThread \notin Tids
ASSUME DisposedAreSamples == Disposed \subseteq Samples
ASSUME FixedThreads ==
  {"free", "listener", "cleaner", "destructor"} \cap Tids = {}
(* The system always has an identifier for one more thread: there is one for
   every sample that can be handed to a thread. *)
ASSUME EnoughThreads ==
  /\ IsFiniteSet(Samples) /\ IsFiniteSet(Tids)
  /\ Cardinality(Samples \ Disposed) <= Cardinality(Tids)

VARIABLES
  arrived,            \* samples the reader has received so far
  unread,             \* the reader's KEEP_LAST(1) history
  signals,            \* data-available events not yet delivered
  cleaner_mtx,        \* owner of cleaner_mtx_, or "free"
  data_mtx,           \* owner of data_mtx_, or "free"
  dynamic_data,       \* the sample in dynamic_data_, NoSample once deleted
  listener,           \* where the middleware thread is in on_data_available
  thread,             \* its local variable `thread`
  worker,             \* where each `receive` thread is, "none" if there is none
  sample,             \* the argument each `receive` thread was started with
  reception_threads, finished_threads, stop_cleaner,
  cleaner,            \* where cleaner_thread_ is
  teardown            \* where the destructor is, "none" before it is called

readerVars == <<arrived, unread, signals>>
listenerVars == <<listener, thread>>
workerVars == <<worker, sample>>
poolVars == <<reception_threads, finished_threads, stop_cleaner>>
mutexVars == <<cleaner_mtx, data_mtx>>
receptionVars == <<readerVars, mutexVars, dynamic_data, listenerVars,
                   workerVars, poolVars, cleaner, teardown>>

(* What every `receive` goes through: it starts owning data_mtx_, and ends waiting
   for cleaner_mtx_ to report itself and then terminating. *)
CommonPhases == {"none", "started", "finish", "terminated"}

ReceptionTypeOK ==
  /\ arrived \subseteq Samples
  /\ unread \in Samples \cup {NoSample}
  /\ signals \in Nat
  /\ cleaner_mtx \in {"free", "listener", "cleaner"}
  /\ data_mtx \in {"free", "destructor"} \cup Tids
  /\ dynamic_data \in Samples \cup {NoSample}
  /\ listener \in {"idle", "enter", "take", "emplace"}
  /\ thread \in IF listener = "emplace" THEN Tids ELSE {NoThread}
  /\ sample \in [Tids -> Samples \cup {NoSample}]
  /\ reception_threads \subseteq Tids
  /\ finished_threads \subseteq Tids
  /\ stop_cleaner \in BOOLEAN
  /\ cleaner \in {"lock", "blocked", "woken", "scan", "drain", "exited"}
  /\ teardown \in {"none", "joining", "locking", "reception", "detaching",
                   "detached", "destroyed"}

ReceptionInit ==
  /\ arrived = {} /\ unread = NoSample /\ signals = 0
  /\ cleaner_mtx = "free" /\ data_mtx = "free"
  /\ dynamic_data = NoSample
  /\ listener = "idle" /\ thread = NoThread
  /\ worker = [t \in Tids |-> "none"]
  /\ sample = [t \in Tids |-> NoSample]
  /\ reception_threads = {} /\ finished_threads = {} /\ stop_cleaner = FALSE
  /\ cleaner = "lock"
  /\ teardown = "none"

(* Mutant: the notification is forgotten. *)
NotifyNobody == UNCHANGED cleaner

(* cleaner_cv_.notify_one(): only the cleaner ever waits on it. *)
NotifyCleaner == cleaner' = IF cleaner = "blocked" THEN "woken" ELSE cleaner

-----------------------------------------------------------------------------
(* The middleware. *)

(* A reliable KEEP_LAST(1) reader: a new sample replaces the unread one, and
   each one is announced. *)
Arrive(s) ==
  /\ s \notin arrived
  /\ teardown # "destroyed"
  /\ arrived' = arrived \cup {s}
  /\ unread' = s
  /\ signals' = signals + 1
  /\ UNCHANGED <<mutexVars, dynamic_data, listenerVars, workerVars, poolVars,
                 cleaner, teardown>>

(* The middleware thread calls on_data_available while a listener is set. *)
ListenerCall ==
  /\ listener = "idle"
  /\ signals > 0
  /\ teardown \notin {"detached", "destroyed"}
  /\ signals' = signals - 1
  /\ listener' = "enter"
  /\ UNCHANGED <<arrived, unread, mutexVars, dynamic_data, thread, workerVars,
                 poolVars, cleaner, teardown>>

-----------------------------------------------------------------------------
(* on_data_available *)

ListenerLock ==
  /\ listener = "enter"
  /\ cleaner_mtx = "free"
  /\ cleaner_mtx' = "listener"
  /\ listener' = "take"
  /\ UNCHANGED <<readerVars, data_mtx, dynamic_data, thread, workerVars,
                 poolVars, cleaner, teardown>>

(* Nothing to hand over: stopping, or take_next_sample found nothing. *)
ListenerSkip ==
  /\ listener = "take"
  /\ data_mtx = "free"
  /\ stop_cleaner \/ unread = NoSample
  /\ listener' = "idle"
  /\ cleaner_mtx' = "free"
  /\ UNCHANGED <<readerVars, data_mtx, dynamic_data, thread, workerVars,
                 poolVars, cleaner, teardown>>

(* Mutant: the sample is taken before data_mtx_ is locked. *)
ListenerDiscardUnlocked ==
  /\ listener = "take"
  /\ ~stop_cleaner
  /\ unread \in Disposed
  /\ dynamic_data' = unread
  /\ unread' = NoSample
  /\ listener' = "idle"
  /\ cleaner_mtx' = "free"
  /\ UNCHANGED <<arrived, signals, data_mtx, thread, workerVars, poolVars,
                 cleaner, teardown>>

(* A sample is taken into dynamic_data_, but its instance is not alive. *)
ListenerDiscard ==
  /\ listener = "take"
  /\ data_mtx = "free"
  /\ ~stop_cleaner
  /\ unread \in Disposed
  /\ dynamic_data' = unread
  /\ unread' = NoSample
  /\ listener' = "idle"
  /\ cleaner_mtx' = "free"
  /\ UNCHANGED <<arrived, signals, data_mtx, thread, workerVars, poolVars,
                 cleaner, teardown>>

(* A live sample is taken and `new std::thread` starts `receive` on it. *)
StartReceive(t) ==
  /\ listener = "take"
  /\ data_mtx = "free"
  /\ ~stop_cleaner
  /\ unread \in Samples \ Disposed
  /\ worker[t] = "none"
  /\ dynamic_data' = unread
  /\ worker' = [worker EXCEPT ![t] = "started"]
  /\ sample' = [sample EXCEPT ![t] = unread]
  /\ thread' = t
  /\ listener' = "emplace"
  /\ UNCHANGED <<arrived, signals, poolVars, cleaner, teardown>>

(* Mutants: data_mtx_ is unlocked when the listener leaves; the sample is read
   and not taken; cleaner_mtx_ is unlocked before the thread is registered. *)
ListenerSpawnUnlocks(t) ==
  StartReceive(t) /\ unread' = NoSample /\ UNCHANGED <<data_mtx, cleaner_mtx>>
ListenerSpawnReads(t) ==
  StartReceive(t) /\ data_mtx' = t /\ UNCHANGED <<unread, cleaner_mtx>>
ListenerSpawnEarly(t) ==
  /\ StartReceive(t) /\ unread' = NoSample
  /\ data_mtx' = t /\ cleaner_mtx' = "free"

(* data_mtx_ stays locked and is left to the new thread. *)
ListenerSpawn(t) ==
  /\ StartReceive(t) /\ unread' = NoSample
  /\ data_mtx' = t /\ UNCHANGED cleaner_mtx

ListenerEmplace ==
  /\ listener = "emplace"
  /\ reception_threads' = reception_threads \cup {thread}
  /\ thread' = NoThread
  /\ listener' = "idle"
  /\ cleaner_mtx' = "free"
  /\ UNCHANGED <<readerVars, data_mtx, dynamic_data, workerVars,
                 finished_threads, stop_cleaner, cleaner, teardown>>

-----------------------------------------------------------------------------
(* The end of `receive`: push the thread's own id, notify, terminate. *)
WorkerFinish(t) ==
  /\ worker[t] = "finish"
  /\ cleaner_mtx = "free"
  /\ finished_threads' = finished_threads \cup {t}
  /\ NotifyCleaner
  /\ worker' = [worker EXCEPT ![t] = "terminated"]
  /\ sample' = [sample EXCEPT ![t] = NoSample]
  /\ UNCHANGED <<readerVars, mutexVars, dynamic_data, listenerVars,
                 reception_threads, stop_cleaner, teardown>>

-----------------------------------------------------------------------------
(* cleaner_function *)

(* Lock, then `while (!stop_cleaner_)`, then wait() if its predicate, which
   at this point is only about finished_threads_, is false. *)
CleanerLock ==
  /\ cleaner = "lock"
  /\ cleaner_mtx = "free"
  /\ \/ stop_cleaner /\ cleaner' = "drain" /\ cleaner_mtx' = "cleaner"
     \/ /\ ~stop_cleaner /\ finished_threads # {}
        /\ cleaner' = "scan" /\ cleaner_mtx' = "cleaner"
     \/ /\ ~stop_cleaner /\ finished_threads = {}
        /\ cleaner' = "blocked" /\ UNCHANGED cleaner_mtx
  /\ UNCHANGED <<readerVars, data_mtx, dynamic_data, listenerVars, workerVars,
                 poolVars, teardown>>

(* wait() reacquires the mutex and tests its predicate again. *)
CleanerWake ==
  /\ cleaner = "woken"
  /\ cleaner_mtx = "free"
  /\ \/ /\ stop_cleaner \/ finished_threads # {}
        /\ cleaner' = "scan" /\ cleaner_mtx' = "cleaner"
     \/ /\ ~stop_cleaner /\ finished_threads = {}
        /\ cleaner' = "blocked" /\ UNCHANGED cleaner_mtx
  /\ UNCHANGED <<readerVars, data_mtx, dynamic_data, listenerVars, workerVars,
                 poolVars, teardown>>

(* A condition variable may wake for no reason. *)
CleanerSpuriousWake ==
  /\ cleaner = "blocked"
  /\ cleaner' = "woken"
  /\ UNCHANGED <<readerVars, mutexVars, dynamic_data, listenerVars, workerVars,
                 poolVars, teardown>>

(* One finished and registered thread is joined and forgotten. *)
CleanerReap(t) ==
  /\ cleaner = "scan"
  /\ t \in finished_threads \cap reception_threads
  /\ worker[t] = "terminated"
  /\ reception_threads' = reception_threads \ {t}
  /\ finished_threads' = finished_threads \ {t}
  /\ worker' = [worker EXCEPT ![t] = "none"]
  /\ UNCHANGED <<readerVars, mutexVars, dynamic_data, listenerVars, sample,
                 stop_cleaner, cleaner, teardown>>

(* No finished thread left to join: unlock, sleep 10 ms, lock again. *)
CleanerYield ==
  /\ cleaner = "scan"
  /\ finished_threads \cap reception_threads = {}
  /\ cleaner' = "lock"
  /\ cleaner_mtx' = "free"
  /\ UNCHANGED <<readerVars, data_mtx, dynamic_data, listenerVars, workerVars,
                 poolVars, teardown>>

(* After the loop, with cleaner_mtx_ held: join whatever is registered. *)
DrainJoin(t) ==
  /\ cleaner = "drain"
  /\ t \in reception_threads
  /\ worker[t] = "terminated"
  /\ worker' = [worker EXCEPT ![t] = "none"]
  /\ UNCHANGED <<readerVars, mutexVars, dynamic_data, listenerVars, sample,
                 poolVars, cleaner, teardown>>

(* Mutant: the loop after the loop is forgotten. *)
DrainNothing ==
  /\ cleaner = "drain"
  /\ cleaner' = "exited"
  /\ cleaner_mtx' = "free"
  /\ UNCHANGED <<readerVars, data_mtx, dynamic_data, listenerVars, workerVars,
                 poolVars, teardown>>

DrainEnd ==
  /\ cleaner = "drain"
  /\ \A t \in reception_threads : worker[t] = "none"
  /\ cleaner' = "exited"
  /\ cleaner_mtx' = "free"
  /\ UNCHANGED <<readerVars, data_mtx, dynamic_data, listenerVars, workerVars,
                 poolVars, teardown>>

-----------------------------------------------------------------------------
(* The part of the destructor that deals with the reception threads. *)

(* Mutant: the lock lives on while the destructor joins the cleaner. *)
DtorStopLocked ==
  /\ teardown = "none"
  /\ cleaner_mtx = "free"
  /\ cleaner_mtx' = "destructor"
  /\ stop_cleaner' = TRUE
  /\ NotifyCleaner
  /\ teardown' = "joining"
  /\ UNCHANGED <<readerVars, data_mtx, dynamic_data, listenerVars, workerVars,
                 reception_threads, finished_threads>>

DtorStop ==
  /\ teardown = "none"
  /\ cleaner_mtx = "free"
  /\ stop_cleaner' = TRUE
  /\ NotifyCleaner
  /\ teardown' = "joining"
  /\ UNCHANGED <<readerVars, mutexVars, dynamic_data, listenerVars, workerVars,
                 reception_threads, finished_threads>>

DtorJoinCleaner ==
  /\ teardown = "joining"
  /\ cleaner = "exited"
  /\ teardown' = "locking"
  /\ UNCHANGED <<readerVars, mutexVars, dynamic_data, listenerVars, workerVars,
                 poolVars, cleaner>>

(* Lock data_mtx_ and delete the buffer and the topic's association. *)
DtorLockData(from) ==
  /\ teardown = from
  /\ data_mtx = "free"
  /\ data_mtx' = "destructor"
  /\ dynamic_data' = NoSample
  /\ teardown' = "detaching"
  /\ UNCHANGED <<readerVars, cleaner_mtx, listenerVars, workerVars, poolVars,
                 cleaner>>

(* delete_datareader returns when no callback of this reader is running. *)
DtorDeleteReader(from) ==
  /\ teardown = from
  /\ listener = "idle"
  /\ data_mtx' = "free"
  /\ teardown' = "destroyed"
  /\ UNCHANGED <<readerVars, cleaner_mtx, dynamic_data, listenerVars,
                 workerVars, poolVars, cleaner>>

-----------------------------------------------------------------------------
(* When a thread of the machinery can take its next step: the guards of its
   actions, without what they do. *)

ListenerCanMove ==
  \/ listener = "idle" /\ signals > 0 /\ teardown \notin {"detached", "destroyed"}
  \/ listener = "enter" /\ cleaner_mtx = "free"
  \/ /\ listener = "take" /\ data_mtx = "free"
     /\ \/ stop_cleaner \/ unread \in Disposed \cup {NoSample}
        \/ \E t \in Tids : worker[t] = "none"
  \/ listener = "emplace"

CleanerCanMove ==
  \/ cleaner \in {"lock", "woken"} /\ cleaner_mtx = "free"
  \/ /\ cleaner = "scan"
     /\ \/ finished_threads \cap reception_threads = {}
        \/ \E t \in finished_threads \cap reception_threads : worker[t] = "terminated"
  \/ /\ cleaner = "drain"
     /\ \/ \A t \in reception_threads : worker[t] = "none"
        \/ \E t \in reception_threads : worker[t] = "terminated"

(* The cleaner joins, with cleaner_mtx_ held, a thread that waits for it. *)
CleanerJoinCycle ==
  /\ cleaner = "drain"
  /\ \E t \in reception_threads : worker[t] = "finish"

-----------------------------------------------------------------------------
(* Why the machinery works, part by part: what every step of Subscriber, Server
   and Client preserves, whatever their `receive` does in between. *)

(* Where a thread of `receive` of any of the three may be, and where it still
   owns data_mtx_: until it has converted its sample.  Only Server's looks at
   its maps before that. *)
ReceivePhases ==
  CommonPhases \cup {"callback", "record", "parse", "respond", "responding"}
Converting == {"started", "parse"}

ReceptionType == ReceptionTypeOK /\ worker \in [Tids -> ReceivePhases]

(* A mutex has an owner exactly while that thread is in its section. *)
LockInv ==
  /\ cleaner_mtx = "listener" <=> listener \in {"take", "emplace"}
  /\ cleaner_mtx = "cleaner" <=> cleaner \in {"scan", "drain"}
  /\ data_mtx = "destructor" => teardown \in {"detaching", "detached"}
  /\ \A t \in Tids : data_mtx = t <=> worker[t] \in Converting

(* The buffer keeps the sample that its thread has yet to convert. *)
BufferInv ==
  \A t \in Tids :
    /\ worker[t] \in Converting => dynamic_data = sample[t]
    /\ worker[t] \notin {"none", "terminated"} => sample[t] \in Samples

(* Every thread is known to the cleaner from before it can report its end
   until it was joined. *)
PoolInv ==
  /\ listener = "emplace" => worker[thread] # "none"
  /\ finished_threads \subseteq reception_threads
  /\ \A t \in Tids :
       /\ worker[t] # "none" =>
            t \in reception_threads \/ (listener = "emplace" /\ thread = t)
       /\ t \in finished_threads => worker[t] \in {"terminated", "none"}
       /\ t \in reception_threads /\ worker[t] = "none" =>
            cleaner \in {"drain", "exited"}

(* No thread is started once the destructor began, and none is left when the
   cleaner is gone. *)
ShutdownInv ==
  /\ stop_cleaner <=> teardown # "none"
  /\ listener = "emplace" => ~stop_cleaner
  /\ cleaner \in {"drain", "exited"} => stop_cleaner
  /\ cleaner = "exited" => \A t \in Tids : worker[t] = "none"
  /\ teardown \notin {"none", "joining"} => cleaner = "exited"
  /\ teardown = "destroyed" => listener = "idle"

(* The cleaner does not sleep on anything it is waited for. *)
WakeInv ==
  cleaner = "blocked" => ~stop_cleaner /\ finished_threads = {}

(* A sample is in one place at a time: unread, with one thread, or gone. *)
OnceInv ==
  /\ unread \in arrived \cup {NoSample}
  /\ \A t \in Tids :
       /\ sample[t] \in arrived \cup {NoSample}
       /\ sample[t] # NoSample => sample[t] # unread
       /\ \A u \in Tids \ {t} : sample[u] = sample[t] => sample[t] = NoSample

ReceptionInv ==
  /\ ReceptionType /\ LockInv /\ BufferInv
  /\ PoolInv /\ ShutdownInv /\ WakeInv /\ OnceInv

(* Every thread that was not joined yet, and the live sample that waits for one,
   stand for a live sample that arrived: so there is a thread for it. *)
Busy == {t \in Tids : worker[t] # "none"}
Live == Samples \ Disposed
CountInv ==
  Cardinality(Busy) + Cardinality({unread} \cap Live) <= Cardinality(arrived \cap Live)

(* The end of every thread of `receive` is reported until it is joined: so where
   `receive` has no early return. *)
Reported == \A t \in Tids : worker[t] = "terminated" => t \in finished_threads

=============================================================================
