------------------------------ MODULE Subscriber ------------------------------
(***************************************************************************)
(* Subscriber.cpp: samples of a DDS topic are converted and forwarded to   *)
(* the Integration Service by one thread each.                             *)
(***************************************************************************)
EXTENDS ReceptionThreads

VARIABLES message,    \* each thread's local is_message: the sample converted
          forwarded   \* samples given to is_callback_ so far

vars == <<receptionVars, message, forwarded>>

SubscriberPhases == CommonPhases \cup {"callback"}

(* Every variable ranges over what the C++ declaration allows. *)
TypeOK ==
  /\ ReceptionTypeOK
  /\ worker \in [Tids -> SubscriberPhases]
  /\ message \in [Tids -> Samples \cup {NoSample}]
  /\ forwarded \subseteq Samples \cup {NoSample}

Init ==
  /\ ReceptionInit
  /\ message = [t \in Tids |-> NoSample]
  /\ forwarded = {}

(* receive: fastdds_to_xtypes reads the shared buffer, whatever it holds by
   then, and data_mtx_ is unlocked whether or not the conversion succeeded. *)
ReceiveConvert(t) ==
  /\ worker[t] = "started"
  /\ \/ /\ message' = [message EXCEPT ![t] = dynamic_data]
        /\ worker' = [worker EXCEPT ![t] = "callback"]
     \/ /\ worker' = [worker EXCEPT ![t] = "finish"]
        /\ UNCHANGED message
  /\ data_mtx' = "free"
  /\ UNCHANGED <<readerVars, cleaner_mtx, dynamic_data, listenerVars, sample,
                 poolVars, cleaner, teardown, forwarded>>

(* receive: the message goes to is_callback_ with its sample_info. *)
Forward(t) ==
  /\ forwarded' = forwarded \cup {message[t]}
  /\ message' = [message EXCEPT ![t] = NoSample]
  /\ worker' = [worker EXCEPT ![t] = "finish"]
  /\ UNCHANGED <<readerVars, mutexVars, dynamic_data, listenerVars, sample,
                 poolVars, cleaner, teardown>>

(* Mutant: cleaner_mtx_ is locked before the callback and not after it. *)
ReceiveCallbackLocked(t) ==
  worker[t] = "callback" /\ cleaner_mtx = "free" /\ Forward(t)

(* The callback runs with no lock of the subscriber held. *)
ReceiveCallback(t) == worker[t] = "callback" /\ Forward(t)

(* The destructor clears the listener before it deletes the reader. *)
DtorDetach ==
  /\ teardown = "detaching"
  /\ teardown' = "detached"
  /\ UNCHANGED <<readerVars, mutexVars, dynamic_data, listenerVars, workerVars,
                 poolVars, cleaner, message, forwarded>>

Listener ==
  /\ \/ ListenerCall \/ ListenerLock \/ ListenerSkip \/ ListenerDiscard
     \/ ListenerEmplace
     \/ \E t \in Tids : ListenerSpawn(t)
  /\ UNCHANGED <<message, forwarded>>

Worker(t) ==
  \/ ReceiveConvert(t)
  \/ ReceiveCallback(t)
  \/ WorkerFinish(t) /\ UNCHANGED <<message, forwarded>>

Cleaner ==
  /\ \/ CleanerLock \/ CleanerWake \/ CleanerYield \/ DrainEnd
     \/ \E t \in Tids : CleanerReap(t) \/ DrainJoin(t)
  /\ UNCHANGED <<message, forwarded>>

Destructor ==
  \/ /\ DtorJoinCleaner \/ DtorLockData("locking") \/ DtorDeleteReader("detached")
     /\ UNCHANGED <<message, forwarded>>
  \/ DtorDetach

(* What the process owes: the threads' own steps. *)
Progress ==
  \/ Listener \/ Cleaner \/ Destructor
  \/ \E t \in Tids : Worker(t)

(* What others decide: samples, destruction, spurious wakeups. *)
Environment ==
  /\ \/ \E s \in Samples : Arrive(s)
     \/ DtorStop
     \/ CleanerSpuriousWake
  /\ UNCHANGED <<message, forwarded>>

Next == Progress \/ Environment

Spec == Init /\ [][Next]_vars

(* The scheduler runs every thread that can run; nothing makes a sample
   arrive or the owner destroy the subscriber. *)
Fairness ==
  /\ WF_vars(Listener) /\ WF_vars(Cleaner) /\ WF_vars(Destructor)
  /\ \A t \in Tids : WF_vars(Worker(t))

FairSpec == Spec /\ Fairness

-----------------------------------------------------------------------------
(* Properties. *)

(* The hand-off of data_mtx_ works: while a thread of `receive` has yet to
   convert, it is the owner of data_mtx_, and the buffer still holds the
   sample it was started for, whatever arrived since (Subscriber.cpp:182,
   :225). *)
BufferOwnership ==
  \A t \in Tids : worker[t] = "started" =>
    data_mtx = t /\ dynamic_data = sample[t]

(* What reaches is_callback_ is the data of the very sample whose
   sample_info goes with it (Subscriber.cpp:190). *)
OwnDataForwarded ==
  \A t \in Tids : worker[t] = "callback" => message[t] = sample[t]

(* A sample is forwarded at most once: no two threads carry the same sample,
   and none carries one that was forwarded before it was started. *)
AtMostOnce ==
  \A t \in Tids : worker[t] \in {"started", "callback"} =>
    /\ sample[t] \notin forwarded \cup {unread}
    /\ \A u \in Tids \ {t} : sample[u] # sample[t]

(* A thread that reports its end is already in reception_threads_, so the
   case "some threads may end too quickly" (Subscriber.cpp:270) never costs a
   join, and every live thread can be found by the cleaner or is about to. *)
ThreadsTracked ==
  /\ finished_threads \subseteq reception_threads
  /\ \A t \in Tids : worker[t] # "none" =>
       t \in reception_threads \/ (listener = "emplace" /\ thread = t)
  /\ \A t \in reception_threads :
       worker[t] = "none" => cleaner \in {"drain", "exited"}

(* The destructor frees nothing that a thread still uses: past the join of
   the cleaner there is no `receive` thread, and once the object is gone the
   middleware is outside its callback (Subscriber.cpp:151-171). *)
NothingRunsOnDeleted ==
  /\ teardown \notin {"none", "joining"} =>
       cleaner = "exited" /\ \A t \in Tids : worker[t] = "none"
  /\ teardown = "destroyed" => listener = "idle" /\ data_mtx = "free"

(* When a thread of `receive`, or the destructor, can take its next step. *)
WorkerCanMove(t) ==
  \/ worker[t] \in {"started", "callback"}
  \/ worker[t] = "finish" /\ cleaner_mtx = "free"
DestructorCanMove ==
  \/ teardown = "joining" /\ cleaner = "exited"
  \/ teardown = "locking" /\ data_mtx = "free"
  \/ teardown = "detaching"
  \/ teardown = "detached" /\ listener = "idle"
Runnable ==
  \/ ListenerCanMove \/ CleanerCanMove \/ DestructorCanMove
  \/ \E t \in Tids : WorkerCanMove(t)

(* Before its destruction begins the subscriber comes to rest only with every
   message processed and every thread joined; the other states where no
   thread can move are its end and the two lock cycles of the destructor: the
   cleaner joins a thread that waits for the cleaner_mtx_ it holds
   (CleanerJoinCycle), or the reader's deletion waits for a callback that waits
   for the data_mtx_ the destructor holds (Subscriber.cpp:159-165, :308). *)
ListenerDeleteCycle == teardown = "detached" /\ listener = "take"
Quiescent ==
  /\ signals = 0 /\ listener = "idle" /\ cleaner = "blocked"
  /\ \A t \in Tids : worker[t] = "none"
StuckOnlyWhere ==
  ~Runnable =>
    \/ teardown = "none" /\ Quiescent
    \/ teardown = "destroyed"
    \/ CleanerJoinCycle \/ ListenerDeleteCycle

(* The same of the threads themselves: the guards above are those of their
   actions, none too many. *)
DeadlockOnlyInDestructor == (Runnable <=> ENABLED Progress) /\ StuckOnlyWhere

(* While the subscriber lives a finished thread is eventually joined: no
   wakeup of the cleaner is lost (Subscriber.cpp:203, :263). *)
FinishedReaped ==
  \A t \in Tids :
    worker[t] = "terminated" ~> worker[t] = "none" \/ stop_cleaner

(* If no `receive` is running when the destructor begins, the destructor's
   wait for the cleaner ends. *)
QuietShutdownJoins ==
  (teardown = "joining" /\ \A t \in Tids : worker[t] \in {"none", "terminated"})
    ~> teardown \notin {"none", "joining"}

(* What Subscriber.cpp:143 and :157 log: the destructor waits for the messages
   in process, and then quits. *)
WaitForMessagesEnds ==
  teardown = "joining" ~> teardown # "joining"

(* The samples that a thread has yet to hand over. *)
Carried == {sample[t] : t \in {u \in Tids : worker[u] \in {"started", "callback"}}}

R == INSTANCE Relay WITH
  latest <- unread, carried <- Carried, delivered <- forwarded

(* The subscriber implements the relay: whatever the threads do, every step is
   a step of the relay or changes nothing of it, so that a sample, once taken,
   reaches is_callback_ as itself and once, or is dropped
   (Subscriber.cpp:185, :190, :220). *)
ImplementsRelay == R!Spec

(* And it owes what the relay owes: what is taken is handed over or dropped,
   even when destruction begins meanwhile. *)
RelayOwes == R!Fairness

-----------------------------------------------------------------------------
(* The inductive invariant: why the properties above hold. *)

(* What a thread carries is the sample it was started for. *)
MessageInv ==
  \A t \in Tids : worker[t] = "callback" => message[t] = sample[t]

(* A forwarded sample is nowhere else. *)
ForwardedInv ==
  /\ forwarded \subseteq arrived
  /\ unread \notin forwarded
  /\ \A t \in Tids :
       worker[t] \in {"started", "callback"} => sample[t] \notin forwarded

(* All of it: this is what every step preserves, and it implies the safety
   properties above. *)
IInv == TypeOK /\ ReceptionInv /\ MessageInv /\ ForwardedInv

(* What it takes besides, to know where the subscriber may stop: there is a
   thread for every sample, and the end of each is reported until it is joined;
   the destructor has no place "reception", which is Server's. *)
RestInv == CountInv /\ Reported /\ teardown # "reception"

=============================================================================
