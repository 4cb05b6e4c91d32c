-------------------------------- MODULE Client --------------------------------
(***************************************************************************)
(* Client.cpp: converts the requests of a DDS service's clients and gives  *)
(* them to the Integration Service (receive), and writes the responses it  *)
(* gets for them (receive_response).  A request is named by its sample,    *)
(* and so is the response to it.                                           *)
(***************************************************************************)
EXTENDS ReceptionThreads, MatchGate

CONSTANT Typed        \* requests whose member type has an entry in request_reply_

ASSUME OwnersDistinct ==
  /\ Tids \cap Samples = {}
  /\ {"free", "constructor"} \cap (Tids \cup Samples) = {}
ASSUME TypedAreRequests == Typed \subseteq Samples

VARIABLES
  received,         \* each thread's local: the request converted
  reply_id_type,    \* requests that are keys of reply_id_type_
  asked,            \* requests given to their callback
  responder,        \* where the receive_response for each request is
  path,             \* its local path: whether it found the reply's type
  reply_data_mtx,   \* owner of reply_entities_.data_mtx
  reply_data,       \* the response in reply_entities_.dynamic_data
  replied           \* <<related request, response, path>> written on DDS

requestVars == <<received, asked>>
responseVars == <<responder, path, reply_data_mtx, reply_data, replied>>
otherVars == <<gateVars, requestVars, reply_id_type, responseVars>>
vars == <<receptionVars, otherVars>>

ClientPhases == CommonPhases \cup {"record", "callback"}

(* Every variable ranges over what the C++ declaration allows. *)
TypeOK ==
  /\ ReceptionTypeOK
  /\ GateTypeOK(Tids \cup Samples)
  /\ worker \in [Tids -> ClientPhases]
  /\ received \in [Tids -> Samples \cup {NoSample}]
  /\ reply_id_type \subseteq Samples /\ asked \subseteq Samples
  /\ responder \in [Samples -> {"idle", "called", "path", "writing", "done"}]
  /\ path \in [Samples -> {"default", "member"}]
  /\ reply_data_mtx \in {"free"} \cup Samples
  /\ reply_data \in Samples \cup {NoSample}
  /\ replied \subseteq Samples \X Samples \X {"default", "member"}

Init ==
  /\ ReceptionInit
  /\ GateInit
  /\ received = [t \in Tids |-> NoSample]
  /\ reply_id_type = {} /\ asked = {}
  /\ responder = [r \in Samples |-> "idle"]
  /\ path = [r \in Samples |-> "default"]
  /\ reply_data_mtx = "free" /\ reply_data = NoSample
  /\ replied = {}

-----------------------------------------------------------------------------
(* receive, on a thread that owns request_entities_.data_mtx. *)

(* fastdds_to_xtypes reads the shared buffer, whatever it holds by then. *)
ReceiveConvert(t) ==
  /\ worker[t] = "started"
  /\ \/ /\ received' = [received EXCEPT ![t] = dynamic_data]
        /\ worker' = [worker EXCEPT ![t] = "record"]
     \/ /\ worker' = [worker EXCEPT ![t] = "finish"]
        /\ UNCHANGED received
  /\ data_mtx' = "free"
  /\ UNCHANGED <<readerVars, cleaner_mtx, dynamic_data, listenerVars, sample,
                 poolVars, cleaner, teardown, gateVars, asked, reply_id_type,
                 responseVars>>

(* Lock mtx_, keep the reply's type under the request's identity, unlock it. *)
ReceiveRecord(t) ==
  /\ worker[t] = "record"
  /\ mtx = "free"
  /\ reply_id_type' = IF received[t] \in Typed
                       THEN reply_id_type \cup {sample[t]} ELSE reply_id_type
  /\ worker' = [worker EXCEPT ![t] = "callback"]
  /\ UNCHANGED <<readerVars, mutexVars, dynamic_data, listenerVars, sample,
                 poolVars, cleaner, teardown, gateVars, requestVars,
                 responseVars>>

(* The message goes to the callback of its type, if callbacks_ has one. *)
Ask(t) ==
  /\ asked' = asked \cup {sample[t]} \/ UNCHANGED asked
  /\ received' = [received EXCEPT ![t] = NoSample]
  /\ worker' = [worker EXCEPT ![t] = "finish"]
  /\ UNCHANGED <<readerVars, mutexVars, dynamic_data, listenerVars, sample,
                 poolVars, cleaner, teardown, gateVars, reply_id_type,
                 responseVars>>

(* Mutant: cleaner_mtx_ is locked before the callback and not after it. *)
ReceiveCallbackLocked(t) ==
  worker[t] = "callback" /\ cleaner_mtx = "free" /\ Ask(t)

(* The callback runs with no lock of the client held. *)
ReceiveCallback(t) == worker[t] = "callback" /\ Ask(t)

-----------------------------------------------------------------------------
(* receive_response, on whatever thread has the answer. *)

(* The Integration Service responds once to a request it was asked, and not
   to a client that is being destroyed. *)
Respond(r) ==
  /\ r \in asked
  /\ responder[r] = "idle"
  /\ teardown = "none"
  /\ responder' = [responder EXCEPT ![r] = "called"]
  /\ UNCHANGED <<receptionVars, gateVars, requestVars, reply_id_type, path,
                 reply_data_mtx, reply_data, replied>>

(* Mutant: the entry is found and never erased. *)
FindPathKeeps(r) ==
  /\ path' = [path EXCEPT ![r] = IF r \in reply_id_type THEN "member" ELSE @]
  /\ UNCHANGED reply_id_type

FindPath(r) ==
  /\ path' = [path EXCEPT ![r] = IF r \in reply_id_type THEN "member" ELSE @]
  /\ reply_id_type' = reply_id_type \ {r}

(* Lock mtx_, look the reply's type up and unlock it. *)
ResponseLookup(r) ==
  /\ responder[r] = "called"
  /\ mtx = "free"
  /\ FindPath(r)
  /\ responder' = [responder EXCEPT ![r] = "path"]
  /\ UNCHANGED <<receptionVars, gateVars, requestVars, reply_data_mtx,
                 reply_data, replied>>

(* Mutant: the reply is converted without the lock. *)
LockReplyNot(r) == UNCHANGED reply_data_mtx

(* std::unique_lock on reply_entities_.data_mtx *)
LockReply(r) == reply_data_mtx = "free" /\ reply_data_mtx' = r

(* Lock the reply's buffer and convert into it. *)
ResponseConvert(r) ==
  /\ responder[r] = "path"
  /\ LockReply(r)
  /\ reply_data' = r
  /\ responder' = [responder EXCEPT ![r] = "writing"]
  /\ UNCHANGED <<receptionVars, gateVars, requestVars, reply_id_type, path,
                 replied>>

(* A response that cannot be converted is only logged. *)
ResponseRefused(r) ==
  /\ responder[r] = "path"
  /\ reply_data_mtx = "free"
  /\ responder' = [responder EXCEPT ![r] = "done"]
  /\ UNCHANGED <<receptionVars, gateVars, requestVars, reply_id_type, path,
                 reply_data_mtx, reply_data, replied>>

UnlockReply == reply_data_mtx' = "free"

(* The buffer is written with the request's identity; a failure is only
   logged.  The lock ends with the function. *)
ResponseWrite(r) ==
  /\ responder[r] = "writing"
  /\ \/ replied' = replied \cup {<<r, reply_data, path[r]>>}
     \/ UNCHANGED replied
  /\ UnlockReply
  /\ responder' = [responder EXCEPT ![r] = "done"]
  /\ UNCHANGED <<receptionVars, gateVars, requestVars, reply_id_type, path,
                 reply_data>>

-----------------------------------------------------------------------------
(* The destructor deletes the request side before the reply side. *)
DtorDeleteReply ==
  /\ teardown = "detached"
  /\ reply_data_mtx = "free"
  /\ reply_data' = NoSample
  /\ teardown' = "destroyed"
  /\ UNCHANGED <<readerVars, mutexVars, dynamic_data, listenerVars, workerVars,
                 poolVars, cleaner, gateVars, requestVars, reply_id_type,
                 responder, path, reply_data_mtx, replied>>

(* delete_datareader, which waits for the reader's callbacks; then the lock of
   the request's buffer ends. *)
DtorDeleteRequest ==
  /\ teardown = "detaching"
  /\ listener = "idle"
  /\ data_mtx' = "free"
  /\ teardown' = "detached"
  /\ UNCHANGED <<readerVars, cleaner_mtx, dynamic_data, listenerVars,
                 workerVars, poolVars, cleaner, otherVars>>

Listener ==
  /\ \/ ListenerCall \/ ListenerLock \/ ListenerSkip \/ ListenerDiscard
     \/ ListenerEmplace
     \/ \E t \in Tids : ListenerSpawn(t)
  /\ UNCHANGED otherVars

Worker(t) ==
  \/ ReceiveConvert(t) \/ ReceiveRecord(t) \/ ReceiveCallback(t)
  \/ WorkerFinish(t) /\ UNCHANGED otherVars

Responder(r) ==
  ResponseLookup(r) \/ ResponseConvert(r) \/ ResponseRefused(r) \/ ResponseWrite(r)

Cleaner ==
  /\ \/ CleanerLock \/ CleanerWake \/ CleanerYield \/ DrainEnd
     \/ \E t \in Tids : CleanerReap(t) \/ DrainJoin(t)
  /\ UNCHANGED otherVars

Destructor ==
  \/ (DtorJoinCleaner \/ DtorLockData("locking")) /\ UNCHANGED otherVars
  \/ DtorDeleteRequest \/ DtorDeleteReply

(* What the process owes: the threads' own steps. *)
Progress ==
  \/ Listener \/ Cleaner \/ Destructor
  \/ \E t \in Tids : Worker(t)
  \/ \E r \in Samples : Responder(r)

Environment ==
  \/ \E r \in Samples : Respond(r)
  \/ /\ \/ teardown # "detached" /\ \E r \in Samples : Arrive(r)
        \/ CleanerSpuriousWake
        \/ DtorStop /\ \A r \in Samples : responder[r] \in {"idle", "done"}
     /\ UNCHANGED otherVars
  \/ /\ teardown # "destroyed"
     /\ \E e \in Endpoints : OnMatched(e) \/ OnUnmatched(e)
     /\ UNCHANGED <<receptionVars, requestVars, reply_id_type, responseVars>>

Next == Progress \/ Environment

Spec == Init /\ [][Next]_vars

(* The scheduler runs every thread that can run; the environment may stop. *)
Fairness ==
  /\ WF_vars(Listener) /\ WF_vars(Cleaner) /\ WF_vars(Destructor)
  /\ \A t \in Tids : WF_vars(Worker(t))
  /\ \A r \in Samples : WF_vars(Responder(r))

FairSpec == Spec /\ Fairness

-----------------------------------------------------------------------------
(* Properties. *)

(* What a thread gives to the callback, and the type it records, are of the
   request whose identity goes with them (Client.cpp:582, :594, :606). *)
OwnRequestAsked ==
  \A t \in Tids : worker[t] \in {"record", "callback"} => received[t] = sample[t]

(* A response goes out under the identity of the request it answers, and its
   member path is the recorded type's exactly if the request has one,
   whichever threads received and responded (Client.cpp:452, :470). *)
RepliesMatch ==
  \A reply \in replied :
    /\ reply[1] = reply[2]
    /\ reply[3] = IF reply[1] \in Typed THEN "member" ELSE "default"

(* Nothing is left in reply_id_type_ for a request that has been responded. *)
TypesForgotten ==
  \A r \in Samples :
    responder[r] \notin {"idle", "called"} => r \notin reply_id_type

(* When a thread of `receive`, a response or the destructor can take its next
   step. *)
WorkerCanMove(t) ==
  \/ worker[t] \in {"started", "callback"}
  \/ worker[t] = "record" /\ mtx = "free"
  \/ worker[t] = "finish" /\ cleaner_mtx = "free"
ResponderCanMove(r) ==
  \/ responder[r] = "called" /\ mtx = "free"
  \/ responder[r] = "path" /\ reply_data_mtx = "free"
  \/ responder[r] = "writing"
DestructorCanMove ==
  \/ teardown = "joining" /\ cleaner = "exited"
  \/ teardown = "locking" /\ data_mtx = "free"
  \/ teardown = "detaching" /\ listener = "idle"
  \/ teardown = "detached" /\ reply_data_mtx = "free"
Runnable ==
  \/ ListenerCanMove \/ CleanerCanMove \/ DestructorCanMove
  \/ \E t \in Tids : WorkerCanMove(t)
  \/ \E r \in Samples : ResponderCanMove(r)

(* Where the client may come to rest: with nothing left to do, behind the
   closed gate, at its end, or in the lock cycles of the destructor
   (Client.cpp:58, :275-281, :674). *)
AtRest ==
  /\ signals = 0 /\ listener = "idle" /\ cleaner = "blocked"
  /\ \A t \in Tids : worker[t] = "none"
  /\ \A r \in Samples : responder[r] \in {"idle", "done"}
BehindGate ==
  mtx = "constructor" /\ \E t \in Tids : worker[t] = "record"
ListenerDeleteCycle == teardown = "detaching" /\ listener = "take"
StuckOnlyWhere ==
  ~Runnable =>
    \/ teardown = "none" /\ AtRest
    \/ teardown = "destroyed"
    \/ BehindGate \/ CleanerJoinCycle \/ ListenerDeleteCycle

(* The same of the threads themselves: the guards above are those of their
   actions, none too many. *)
StopsOnlyWhere == (Runnable <=> ENABLED Progress) /\ StuckOnlyWhere

(* The destructor frees nothing that a thread still uses. *)
NothingRunsOnDeleted ==
  /\ teardown \notin {"none", "joining"} =>
       cleaner = "exited" /\ \A t \in Tids : worker[t] = "none"
  /\ teardown = "destroyed" => listener = "idle"

(* A thread of `receive` behind the gate gets to its end once it opens. *)
RequestsProcessed ==
  \A t \in Tids : worker[t] = "record" /\ mtx # "constructor" ~>
    worker[t] \in {"finish", "terminated", "none"}

(* The requests that a thread has yet to hand over. *)
Carried ==
  {sample[t] : t \in {u \in Tids : worker[u] \in {"started", "record", "callback"}}}

R == INSTANCE Relay WITH
  latest <- unread, carried <- Carried, delivered <- asked

(* The client implements the same relay as a subscriber: a request, once taken,
   is given to its callback as itself and once, or is dropped, though its thread
   waits at the gate in between (Client.cpp:582, :594, :606). *)
ImplementsRelay == R!Spec

-----------------------------------------------------------------------------
(* The inductive invariant: why the properties above hold. *)

(* A request that its callback was given is with no thread before its callback,
   and only such a request is responded. *)
AskedInv ==
  /\ asked \subseteq arrived
  /\ unread \notin asked
  /\ \A t \in Tids :
       worker[t] \in {"started", "record", "callback"} => sample[t] \notin asked
  /\ \A r \in Samples : responder[r] # "idle" => r \in asked

(* The type of a reply is kept from before the callback until it is looked up. *)
KeptInv ==
  /\ reply_id_type \subseteq Typed
  /\ \A t \in Tids :
       worker[t] = "callback" /\ sample[t] \in Typed => sample[t] \in reply_id_type
  /\ \A r \in asked \cap Typed :
       responder[r] \in {"idle", "called"} => r \in reply_id_type

(* What was looked up is what the request's type is. *)
PathInv ==
  \A r \in Samples :
    path[r] = IF r \in Typed /\ responder[r] \notin {"idle", "called"}
              THEN "member" ELSE "default"

(* The reply's buffer is its writer's. *)
ReplyBufferInv ==
  \A r \in Samples :
    responder[r] = "writing" => reply_data_mtx = r /\ reply_data = r

(* Once the request side is deleted its lock is gone. *)
RequestDeletedInv ==
  teardown \in {"detached", "destroyed"} =>
    listener = "idle" /\ data_mtx # "destructor"

IInv ==
  /\ TypeOK /\ ReceptionInv /\ RequestDeletedInv
  /\ OwnRequestAsked /\ AskedInv /\ TypesForgotten /\ KeptInv
  /\ PathInv /\ ReplyBufferInv /\ RepliesMatch

(* What it takes besides, to know where the client may stop: mtx_ is never held
   from one step to the next, the reply's buffer only by who writes it; behind
   the closed gate nothing was asked; the end of each thread is reported until
   it is joined. *)
SectionInv ==
  /\ mtx \in {"free", "constructor"}
  /\ mtx = "constructor" =>
       asked = {} /\ \A t \in Tids : worker[t] # "callback"
  /\ \A r \in Samples : reply_data_mtx = r => responder[r] = "writing"
RestInv ==
  /\ CountInv /\ SectionInv
  /\ Reported
  /\ teardown # "reception"

=============================================================================
