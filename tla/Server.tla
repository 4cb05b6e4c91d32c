-------------------------------- MODULE Server --------------------------------
(***************************************************************************)
(* Server.cpp: forwards the Integration Service's requests to a DDS        *)
(* service (call_service) and its replies back to the clients that asked   *)
(* (receive), correlating them by sample identity.  Requests are named by  *)
(* the call that makes them: a call has one call_handle, and its request,  *)
(* once written, one sample identity.                                      *)
(***************************************************************************)
EXTENDS ReceptionThreads, MatchGate

CONSTANTS Calls,       \* invocations of call_service, a thread each
          Typed,       \* calls whose request type has an entry in request_reply_
          Foreign,     \* identity of requests made by somebody else
          RelatedTo    \* related_sample_identity of each reply sample

ASSUME CallsDistinct ==
  /\ Foreign \notin Calls
  /\ ({"free", "constructor"} \cup Tids) \cap Calls = {}
  /\ "constructor" \notin Tids
ASSUME RelatedToType == RelatedTo \in [Samples -> Calls \cup {Foreign}]
ASSUME TypedAreCalls == Typed \subseteq Calls

VARIABLES
  caller,              \* where each call_service is
  request_data_mtx,    \* owner of request_entities_.data_mtx
  written,             \* requests published on DDS
  callhandle_client,   \* calls whose handle is a key of callhandle_client_
  sample_callhandle,   \* calls whose request is a key of sample_callhandle_
  reply_id_type,       \* calls whose request is a key of reply_id_type_
  answered             \* calls whose client got receive_response

callerVars == <<caller, request_data_mtx, written>>
mapVars == <<callhandle_client, sample_callhandle, reply_id_type>>
vars == <<receptionVars, gateVars, callerVars, mapVars, answered>>

ServerPhases == CommonPhases \cup {"parse", "respond", "responding"}

(* Every variable ranges over what the C++ declaration allows. *)
TypeOK ==
  /\ ReceptionTypeOK
  /\ GateTypeOK(Calls \cup Tids)
  /\ worker \in [Tids -> ServerPhases]
  /\ caller \in [Calls -> {"idle", "converting", "locking", "writing",
                           "recording", "done"}]
  /\ request_data_mtx \in {"free"} \cup Calls
  /\ \A calls \in {written, callhandle_client, sample_callhandle,
                   reply_id_type, answered} : calls \subseteq Calls

Init ==
  /\ ReceptionInit
  /\ GateInit
  /\ caller = [c \in Calls |-> "idle"]
  /\ request_data_mtx = "free"
  /\ written = {}
  /\ callhandle_client = {} /\ sample_callhandle = {} /\ reply_id_type = {}
  /\ answered = {}

-----------------------------------------------------------------------------
(* call_service; nobody calls a server that is being destroyed. *)

CallService(c) ==
  /\ caller[c] = "idle"
  /\ teardown = "none"
  /\ caller' = [caller EXCEPT ![c] = "converting"]
  /\ UNCHANGED <<receptionVars, gateVars, request_data_mtx, written, mapVars,
                 answered>>

(* Lock data_mtx and convert; a failure unlocks it and is only logged. *)
CallConvert(c) ==
  /\ caller[c] = "converting"
  /\ request_data_mtx = "free"
  /\ \/ /\ request_data_mtx' = c
        /\ caller' = [caller EXCEPT ![c] = "locking"]
     \/ /\ caller' = [caller EXCEPT ![c] = "done"]
        /\ UNCHANGED request_data_mtx
  /\ UNCHANGED <<receptionVars, gateVars, written, mapVars, answered>>

CallLock(c) ==
  /\ caller[c] = "locking"
  /\ mtx = "free"
  /\ mtx' = c
  /\ callhandle_client' = callhandle_client \cup {c}
  /\ caller' = [caller EXCEPT ![c] = "writing"]
  /\ UNCHANGED <<receptionVars, pub_sub_matched, peers, joined,
                 request_data_mtx, written, sample_callhandle, reply_id_type,
                 answered>>

(* Mutant: mtx_ is unlocked before the sample identity is recorded. *)
WriteUnlocks(c) ==
  /\ written' = written \cup {c}
  /\ caller' = [caller EXCEPT ![c] = "recording"]
  /\ mtx' = "free"

(* The request is published: from here on its reply may arrive. *)
WriteSucceeds(c) ==
  /\ written' = written \cup {c}
  /\ caller' = [caller EXCEPT ![c] = "recording"]
  /\ UNCHANGED mtx

(* A failure is only logged, and leaves the handle in callhandle_client_. *)
WriteFails(c) ==
  /\ caller' = [caller EXCEPT ![c] = "done"]
  /\ mtx' = "free"
  /\ UNCHANGED written

CallWrite(c) ==
  /\ caller[c] = "writing"
  /\ request_data_mtx' = "free"
  /\ WriteSucceeds(c) \/ WriteFails(c)
  /\ UNCHANGED <<receptionVars, pub_sub_matched, peers, joined, mapVars,
                 answered>>

CallRecord(c) ==
  /\ caller[c] = "recording"
  /\ sample_callhandle' = sample_callhandle \cup {c}
  /\ reply_id_type' = reply_id_type \cup ({c} \cap Typed)
  /\ mtx' = "free"
  /\ caller' = [caller EXCEPT ![c] = "done"]
  /\ UNCHANGED <<receptionVars, pub_sub_matched, peers, joined,
                 request_data_mtx, written, callhandle_client, answered>>

-----------------------------------------------------------------------------
(* receive, on a thread that owns reply_entities_.data_mtx. *)

Request(t) == RelatedTo[sample[t]]

Return(t) ==
  /\ worker' = [worker EXCEPT ![t] = "terminated"]
  /\ sample' = [sample EXCEPT ![t] = NoSample]

(* Mutants: the early return leaves data_mtx, or mtx_, locked. *)
IgnoreKeepsData(t) == Return(t) /\ UNCHANGED <<data_mtx, mtx>>
IgnoreKeepsMtx(t) == Return(t) /\ data_mtx' = "free" /\ mtx' = t

(* An unasked reply's thread returns without passing by finished_threads_. *)
Ignore(t) == Return(t) /\ data_mtx' = "free" /\ UNCHANGED mtx

(* A reply to a recorded request goes on to be parsed, any other is ignored. *)
ReceiveLookup(t) ==
  /\ worker[t] = "started"
  /\ mtx = "free"
  /\ \/ /\ Request(t) \in sample_callhandle
        /\ worker' = [worker EXCEPT ![t] = "parse"]
        /\ UNCHANGED <<data_mtx, sample, mtx>>
     \/ /\ Request(t) \notin sample_callhandle
        /\ Ignore(t)
  /\ UNCHANGED <<readerVars, cleaner_mtx, dynamic_data, listenerVars, poolVars,
                 cleaner, teardown, pub_sub_matched, peers, joined, callerVars,
                 mapVars, answered>>

(* fastdds_to_xtypes reads the shared buffer, whatever it holds by then. *)
ReceiveParse(t) ==
  /\ worker[t] = "parse"
  /\ \E next \in {"respond", "finish"} :
       worker' = [worker EXCEPT ![t] = next]
  /\ data_mtx' = "free"
  /\ UNCHANGED <<readerVars, cleaner_mtx, dynamic_data, listenerVars, sample,
                 poolVars, cleaner, teardown, gateVars, callerVars, mapVars,
                 answered>>

(* Mutants: only one of the two maps forgets the request. *)
ForgetClient(c) ==
  /\ callhandle_client' = callhandle_client \ {c}
  /\ UNCHANGED sample_callhandle
ForgetSample(c) ==
  /\ sample_callhandle' = sample_callhandle \ {c}
  /\ UNCHANGED callhandle_client

Forget(c) ==
  /\ callhandle_client' = callhandle_client \ {c}
  /\ sample_callhandle' = sample_callhandle \ {c}

(* Under mtx_: forget the request and call its client, or ignore a reply that
   somebody answered meanwhile. *)
ReceiveRespond(t) ==
  /\ worker[t] = "respond"
  /\ mtx = "free"
  /\ reply_id_type' = reply_id_type \ {Request(t)}
  /\ \/ /\ Request(t) \in callhandle_client
        /\ Forget(Request(t))
        /\ mtx' = t
        /\ worker' = [worker EXCEPT ![t] = "responding"]
     \/ /\ Request(t) \notin callhandle_client
        /\ worker' = [worker EXCEPT ![t] = "finish"]
        /\ UNCHANGED <<mtx, callhandle_client, sample_callhandle>>
  /\ UNCHANGED <<readerVars, mutexVars, dynamic_data, listenerVars, sample,
                 poolVars, cleaner, teardown, pub_sub_matched, peers, joined,
                 callerVars, answered>>

(* client->receive_response, called with mtx_ locked. *)
ReceiveResponded(t) ==
  /\ worker[t] = "responding"
  /\ answered' = answered \cup {Request(t)}
  /\ mtx' = "free"
  /\ worker' = [worker EXCEPT ![t] = "finish"]
  /\ UNCHANGED <<readerVars, mutexVars, dynamic_data, listenerVars, sample,
                 poolVars, cleaner, teardown, pub_sub_matched, peers, joined,
                 callerVars, mapVars>>

-----------------------------------------------------------------------------
(* The destructor deletes the request side before the reply side. *)
DtorDeleteRequest ==
  /\ teardown = "locking"
  /\ request_data_mtx = "free"
  /\ teardown' = "reception"
  /\ UNCHANGED <<readerVars, mutexVars, dynamic_data, listenerVars, workerVars,
                 poolVars, cleaner, gateVars, callerVars, mapVars, answered>>

otherVars == <<gateVars, callerVars, mapVars, answered>>

Listener ==
  /\ \/ ListenerCall \/ ListenerLock \/ ListenerSkip \/ ListenerDiscard
     \/ ListenerEmplace
     \/ \E t \in Tids : ListenerSpawn(t)
  /\ UNCHANGED otherVars

Worker(t) ==
  \/ ReceiveLookup(t) \/ ReceiveParse(t)
  \/ ReceiveRespond(t) \/ ReceiveResponded(t)
  \/ WorkerFinish(t) /\ UNCHANGED otherVars

Caller(c) ==
  CallConvert(c) \/ CallLock(c) \/ CallWrite(c) \/ CallRecord(c)

Cleaner ==
  /\ \/ CleanerLock \/ CleanerWake \/ CleanerYield \/ DrainEnd
     \/ \E t \in Tids : CleanerReap(t) \/ DrainJoin(t)
  /\ UNCHANGED otherVars

Destructor ==
  \/ /\ \/ DtorJoinCleaner \/ DtorLockData("reception")
        \/ DtorDeleteReader("detaching")
     /\ UNCHANGED otherVars
  \/ DtorDeleteRequest

(* What the process owes: the threads' own steps. *)
Progress ==
  \/ Listener \/ Cleaner \/ Destructor
  \/ \E t \in Tids : Worker(t)
  \/ \E c \in Calls : Caller(c)

(* The service's side and whoever matches: replies to written requests, and
   replies to other clients' requests. *)
Reply(r) == RelatedTo[r] \in written \cup {Foreign} /\ Arrive(r)

Environment ==
  \/ \E c \in Calls : CallService(c)
  \/ /\ \/ \E r \in Samples : Reply(r)
        \/ CleanerSpuriousWake
        \/ DtorStop /\ \A c \in Calls : caller[c] \in {"idle", "done"}
     /\ UNCHANGED otherVars
  \/ /\ teardown # "destroyed"
     /\ \E e \in Endpoints : OnMatched(e) \/ OnUnmatched(e)
     /\ UNCHANGED <<receptionVars, callerVars, mapVars, answered>>

Next == Progress \/ Environment

Spec == Init /\ [][Next]_vars

(* The scheduler runs every thread that can run; the environment may stop. *)
Fairness ==
  /\ WF_vars(Listener) /\ WF_vars(Cleaner) /\ WF_vars(Destructor)
  /\ \A t \in Tids : WF_vars(Worker(t))
  /\ \A c \in Calls : WF_vars(Caller(c))

FairSpec == Spec /\ Fairness

-----------------------------------------------------------------------------
(* Properties. *)

(* While a thread of `receive` has yet to convert its reply, it owns data_mtx
   and the buffer still holds the reply whose related identity it looks up
   (Server.cpp:556, :597). *)
BufferOwnership ==
  \A t \in Tids : worker[t] \in {"started", "parse"} =>
    data_mtx = t /\ dynamic_data = sample[t]

(* mtx_ protects the correlation maps: whoever is between its lock and unlock
   is its owner, so there is one at a time. *)
MapsLocked ==
  /\ \A c \in Calls : caller[c] \in {"writing", "recording"} => mtx = c
  /\ \A t \in Tids : worker[t] = "responding" => mtx = t

(* The three maps agree: a request that a reply can find has a client to
   answer, and a reply type is remembered only for such a request. *)
MapsCoherent ==
  /\ sample_callhandle \subseteq callhandle_client
  /\ reply_id_type \subseteq sample_callhandle

(* A client is answered once per call, though DDS may bring several replies
   to a request and several threads may look it up before one answers. *)
AnsweredOnce ==
  \A t \in Tids : worker[t] = "responding" =>
    /\ Request(t) \notin answered
    /\ \A u \in Tids \ {t} : worker[u] = "responding" => Request(u) # Request(t)

(* Only a reply to an answered request, or to somebody else's, is ignored as
   unasked; not one that outruns the recording of its request
   (Server.cpp:464, :579). *)
NoReplyLost ==
  [][\A t \in Tids :
       worker[t] = "started" /\ worker'[t] = "terminated" =>
         Request(t) \in answered \cup {Foreign} \/
         \E u \in Tids : worker[u] = "responding" /\ Request(u) = Request(t)]_vars

(* The destructor frees nothing that a thread still uses. *)
NothingRunsOnDeleted ==
  /\ teardown \notin {"none", "joining"} =>
       cleaner = "exited" /\ \A t \in Tids : worker[t] = "none"
  /\ teardown = "destroyed" => listener = "idle"

(* When a thread of `receive`, a call or the destructor can take its next step. *)
WorkerCanMove(t) ==
  \/ worker[t] \in {"started", "respond"} /\ mtx = "free"
  \/ worker[t] \in {"parse", "responding"}
  \/ worker[t] = "finish" /\ cleaner_mtx = "free"
CallerCanMove(c) ==
  \/ caller[c] = "converting" /\ request_data_mtx = "free"
  \/ caller[c] = "locking" /\ mtx = "free"
  \/ caller[c] \in {"writing", "recording"}
DestructorCanMove ==
  \/ teardown = "joining" /\ cleaner = "exited"
  \/ teardown = "locking" /\ request_data_mtx = "free"
  \/ teardown = "reception" /\ data_mtx = "free"
  \/ teardown = "detaching" /\ listener = "idle"
Runnable ==
  \/ ListenerCanMove \/ CleanerCanMove \/ DestructorCanMove
  \/ \E t \in Tids : WorkerCanMove(t)
  \/ \E c \in Calls : CallerCanMove(c)

(* Where the server may come to rest: with nothing left to do, behind the
   closed gate, at its end, or in the lock cycles of the destructor
   (Server.cpp:58, :297-303, :695). *)
AtRest ==
  /\ signals = 0 /\ listener = "idle" /\ cleaner = "blocked"
  /\ \A t \in Tids : worker[t] \in {"none", "terminated"}
  /\ \A c \in Calls : caller[c] \in {"idle", "done"}
BehindGate ==
  /\ mtx = "constructor"
  /\ \/ \E c \in Calls : caller[c] = "locking"
     \/ \E t \in Tids : worker[t] = "started"
ListenerDeleteCycle == teardown = "detaching" /\ listener = "take"
StuckOnlyWhere ==
  ~Runnable =>
    \/ teardown = "none" /\ AtRest
    \/ teardown = "destroyed"
    \/ BehindGate \/ CleanerJoinCycle \/ ListenerDeleteCycle

(* The same of the threads themselves: the guards above are those of their
   actions, none too many. *)
StopsOnlyWhere == (Runnable <=> ENABLED Progress) /\ StuckOnlyWhere

(* The replies that a thread has yet to answer with or to give up, and those
   with which one is calling receive_response. *)
SamplesAt(phases) == {sample[t] : t \in {u \in Tids : worker[u] \in phases}}
Carried == SamplesAt({"started", "parse", "respond"})
Answering == SamplesAt({"responding"})

C == INSTANCE CallReply WITH
  Replies <- Samples, NoReply <- NoSample,
  asked <- written, latest <- unread, carried <- Carried, answering <- Answering

(* The server implements calls and replies: whichever threads look replies up,
   parse them and respond, and however calls and the gate interleave with them,
   a client is called once for its request, with a reply to that request, and
   after it was written (Server.cpp:471, :580, :621). *)
ImplementsCallReply == C!Spec

(* Every call_service returns once the gate is open. *)
CallsReturn ==
  \A c \in Calls :
    caller[c] = "converting" /\ mtx # "constructor" ~> caller[c] = "done"

(* Every thread of `receive` gets to its end once the gate is open. *)
RepliesProcessed ==
  \A t \in Tids : worker[t] = "started" /\ mtx # "constructor" ~>
    worker[t] \in {"finish", "terminated", "none"}

-----------------------------------------------------------------------------
(* The inductive invariant: why the properties above hold. *)

(* Where a call is says what the maps have of it. *)
CallInv ==
  \A c \in Calls :
    /\ caller[c] \in {"writing", "recording"} => c \in callhandle_client
    /\ c \in callhandle_client => caller[c] \in {"writing", "recording", "done"}
    /\ c \in sample_callhandle => caller[c] = "done"
    /\ c \in written => caller[c] \in {"recording", "done"}

(* What a thread looked up is a call that is over: its request was written and
   recorded. *)
ReplyInv ==
  /\ \A r \in arrived : RelatedTo[r] \in written \cup {Foreign}
  /\ \A t \in Tids : worker[t] \in {"parse", "respond", "responding"} =>
       Request(t) \in Calls /\ caller[Request(t)] = "done"

(* Nobody can look a request up again once a thread answers it. *)
AnswerInv ==
  /\ \A c \in answered : c \notin callhandle_client /\ caller[c] = "done"
  /\ \A t \in Tids : worker[t] = "responding" =>
       /\ Request(t) \notin callhandle_client \cup answered
       /\ \A u \in Tids \ {t} : worker[u] = "responding" => Request(u) # Request(t)

(* A request that was recorded can be found until it is answered. *)
Responding(c) == \E t \in Tids : worker[t] = "responding" /\ Request(t) = c
KeptInv ==
  \A c \in written : caller[c] = "done" =>
    c \in sample_callhandle \cup answered \/ Responding(c)

IInv ==
  /\ TypeOK /\ ReceptionInv /\ CallInv /\ MapsCoherent
  /\ ReplyInv /\ AnswerInv /\ KeptInv

(* What it takes besides, to know where the server may stop: a mutex is held only
   by who is in its section, and behind the closed gate nothing was looked up. *)
SectionInv ==
  /\ \A c \in Calls :
       /\ mtx = c => caller[c] \in {"writing", "recording"}
       /\ request_data_mtx = c => caller[c] \in {"locking", "writing"}
  /\ \A t \in Tids : mtx = t => worker[t] = "responding"
  /\ mtx = "constructor" =>
       /\ callhandle_client = {}
       /\ \A t \in Tids : worker[t] \notin {"parse", "respond", "responding"}
RestInv == CountInv /\ SectionInv /\ teardown # "detached"

(* With one match per endpoint in all: the constructor's lock ends when no
   match is left to come, so no match unlocks mtx_ under its owner. *)
OwnerInv ==
  /\ pub_sub_matched = peers["writer"] + peers["reader"]
  /\ \A e \in Endpoints : peers[e] <= joined[e]
  /\ mtx # "constructor" => \A e \in Endpoints : joined[e] = 1
  /\ MapsLocked

=============================================================================
