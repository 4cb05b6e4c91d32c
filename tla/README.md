# TLA+ verification of the Fast DDS System Handle

The program is the *Fast DDS System Handle* of eProsima's Integration Service:
a plugin that lets the Integration Service core talk to DDS topics and services
(`src/src`). This directory holds TLA+ models of its concurrent and stateful
parts, the TLC configurations that check them on small instances, and TLAPS
proofs, for every instance, of the safety of the subscriber, the server, the
client, the handle and the tables of a service, of the gate in front of the
correlation maps, of what these promise in the abstract (a relay, and calls with
replies), and of where their threads can come to stop.

## 1. Inventory

| component | state | operations | correct when |
|---|---|---|---|
| `Subscriber` | shared buffer `dynamic_data_` under `data_mtx_`; `reception_threads_`, `finished_threads_`, `stop_cleaner_` under `cleaner_mtx_` | `on_data_available` (middleware thread), `receive` (a thread per sample), `cleaner_function` (a thread), destructor (owner) | a sample is forwarded at most once, with its own data and info; every thread is joined; the destructor frees nothing in use and ends |
| `Server` | the same machinery for replies; the request buffer; `callhandle_client_`, `sample_callhandle_`, `reply_id_type_` under `mtx_`; `pub_sub_matched_` under `matched_mtx_` | `call_service` (core's threads), `receive`, match handlers, cleaner, destructor, `add_config` | a call is answered at most once, by a reply to its own request; no reply is lost to a race; calls return |
| `Client` | the same machinery for requests; the reply buffer; `reply_id_type_` under `mtx_`; the match count | `receive`, `receive_response` (core's threads), match handlers, cleaner, destructor, `add_config` | a response goes out under the identity of its request and with its type |
| `Participant` | the DDS participant, `types_`, `topic_to_type_`, `topic_to_entities_` | constructor, `register_dynamic_type`, `create_dynamic_data`, associate, dissociate, destructor | a topic shared by several endpoints lives as long as any of them; types are registered once |
| `SystemHandle` | the participant and the lists of publishers, subscribers, clients, servers | `configure`, `subscribe`, `advertise`, the two proxies, `is_internal_message`, destructor | what is built is destroyed in order; failures are reported |
| `Publisher` | buffer under `data_mtx_` | `publish`, constructor, destructor | what is written is the message of the call, whatever the buffer held |
| `Conversion` | static tables of types and builders | types and data translated both ways | the data is the same on both sides |
| `NavigationNode` | a tree of member paths per request type | `fill_root_node`, `get_discriminator` | the member found is the request's |
| tables of `Server` and `Client` | `type_to_discriminator_`, `request_reply_`, `callbacks_`, `member_types_`, `member_tree_` | `add_config`; look-ups in calls | a request reaches the callback of its method, its reply the caller |

How they interact: the core configures a `SystemHandle`, which owns one
`Participant` and builds the other objects on it. DDS calls
`on_data_available`, `on_publication_matched` and `on_subscription_matched` on
its own threads; each sample is handed to a new thread that calls back into the
core (`is_callback_`, a request callback, or `receive_response` of the client
that asked). The core calls `publish`, `call_service` and `receive_response` on
any thread.

What is hard: the hand-off of a locked mutex from the middleware thread to the
new one (`Subscriber.cpp:212`, `:183`); the cleaner's condition variable and
its joins under a lock; the destructor racing callbacks; the lookup, unlock,
lock again of `Server::receive`; the mutex that match handlers unlock for
somebody else (`Server.cpp:496`); constructors that fail half way on a shared
participant. `PROJECT.json` lists each such hazard at its line.

## 2. Modules

| module | models | EXTENDS |
|---|---|---|
| `ReceptionThreads` | what `Subscriber`, `Server` and `Client` repeat line for line: reader, listener, thread pool, cleaner, destructor steps | |
| `Subscriber` | `Subscriber.cpp`: conversion and callback, properties, inductive invariant, refinement mapping to `Relay` | `ReceptionThreads` |
| `Relay` | abstract: the latest sample is taken, and handed over once or dropped | |
| `CallReply` | abstract: a request is answered at most once, with a reply to it that was taken | |
| `ReceptionProofs` | the shared invariant of the reception machinery, proved once for its three users | `ReceptionThreads`, `TLAPS` |
| `SubscriberProofs` | theorems about `Subscriber`, and that it implements `Relay` | `Subscriber`, `ReceptionProofs` |
| `MatchGate` | `mtx_` locked by the constructor and unlocked by the second match | |
| `GatedHandlers` | any threads using `mtx_` behind the gate while peers come and go | `MatchGate` |
| `GateProofs` | theorems about the gate and their proofs | `GatedHandlers`, `TLAPS` |
| `Server` | `Server.cpp`: calls, replies, gate, reception threads; refinement mapping to `CallReply` | `ReceptionThreads`, `MatchGate` |
| `Client` | `Client.cpp`: requests, responses, gate, reception threads; refinement mapping to `Relay` | `ReceptionThreads`, `MatchGate` |
| `ServerProofs`, `ClientProofs` | theorems about `Server` and `Client`, and that they implement `CallReply` and `Relay` | `Server` or `Client`, `ReceptionProofs` |
| `ServiceBridge` | a `Client` and a `Server` that call each other: all their mutexes and the threads that cross from one to the other | |
| `BridgeProofs` | the order of those mutexes and that no threads wait in a circle, proved | `ServiceBridge`, `TLAPS` |
| `Navigation` | `NavigationNode` and the paths of `Conversion` | |
| `ServiceTypes` | `add_config` of both and every look-up in their tables, over a call from `call_service` to the answer | `Navigation` |
| `ServiceTypesProofs` | theorems about the tables and the search of the tree | `ServiceTypes`, `TLAPS` |
| `DynamicTypes` | types and data of xtypes and of DDS; `get_builder` | |
| `ToFastdds`, `ToXtypes` | the two directions of `Conversion` | `DynamicTypes` |
| `Publisher` | `publish` by concurrent callers through the one buffer, a reader's conversion back | `DynamicTypes` |
| `Participant` | the steps constructors and destructors take on the shared participant | |
| `SystemHandle` | configuring, building in every order with failures, destroying | `Participant` |
| `HandleProofs` | theorems about `SystemHandle` and `Participant` | `SystemHandle`, `TLAPS` |
| `MC...` | instances for TLC | |

### Correspondence with the code

A variable has the name of its C++ member, without the trailing underscore
(`data_mtx`, `finished_threads`, `callhandle_client`). A mutex is its owner or
`"free"`; `std::mutex::unlock` frees it whoever holds it. A thread's variable
says where the thread is: `listener`, `worker[t]` (the thread of `receive` with
id `t`), `cleaner`, `teardown` (the destructor), `caller[c]` (a `call_service`),
`responder[r]` (a `receive_response`).

A step is a maximal piece of one thread's code whose middle no other thread can
observe: it ends where the code waits for a mutex, a condition variable or a
join, or unlocks what others wait for. So `ListenerLock` is the lock of
`cleaner_mtx_`, and `ListenerSpawn` everything from the lock of `data_mtx_` to
the start of the thread; the thread may run before it is entered into
`reception_threads_` (`ListenerEmplace`), as in the code.

The order of the samples, thread starts and reads is chosen by TLC. What the code
leaves open is a choice: a conversion or a `write` succeeds or fails; the condition
variable wakes spuriously; DDS accepts or refuses a type or an entity. Samples,
calls, types, topics are model values. A request is named by the call (in
`Server`) or the sample (in `Client`) that it is one to one with, and a call
handle likewise.

External, modelled from how the code uses it: the DDS reader (reliable, history
of one sample: a new one replaces what was not taken), the listener (one
callback of a reader at a time, none after `set_listener(nullptr)` or
`delete_datareader`, which waits for a running callback), the core (it does not
call an object it is destroying, responds at most once to a request, builds and
destroys proxies on one thread and keeps no proxy after the handle).

`Server` and `Client` leave the contents of a message and the tables to
`ServiceTypes`, in which a call is five steps: `CallService`, `ClientReceive`,
`ReceiveResponse`, `ServerReceive`, and, before or between them, each
`AddConfig`. In that module a path is a sequence of member names and a service
type the kind and name of what is at each path; a key that `operator[]` of a
`std::map` would insert has the empty path, as in the code. What has no meaning
in C++ (a null pointer read, a member that the type has not) ends the run with
`undefined` set, and `UndefinedOnlyWhere` says when that can be.

`ServiceBridge` keeps the opposite half: who owns and who waits for each of the
eight mutexes of a `Client` and a `Server`, and nothing of what they protect but
two maps. The destructors, replies nobody asked for and second replies are in
`Server` and `Client`. A step there ends wherever a mutex is locked.

In `DynamicTypes` primitive kinds are three, by what the conversion does to
them: copied, the unsigned byte, and the signed byte that DDS keeps in an
unsigned one. A union of DDS has a value for every member and shows the one its
discriminator selects; a structure and a union are converted in place, over the
last message, and a sequence or a map is cleared first. On the way back each
function looks at the kind of a byte, but `ToXtypes!set_union_data`, which
writes an unsigned one whatever the member is: `Mistyped` stands for what a
signed member then holds.

Not in the models: logging; QoS; the window in which
a constructor has created its reader but not yet stored the pointer to it; an
exhausted system that cannot start a thread.

## 3. Runs

| run | question | result |
|---|---|---|
| `subscriber` | hand-off, tracking, deletion, where it can stop, progress; does it implement `Relay` (no sample twice), and what `Relay` owes? | holds |
| `subscriber_shutdown` | does the destructor's wait end? | no: the cleaner joins a thread that waits for `cleaner_mtx_`, which the cleaner holds |
| `gate_one_peer` | does the constructor's lock end with both endpoints matched? | yes, for one peer per endpoint at a time |
| `gate_rejoin` | is `mtx_` a mutex when a peer leaves and returns? | no: its second match unlocks `mtx_` under its owner |
| `server_safety` | exclusion, coherent maps, no reply lost to a race, safe deletion, where it can stop; does it implement `CallReply` (no call answered twice)? | holds |
| `server_liveness` | do calls return and replies get processed? | yes |
| `client` | a reply is its request's, in identity, data and type; where it can stop; progress; does it implement `Relay`? | holds |
| `handle` | `topic_to_entities_` exact, topics outlive their endpoints, types defined, nothing left behind | holds |
| `handle_construct` | do failing constructors throw? | not those that run `cleaner_thread_`: the process ends |
| `publisher` | does a reader get each message as it was published? | yes, for the types it has (below), a union's signed byte left out |
| `service_types` | does a request reach its method's callback and the caller its reply, whatever else is configured meanwhile? | yes, where types tell the methods apart |
| `service_bridge` | are the mutexes of two components taken in one order, and are calls served? | yes |

### Bounds

* `subscriber`: three samples, one of them a disposed instance, and three
  threads. Two live samples are what it takes for one thread to hold the
  buffer while the next sample waits; the third is dropped by the listener, or
  replaces an unread one.
* `server_safety`: two calls, two replies to the first (one of them comes after
  the other answered, or while it does) and one to somebody else's request,
  three threads, so that all three replies can be in process at once; thread
  identifiers are interchangeable (symmetry, safety only). `server_liveness`:
  one call and two threads, without symmetry; the second reply is of a disposed
  instance, so that there is a thread for every reply that needs one.
* `client`: two requests and two threads, and a response to each on a thread of
  its own.
* `gate_*`: three handlers. `MaxPeers` bounds the peers matched at a
  time, `MaxJoins` the matches over time. In the server and client runs both are
  1, that is, each endpoint gets one peer, which may leave: what happens beyond
  that is the subject of the gate runs. The count itself is modulo 256.
* `publisher`: seven types, with every kind nested in every kind of container
  that the code treats differently (sequence of sequences, array of arrays, an
  alias at each place, a map of sequences, a union in a sequence, a union whose
  default member has no label), messages that differ in length, keys, active
  member and sign, and three concurrent calls (symmetry): any message can be
  converted over any other, and over what two others left. The union has cases
  of a signed and of an unsigned byte; of the signed one the property compares
  that it is the active case. Bytes and discriminators are modulo 256.
* `service_types`: seven services (methods in a union, with an alias and a
  shared reply type; a reply type that is not the union's; a request that is
  also a reply, and a name with `::`; members of a structure; a method with a `type`
  alone, which no reply type is paired with; a service that is its only method; a reply
  with the type of what is above its request), two calls (symmetry), each method configured once on either
  side at any moment. The state is small because a service is chosen at the start.
* `service_bridge`: three requests. A circle of waiting threads needs two; the
  third is the listener's while the other two are in process. For more, the
  theorem.
* `handle`: a publisher and a subscriber of one topic, a client and a server of
  one service, so every topic has two endpoints, and `MaxThrows` = 2 failed
  constructors that are survived.

There must be at least as many thread identifiers as live samples
(`EnoughThreads`): with fewer the listener would wait for an identifier, which
the code never does.

Deadlock is not checked by TLC's own test, as these systems do come to rest:
nothing arrives any more, the object is destroyed, the process has ended.
Instead `DeadlockOnlyInDestructor` (subscriber) and `StopsOnlyWhere` (server,
client) say which states may have no thread step enabled: at rest with
everything done, behind the closed gate, destroyed, or one of two lock cycles
of the destructor. They do so in two parts: `Runnable`, the guards of the
threads' actions written out, is true exactly where a thread step is enabled, and
where it is false (`StuckOnlyWhere`) is one of those. The first cycle is the finding of `subscriber_shutdown`; the
second is `delete_datareader`, called with `data_mtx_` held, waiting for a
callback that waits for `data_mtx_`.

### Fairness

Weak fairness of each thread's steps, taken together per thread: the operating
system runs every thread that can run. A thread that waits for a mutex is
served because each of the mutexes is only taken in sections that end, and
contended finitely often in these instances; strong fairness of locks is not assumed.
`ServiceBridge` has one such condition per listener, per receive thread and per
reply thread. `Publisher`, `ServiceTypes` and `GatedHandlers` have none: their
properties are of safety. Nothing obliges the environment: no sample, match, call, response or
destruction ever has to come. Properties about handlers behind the gate are
conditional on the gate being open.

## 4. Proofs

| module | proves of `Spec` |
|---|---|
| `SubscriberProofs` | `TypeOK`, `BufferOwnership`, `OwnDataForwarded`, `AtMostOnce`, `ThreadsTracked`, `NothingRunsOnDeleted`; `StuckOnlyWhere` (`Stops`); that it implements `Relay` |
| `ServerProofs` | `TypeOK`, `BufferOwnership`, `MapsCoherent`, `AnsweredOnce`, `NothingRunsOnDeleted`; `StuckOnlyWhere` (`Stops`); that it implements `CallReply`; with one match per endpoint, `MapsLocked` and `NoReplyLost` |
| `ClientProofs` | `TypeOK`, `OwnRequestAsked`, `RepliesMatch`, `TypesForgotten`, `NothingRunsOnDeleted`; `StuckOnlyWhere` (`Stops`); that it implements `Relay` |
| `HandleProofs` | `TypeOK`, `EntitiesExact`, `TopicOutlivesEndpoints`, `TopicTypesDefined`, `NothingLeftBehind` |
| `ServiceTypesProofs` | `TypeOK`, `RequestsReachTheirCallback`, `CallersGetTheirReply`, `UndefinedOnlyWhere` |
| `GateProofs` | `HeldUntilBothMatched` with one peer at a time; `OneInside` with one match per endpoint |
| `BridgeProofs` | `LocksInOrder`; `NoCircle`, `WaitsEnd` (`NoDeadlock`), `CallKnown` (`CallKept`) |

Each is for any value of the constants: any number of samples, threads, calls,
matches, proxies, endpoints, topics, types and services. Few of these
properties are inductive by themselves. Each module has an `IInv` that is, one
lemma per part of it (`TypeStep`, `LockStep`, ...) showing that every action
preserves the part, given the parts it rests on, `Inductive`, which puts them
together, and `Invariance`, which adds the temporal step. TLC checked each
`IInv` on the instances of the runs first.

`AtMostOnce`, `AnsweredOnce`, the client's `NothingRunsOnDeleted`, and
`NoCircle`, `WaitsEnd` and `CallKnown` are in no configuration. A sample handed
over twice, or a call answered twice, is no step of `Relay` or `CallReply`, which
the runs check in place of the first two.

### Assumptions

They are named in the module that declares the constants, and TLC evaluates them
on the instances of the runs.

* The null values are no samples, threads, requests, names or types, and the
  fixed threads (`"listener"`, `"cleaner"`, ...) are none of the identifiers:
  what distinguishes C++ objects from `nullptr` and from each other.
* The disposed and the typed messages are messages, each reply is related to a
  call or to somebody else's request, and the bounds are natural numbers.
* `EnoughThreads`: samples and thread identifiers are finite sets, with an
  identifier for every sample that can be handed to a thread. It is about the
  model alone: a `std::thread` always gets an identifier, and the set of them
  stands for those in use at once. Only `Stops` needs it.
* `EndpointsFinite`: a handle has finitely many endpoints. `EntitiesExact` is
  about a count, and the size of an infinite set is none.
* `EndpointsTyped`, `ProxiesTyped`: an endpoint has a topic and a type; a
  constructor creates a sequence of endpoints.
* `ServicesTyped`: a service type is a finite tree of members, each with a name
  (a path that is in the type has the paths above it), and a method is configured
  with paths in it: `add_config` gets the type at a configured path from
  `resolve_discriminator_type`, which asks for a member that the type has. `BareTyped`: a name without its `::` is a name.

`Locked`, `NoneLost` and `MutexHolds` have the hypothesis `MaxJoins` = 1: one
datawriter and one datareader ever match. It is what `gate_rejoin` refutes
beyond, and nothing else that is proved of the server or the client needs it: not
`MapsCoherent`, nor `AnsweredOnce` and the refinement of `CallReply`, since the
second look-up of `receive` and the erasures from the maps are one step. `GateHolds` has `MaxPeers` = 1.

### The reception machinery

`ReceptionInv` (in `ReceptionThreads`) is what `Subscriber`, `Server` and
`Client` rest on:

* `LockInv`: a mutex has an owner exactly while that thread is in its section.
  Without it, nothing forbids the listener from taking a sample while a thread
  has yet to convert.
* `BufferInv`: what a thread carries is the sample it was started for. It
  needs `LockInv`, because the listener's take would break it.
* `PoolInv`: a thread is in `reception_threads_`, or about to be, from its
  start until its join; the entry into `finished_threads_` needs `cleaner_mtx_`,
  which the listener holds from the start of the thread to its entry.
* `ShutdownInv`: after the destructor has set `stop_cleaner_` no thread is
  started, and the cleaner exits only when there is none left.
* `OnceInv`: a sample is in one place: unread, with one thread, or consumed.
* `WakeInv`: the cleaner does not sleep with `stop_cleaner_` set or something in
  `finished_threads_`: each notification comes with what it is about, in one
  section of `cleaner_mtx_`.

`ReceptionProofs` proves them once, of `ReceptionNext`: the steps of the listener,
the cleaner and the environment as they are, and what `receive` and a destructor
may at most do (`ReceiveStep`, `DeletionStep`). `ReceptionStep` of each of
the three components then shows that every action of it is one of these, or
leaves the machinery alone.

### Where threads stop

`Stops`, of each of the three components, is about states in which no guard of a
thread's action holds. `ReceptionStuck` does the part they share, and needs more
than `ReceptionInv`:

* `LockInv` gives the owner of a mutex that is waited for, and that owner can
  move; `WakeInv` excludes the lost wakeup.
* `CountInv` excludes the listener that finds no identifier. It counts: the
  threads not yet joined, and the live sample not yet taken, are no more than the
  live samples that arrived. `ThreadFree` then finds an identifier that is not in
  use, by `EnoughThreads`.
* `SectionInv` (server, client): who holds `mtx_` or a data mutex is in its
  section, and while the constructor holds `mtx_` no thread is past the gate.
* `Reported` (subscriber, client): a thread that ended is in `finished_threads_`
  until its join. The server has no such invariant, as the thread of an unasked
  reply returns without it (`Server.cpp:589`).

What is left are the states of `StuckOnlyWhere`. The run's property says besides
that `Runnable` is `ENABLED` of the threads' steps. `MovesOnlyIfRunnable` proves
one direction of that step by step, that no thread moves where `Runnable` is
false; the other, that where a guard holds there is a step, is of `ENABLED` and
TLC's alone. `Stops` says so: together with `StuckOnlyWhere`, it states the
property as equivalent to that rest.

### Subscriber and Relay

`IInv` adds what a thread in the callback holds and what was forwarded. `Implements`
shows that the subscriber implements `Relay`: the mapping `R` (in
`Subscriber`) makes a sample `carried` from the moment a thread is started for
it until the thread has forwarded it or failed to convert it, and leaves the
mutexes, the pool, the cleaner and the destructor out. `IInv` is what makes a
step of the code a step of `Relay`: a thread that forwards has the sample it
took, and nobody forwarded it before. The client implements the same `Relay`
towards its request callbacks; its thread notes the type under `mtx_` in
between, and so waits at the gate with the request carried. That `Relay` keeps no sample (`RelayOwes`)
is liveness, and model-checked.

### Server

`MapsCoherent` and `AnsweredOnce` alone do not survive a step: `call_service`
records a call that must still be in `callhandle_client_`, and a thread that has
looked its request up unlocks `mtx_` before it comes back to answer it.

* `CallInv` ties the place of a call in `call_service` to what the maps have of
  it: no other thread has entered it.
* `ReplyInv`: what a thread looked up is a call that was written and recorded.
* `AnswerInv`: while a thread answers a call, the call is in no map and
  with no other such thread, so that nobody can look it up again.
* `KeptInv`: a written call that was recorded is in `sample_callhandle_`, being
  answered, or answered. `NoReplyLost` follows from it step by step: with
  `mtx_` held from the write to the record, a reply looks for a call that has
  been recorded. This is where one match per endpoint is needed, and `OwnerInv` says
  why: the constructor's lock ends with the last match, after which
  no match unlocks `mtx_` under its owner.

`Implements` maps the server to `CallReply`: a reply is `carried` from the start
of its thread until it is given up or answered with, `answering` while
`receive_response` runs, and a request is `asked` by the `write` that succeeds.
Two threads with replies to one call cannot both find it, as the one that does
erases it from the maps in the same step: `AnswerInv` shows that the call is then
neither answered nor being answered, and `ReplyInv` that it was written. An
answer of two steps is what makes the abstract specification say something: in
one step, a second answer to a call would look like a reply that is dropped.

### Client

* `AskedInv`: a request whose callback has run is with no thread before its
  callback, and only such a request is responded to. It rests on `OnceInv`.
* `KeptInv`: the type of a reply stays in `reply_id_type_` from before the
  callback until it is looked up. A response may come before the callback has
  returned; that `receive` notes the type first is what makes it find it.
* `PathInv`, `ReplyBufferInv`: what was looked up is what the request's type
  is, and the buffer is its writer's from the lock to the write.

### Handle

`OwnedInv`: until a constructor fails, the DDS entities are those of the
proxies, the one under construction included, and a topic exists only with an
endpoint of theirs. `NothingLeftBehind` says this of the end only; `OwnedInv`
carries it through the destruction, where each destructor removes its own
endpoints and, with the last of them, the topic. `CountExact` rests on
`LastOfTopic`: what `dissociate` looks at, that the topic's set has one member,
is that the endpoint is the last of its topic.

### Bridge

`LocksInOrder` speaks of what a thread is about to lock; `HeldInv` names, for
each place of each thread, all that it may hold there. From the order follows
`NoCircle`: in a circle of waiting threads, the one whose mutex ranks last waits
for a thread of the circle that waits for a mutex of a higher rank still.
`WaitsEnd` adds that whoever holds a mutex has not ended (`HoldersUnfinished`):
if all unfinished threads waited, once no constructor holds its `mtx_`, they
would be such a circle. `CallKnown` is the one guard that is not of a mutex: the
call of a reply is still in `callhandle_client_` when its thread comes to
answer; `CallInv` ties the maps to the places of both threads of a request.

### Tables of a service

`RequestsReachTheirCallback` and `CallersGetTheirReply` are about a method that
can be told from the others (`Told`), whatever else is in the tables.

* `ServerTablesInv`, `ClientTablesInv`: for such a method the tables have its own
  entries and no others, although any method, one that cannot be told too, may
  have been added before. `Apart` is the lemma: no key that `add_config` writes
  for another method is a name of this one.
* `TreeInv`: the tree has the members on the way to a configured request, and
  the searched types are the configured names.
* `CourseInv`: what each stage of a call has so far: the request at its path,
  its callback, the name its reply is kept under.

`SearchTold` is about `get_discriminator`, a depth first search of the tree that
enters only the active case of a union and stops at the first member whose type
is searched. For a method that can be told it finds the request, or nothing if
the method is not configured: a member with a searched type is on the way to
some method's request; another method's parts from this one's at a union, and
the case it is in is not the active one (`UnionParts`); and nothing above the
request has a searched type.

The model defines the search by its result, the first in its order of the
members it may find. That there is a first (`SearchFinds`) needs no recursion
and no induction over the tree: two paths that differ have a least index at which they do
(`LeastNatural`), `PrecedesTotal` and `PrecedesOrder` make of it a total and
transitive order, and `FirstMet` takes the least of a finite set.

### What the proofs changed in the models

* `Register`, `Create` and `Complete` of `SystemHandle` were possible after the
  process had been terminated (`std::terminate` in a constructor's unwinding):
  `OwnedInv` was not inductive, and the guard was missing in the model.
* `Told` was too weak in two ways that no instance had shown. It compared the
  names of types as they are in the types and not as the tables keep them
  (without `::`), and it allowed something above the request to have the type of
  a method, which the search then finds in its place. The service `Mirrored` of
  `MCServiceTypes`, where the union of the requests has the type of a reply, is
  a counterexample to the old condition.
* `CallersGetTheirReply` said that the caller's reply has the configured
  name. It has the name of the member it is read from, which an alias or a `::`
  may make another.
* `CallReply` first answered in one step, and the server that does not forget an
  answered call implemented it (see Server above): the mutant that leaves the
  call in `callhandle_client_` showed it.
* `ServiceTypes` used `@@`, of which the prover knows nothing; assignments are
  functions now (`Assign`).

### Only model-checked

* Liveness: `RelayOwes`, `FinishedReaped`, `QuietShutdownJoins`, `CallsReturn`,
  `RepliesProcessed`, `RequestsProcessed`, `BridgeServes`.
* That a thread whose guard holds has a step, which is the one part of
  `DeadlockOnlyInDestructor` and of both `StopsOnlyWhere` that is not proved: it
  is about `ENABLED`.
* `MessagesArriveIntact`: the conversion of data is recursive (`DynamicTypes`,
  `ToFastdds`, `ToXtypes`, `Publisher` and `MCPublisher` declare `RECURSIVE`
  operators or use them; no module with a theorem reaches one).

## 5. What is not modelled

* The kinds of primitive data one by one, and strings: they are copied.
* Keys of a map that are not primitive (`Conversion.cpp:760` to `:804`): they are
  made apart and put with `set_complex_value` at no member, of which Fast DDS
  makes what it makes.
* The caches of types and builders by name (`types_`, `registered_types_`,
  `builders_`): two types of one name are taken as one, and the static maps have
  no lock.
* `NavigationNode::get_type`, which nothing calls.
* Two threads inside one `std::map` at once (`add_config` while a call looks
  up): a data race, for which C++ leaves nothing to model.
* `is_internal_message`: it compares the identifiers of two DDS participants
  and keeps no state. The walk over `publishers_` (`SystemHandle.cpp:146`) is
  for the log, and takes no lock that `advertise` would.
* Deserialising the XML profile, QoS attributes, `okay`, `spin_once`.
* The core and Fast DDS themselves, but for the assumptions above.

### Observations without a run

* Two readers that match a datawriter open the gate with no writer of replies
  matched (`Server.cpp:496`): the handlers count matches of either endpoint.
  `gate_one_peer` and `GateHolds` say when that cannot be.
* A thread whose reply is unasked returns before it reports its end
  (`Server.cpp:589`) and stays in `reception_threads_` until the destructor.
* `register_dynamic_type` answers "Already registered" whenever the topic has a
  type (`Participant.cpp:154`), be it another one.
* `Participant.cpp:88` reads the name of a participant that was not created
  through its null pointer, so a bad profile ends the process and not in the
  documented exception. `Configure` models it.
* A write that fails leaves an entry in `callhandle_client_` (`Server.cpp:462`)
  that no reply can find; `MapsCoherent` allows it.
* The tables of a service are keyed by type name: two methods with a type in
  common overwrite each other's path or callback. Names are kept without a
  leading `::` and looked up with it at `Server.cpp:472`, `Client.cpp:592` and
  `:602`. A structure of members, where no union tells them apart, is always
  taken for its first known member. `Told` in `ServiceTypes` excludes these.
* `Server.cpp:408` compares the alias of the reply with the request's name
  (`req`) and not with the reply's. Under `Told` it makes no difference,
  and neither `RequestsReachTheirCallback` nor `CallersGetTheirReply` says anything
  of the methods that `Told` leaves out.
* A request that comes before its method is configured makes
  `get_discriminator` return a null pointer, which `Client.cpp:593` reads:
  `UndefinedOnlyWhere` names this state.
* An array of an alias of an array is unfolded by the conversion of data and not
  by `get_array_specs` (`Conversion.cpp:2606`); the types of `publisher` have none.
  The discriminator of a union that comes from DDS is not read: xtypes chooses one
  of the labels of the active member, so `MessagesArriveIntact` compares the
  member and not the label.
* `set_union_data` writes the active byte as `uint8_t` (`Conversion.cpp:2228`),
  also to a member of type `int8`, where `set_struct_data` looks at the member's
  kind first (`:2007`). What comes of a write of another type is for xtypes to
  say, so `MessagesArriveIntact` leaves the value of such a member out.
* A type that DDS refuses stays in `types_` and `topic_to_type_`
  (`Participant.cpp:203`), and the next registration of it does not register it.
  `TopicTypesDefined` says that a topic's type is in `types_`, not in DDS.
* `Navigation` has no name for the root of a tree: a path of a configuration that
  does not begin with its type's own name has no place in it. `ServicesTyped`, the
  assumption on services, leaves such paths out.

## 6. Plan

1. Done: all the modules of section 2, and as theorems every safety invariant,
   action property and refinement of the passing runs but what is listed
   under "Only model-checked".
2. Should the code change, what to look at next:
   * `TopicTypesDefined` and `topic_to_entities_` under concurrent construction
     of proxies, if the core ever builds on more than one thread.
   * The two lock cycles of the destructors and the gate's early unlock. Repaired,
     they would turn `subscriber_shutdown` and `gate_rejoin` into runs that pass,
     take the cycles out of `StuckOnlyWhere`, and `MaxJoins` = 1 out of `Locked` and
     `NoneLost`.
