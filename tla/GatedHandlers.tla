---------------------------- MODULE GatedHandlers ----------------------------
(***************************************************************************)
(* Threads that lock mtx_ (call_service and receive of Server, receive and *)
(* receive_response of Client), reduced to their critical sections, behind *)
(* the match gate while remote endpoints come and go.                      *)
(***************************************************************************)
EXTENDS MatchGate, FiniteSets

CONSTANT Handlers     \* the threads, one critical section each

ASSUME HandlersDistinct == {"free", "constructor"} \cap Handlers = {}

VARIABLE handler      \* where each one is

vars == <<gateVars, handler>>

TypeOK ==
  /\ GateTypeOK(Handlers)
  /\ handler \in [Handlers -> {"idle", "waiting", "inside", "done"}]

Init == GateInit /\ handler = [h \in Handlers |-> "idle"]

Call(h) ==
  /\ handler[h] = "idle"
  /\ handler' = [handler EXCEPT ![h] = "waiting"]
  /\ UNCHANGED gateVars

(* std::unique_lock on mtx_ *)
Enter(h) ==
  /\ handler[h] = "waiting"
  /\ mtx = "free"
  /\ mtx' = h
  /\ handler' = [handler EXCEPT ![h] = "inside"]
  /\ UNCHANGED <<pub_sub_matched, peers, joined>>

Leave(h) ==
  /\ handler[h] = "inside"
  /\ mtx' = "free"
  /\ handler' = [handler EXCEPT ![h] = "done"]
  /\ UNCHANGED <<pub_sub_matched, peers, joined>>

Matching == /\ \E e \in Endpoints : OnMatched(e) \/ OnUnmatched(e)
            /\ UNCHANGED handler

Next == Matching \/ \E h \in Handlers : Call(h) \/ Enter(h) \/ Leave(h)

Spec == Init /\ [][Next]_vars

-----------------------------------------------------------------------------

(* mtx_ protects the correlation maps: one handler at a time is inside. *)
OneInside ==
  \A g, h \in Handlers : handler[g] = "inside" /\ handler[h] = "inside" => g = h

(* "Lock mtx_ until datareader and datawriter have matched" (Server.cpp:58,
   Client.cpp:58): the constructor's lock ends in a state where both have. *)
HeldUntilBothMatched ==
  [][mtx = "constructor" /\ mtx' # "constructor" => BothMatched']_vars

=============================================================================
