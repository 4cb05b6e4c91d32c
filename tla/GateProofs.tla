------------------------------ MODULE GateProofs ------------------------------
(***************************************************************************)
(* What the match gate does guarantee, for any number of threads: with one *)
(* peer per endpoint at a time it opens when both endpoints are matched,   *)
(* and with one match per endpoint in all, mtx_ stays a mutex.             *)
(***************************************************************************)
EXTENDS GatedHandlers, TLAPS

USE BoundsAreNat, HandlersDistinct

(* A step of Next is a step of one endpoint or of one thread. *)
LEMMA StepCases ==
  ASSUME Next
  PROVE  \/ \E e \in Endpoints : OnMatched(e) /\ UNCHANGED handler
         \/ \E e \in Endpoints : OnUnmatched(e) /\ UNCHANGED handler
         \/ \E h \in Handlers : Call(h)
         \/ \E h \in Handlers : Enter(h)
         \/ \E h \in Handlers : Leave(h)
  BY DEF Next, Matching

LEMMA InitType == Init => TypeOK
  BY DEF Init, GateInit, TypeOK, GateTypeOK

(* Every variable keeps its type: the count wraps, the bounds are guards. *)
LEMMA TypeStep == TypeOK /\ [Next]_vars => TypeOK'
<1> SUFFICES ASSUME TypeOK, [Next]_vars PROVE TypeOK'
  OBVIOUS
<1> USE DEF TypeOK, GateTypeOK
<1>0. CASE UNCHANGED vars
  BY <1>0 DEF vars, gateVars
<1>1. CASE \E e \in Endpoints : OnMatched(e) /\ UNCHANGED handler
  BY <1>1 DEF OnMatched
<1>2. CASE \E e \in Endpoints : OnUnmatched(e) /\ UNCHANGED handler
  BY <1>2 DEF OnUnmatched
<1>3. CASE \E h \in Handlers : Call(h)
  BY <1>3 DEF Call, gateVars
<1>4. CASE \E h \in Handlers : Enter(h)
  BY <1>4 DEF Enter
<1>5. CASE \E h \in Handlers : Leave(h)
  BY <1>5 DEF Leave
<1> HIDE DEF TypeOK
<1> QED BY <1>0, <1>1, <1>2, <1>3, <1>4, <1>5, StepCases

-----------------------------------------------------------------------------
(* With few peers the uint8_t never wraps: it counts what is matched. *)
CountInv == pub_sub_matched = peers["writer"] + peers["reader"]

LEMMA CountStep ==
  MaxPeers = 1 /\ TypeOK /\ CountInv /\ [Next]_vars => CountInv'
<1> SUFFICES ASSUME MaxPeers = 1, TypeOK, CountInv, [Next]_vars PROVE CountInv'
  OBVIOUS
<1> USE DEF TypeOK, GateTypeOK, CountInv
<1>0. CASE UNCHANGED <<pub_sub_matched, peers>>
  BY <1>0
<1>1. CASE \E e \in Endpoints : OnMatched(e) /\ UNCHANGED handler
  <2>1. PICK e \in Endpoints : OnMatched(e)
    BY <1>1
  <2>2. e = "writer" \/ e = "reader"
    BY DEF Endpoints
  <2> QED BY <2>1, <2>2 DEF OnMatched, Endpoints
<1>2. CASE \E e \in Endpoints : OnUnmatched(e) /\ UNCHANGED handler
  <2>1. PICK e \in Endpoints : OnUnmatched(e)
    BY <1>2
  <2>2. e = "writer" \/ e = "reader"
    BY DEF Endpoints
  <2> QED BY <2>1, <2>2 DEF OnUnmatched, Endpoints
<1>3. Next => \/ \E e \in Endpoints : OnMatched(e) /\ UNCHANGED handler
              \/ \E e \in Endpoints : OnUnmatched(e) /\ UNCHANGED handler
              \/ UNCHANGED <<pub_sub_matched, peers>>
  BY StepCases DEF Call, Enter, Leave, gateVars
<1> HIDE DEF TypeOK, CountInv
<1> QED BY <1>0, <1>1, <1>2, <1>3 DEF vars, gateVars

(* While the constructor holds mtx_ no handler is inside to unlock it. *)
NobodyInside ==
  mtx = "constructor" => \A h \in Handlers : handler[h] # "inside"

LEMMA NobodyInsideStep == TypeOK /\ NobodyInside /\ [Next]_vars => NobodyInside'
<1> SUFFICES ASSUME TypeOK, NobodyInside, [Next]_vars PROVE NobodyInside'
  OBVIOUS
<1> USE DEF TypeOK, GateTypeOK, NobodyInside
<1>0. CASE UNCHANGED vars
  BY <1>0 DEF vars, gateVars
<1>1. CASE \E e \in Endpoints : OnMatched(e) /\ UNCHANGED handler
  BY <1>1 DEF OnMatched
<1>2. CASE \E e \in Endpoints : OnUnmatched(e) /\ UNCHANGED handler
  BY <1>2 DEF OnUnmatched
<1>3. CASE \E h \in Handlers : Call(h)
  BY <1>3 DEF Call, gateVars
<1>4. CASE \E h \in Handlers : Enter(h)
  BY <1>4 DEF Enter
<1>5. CASE \E h \in Handlers : Leave(h)
  BY <1>5 DEF Leave
<1> HIDE DEF TypeOK, NobodyInside
<1> QED BY <1>0, <1>1, <1>2, <1>3, <1>4, <1>5, StepCases

(* The lock ends only in the match that makes the count two, and two single
   peers are one of each endpoint. *)
LEMMA GateStep ==
  MaxPeers = 1 /\ TypeOK /\ CountInv /\ NobodyInside /\ [Next]_vars =>
    [mtx = "constructor" /\ mtx' # "constructor" => BothMatched']_vars
<1> SUFFICES ASSUME MaxPeers = 1, TypeOK, CountInv, NobodyInside, [Next]_vars,
                    mtx = "constructor", mtx' # "constructor"
             PROVE  BothMatched'
  OBVIOUS
<1>1. TypeOK' /\ CountInv'
  BY TypeStep, CountStep
<1>2. Next
  BY DEF vars, gateVars
<1>3. \E e \in Endpoints : OnMatched(e)
  BY <1>2, StepCases DEF OnUnmatched, Call, Enter, Leave, gateVars, NobodyInside
<1>4. pub_sub_matched' = 2
  BY <1>3 DEF OnMatched
<1>5. peers' \in [{"writer", "reader"} -> 0..1]
  BY <1>1 DEF TypeOK, GateTypeOK, Endpoints
<1>6. peers'["writer"] + peers'["reader"] = 2
  BY <1>1, <1>4 DEF CountInv
<1>7. peers'["writer"] > 0 /\ peers'["reader"] > 0
  BY <1>5, <1>6
<1> QED BY <1>7 DEF BothMatched, Endpoints

(* Server.cpp:58, Client.cpp:58: with one peer per endpoint at a time, however
   often it leaves and returns, the constructor's lock ends in a state where
   the datareader and the datawriter have matched. *)
THEOREM GateHolds == MaxPeers = 1 /\ Spec => HeldUntilBothMatched
<1> SUFFICES ASSUME MaxPeers = 1 PROVE Spec => HeldUntilBothMatched
  OBVIOUS
<1> DEFINE GateInv == TypeOK /\ CountInv /\ NobodyInside
<1>1. Init => GateInv
  BY InitType DEF Init, GateInit, CountInv, NobodyInside, Endpoints
<1>2. GateInv /\ [Next]_vars => GateInv'
  BY TypeStep, CountStep, NobodyInsideStep
<1>3. GateInv /\ [Next]_vars =>
        [mtx = "constructor" /\ mtx' # "constructor" => BothMatched']_vars
  BY GateStep
<1> HIDE DEF GateInv
<1> QED BY <1>1, <1>2, <1>3, PTL DEF Spec, HeldUntilBothMatched

-----------------------------------------------------------------------------
(* With one match per endpoint in all, the lock ends when no match is left to
   come, so no match can unlock mtx_ under the handler that owns it. *)
OwnerInv ==
  /\ CountInv
  /\ \A e \in Endpoints : peers[e] <= joined[e]
  /\ mtx # "constructor" => \A e \in Endpoints : joined[e] = 1
  /\ \A h \in Handlers : handler[h] = "inside" => mtx = h

LEMMA OwnerStep ==
  MaxJoins = 1 /\ TypeOK /\ OwnerInv /\ [Next]_vars => OwnerInv'
<1> SUFFICES ASSUME MaxJoins = 1, TypeOK, OwnerInv, [Next]_vars PROVE OwnerInv'
  OBVIOUS
<1> USE DEF TypeOK, GateTypeOK, OwnerInv, CountInv
<1>0. CASE UNCHANGED vars
  BY <1>0 DEF vars, gateVars
<1>1. CASE \E e \in Endpoints : OnMatched(e) /\ UNCHANGED handler
  <2>1. PICK e \in Endpoints : OnMatched(e) /\ UNCHANGED handler
    BY <1>1
  <2>2. e = "writer" \/ e = "reader"
    BY DEF Endpoints
  <2>3. mtx = "constructor"
    BY <2>1 DEF OnMatched
  <2>4. \A h \in Handlers : handler'[h] # "inside"
    BY <2>1, <2>3
  <2>5. \A d \in Endpoints : joined[d] \in 0..1 /\ peers[d] \in 0..1
    BY DEF Endpoints
  <2>6. CountInv'
    BY <2>1, <2>2, <2>5 DEF OnMatched, Endpoints
  <2>7. \A d \in Endpoints : peers'[d] <= joined'[d] /\ joined'[d] \in 0..1
    BY <2>1, <2>5 DEF OnMatched
  <2>8. mtx' # "constructor" => peers'["writer"] + peers'["reader"] = 2
    BY <2>1, <2>3, <2>6 DEF OnMatched
  <2>9. \A d \in Endpoints : peers'[d] \in Nat
    BY <2>1, <2>5 DEF OnMatched
  <2>10. mtx' # "constructor" => \A d \in Endpoints : joined'[d] = 1
    BY <2>7, <2>8, <2>9 DEF Endpoints
  <2> QED BY <2>4, <2>6, <2>7, <2>10
<1>2. CASE \E e \in Endpoints : OnUnmatched(e) /\ UNCHANGED handler
  <2>1. PICK e \in Endpoints : OnUnmatched(e) /\ UNCHANGED handler
    BY <1>2
  <2>2. e = "writer" \/ e = "reader"
    BY DEF Endpoints
  <2>3. \A d \in Endpoints : joined[d] \in 0..1 /\ peers[d] \in 0..1
    BY DEF Endpoints
  <2>4. CountInv'
    BY <2>1, <2>2, <2>3 DEF OnUnmatched, Endpoints
  <2>5. \A d \in Endpoints : peers'[d] <= joined'[d]
    BY <2>1, <2>3 DEF OnUnmatched
  <2> QED BY <2>1, <2>4, <2>5 DEF OnUnmatched
<1>3. CASE \E h \in Handlers : Call(h)
  BY <1>3 DEF Call, gateVars
<1>4. CASE \E h \in Handlers : Enter(h)
  BY <1>4 DEF Enter
<1>5. CASE \E h \in Handlers : Leave(h)
  BY <1>5 DEF Leave
<1> HIDE DEF TypeOK, OwnerInv
<1> QED BY <1>0, <1>1, <1>2, <1>3, <1>4, <1>5, StepCases

(* With one match per endpoint in all, mtx_ is a mutex for any number of
   handlers: two are never inside at once (Server.cpp:455, :579, :604). *)
THEOREM MutexHolds == MaxJoins = 1 /\ Spec => []OneInside
<1> SUFFICES ASSUME MaxJoins = 1 PROVE Spec => []OneInside
  OBVIOUS
<1>1. Init => TypeOK /\ OwnerInv
  BY InitType DEF Init, GateInit, OwnerInv, CountInv, Endpoints
<1>2. TypeOK /\ OwnerInv /\ [Next]_vars => TypeOK' /\ OwnerInv'
  BY TypeStep, OwnerStep
<1>3. TypeOK /\ OwnerInv => OneInside
  BY DEF OwnerInv, OneInside
<1> QED BY <1>1, <1>2, <1>3, PTL DEF Spec

=============================================================================
