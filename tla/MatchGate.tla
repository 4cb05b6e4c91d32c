------------------------------ MODULE MatchGate ------------------------------
(***************************************************************************)
(* The gate that Server and Client repeat: the constructor locks mtx_, the *)
(* mutex of the correlation maps, and the listener that counts the second  *)
(* match unlocks it, so that handlers wait until both endpoints matched.   *)
(***************************************************************************)
EXTENDS Naturals

CONSTANTS MaxPeers,   \* bound: remote endpoints matched at a time, per endpoint
          MaxJoins    \* bound: matches over time, per endpoint

ASSUME BoundsAreNat == MaxPeers \in Nat /\ MaxJoins \in Nat

VARIABLES mtx,              \* owner of mtx_, "free" or "constructor"
          pub_sub_matched,  \* the uint8_t pub_sub_matched_
          peers,            \* remote endpoints matched now, per endpoint
          joined            \* how many ever joined, per endpoint

gateVars == <<mtx, pub_sub_matched, peers, joined>>

(* The datawriter and the datareader of the service. *)
Endpoints == {"writer", "reader"}

GateTypeOK(Owners) ==
  /\ mtx \in {"free", "constructor"} \cup Owners
  /\ pub_sub_matched \in 0..255
  /\ peers \in [Endpoints -> 0..MaxPeers]
  /\ joined \in [Endpoints -> 0..MaxJoins]

GateInit ==
  /\ mtx = "constructor"
  /\ pub_sub_matched = 0
  /\ peers = [e \in Endpoints |-> 0]
  /\ joined = [e \in Endpoints |-> 0]

(* Mutant: any match unlocks. *)
OnMatchedOpens(e) ==
  /\ joined[e] < MaxJoins
  /\ peers[e] < MaxPeers
  /\ joined' = [joined EXCEPT ![e] = @ + 1]
  /\ peers' = [peers EXCEPT ![e] = @ + 1]
  /\ pub_sub_matched' = (pub_sub_matched + 1) % 256
  /\ mtx' = "free"

(* on_publication_matched and on_subscription_matched with a change of +1:
   std::mutex::unlock frees the mutex whoever holds it. *)
OnMatched(e) ==
  /\ joined[e] < MaxJoins
  /\ peers[e] < MaxPeers
  /\ joined' = [joined EXCEPT ![e] = @ + 1]
  /\ peers' = [peers EXCEPT ![e] = @ + 1]
  /\ pub_sub_matched' = (pub_sub_matched + 1) % 256
  /\ mtx' = IF pub_sub_matched' = 2 THEN "free" ELSE mtx

(* The same handlers with a change of -1. *)
OnUnmatched(e) ==
  /\ peers[e] > 0
  /\ peers' = [peers EXCEPT ![e] = @ - 1]
  /\ pub_sub_matched' = (pub_sub_matched + 255) % 256
  /\ UNCHANGED <<mtx, joined>>

BothMatched == \A e \in Endpoints : peers[e] > 0

=============================================================================
