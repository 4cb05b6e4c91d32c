--------------------------------- MODULE Relay ---------------------------------
(***************************************************************************)
(* What a subscriber promises, without threads, mutexes or buffers: the    *)
(* reader keeps the latest sample; a sample that is taken is handed over   *)
(* once, as itself, or dropped, and never comes back.                      *)
(***************************************************************************)

CONSTANTS Samples, NoSample

VARIABLES
  arrived,      \* samples the reader has received so far
  latest,       \* the one that waits to be taken
  carried,      \* samples taken and not yet handed over
  delivered     \* samples handed over

vars == <<arrived, latest, carried, delivered>>

Init ==
  /\ arrived = {} /\ latest = NoSample
  /\ carried = {} /\ delivered = {}

Receive(s) ==
  /\ s \notin arrived
  /\ arrived' = arrived \cup {s}
  /\ latest' = s
  /\ UNCHANGED <<carried, delivered>>

Take ==
  /\ latest # NoSample
  /\ latest' = NoSample
  /\ carried' \in {carried, carried \cup {latest}}
  /\ UNCHANGED <<arrived, delivered>>

Deliver(s) ==
  /\ s \in carried \ delivered
  /\ carried' = carried \ {s}
  /\ delivered' = delivered \cup {s}
  /\ UNCHANGED <<arrived, latest>>

Drop(s) ==
  /\ s \in carried
  /\ carried' = carried \ {s}
  /\ UNCHANGED <<arrived, latest, delivered>>

Next ==
  \/ Take
  \/ \E s \in Samples : Receive(s) \/ Deliver(s) \/ Drop(s)

Spec == Init /\ [][Next]_vars

(* What is taken does not stay with the relay. *)
Fairness == \A s \in Samples : WF_vars(Deliver(s) \/ Drop(s))

FairSpec == Spec /\ Fairness

=============================================================================
