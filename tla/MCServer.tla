------------------------------- MODULE MCServer -------------------------------
(* Instances of Server for TLC.  In the first, r1 and r2 both answer the first
   call and r3 answers another client's request; in the second there is one
   call, r2 is a disposed instance, and two threads are enough. *)
EXTENDS Server, TLC

CONSTANTS c1, c2, r1, r2, r3, t1, t2, t3

MCCalls == {c1, c2}
MCTyped == {c1}

MCReplies == {r1, r2, r3}
MCRelatedTo == (r1 :> c1) @@ (r2 :> c1) @@ (r3 :> Foreign)
MCTids == {t1, t2, t3}

MCFewDisposed == {r2}
MCFewTids == {t1, t2}
MCFewCalls == {c1}

(* Thread identifiers are interchangeable in Init, Next and the invariants. *)
MCSymmetry == Permutations(MCTids)

=============================================================================
