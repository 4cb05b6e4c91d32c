------------------------------- MODULE MCClient -------------------------------
(* Instance of Client for TLC: two requests, one of them with a reply type. *)
EXTENDS Client, TLC

CONSTANTS r1, r2, t1, t2

MCRequests == {r1, r2}
MCTids == {t1, t2}
MCTyped == {r1}

=============================================================================
