----------------------------- MODULE MCSubscriber -----------------------------
(* Instances of Subscriber for TLC. *)
EXTENDS Subscriber, TLC

CONSTANTS s1, s2, s3, t1, t2, t3

MCSamples == {s1, s2, s3}
MCDisposed == {s3}
MCTids == {t1, t2, t3}

=============================================================================
