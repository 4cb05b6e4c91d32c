--------------------------- MODULE MCGatedHandlers ---------------------------
(* Instances of GatedHandlers for TLC. *)
EXTENDS GatedHandlers, TLC

CONSTANTS h1, h2, h3
MCHandlers == {h1, h2, h3}

=============================================================================
