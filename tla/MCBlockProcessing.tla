------------------------- MODULE MCBlockProcessing -------------------------
(* Model-checking instance of BlockProcessing. *)
EXTENDS BlockProcessing

CONSTANTS k1, k2, k3, a1, a2

MCKeys == {k1, k2, k3}
MCAddresses == {a1, a2}

(* Two keys keep the liveness run small. *)
MCKeys2 == {k1, k2}
=============================================================================
