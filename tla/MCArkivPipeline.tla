-------------------------- MODULE MCArkivPipeline --------------------------
(* Model-checking instance of ArkivPipeline. *)
EXTENDS ArkivPipeline

CONSTANTS k1, k2, a1, a2

MCKeys == {k1, k2}
MCAddresses == {a1, a2}
=============================================================================
