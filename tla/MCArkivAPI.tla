------------------------------ MODULE MCArkivAPI ----------------------------
(* Model-checking instance of ArkivAPI. *)
EXTENDS ArkivAPI
=============================================================================
