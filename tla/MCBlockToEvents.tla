-------------------------- MODULE MCBlockToEvents --------------------------
(* Model-checking instance of BlockToEvents. *)
EXTENDS BlockToEvents

CONSTANTS e1

MCKeys == {e1}

(* One payload: the ordering question does not depend on its contents. *)
MCPayloads == {[key |-> e1, n |-> 1]}
=============================================================================
