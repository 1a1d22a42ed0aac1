------------------------ MODULE MCChainBatchIterator ------------------------
(* Model-checking instance of ChainBatchIterator. *)
EXTENDS ChainBatchIterator
=============================================================================
