--------------------------- MODULE MCChainOutbox ---------------------------
(* Small instances of ChainOutbox for TLC. *)
EXTENDS ChainOutbox
=============================================================================
