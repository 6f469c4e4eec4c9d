------------------------- MODULE MCServeLifecycle -------------------------
(* ServeLifecycle on two stages; the values are in the cfg files. *)
EXTENDS ServeLifecycle
============================================================================
