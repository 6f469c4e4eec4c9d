--------------------------- MODULE MCRunSession ---------------------------
(* RunSession on a small instance; the values are in the cfg files. *)
EXTENDS RunSession
============================================================================
