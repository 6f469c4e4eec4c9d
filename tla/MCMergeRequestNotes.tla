------------------------ MODULE MCMergeRequestNotes ------------------------
(* MergeRequestNotes on a few threads; the values are in the cfg files. *)
EXTENDS MergeRequestNotes
============================================================================
