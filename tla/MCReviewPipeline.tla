------------------------- MODULE MCReviewPipeline -------------------------
(* ReviewPipeline on a few prompts and runs; the values are in the cfg files. *)
EXTENDS ReviewPipeline

TwoNames == {"a","b"}
============================================================================
