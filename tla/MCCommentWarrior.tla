------------------------- MODULE MCCommentWarrior -------------------------
(* CommentWarrior on two discussions; the values are in the cfg files. *)
EXTENDS CommentWarrior
============================================================================
