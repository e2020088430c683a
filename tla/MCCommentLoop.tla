---------------------------- MODULE MCCommentLoop ----------------------------
(* Texts of four characters. *)
EXTENDS CommentLoop

MCAlphabet == {NewLine, "x", "/", "*"}
==============================================================================
