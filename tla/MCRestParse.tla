---------------------------- MODULE MCRestParse ----------------------------
(* A line end, a carriage return, a space, a digit and a letter. *)
EXTENDS RestParse

MCChars == {NL, CR, SP, 50, 72}
=============================================================================
