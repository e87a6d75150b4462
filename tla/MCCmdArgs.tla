----------------------------- MODULE MCCmdArgs -----------------------------
(* Bytes and lengths share their values, so that one may be taken for the    *)
(* other.                                                                    *)
EXTENDS CmdArgs
=============================================================================
