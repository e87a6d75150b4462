--------------------------- MODULE MCCmdReceiver ---------------------------
(* The 256-byte ring and the 16-byte FIFO thresholds shrink to 2.  A frame is *)
(* six cells, more than CMD_Task, ring and FIFO hold together: a command that *)
(* asks for an answer, and CMD_RESET.                                         *)
EXTENDS CmdReceiver

Reset1 == [cmd |-> 1, ret |-> 0, args |-> <<>>]
Ready  == [cmd |-> 2, ret |-> 1, args |-> <<>>]

MCPackets == {Reset1, Ready}
MCCommands == {1, 2}
=============================================================================
