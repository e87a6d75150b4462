----------------------------- MODULE MCCmdLink -----------------------------
(* Commands for TLC: CMD_RESET, CMD_IS_READY, a CMD_MQTT_PUBLISH with an    *)
(* argument, CMD_MQTT_EVENTS, which is not in the command table, and a      *)
(* CMD_MQTT_SETUP that is too long for a buffer of 6 or 7 cells.            *)
EXTENDS CmdLink

Reset1  == [cmd |-> 1, ret |-> 0, args |-> <<>>]
Ready   == [cmd |-> 2, ret |-> 1, args |-> <<>>]
Publish == [cmd |-> 7, ret |-> 1, args |-> << <<1>> >>]
Unknown == [cmd |-> 10, ret |-> 1, args |-> <<>>]

Setup   == [cmd |-> 4, ret |-> 1, args |-> << <<1>>, <<1>> >>]

MCShort == {Reset1, Ready, Publish, Unknown}
MCLong  == {Reset1, Setup, Publish, Unknown}
MCCommands == {1, 2, 4, 7}
=============================================================================
