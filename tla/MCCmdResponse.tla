--------------------------- MODULE MCCmdResponse ---------------------------
(* Responses whose callback, arguments and checksum are made of markers,    *)
(* escape images and zeros, with no, one and two arguments of every length  *)
(* modulo 4, up to the longest that LenRange allows; log lines that look    *)
(* like the beginning of a frame, the end of one, an escape and a whole     *)
(* frame.                                                                   *)
EXTENDS CmdResponse

Marks == <<SLIP_START, SLIP_END, SLIP_REPL, 94>>
Bodies == {<<>>, <<SLIP_REPL>>, <<93, SLIP_END>>, <<0, SLIP_START, 95>>, Marks,
           Marks \o <<SLIP_REPL>>, Marks \o Marks}

MCResponses ==
  [cmd : {<<2, 0>>}, callback : {Marks}, ret : {<<1, 0, 0, 0>>},
   bodies : {<<>>} \cup {<<b>> : b \in Bodies} \cup {<<b, Marks>> : b \in Bodies},
   crc : {<<SLIP_REPL, SLIP_END>>}]

MCTexts == {<<SLIP_START, 65>>, <<65, SLIP_REPL>>, <<SLIP_END>>,
            <<SLIP_START, 65, SLIP_END>>}
=============================================================================
