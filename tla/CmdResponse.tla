---------------------------- MODULE CmdResponse ----------------------------
(***************************************************************************)
(* The way back to the host (modules/cmd.c, driver/uart.c): a response or  *)
(* an event is written by CMD_ResponseStart, one CMD_ResponseBody for each *)
(* argument and CMD_ResponseEnd, byte by byte through CMD_ProtoWrite, which*)
(* escapes, and uart0_write, which waits for room in the TX FIFO.  The log *)
(* goes to the same UART between two frames.  The host (external, the      *)
(* mirror image of rxProto) takes the frames out of that stream.           *)
(*                                                                         *)
(* The writers are command handlers and callbacks that run to completion,  *)
(* so a log line never lies inside a frame.  It may hold any bytes, markers *)
(* as well, for INFO prints what the host has sent (a network's name, a    *)
(* topic, a path) with %s.  The two bytes of the checksum are arbitrary.   *)
(***************************************************************************)
EXTENDS Naturals, Sequences, SequencesExt

CONSTANTS
  Responses,     \* [cmd, callback, ret, bodies, crc]
  Texts,         \* what the log may print
  TxFifoLimit,   \* uart0_write waits while the FIFO holds that many bytes
  LenRange,      \* 2^16: the values of a uint16_t length
  MaxResponses,  \* bound: frames written
  MaxTexts       \* bound: log lines printed

Byte == 0..255
SLIP_START == 126
SLIP_END   == 127
SLIP_REPL  == 125

\* argc is a uint16_t.  No body reaches the top of the range of its length: the
\* callers' buffers are far shorter.
ASSUME ResponsesAssumption ==
  \A r \in Responses : /\ r.cmd \in Seq(Byte) /\ Len(r.cmd) = 2
                       /\ {r.callback, r.ret} \subseteq Seq(Byte)
                       /\ Len(r.callback) = 4 /\ Len(r.ret) = 4
                       /\ r.crc \in Seq(Byte) /\ Len(r.crc) = 2
                       /\ r.bodies \in Seq(Seq(Byte)) /\ Len(r.bodies) < 65536
                       /\ \A i \in DOMAIN r.bodies : Len(r.bodies[i]) <= LenRange - 4
ASSUME TextsAssumption == Texts \subseteq Seq(Byte)
ASSUME ResponseBoundsAssumption ==
  /\ TxFifoLimit \in Nat \ {0}
  /\ LenRange \in {4 * n : n \in 1..16384}
  /\ {MaxResponses, MaxTexts} \subseteq Nat

VARIABLES
  written,     \* responses written, the last one perhaps partly
  todo,        \* bytes of it, or of a log line, not yet given to uart0_write,
  txFifo,      \* each with a note whether it is one of the log's
  inFrame,     \* the host has seen SLIP_START
  escaped,     \* the host has seen SLIP_REPL
  hostBuf,     \* the frame it is receiving
  frames,      \* the frames it has received up to an END that a writer sent
  texts

vars == <<written, todo, txFifo, inFrame, escaped, hostBuf, frames, texts>>
hostVars == <<inFrame, escaped, hostBuf, frames>>

-----------------------------------------------------------------------------
(* The bytes of a response. *)

\* x ^ 0x20 on the three markers and their images.
SLIP_ESC(x) == IF (x \div 32) % 2 = 0 THEN x + 32 ELSE x - 32

\* Fault: SLIP_REPL itself is not escaped.
CMD_ProtoWriteMarkersOnly(data) ==
  IF data \in {SLIP_START, SLIP_END} THEN <<SLIP_REPL, SLIP_ESC(data)>> ELSE <<data>>

CMD_ProtoWrite(data) ==
  IF data \in {SLIP_START, SLIP_END, SLIP_REPL}
    THEN <<SLIP_REPL, SLIP_ESC(data)>>
    ELSE <<data>>

CMD_ProtoWriteBuf(data) ==
  FlattenSeq([i \in DOMAIN data |-> CMD_ProtoWrite(data[i])])

LittleEndian(n) == <<n % 256, n \div 256>>

\* pad_len++ until it is a multiple of 4, in 16 bits.
PadLen(len) == (len + ((4 - (len % 4)) % 4)) % LenRange

\* The length sent is the padded one.  pad_len is counted down with the data,
\* not below 0; what is left of it is the number of zeros.
Zeros(len) == IF PadLen(len) > len THEN PadLen(len) - len ELSE 0

CMD_ResponseBody(data) ==
  CMD_ProtoWriteBuf(LittleEndian(PadLen(Len(data))) \o data
                      \o [i \in 1..Zeros(Len(data)) |-> 0])

CMD_ResponseStart(cmd, callback, ret, argc) ==
  <<SLIP_START>> \o CMD_ProtoWriteBuf(cmd \o callback \o ret \o LittleEndian(argc))

\* Fault: the frame is not closed.
CMD_ResponseEndOpen(crc) == CMD_ProtoWriteBuf(crc)

CMD_ResponseEnd(crc) == CMD_ProtoWriteBuf(crc) \o <<SLIP_END>>

Response(r) ==
  CMD_ResponseStart(r.cmd, r.callback, r.ret, Len(r.bodies))
    \o FlattenSeq([i \in DOMAIN r.bodies |-> CMD_ResponseBody(r.bodies[i])])
    \o CMD_ResponseEnd(r.crc)

\* What the line carries: a byte, and whether the log has printed it.
Item == [byte : Byte, log : BOOLEAN]

Tagged(bytes, log) == [i \in DOMAIN bytes |-> [byte |-> bytes[i], log |-> log]]

-----------------------------------------------------------------------------
Init ==
  /\ written = <<>>
  /\ todo = <<>>
  /\ txFifo = <<>>
  /\ inFrame = FALSE /\ escaped = FALSE /\ hostBuf = <<>>
  /\ frames = <<>>
  /\ texts = 0

\* CMD_Exec, wifi_check_ip, tcpclient_recv and the MQTT callbacks.
CMD_Response ==
  /\ todo = <<>>
  /\ Len(written) < MaxResponses
  /\ \E r \in Responses : /\ written' = Append(written, r)
                           /\ todo' = Tagged(Response(r), FALSE)
  /\ UNCHANGED <<txFifo, hostVars, texts>>

INFO ==
  /\ todo = <<>>
  /\ texts < MaxTexts
  /\ texts' = texts + 1
  /\ \E text \in Texts : todo' = Tagged(text, TRUE)
  /\ UNCHANGED <<written, txFifo, hostVars>>

\* Fault: the writer does not wait for room.
uart0_writeNoWait ==
  /\ todo # <<>>
  /\ txFifo' = Append(txFifo, Head(todo))
  /\ todo' = Tail(todo)
  /\ UNCHANGED <<written, hostVars, texts>>

uart0_write ==
  /\ todo # <<>>
  /\ Len(txFifo) < TxFifoLimit
  /\ txFifo' = Append(txFifo, Head(todo))
  /\ todo' = Tail(todo)
  /\ UNCHANGED <<written, hostVars, texts>>

\* The host: START opens a frame whatever came before, END closes it, REPL
\* makes the next byte an escaped one.  A frame that an END of the log has
\* closed is one of the log's own and not counted: nothing but its checksum
\* tells the host so.
HostParse(b, log) ==
  \/ /\ b = SLIP_START
     /\ inFrame' = TRUE /\ escaped' = FALSE /\ hostBuf' = <<>>
     /\ UNCHANGED frames
  \/ /\ b = SLIP_END
     /\ inFrame' = FALSE
     /\ frames' = IF inFrame /\ ~log THEN Append(frames, hostBuf) ELSE frames
     /\ UNCHANGED <<escaped, hostBuf>>
  \/ /\ b = SLIP_REPL
     /\ escaped' = TRUE
     /\ UNCHANGED <<inFrame, hostBuf, frames>>
  \/ /\ b \notin {SLIP_START, SLIP_END, SLIP_REPL}
     /\ hostBuf' = IF ~inFrame THEN hostBuf
                   ELSE Append(hostBuf, IF escaped THEN SLIP_ESC(b) ELSE b)
     /\ escaped' = (escaped /\ ~inFrame)
     /\ UNCHANGED <<inFrame, frames>>

HostByte ==
  /\ txFifo # <<>>
  /\ HostParse(Head(txFifo).byte, Head(txFifo).log)
  /\ txFifo' = Tail(txFifo)
  /\ UNCHANGED <<written, todo, texts>>

Next == CMD_Response \/ INFO \/ uart0_write \/ HostByte

Spec == Init /\ [][Next]_vars

\* A writer that has started goes on; the line carries what is in the FIFO.
FairSpec == Spec /\ WF_vars(uart0_write) /\ WF_vars(HostByte)

-----------------------------------------------------------------------------
(* Properties. *)

TypeOK ==
  /\ written \in Seq(Responses) /\ Len(written) <= MaxResponses
  /\ todo \in Seq(Item)
  /\ txFifo \in Seq(Item) /\ Len(txFifo) <= TxFifoLimit
  /\ {inFrame, escaped} \subseteq BOOLEAN
  /\ hostBuf \in Seq(Byte) /\ frames \in Seq(Seq(Byte))
  /\ texts \in 0..MaxTexts

\* How the host walks a frame: argc, then each argument by the length in
\* front of it; where the walk ends, the checksum begins.
Number(f, i) == IF i + 1 > Len(f) THEN 0 ELSE f[i] + 256 * f[i + 1]
ArgStart(f) == LET p[k \in Nat] == IF k = 0 THEN 13
                                   ELSE p[k - 1] + 2 + Number(f, p[k - 1])
               IN p
HostArg(f, k) == SubSeq(f, ArgStart(f)[k - 1] + 2, ArgStart(f)[k] - 1)

\* data, filled up with fewer than four zeros to a multiple of four.
IsPadded(arg, data) ==
  /\ Len(arg) % 4 = 0
  /\ Len(arg) - Len(data) \in 0..3
  /\ \A i \in 1..Len(arg) : arg[i] = IF i <= Len(data) THEN data[i] ELSE 0

Conveys(f, r) ==
  /\ SubSeq(f, 1, 10) = r.cmd \o r.callback \o r.ret
  /\ Number(f, 11) = Len(r.bodies)
  /\ \A k \in DOMAIN r.bodies : IsPadded(HostArg(f, k), r.bodies[k])
  /\ SubSeq(f, ArgStart(f)[Len(r.bodies)], Len(f)) = r.crc

\* What the host has received up to a writer's END are exactly the responses
\* written, each complete and in order, whatever bytes their fields, arguments
\* and checksum are made of and whatever the log prints in between: a log line
\* may look like a frame of its own, but hides, damages and displaces none of
\* the responses.
HostReadsResponses ==
  /\ Len(frames) <= Len(written)
  /\ \A i \in DOMAIN frames : Conveys(frames[i], written[i])

\* Every response reaches the host.
ResponseArrives ==
  \A n \in 1..MaxResponses : (Len(written) = n) ~> (Len(frames) >= n)
=============================================================================
