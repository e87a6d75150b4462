------------------------------ MODULE CmdLink ------------------------------
(***************************************************************************)
(* The command protocol on top of the receive path: the host's frames, the *)
(* frame parser rxProto with its buffer protoRxBuf, protoCompletedCb and   *)
(* CMD_Exec (modules/cmd.c).                                               *)
(*                                                                         *)
(* The wire carries cells.  A field of the frame (cmd, _return, argc, an   *)
(* argument's length, a data byte, the checksum) is one cell, the markers  *)
(* SLIP_START and SLIP_END one each; escaping, which keeps the markers out *)
(* of the fields, is the subject of CmdResponse.  The checksum is ideal: the  *)
(* cell [t |-> "crc", v |-> b] equals the checksum of the body b only.     *)
(* The line under the parser is SerialLine, which CmdInput implements.     *)
(***************************************************************************)
EXTENDS SerialLine, FiniteSets

CONSTANTS
  Packets,     \* commands the host may send: [cmd, ret, args]
  Commands,    \* the values of cmd in the table commands[]
  CMD_RESET,   \* the one whose handler restarts the chip
  BufLen,      \* sizeof(protoRxBuf), in cells
  Window,      \* the host keeps at most Window bytes in flight
  MaxFrames,   \* bound: frames the host sends
  MaxResets    \* bound: resets that no CMD_RESET asked for

ASSUME PacketsAssumption ==
  /\ Packets \subseteq [cmd : Nat \ {0}, ret : Nat, args : Seq(Seq(Nat))]
  /\ Commands \subseteq Nat \ {0} /\ CMD_RESET \in Commands
ASSUME LinkAssumption == {BufLen, Window, MaxFrames, MaxResets} \subseteq Nat

VARIABLES
  packets,   \* commands of the host, in order
  wire,      \* their frames; byte i of the line is the i-th cell
  frameEnd,  \* where the frame of each packet ends
  isBegin,   \* rxProto is inside a frame
  dataLen,   \* cells of the frame received so far
  protoRxBuf,
  restart,   \* system_restart has been called
  executed,  \* commands dispatched, in order
  answers,   \* response frames written: the cmd each one answers, in order
  run,       \* how many consecutive bytes of the host, the last one taken
             \* included, rxProto has received without a gap or a reset
  resets     \* how many resets nobody asked for

host == <<packets, wire, frameEnd>>
linkVars == <<host, isBegin, dataLen, protoRxBuf, restart, executed,
              answers, run, resets>>
vars == <<lineVars, linkVars>>
parser == <<isBegin, dataLen, protoRxBuf>>

-----------------------------------------------------------------------------
(* Frames. *)

Num(n) == [t |-> "num", v |-> <<n>>]
START  == [t |-> "start", v |-> <<>>]
END    == [t |-> "end", v |-> <<>>]

\* The fields covered by the checksum; each argument follows its length.
Body(p) == <<p.cmd, p.ret, Len(p.args)>>
             \o FlattenSeq([i \in DOMAIN p.args |-> <<Len(p.args[i])>> \o p.args[i]])

Crc(b) == [t |-> "crc", v |-> b]

Frame(p) == LET b == Body(p)
            IN <<START>> \o [i \in DOMAIN b |-> Num(b[i])] \o <<Crc(b), END>>

FrameStart(i) == IF i = 1 THEN 1 ELSE frameEnd[i - 1] + 1
FrameLen(i) == frameEnd[i] + 1 - FrameStart(i)

\* .bss is cleared at boot.
ZeroBuf == [i \in 1..BufLen |-> Num(0)]

-----------------------------------------------------------------------------
(* CMD_Exec. *)

Unexecuted == UNCHANGED <<restart, executed, answers>>

\* Fault: the answer goes to the commands that did not ask for one.
CMD_ExecAnswerInverted(packet) ==
  \/ /\ packet.cmd \notin Commands
     /\ Unexecuted
  \/ /\ packet.cmd \in Commands
     /\ executed' = Append(executed, packet)
     /\ restart' = (restart \/ packet.cmd = CMD_RESET)
     /\ answers' = IF packet.ret = 0 THEN Append(answers, packet.cmd) ELSE answers

\* Fault: the search does not stop at the end of the table.
CMD_ExecAnyCommand(packet) ==
  /\ executed' = Append(executed, packet)
  /\ restart' = (restart \/ packet.cmd = CMD_RESET)
  /\ answers' = IF packet.ret # 0 THEN Append(answers, packet.cmd) ELSE answers

\* The table is searched for cmd; an unknown one, CMD_NULL included, is
\* dropped without an answer.  CMD_Reset calls system_restart, which returns:
\* the chip restarts later.  The answer follows the handler.
CMD_Exec(packet) ==
  \/ /\ packet.cmd \notin Commands
     /\ Unexecuted
  \/ /\ packet.cmd \in Commands
     /\ executed' = Append(executed, packet)
     /\ restart' = (restart \/ packet.cmd = CMD_RESET)
     /\ answers' = IF packet.ret # 0 THEN Append(answers, packet.cmd) ELSE answers

\* The number in a cell; that of a checksum is arbitrary, and whichever it is
\* the ideal checksum of a body read from it matches nothing.
Value(cell) == IF cell.t = "num" THEN cell.v[1] ELSE 0
CellAt(i) == IF i <= BufLen THEN protoRxBuf[i] ELSE Num(0)

\* Fault: data_ptr is not advanced past the length field.
DataPtrLengthNotSkipped ==
  LET ptr[k \in Nat] ==
        IF k = 0 THEN 4 ELSE ptr[k - 1] + Value(CellAt(ptr[k - 1]))
  IN ptr

\* data_ptr after k arguments: each is skipped by the length in front of it.
DataPtr == LET ptr[k \in Nat] ==
                 IF k = 0 THEN 4 ELSE ptr[k - 1] + 1 + Value(CellAt(ptr[k - 1]))
           IN ptr

\* What protoRxBuf holds, up to the checksum: argc and the lengths are taken
\* from the buffer, never from the number of cells received.
Argc == Value(CellAt(3))
Field(i) == Value(CellAt(i))
Arg(k) == [i \in 1..Field(DataPtr[k - 1]) |-> Field(DataPtr[k - 1] + i)]
Received == [cmd |-> Field(1), ret |-> Field(2), args |-> [k \in 1..Argc |-> Arg(k)]]

\* Fault: the checksum is computed and not compared.
CrcNotCompared == TRUE

\* crc == resp_crc
CrcMatches ==
  /\ \A i \in 1..(DataPtr[Argc] - 1) : CellAt(i).t = "num"
  /\ CellAt(DataPtr[Argc]) = Crc(Body(Received))

\* The frame in the buffer is executed if its checksum is right.
protoCompletedCb == IF CrcMatches THEN CMD_Exec(Received) ELSE Unexecuted

-----------------------------------------------------------------------------
(* PROTO_ParseByte, a library: START opens a frame, END closes it and calls *)
(* protoCompletedCb, other cells go to the buffer while a frame is open and *)
(* there is room.  Whether an END with no frame open calls it is left open. *)

ParseStart(cell) ==
  /\ cell = START
  /\ isBegin' = TRUE
  /\ dataLen' = 0
  /\ UNCHANGED protoRxBuf
  /\ Unexecuted

ParseEnd(cell) ==
  /\ cell = END
  /\ isBegin' = FALSE
  /\ UNCHANGED <<dataLen, protoRxBuf>>
  /\ \/ protoCompletedCb
     \/ ~isBegin /\ Unexecuted

ParseData(cell) ==
  /\ cell \notin {START, END}
  /\ IF isBegin /\ dataLen < BufLen
       THEN /\ dataLen' = dataLen + 1
            /\ protoRxBuf' = [protoRxBuf EXCEPT ![dataLen + 1] = cell]
       ELSE UNCHANGED <<dataLen, protoRxBuf>>
  /\ UNCHANGED isBegin
  /\ Unexecuted

PROTO_ParseByte(cell) == ParseStart(cell) \/ ParseEnd(cell) \/ ParseData(cell)

-----------------------------------------------------------------------------
(* The system. *)

Init ==
  /\ LineInit
  /\ packets = <<>>
  /\ wire = <<>>
  /\ frameEnd = <<>>
  /\ isBegin = FALSE
  /\ dataLen = 0
  /\ protoRxBuf = ZeroBuf
  /\ restart = FALSE
  /\ executed = <<>>
  /\ answers = <<>>
  /\ run = 0
  /\ resets = 0

\* The host starts a frame.  No packet is sent twice, so that the content of
\* a command tells which frame it came from.
HostCommand ==
  /\ sent = Len(wire)
  /\ Len(packets) < MaxFrames
  /\ \E p \in Packets \ Range(packets) :
       /\ packets' = Append(packets, p)
       /\ wire' = wire \o Frame(p)
  /\ frameEnd' = Append(frameEnd, Len(wire'))
  /\ UNCHANGED <<lineVars, parser, restart, executed, answers, run, resets>>

HostByte ==
  /\ sent < Len(wire)
  /\ Len(pending) < Window
  /\ Send
  /\ UNCHANGED linkVars

LineLoss == Lose /\ UNCHANGED linkVars

\* The parser's part in the delivery of a byte, the one that is in last then.
TakeByte ==
  /\ run' = IF run > 0 /\ last' = last + 1 THEN run + 1 ELSE 1
  /\ PROTO_ParseByte(wire[last'])
  /\ UNCHANGED <<host, resets>>

\* CMD_Task feeds the oldest byte to the parser.
ParseByte == Deliver /\ TakeByte

CMD_Init == PowerUp /\ UNCHANGED linkVars

\* Fault: the parser and its buffer outlive the reset.
ParserResetKeepsFrame ==
  /\ restart \/ resets < MaxResets
  /\ restart' = FALSE
  /\ run' = 0
  /\ resets' = IF restart THEN resets ELSE resets + 1
  /\ UNCHANGED <<host, parser, executed, answers>>

\* The parser's part in the restart CMD_Reset asked for, or in one nobody asked
\* for.
ParserReset ==
  /\ restart \/ resets < MaxResets
  /\ isBegin' = FALSE
  /\ dataLen' = 0
  /\ protoRxBuf' = ZeroBuf
  /\ restart' = FALSE
  /\ run' = 0
  /\ resets' = IF restart THEN resets ELSE resets + 1
  /\ UNCHANGED <<host, executed, answers>>

Restart == Reset /\ ParserReset

Next == HostCommand \/ HostByte \/ LineLoss \/ ParseByte \/ CMD_Init \/ Restart

Spec == Init /\ [][Next]_vars

\* The line delivers and the chip boots.  The host owes nothing.
Fairness ==
  /\ WF_vars(ParseByte)
  /\ WF_vars(CMD_Init)

FairSpec == Spec /\ Fairness

-----------------------------------------------------------------------------
(* Properties. *)

\* Every variable stays in its domain; what is executed has the form of a
\* packet and is in the command table.
TypeOK ==
  /\ packets \in Seq(Packets)
  /\ isBegin \in BOOLEAN
  /\ dataLen \in 0..BufLen
  /\ DOMAIN protoRxBuf = 1..BufLen
  /\ \A i \in 1..BufLen : protoRxBuf[i] \in ({Num(0)} \cup Range(wire)) \ {START, END}
  /\ restart \in BOOLEAN
  /\ \A i \in DOMAIN executed : executed[i].cmd \in Commands
  /\ Len(answers) <= Len(executed)
  /\ run \in 0..sent
  /\ resets \in 0..MaxResets

\* The frame that byte b of the line closes, and whether every byte of it
\* reached the parser.
Closes(b, i) == i \in DOMAIN packets /\ b = frameEnd[i]
Whole(i, n) == n >= FrameLen(i)
\* Its fields and checksum fit protoRxBuf.
Fits(i) == FrameLen(i) - 2 <= BufLen

\* Resynchronisation: whatever was lost or left in protoRxBuf before, a frame
\* that arrives whole is executed at its END, with its own arguments, and
\* nothing else is; one that is too long for protoRxBuf is dropped (rxProto,
\* protoCompletedCb, CMD_Exec).
WholeFrameExecuted ==
  [][\A i \in DOMAIN packets :
       (last' # last /\ Closes(last', i) /\ Whole(i, run')) =>
         executed' = IF packets[i].cmd \in Commands /\ Fits(i)
                       THEN Append(executed, packets[i]) ELSE executed]_vars

\* The checksum detects every error in transmission: whatever is lost, and
\* whatever an earlier frame left in protoRxBuf, the chip never executes a
\* command the host did not send (protoCompletedCb).
OnlySentExecuted ==
  \A i \in DOMAIN executed : \E k \in DOMAIN packets : executed[i] = packets[k]

\* As long as the host keeps no more bytes in flight than rxBuf holds, a
\* command is executed only at the end of its frame, and only when the frame
\* arrived whole: one that a reset cut in two has no effect
\* (protoCompletedCb, CMD_Init).
DamagedFrameIgnored ==
  [][executed' # executed =>
       \E i \in DOMAIN packets : Closes(last', i) /\ Whole(i, run')]_vars

\* A frame damaged in transmission is detected, and not taken for the command
\* that was executed before it.
ExecutedOnce == IsInjective(executed)

\* Every known command that asks for a return value and is in flight as a
\* whole is answered, unless the chip goes down first.
InFlight(i) ==
  /\ up
  /\ i \in DOMAIN packets
  /\ packets[i].cmd \in Commands /\ packets[i].ret # 0 /\ Fits(i)
  /\ \A b \in FrameStart(i)..frameEnd[i] : Contains(pending, b)
AnsweredTo(i) == i \in DOMAIN packets /\ Contains(answers, packets[i].cmd)
Answered == \A i \in 1..MaxFrames : InFlight(i) ~> (AnsweredTo(i) \/ ~up)
=============================================================================
