---------------------------- MODULE CmdReceiver ----------------------------
(***************************************************************************)
(* The receiver as a whole: the interrupt handler, rxRb and CMD_Task of    *)
(* CmdInput, with the host's frames and the frame parser of CmdLink behind *)
(* them (driver/uart.c, modules/cmd.c).  CmdLink has the parser read from  *)
(* SerialLine; here it reads from the code that SerialLine stands for.     *)
(*                                                                         *)
(* Each action is one of CmdInput joined with what it does to the parser   *)
(* or the host.  How bytes get from the host to the parser is CmdInput's   *)
(* alone: nothing here constrains what is delivered, lost or reset.        *)
(***************************************************************************)
EXTENDS CmdInput, FiniteSets

CONSTANTS Packets, Commands, CMD_RESET, BufLen, Window,   \* as in CmdLink,
          MaxFrames, MaxResets                            \* its bounds too

ASSUME PacketsAssumption ==
  /\ Packets \subseteq [cmd : Nat \ {0}, ret : Nat, args : Seq(Seq(Nat))]
  /\ Commands \subseteq Nat \ {0} /\ CMD_RESET \in Commands
ASSUME LinkAssumption == {BufLen, Window, MaxFrames, MaxResets} \subseteq Nat

VARIABLES packets, wire, frameEnd, isBegin, dataLen, protoRxBuf, restart,
          executed, answers, run, resets                  \* as in CmdLink

\* The protocol, over the bytes that the receive path has in flight.
Link == INSTANCE CmdLink WITH Capacity <- RingSize, pending <- InFlight

linkVars == <<packets, wire, frameEnd, isBegin, dataLen, protoRxBuf, restart,
              executed, answers, run, resets>>
receiverVars == <<vars, linkVars>>

ReceiverInit == Init /\ Link!Init

-----------------------------------------------------------------------------
(* The host. *)

StartFrame == UNCHANGED vars /\ Link!HostCommand

\* The host keeps at most Window bytes in flight, and obeys RTS (HostSend).
SendByte ==
  /\ sent < Len(wire)
  /\ Len(InFlight) < Window
  /\ HostSend
  /\ UNCHANGED linkVars

-----------------------------------------------------------------------------
(* The chip. *)

\* Steps that do not reach the parser.
BelowParser ==
  /\ \/ RxTimeout \/ Isr \/ CMD_Init
     \/ TaskStart \/ TaskGet \/ TaskEmpty \/ TaskReturn
  /\ UNCHANGED linkVars

\* CMD_Task hands the byte it has read to the parser, which executes a command
\* within this call.  An interrupt in the middle of it touches nothing that the
\* parser uses, and is taken as one before it.
Parse == TaskParse /\ Link!TakeByte

\* The chip restarts, from any step of the handler or of the task.
ChipRestart == Restart /\ Link!ParserReset

ReceiverNext == StartFrame \/ SendByte \/ BelowParser \/ Parse \/ ChipRestart

ReceiverSpec == ReceiverInit /\ [][ReceiverNext]_receiverVars

\* The scheduling is that of CmdInput; the parser never keeps a step waiting.
ReceiverFairSpec == ReceiverSpec /\ Fairness

-----------------------------------------------------------------------------
(* Properties. *)

\* The protocol holds of the interrupt-driven firmware as it does of the
\* abstract line: whatever the handler, the ring buffer, the event queue and
\* the resets do, the parser sees the host's frames as CmdLink says
\* (uart0_rx_intr_handler, CMD_Input, CMD_Task, PROTO_ParseByte).
ImplementsLink == Link!Spec
=============================================================================
