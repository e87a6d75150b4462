----------------------------- MODULE SerialLine -----------------------------
(***************************************************************************)
(* What the UART0 receive path promises to the command layer: a line that  *)
(* hands over the bytes the host sent in the order it sent them, each at   *)
(* most once, and loses one only                                           *)
(*   - when more than Capacity bytes are in flight (rxBuf is full), or     *)
(*   - while the receiver is not up (between a reset and CMD_Init), or     *)
(*   - when the receiver is reset.                                         *)
(* A byte is named by its position in the host's output.  CmdInput, the    *)
(* interrupt handler with rxRb and CMD_Task, implements this module;       *)
(* CmdLink, the command protocol, is built on it.                          *)
(***************************************************************************)
EXTENDS Naturals, Sequences, SequencesExt

CONSTANT Capacity                    \* sizeof(rxBuf)

ASSUME CapacityAssumption == Capacity \in Nat \ {0}

VARIABLES
  sent,      \* how many bytes the host has put on the wire
  pending,   \* bytes in flight, oldest first
  last,      \* the byte handed over last, 0 before the first
  up         \* CMD_Init has run since the last reset

lineVars == <<sent, pending, last, up>>

LineInit ==
  /\ sent = 0
  /\ pending = <<>>
  /\ last = 0
  /\ up = FALSE

Send ==
  /\ sent' = sent + 1
  /\ pending' = Append(pending, sent + 1)
  /\ UNCHANGED <<last, up>>

\* The newest bytes beyond the capacity, or the oldest of a receiver that
\* is not up, disappear.
Lose ==
  /\ \E i \in 1..Len(pending) :
       /\ i > Capacity \/ (~up /\ i = 1)
       /\ pending' = RemoveAt(pending, i)
  /\ UNCHANGED <<sent, last, up>>

Deliver ==
  /\ up
  /\ pending # <<>>
  /\ last' = Head(pending)
  /\ pending' = Tail(pending)
  /\ UNCHANGED <<sent, up>>

PowerUp ==
  /\ ~up
  /\ up' = TRUE
  /\ UNCHANGED <<sent, pending, last>>

Reset ==
  /\ up' = FALSE
  /\ pending' = <<>>
  /\ UNCHANGED <<sent, last>>

LineNext == Send \/ Lose \/ Deliver \/ PowerUp \/ Reset

LineSpec == LineInit /\ [][LineNext]_lineVars

LineFairness == WF_lineVars(Deliver) /\ WF_lineVars(PowerUp)

LineFairSpec == LineSpec /\ LineFairness
=============================================================================
