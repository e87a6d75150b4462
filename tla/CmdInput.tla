------------------------------ MODULE CmdInput ------------------------------
(***************************************************************************)
(* The receive path of UART0: the RX FIFO, uart0_rx_intr_handler, the ring *)
(* buffer rxRb, the event queue cmdRecvQueue and CMD_Task                  *)
(* (driver/uart.c, modules/cmd.c, user/main.c).                            *)
(*                                                                         *)
(* One core runs everything.  The handler preempts CMD_Task between any    *)
(* two of its steps and runs to its end before the task goes on; the host, *)
(* the FIFO and the receive timeout are hardware and act at any time.  A   *)
(* byte is represented by its position in the host's output: what this     *)
(* path can get wrong is to lose, reorder, duplicate or forget one.        *)
(***************************************************************************)
EXTENDS Naturals, Sequences

CONSTANTS
  RingSize,        \* sizeof(rxBuf)
  QueueSize,       \* CMD_TASK_QUEUE_SIZE
  RxFullThrhd,     \* UART_RXFIFO_FULL_THRHD: FIFO level of the FULL interrupt
  RxFlowThrhd,     \* UART_RX_FLOW_THRHD: FIFO level at which RTS stops the host
  MaxBytes         \* bound: bytes the host sends

ASSUME RingSizeAssumption  == RingSize \in Nat \ {0}
ASSUME QueueSizeAssumption == QueueSize \in Nat \ {0}
ASSUME ThresholdAssumption == /\ RxFullThrhd \in Nat \ {0}
                              /\ RxFlowThrhd \in Nat \ {0}
ASSUME MaxBytesAssumption  == MaxBytes \in Nat

VARIABLES
  sent,      \* bytes the host has put on the wire
  fifo,      \* RX FIFO of UART0
  intSt,     \* interrupts raised: a subset of {"FULL", "TOUT", "FRM_ERR"}
  isr,       \* uart0_rx_intr_handler: "idle", "drain" or "ack"
  rxRb,      \* contents of the ring buffer, oldest first
  events,    \* events waiting in cmdRecvQueue
  task,      \* CMD_Task: "wait", "get", "parse" or "return"
  c,         \* the byte CMD_Task holds, meaningful in "parse"
  last,      \* the byte PROTO_ParseByte has taken last, 0 before the first
  up         \* bridge_init has run since the last reset

vars == <<sent, fifo, intSt, isr, rxRb, events, task, c, last, up>>
hardware == <<sent, fifo, intSt>>
software == <<isr, rxRb, events, task, c, up>>

Interrupts == {"FULL", "TOUT", "FRM_ERR"}

\* FULL follows the FIFO level: it is raised again at once when it is
\* cleared while the level is still at the threshold.
Raise(ints, q) == ints \cup (IF Len(q) >= RxFullThrhd THEN {"FULL"} ELSE {})

(***************************************************************************)
(* user_init: uart_config has attached the handler, reset the FIFO and     *)
(* cleared every interrupt; bridge_init is only registered with            *)
(* system_init_done_cb, so the handler runs before rxRb and the task exist.*)
(***************************************************************************)
Init ==
  /\ sent = 0
  /\ last = 0
  /\ fifo = <<>>
  /\ intSt = {}
  /\ isr = "idle"
  /\ rxRb = <<>>
  /\ events = 0
  /\ task = "wait"
  /\ c = 0
  /\ up = FALSE

\* system_restart, or a power cycle: at any point, in any context.
Restart ==
  /\ fifo' = <<>>
  /\ intSt' = {}
  /\ isr' = "idle"
  /\ rxRb' = <<>>
  /\ events' = 0
  /\ task' = "wait"
  /\ c' = 0
  /\ up' = FALSE
  /\ UNCHANGED <<sent, last>>

\* bridge_init -> CMD_Init: rxRb empty, the task registered, one event posted.
CMD_Init ==
  /\ ~up
  /\ isr = "idle"
  /\ up' = TRUE
  /\ rxRb' = <<>>
  /\ events' = 1
  /\ UNCHANGED <<hardware, isr, task, c, last>>

-----------------------------------------------------------------------------
(* Hardware. *)

\* The host sends a byte while RTS allows it; a framing error may be flagged.
HostSend ==
  /\ sent < MaxBytes
  /\ Len(fifo) < RxFlowThrhd
  /\ sent' = sent + 1
  /\ fifo' = Append(fifo, sent + 1)
  /\ \E err \in SUBSET {"FRM_ERR"} : intSt' = Raise(intSt \cup err, fifo')
  /\ UNCHANGED <<software, last>>

\* The line has been idle for UART_RX_TOUT_THRHD characters with bytes in
\* the FIFO.
RxTimeout ==
  /\ fifo # <<>>
  /\ "TOUT" \notin intSt
  /\ intSt' = intSt \cup {"TOUT"}
  /\ UNCHANGED <<sent, fifo, software, last>>

-----------------------------------------------------------------------------
(* uart0_rx_intr_handler. *)

\* Fault: the handler reacts to FULL alone and takes TOUT for spurious.
IsrEnterFullOnly ==
  /\ isr = "idle"
  /\ intSt # {}
  /\ intSt' = intSt \ {"FRM_ERR"}
  /\ isr' = IF "FULL" \in intSt THEN "drain" ELSE "ack"
  /\ UNCHANGED <<sent, fifo, rxRb, events, task, c, last, up>>

\* Entry: a framing error is acknowledged, and the FIFO is drained if FULL
\* or TOUT is raised.
IsrEnter ==
  /\ isr = "idle"
  /\ intSt # {}
  /\ intSt' = intSt \ {"FRM_ERR"}
  /\ isr' = IF intSt \cap {"FULL", "TOUT"} # {} THEN "drain" ELSE "ack"
  /\ UNCHANGED <<sent, fifo, rxRb, events, task, c, last, up>>

\* Faults: RINGBUF_Put does not notice a full buffer, or makes room by
\* dropping the oldest byte.
CMD_InputUnbounded(byte) ==
  /\ rxRb' = IF up THEN Append(rxRb, byte) ELSE rxRb
  /\ events' = IF up /\ events < QueueSize THEN events + 1 ELSE events
CMD_InputOverwrite(byte) ==
  /\ rxRb' = CASE ~up -> rxRb
             [] up /\ Len(rxRb) < RingSize -> Append(rxRb, byte)
             [] OTHER -> Append(Tail(rxRb), byte)
  /\ events' = IF up /\ events < QueueSize THEN events + 1 ELSE events

\* CMD_Input(byte): RINGBUF_Put, whose failure on a full buffer is ignored,
\* then system_os_post, whose failure on a full queue is ignored.  Before
\* CMD_Init both fail.
CMD_Input(byte) ==
  /\ rxRb' = IF up /\ Len(rxRb) < RingSize THEN Append(rxRb, byte) ELSE rxRb
  /\ events' = IF up /\ events < QueueSize THEN events + 1 ELSE events

\* One turn of the loop that reads the FIFO until it is empty.
IsrDrain ==
  /\ isr = "drain"
  /\ fifo # <<>>
  /\ fifo' = Tail(fifo)
  /\ CMD_Input(Head(fifo))
  /\ UNCHANGED <<sent, intSt, isr, task, c, last, up>>

IsrDrained ==
  /\ isr = "drain"
  /\ fifo = <<>>
  /\ isr' = "ack"
  /\ UNCHANGED <<hardware, rxRb, events, task, c, last, up>>

\* The tail of the handler: FULL is cleared if it is raised by now, otherwise
\* TOUT, whether or not the FIFO was drained for it.
IsrAck ==
  /\ isr = "ack"
  /\ intSt' = IF "FULL" \in intSt THEN Raise(intSt \ {"FULL"}, fifo)
                                  ELSE intSt \ {"TOUT"}
  /\ isr' = "idle"
  /\ UNCHANGED <<sent, fifo, rxRb, events, task, c, last, up>>

Isr == IsrEnter \/ IsrDrain \/ IsrDrained \/ IsrAck

-----------------------------------------------------------------------------
(* CMD_Task, running only while the handler does not. *)

\* The scheduler takes the event out of cmdRecvQueue and calls CMD_Task.
TaskStart ==
  /\ isr = "idle"
  /\ task = "wait"
  /\ events > 0
  /\ events' = events - 1
  /\ task' = "get"
  /\ UNCHANGED <<hardware, isr, rxRb, c, last, up>>

\* RINGBUF_Get(&rxRb, &c) == 0
TaskGet ==
  /\ isr = "idle"
  /\ task = "get"
  /\ rxRb # <<>>
  /\ c' = Head(rxRb)
  /\ rxRb' = Tail(rxRb)
  /\ task' = "parse"
  /\ UNCHANGED <<hardware, isr, events, last, up>>

\* Fault: `if' for `while', one byte per event.
TaskParseOnce ==
  /\ isr = "idle"
  /\ task = "parse"
  /\ last' = c
  /\ task' = "return"
  /\ UNCHANGED <<hardware, isr, rxRb, events, c, up>>

\* PROTO_ParseByte(&rxProto, c), with the whole command when c ends a frame.
TaskParse ==
  /\ isr = "idle"
  /\ task = "parse"
  /\ last' = c
  /\ task' = "get"
  /\ UNCHANGED <<hardware, isr, rxRb, events, c, up>>

\* RINGBUF_Get fails: the loop ends, the task has yet to return.
TaskEmpty ==
  /\ isr = "idle"
  /\ task = "get"
  /\ rxRb = <<>>
  /\ task' = "return"
  /\ UNCHANGED <<hardware, isr, rxRb, events, c, last, up>>

TaskReturn ==
  /\ isr = "idle"
  /\ task = "return"
  /\ task' = "wait"
  /\ UNCHANGED <<hardware, isr, rxRb, events, c, last, up>>

CMD_Task == TaskStart \/ TaskGet \/ TaskParse \/ TaskEmpty \/ TaskReturn

-----------------------------------------------------------------------------
Next == HostSend \/ RxTimeout \/ Isr \/ CMD_Task \/ CMD_Init \/ Restart

Spec == Init /\ [][Next]_vars

\* The processor serves interrupts and runs posted tasks, the SDK calls the
\* init callback, an idle line times out.  The host owes nothing.
Fairness ==
  /\ WF_vars(RxTimeout)
  /\ WF_vars(Isr)
  /\ WF_vars(CMD_Task)
  /\ WF_vars(CMD_Init)

-----------------------------------------------------------------------------
(* Properties. *)

\* Every variable stays in its domain: the ring buffer and the event queue
\* within their sizes, bytes among those the host has sent.
TypeOK ==
  /\ sent \in Nat
  /\ fifo \in Seq(Nat)
  /\ intSt \in SUBSET Interrupts
  /\ isr \in {"idle", "drain", "ack"}
  /\ rxRb \in Seq(Nat) /\ Len(rxRb) <= RingSize
  /\ events \in 0..QueueSize
  /\ task \in {"wait", "get", "parse", "return"}
  /\ c \in Nat
  /\ last \in Nat
  /\ up \in BOOLEAN

\* A byte in rxRb is never forgotten: an event is queued that will start
\* CMD_Task, or the task is in its loop and will look at rxRb again.  The
\* event queue holds a single event and a failed post is ignored, so this
\* rests on the order in which the slot is freed, rxRb is emptied and the
\* handler posts (cmd.c CMD_Input, CMD_Task).
NoLostWakeup ==
  rxRb # <<>> => events > 0 \/ task \in {"get", "parse"}

\* The byte that CMD_Task holds, rxRb and the FIFO, in this order, are the
\* bytes in flight.
Held == IF task = "parse" THEN <<c>> ELSE <<>>
InFlight == Held \o rxRb \o fifo

Line == INSTANCE SerialLine WITH Capacity <- RingSize, pending <- InFlight

\* The receive path is a serial line: bytes reach the parser in the order the
\* host sent them, at most once, and are lost only beyond sizeof(rxBuf) bytes
\* in flight or around a reset (uart0_rx_intr_handler, CMD_Input, CMD_Task).
LineSpec == Line!LineSpec

\* ... and the parser gets every byte that is not lost: no interleaving of
\* the handler, the failed posts and the task leaves one behind for ever.
LineFairness == Line!LineFairness
=============================================================================
