--------------------------- MODULE CmdInputProofs ---------------------------
(***************************************************************************)
(* Proofs about the receive path for every ring size, queue size, FIFO     *)
(* threshold and number of bytes, and about the command protocol when it   *)
(* runs on that path.                                                      *)
(***************************************************************************)
EXTENDS CmdReceiver, SequenceTheorems, TLAPS

USE RingSizeAssumption, QueueSizeAssumption, ThresholdAssumption,
    MaxBytesAssumption

\* Raising FULL from the FIFO level adds no unknown interrupt.
LEMMA RaiseType ==
  ASSUME NEW ints \in SUBSET Interrupts, NEW q \in Seq(Nat)
  PROVE  Raise(ints, q) \in SUBSET Interrupts
BY DEF Raise, Interrupts

\* RINGBUF_Put keeps rxRb within sizeof(rxBuf) and system_os_post keeps the
\* event queue within CMD_TASK_QUEUE_SIZE, whatever CMD_Input does with the
\* results.
LEMMA CMD_InputType ==
  ASSUME TypeOK, NEW byte \in Nat, CMD_Input(byte)
  PROVE  /\ rxRb' \in Seq(Nat) /\ Len(rxRb') <= RingSize
         /\ events' \in 0..QueueSize
BY DEF TypeOK, CMD_Input

\* Every variable of the receive path stays in its domain: rxRb never
\* exceeds sizeof(rxBuf), the event queue never exceeds CMD_TASK_QUEUE_SIZE.
THEOREM TypeCorrect == Spec => []TypeOK
<1>1. Init => TypeOK
  <2>1. ASSUME Init PROVE rxRb \in Seq(Nat) /\ Len(rxRb) = 0 /\ fifo \in Seq(Nat)
    BY <2>1 DEF Init
  <2>2. ASSUME Init PROVE intSt \in SUBSET Interrupts
    BY <2>2 DEF Init
  <2>3. ASSUME Init PROVE /\ sent \in Nat /\ c \in Nat /\ last \in Nat
                          /\ events \in 0..QueueSize
                          /\ isr \in {"idle", "drain", "ack"}
                          /\ task \in {"wait", "get", "parse", "return"}
    BY <2>3 DEF Init
  <2>4. ASSUME Init PROVE up \in BOOLEAN
    BY <2>4 DEF Init
  <2>5. RingSize \in Nat
    OBVIOUS
  <2>6. QED
    BY <2>1, <2>2, <2>3, <2>4, <2>5 DEF TypeOK
<1>2. TypeOK /\ [Next]_vars => TypeOK'
  <2> SUFFICES ASSUME TypeOK, [Next]_vars
               PROVE  TypeOK'
    OBVIOUS
  <2> USE DEF TypeOK, hardware, software
  <2>1. CASE HostSend
    <3>1. fifo' \in Seq(Nat)
      BY <2>1 DEF HostSend
    <3>2. intSt' \in SUBSET Interrupts
      <4>1. PICK err \in SUBSET {"FRM_ERR"} : intSt' = Raise(intSt \cup err, fifo')
        BY <2>1 DEF HostSend
      <4>2. intSt \cup err \in SUBSET Interrupts
        BY DEF Interrupts
      <4>3. QED
        BY <3>1, <4>1, <4>2, RaiseType
    <3>3. sent' \in Nat /\ UNCHANGED <<software, last>>
      BY <2>1 DEF HostSend
    <3>4. QED
      BY <3>1, <3>2, <3>3
  <2>2. CASE RxTimeout
    BY <2>2 DEF RxTimeout, Interrupts
  <2>3. CASE IsrEnter
    BY <2>3 DEF IsrEnter
  <2>4. CASE IsrDrain
    <3>1. Head(fifo) \in Nat /\ Tail(fifo) \in Seq(Nat)
      BY <2>4 DEF IsrDrain
    <3>2. /\ rxRb' \in Seq(Nat) /\ Len(rxRb') <= RingSize
          /\ events' \in 0..QueueSize
      BY <2>4, <3>1, CMD_InputType DEF IsrDrain
    <3>3. QED
      BY <2>4, <3>1, <3>2 DEF IsrDrain
  <2>5. CASE IsrDrained
    BY <2>5 DEF IsrDrained
  <2>6. CASE IsrAck
    <3>1. Raise(intSt \ {"FULL"}, fifo) \in SUBSET Interrupts
      BY RaiseType DEF Interrupts
    <3>2. QED
      BY <2>6, <3>1 DEF IsrAck
  <2>7. CASE TaskStart
    BY <2>7 DEF TaskStart
  <2>8. CASE TaskGet
    BY <2>8 DEF TaskGet
  <2>9. CASE TaskParse
    BY <2>9 DEF TaskParse
  <2>10. CASE TaskEmpty
    BY <2>10 DEF TaskEmpty
  <2>11. CASE TaskReturn
    BY <2>11 DEF TaskReturn
  <2>12. CASE CMD_Init
    BY <2>12 DEF CMD_Init
  <2>13. CASE Restart
    <3>1. rxRb' \in Seq(Nat) /\ Len(rxRb') = 0 /\ fifo' \in Seq(Nat)
      BY <2>13 DEF Restart
    <3>2. intSt' \in SUBSET Interrupts
      BY <2>13 DEF Restart
    <3>3. /\ sent' \in Nat /\ c' \in Nat /\ last' \in Nat
          /\ events' \in 0..QueueSize
          /\ isr' \in {"idle", "drain", "ack"}
          /\ task' \in {"wait", "get", "parse", "return"}
      BY <2>13 DEF Restart
    <3>4. up' \in BOOLEAN
      BY <2>13 DEF Restart
    <3>5. QED
      BY <3>1, <3>2, <3>3, <3>4
  <2>14. CASE UNCHANGED vars
    BY <2>14 DEF vars
  <2>15. QED
    BY <2>1, <2>2, <2>3, <2>4, <2>5, <2>6, <2>7, <2>8, <2>9, <2>10, <2>11,
       <2>12, <2>13, <2>14 DEF Next, Isr, CMD_Task
<1>3. QED
  BY <1>1, <1>2, PTL DEF Spec

\* No byte in rxRb is forgotten, for every ring and queue size: whenever rxRb
\* holds a byte, CMD_Task is in its loop or an event that starts it is queued.
\* A failed system_os_post is harmless because it fails only on a queue that
\* already holds such an event.
THEOREM WakeupSafe == Spec => []NoLostWakeup
<1>1. Init => NoLostWakeup
  BY DEF Init, NoLostWakeup
<1>2. TypeOK /\ NoLostWakeup /\ [Next]_vars => NoLostWakeup'
  <2> SUFFICES ASSUME TypeOK, NoLostWakeup, [Next]_vars
               PROVE  NoLostWakeup'
    OBVIOUS
  <2> USE DEF TypeOK, NoLostWakeup, hardware, software
  <2>1. CASE HostSend
    BY <2>1 DEF HostSend
  <2>2. CASE RxTimeout
    BY <2>2 DEF RxTimeout
  <2>3. CASE IsrEnter \/ IsrDrained \/ IsrAck
    BY <2>3 DEF IsrEnter, IsrDrained, IsrAck
  <2>4. CASE IsrDrain
    <3>1. CASE up
      \* The post succeeds, or it fails because an event is queued already.
      BY <2>4, <3>1 DEF IsrDrain, CMD_Input
    <3>2. CASE ~up
      BY <2>4, <3>2 DEF IsrDrain, CMD_Input
    <3>3. QED
      BY <3>1, <3>2
  <2>5. CASE TaskStart
    BY <2>5 DEF TaskStart
  <2>6. CASE TaskGet \/ TaskParse
    BY <2>6 DEF TaskGet, TaskParse
  <2>7. CASE TaskEmpty \/ TaskReturn
    BY <2>7 DEF TaskEmpty, TaskReturn
  <2>8. CASE CMD_Init \/ Restart
    BY <2>8 DEF CMD_Init, Restart
  <2>9. CASE UNCHANGED vars
    BY <2>9 DEF vars
  <2>10. QED
    BY <2>1, <2>2, <2>3, <2>4, <2>5, <2>6, <2>7, <2>8, <2>9
       DEF Next, Isr, CMD_Task
<1>3. QED
  BY <1>1, <1>2, TypeCorrect, PTL DEF Spec

-----------------------------------------------------------------------------
(* The receive path is a serial line, whatever its sizes.                   *)

\* A byte put at the end of the second of two sequences is at the end of both.
LEMMA AppendToConcat ==
  ASSUME NEW s \in Seq(Nat), NEW t \in Seq(Nat), NEW x \in Nat
  PROVE  s \o Append(t, x) = Append(s \o t, x)
<1>1. s \o (t \o <<x>>) = (s \o t) \o <<x>>
  BY ConcatAssociative, <<x>> \in Seq(Nat)
<1>2. QED
  BY <1>1, AppendIsConcat, ConcatProperties

\* A byte that goes from the head of one to the tail of the other stays where
\* it is in both.
LEMMA MoveHead ==
  ASSUME NEW s \in Seq(Nat), NEW t \in Seq(Nat), t # <<>>
  PROVE  Append(s, Head(t)) \o Tail(t) = s \o t
<1>1. ASSUME NEW h \in Nat, NEW rest \in Seq(Nat)
      PROVE  Append(s, h) \o rest = s \o (<<h>> \o rest)
  <2>1. <<h>> \in Seq(Nat)
    OBVIOUS
  <2>2. (s \o <<h>>) \o rest = s \o (<<h>> \o rest)
    BY <2>1, ConcatAssociative
  <2>3. QED
    BY <2>2, AppendIsConcat
<1>2. Head(t) \in Nat /\ Tail(t) \in Seq(Nat) /\ t = <<Head(t)>> \o Tail(t)
  OBVIOUS
<1>3. QED
  BY <1>1, <1>2

\* Losing the head of the second is removing from both the byte at that place.
LEMMA LoseHead ==
  ASSUME NEW s \in Seq(Nat), NEW t \in Seq(Nat), t # <<>>
  PROVE  s \o Tail(t) = Line!RemoveAt(s \o t, Len(s) + 1)
<1> DEFINE u == s \o t
<1>1. u \in Seq(Nat) /\ Len(u) = Len(s) + Len(t) /\ Len(s) \in Nat
      /\ Len(t) \in Nat \ {0}
  BY EmptySeq
<1>2. SubSeq(u, 1, Len(s)) = s
  BY <1>1
<1>3. SubSeq(u, Len(s) + 2, Len(u)) = Tail(t)
  <2>1. /\ Tail(t) \in Seq(Nat) /\ Len(Tail(t)) = Len(t) - 1
        /\ \A i \in 1..(Len(t) - 1) : Tail(t)[i] = t[i + 1]
    BY HeadTailProperties
  <2>2. \A i \in (Len(s) + 1)..Len(u) : u[i] = t[i - Len(s)]
    BY <1>1
  <2>3. QED
    BY <1>1, <2>1, <2>2, SMTT(30)
<1>4. QED
  <2>1. (Len(s) + 1) - 1 = Len(s) /\ (Len(s) + 1) + 1 = Len(s) + 2
    BY <1>1
  <2>2. Line!RemoveAt(u, Len(s) + 1)
          = SubSeq(u, 1, Len(s)) \o SubSeq(u, Len(s) + 2, Len(u))
    BY <2>1 DEF Line!RemoveAt
  <2>3. QED
    BY <1>2, <1>3, <2>2

\* Before CMD_Init there is no ring buffer to hold a byte, and no task and no
\* queue to start it from.
DownIsEmpty == ~up => rxRb = <<>> /\ task = "wait" /\ events = 0

LEMMA DownIsEmptyInv == Spec => []DownIsEmpty
<1>1. Init => DownIsEmpty
  BY DEF Init, DownIsEmpty
<1>2. TypeOK /\ DownIsEmpty /\ [Next]_vars => DownIsEmpty'
  <2> SUFFICES ASSUME TypeOK, DownIsEmpty, [Next]_vars PROVE DownIsEmpty'
    OBVIOUS
  <2> USE DEF DownIsEmpty, hardware, software
  <2>1. CASE HostSend \/ RxTimeout
    BY <2>1 DEF HostSend, RxTimeout
  <2>2. CASE Isr
    BY <2>2 DEF Isr, IsrEnter, IsrDrain, IsrDrained, IsrAck, CMD_Input
  <2>3. CASE TaskStart
    \* Only CMD_Init posts the first event.
    BY <2>3 DEF TaskStart
  <2>4. CASE TaskGet \/ TaskParse \/ TaskEmpty \/ TaskReturn
    BY <2>4 DEF TaskGet, TaskParse, TaskEmpty, TaskReturn
  <2>5. CASE CMD_Init \/ Restart
    BY <2>5 DEF CMD_Init, Restart
  <2>6. CASE UNCHANGED vars
    BY <2>6 DEF vars
  <2>7. QED
    BY <2>1, <2>2, <2>3, <2>4, <2>5, <2>6 DEF Next, CMD_Task
<1>3. QED
  BY <1>1, <1>2, TypeCorrect, PTL DEF Spec

\* Received is what the firmware has taken out of the FIFO.
Received == Held \o rxRb

LEMMA InFlightTypes ==
  ASSUME TypeOK
  PROVE  /\ Received \in Seq(Nat) /\ Len(Received) >= Len(rxRb)
         /\ Held \in Seq(Nat) /\ rxRb \in Seq(Nat) /\ fifo \in Seq(Nat)
         /\ InFlight = Received \o fifo /\ InFlight \in Seq(Nat)
<1>1. Held \in Seq(Nat) /\ rxRb \in Seq(Nat) /\ fifo \in Seq(Nat)
  BY DEF TypeOK, Held
<1>2. Received \in Seq(Nat) /\ Len(Received) = Len(Held) + Len(rxRb)
  BY <1>1, ConcatProperties DEF Received
<1>3. QED
  BY <1>1, <1>2, ConcatProperties, LenProperties DEF InFlight, Received

LEMMA HostSendIsSend == ASSUME TypeOK, HostSend PROVE Line!Send
<1>1. /\ sent' = sent + 1 /\ fifo' = Append(fifo, sent + 1) /\ sent + 1 \in Nat
      /\ UNCHANGED <<rxRb, task, c, last, up>>
  BY DEF HostSend, software, TypeOK
<1>2. InFlight' = Received \o Append(fifo, sent + 1)
  BY <1>1 DEF InFlight, Received, Held
<1>3. Received \o Append(fifo, sent + 1) = Append(Received \o fifo, sent + 1)
  <2>1. Received \in Seq(Nat) /\ fifo \in Seq(Nat)
    BY InFlightTypes
  <2>2. QED
    BY <1>1, <2>1, AppendToConcat
<1>4. InFlight' = Append(InFlight, sent + 1)
  BY <1>2, <1>3, InFlightTypes
<1>5. QED
  BY <1>1, <1>4 DEF Line!Send

\* A byte that CMD_Input keeps stays where it is in flight; one that it drops
\* is beyond the capacity, or the oldest of a receiver that is not up.
LEMMA IsrDrainIsLose ==
  ASSUME TypeOK, DownIsEmpty, IsrDrain
  PROVE  Line!Lose \/ UNCHANGED <<sent, InFlight, last, up>>
<1>1. /\ fifo # <<>> /\ fifo' = Tail(fifo) /\ CMD_Input(Head(fifo))
      /\ UNCHANGED <<sent, task, c, last, up>>
  BY DEF IsrDrain
<1>2. Held' = Held
  BY <1>1 DEF Held
<1>3. Head(fifo) \in Nat /\ Tail(fifo) \in Seq(Nat)
  BY <1>1 DEF TypeOK
<1>4. CASE up /\ Len(rxRb) < RingSize
  <2>1. rxRb' = Append(rxRb, Head(fifo))
    BY <1>1, <1>4 DEF CMD_Input
  <2>2. Received' = Append(Received, Head(fifo))
    <3>1. Held \o Append(rxRb, Head(fifo)) = Append(Held \o rxRb, Head(fifo))
      <4>1. Held \in Seq(Nat) /\ rxRb \in Seq(Nat)
        BY InFlightTypes
      <4>2. QED
        BY <1>3, <4>1, AppendToConcat
    <3>2. QED
      BY <1>2, <2>1, <3>1 DEF Received
  <2>3. InFlight' = Received' \o fifo'
    BY DEF InFlight, Received
  <2>4. InFlight' = Received \o fifo
    BY <1>1, <2>2, <2>3, InFlightTypes, MoveHead
  <2>5. QED
    BY <1>1, <2>4, InFlightTypes
<1>5. CASE ~(up /\ Len(rxRb) < RingSize)
  <2> DEFINE i == Len(Received) + 1
  <2>1. rxRb' = rxRb
    BY <1>1, <1>5 DEF CMD_Input
  <2>2. InFlight' = Received \o Tail(fifo)
    BY <1>1, <1>2, <2>1 DEF InFlight, Received
  <2>3. InFlight' = Line!RemoveAt(InFlight, i)
    BY <1>1, <2>2, InFlightTypes, LoseHead
  <2>4. i \in 1..Len(InFlight)
    <3>1. Len(InFlight) = Len(Received) + Len(fifo)
      BY InFlightTypes, ConcatProperties
    <3>2. Len(fifo) \in Nat \ {0} /\ Len(Received) \in Nat
      BY <1>1, InFlightTypes, EmptySeq, LenProperties
    <3>3. QED
      BY <3>1, <3>2
  <2>5. i > RingSize \/ (~up /\ i = 1)
    <3>1. CASE up
      BY <1>5, <3>1, InFlightTypes, LenProperties
    <3>2. CASE ~up
      <4>1. Held = <<>> /\ rxRb = <<>>
        BY <3>2 DEF DownIsEmpty, Held
      <4>2. Received = <<>>
        BY <4>1 DEF Received
      <4>3. QED
        BY <3>2, <4>2
    <3>3. QED
      BY <3>1, <3>2
  <2> HIDE DEF i
  <2>6. QED
    BY <1>1, <2>3, <2>4, <2>5 DEF Line!Lose
<1>6. QED
  BY <1>4, <1>5

LEMMA TaskGetStutters ==
  ASSUME TypeOK, TaskGet
  PROVE  UNCHANGED <<sent, InFlight, last, up>>
<1>1. /\ rxRb # <<>> /\ Held = <<>> /\ Held' = <<Head(rxRb)>> /\ rxRb' = Tail(rxRb)
      /\ UNCHANGED <<sent, fifo, last, up>>
  BY DEF TaskGet, Held, hardware
<1>2. Received' = Received
  BY <1>1, InFlightTypes DEF Received
<1>3. QED
  BY <1>1, <1>2 DEF InFlight, Received

LEMMA TaskParseIsDeliver ==
  ASSUME TypeOK, DownIsEmpty, TaskParse
  PROVE  Line!Deliver
<1>1. /\ up /\ Held = <<c>> /\ Held' = <<>> /\ last' = c /\ c \in Nat
      /\ UNCHANGED <<sent, rxRb, fifo, up>>
  BY DEF TaskParse, DownIsEmpty, Held, hardware, TypeOK
<1>2. /\ rxRb \in Seq(Nat) /\ fifo \in Seq(Nat) /\ <<c>> \in Seq(Nat)
      /\ rxRb \o fifo \in Seq(Nat)
  BY <1>1, InFlightTypes, ConcatProperties
<1>3. InFlight = <<c>> \o (rxRb \o fifo)
  BY <1>1, <1>2, ConcatAssociative DEF InFlight
<1>4. InFlight' = rxRb \o fifo
  BY <1>1, <1>2 DEF InFlight
<1>5. InFlight # <<>> /\ Head(InFlight) = c /\ Tail(InFlight) = rxRb \o fifo
  BY <1>1, <1>2, <1>3
<1>6. QED
  BY <1>1, <1>4, <1>5 DEF Line!Deliver

\* Steps of the handler, the task and the hardware that move no byte.
LEMMA StillSteps ==
  ASSUME \/ RxTimeout \/ IsrEnter \/ IsrDrained \/ IsrAck
         \/ TaskStart \/ TaskEmpty \/ TaskReturn \/ UNCHANGED vars
  PROVE  UNCHANGED <<sent, InFlight, last, up>>
<1>1. CASE RxTimeout
  BY <1>1 DEF RxTimeout, software, InFlight, Held
<1>2. CASE IsrEnter \/ IsrDrained \/ IsrAck
  BY <1>2 DEF IsrEnter, IsrDrained, IsrAck, hardware, InFlight, Held
<1>3. CASE TaskStart \/ TaskEmpty \/ TaskReturn
  BY <1>3 DEF TaskStart, TaskEmpty, TaskReturn, hardware, InFlight, Held
<1>4. CASE UNCHANGED vars
  BY <1>4 DEF vars, InFlight, Held
<1>5. QED
  BY <1>1, <1>2, <1>3, <1>4

LEMMA CMD_InitIsPowerUp == ASSUME DownIsEmpty, CMD_Init PROVE Line!PowerUp
<1>1. ~up /\ up' = TRUE /\ UNCHANGED <<sent, last, task, c, fifo, rxRb>>
  BY DEF CMD_Init, DownIsEmpty, hardware
<1>2. UNCHANGED InFlight
  BY <1>1 DEF InFlight, Held
<1>3. QED
  BY <1>1, <1>2 DEF Line!PowerUp

LEMMA RestartIsReset == ASSUME Restart PROVE Line!Reset
<1>1. InFlight' = <<>>
  BY DEF Restart, InFlight, Held
<1>2. QED
  BY <1>1 DEF Restart, Line!Reset

LEMMA StepsAreLineSteps ==
  ASSUME TypeOK, DownIsEmpty, [Next]_vars
  PROVE  Line!LineNext \/ UNCHANGED <<sent, InFlight, last, up>>
<1>1. CASE HostSend
  BY <1>1, HostSendIsSend DEF Line!LineNext
<1>2. CASE IsrDrain
  BY <1>2, IsrDrainIsLose DEF Line!LineNext
<1>3. CASE TaskGet
  BY <1>3, TaskGetStutters
<1>4. CASE TaskParse
  BY <1>4, TaskParseIsDeliver DEF Line!LineNext
<1>5. CASE CMD_Init
  BY <1>5, CMD_InitIsPowerUp DEF Line!LineNext
<1>6. CASE Restart
  BY <1>6, RestartIsReset DEF Line!LineNext
<1>7. QED
  BY <1>1, <1>2, <1>3, <1>4, <1>5, <1>6, StillSteps DEF Next, Isr, CMD_Task

\* For every ring size, queue size, threshold and number of bytes, each step of
\* the handler, of the task and of the hardware is a step of SerialLine with
\* the capacity of the ring buffer or is invisible on it: the order is kept,
\* no byte is handed over twice, and one is lost only where SerialLine says.
THEOREM ImplementsLine == Spec => LineSpec
<1>1. Init => Line!LineInit
  BY DEF Init, Line!LineInit, InFlight, Held
<1>2. TypeOK /\ DownIsEmpty /\ [Next]_vars => [Line!LineNext]_<<sent, InFlight, last, up>>
  BY StepsAreLineSteps
<1>3. QED
  BY <1>1, <1>2, TypeCorrect, DownIsEmptyInv, PTL
     DEF Spec, LineSpec, Line!LineSpec, Line!lineVars

-----------------------------------------------------------------------------
(* Each byte at most once, in the order of the host.                         *)

\* The bytes in flight are in the host's order and newer than what the parser
\* has had; the host's output ends with sent.
InOrder ==
  /\ last <= sent
  /\ \A i \in 1..Len(InFlight) : last < InFlight[i] /\ InFlight[i] <= sent
  /\ \A i, j \in 1..Len(InFlight) : i < j => InFlight[i] < InFlight[j]

LEMMA LineKeepsOrder ==
  ASSUME InFlight \in Seq(Nat), sent \in Nat, last \in Nat, InOrder,
         Line!LineNext \/ UNCHANGED <<sent, InFlight, last, up>>
  PROVE  InOrder' /\ (Line!Deliver => last' > last)
<1>1. PICK q, n : q = InFlight /\ n = Len(q)
  OBVIOUS
<1>2. /\ q \in Seq(Nat) /\ n \in Nat /\ \A i \in 1..n : q[i] \in Nat
      /\ last <= sent
      /\ \A i \in 1..n : last < q[i] /\ q[i] <= sent
      /\ \A i, j \in 1..n : i < j => q[i] < q[j]
  BY <1>1 DEF InOrder
<1>3. CASE Line!Send
  <2>1. /\ InFlight' = Append(q, sent + 1) /\ sent' = sent + 1 /\ last' = last
    BY <1>1, <1>3 DEF Line!Send
  <2>2. /\ Len(InFlight') = n + 1 /\ InFlight'[n + 1] = sent + 1
        /\ \A i \in 1..n : InFlight'[i] = q[i]
    BY <1>1, <1>2, <2>1
  <2>3. InOrder'
    BY <1>2, <2>1, <2>2 DEF InOrder
  <2>4. Line!Deliver => FALSE
    BY <2>1 DEF Line!Deliver
  <2>5. QED
    BY <2>3, <2>4
<1>4. CASE Line!Lose
  <2>1. PICK k \in 1..n : InFlight' = Line!RemoveAt(q, k)
    BY <1>1, <1>4 DEF Line!Lose
  <2>2. sent' = sent /\ last' = last
    BY <1>4 DEF Line!Lose
  <2>3. InFlight' = SubSeq(q, 1, k - 1) \o SubSeq(q, k + 1, n)
    BY <1>1, <2>1 DEF Line!RemoveAt
  <2>4. /\ Len(InFlight') = n - 1
        /\ \A i \in 1..(n - 1) : InFlight'[i] = q[IF i < k THEN i ELSE i + 1]
    <3>1. PICK a, b : a = SubSeq(q, 1, k - 1) /\ b = SubSeq(q, k + 1, n)
      OBVIOUS
    <3>2. /\ a \in Seq(Nat) /\ Len(a) = k - 1 /\ \A i \in 1..(k - 1) : a[i] = q[i]
      BY <1>1, <1>2, <3>1
    <3>3. /\ b \in Seq(Nat) /\ Len(b) = n - k
          /\ \A i \in 1..(n - k) : b[i] = q[k + i]
      BY <1>1, <1>2, <3>1
    <3>4. /\ Len(a \o b) = n - 1
          /\ \A i \in 1..(n - 1) : (a \o b)[i] = IF i <= k - 1 THEN a[i] ELSE b[i - (k - 1)]
      <4>1. n \in Nat /\ k \in 1..n /\ Len(a) + Len(b) = n - 1
        BY <1>1, <1>2, <3>2, <3>3
      <4>2. QED
        BY <3>2, <3>3, <4>1, ConcatProperties
    <3>5. ASSUME NEW i \in 1..(n - 1)
          PROVE  (a \o b)[i] = q[IF i < k THEN i ELSE i + 1]
      <4>1. CASE i < k
        BY <1>2, <3>2, <3>4, <4>1
      <4>2. CASE i >= k
        <5>1. i - (k - 1) \in 1..(n - k) /\ k + (i - (k - 1)) = i + 1
          BY <1>1, <1>2, <4>2
        <5>2. (a \o b)[i] = b[i - (k - 1)]
          BY <3>4, <4>2
        <5>3. QED
          BY <3>3, <4>2, <5>1, <5>2
      <4>3. i < k \/ i >= k
        BY <1>1, <1>2
      <4>4. QED
        BY <4>1, <4>2, <4>3
    <3>6. QED
      BY <2>3, <3>1, <3>4, <3>5
  <2>5. InOrder'
    <3>1. \A i \in 1..(n - 1) : (IF i < k THEN i ELSE i + 1) \in 1..n
      BY <1>1, <1>2
    <3>2. \A i, j \in 1..(n - 1) :
            i < j => (IF i < k THEN i ELSE i + 1) < (IF j < k THEN j ELSE j + 1)
      BY <1>1, <1>2
    <3>3. \A i \in 1..(n - 1) : last < InFlight'[i] /\ InFlight'[i] <= sent
      BY <1>2, <2>4, <3>1
    <3>4. \A i, j \in 1..(n - 1) : i < j => InFlight'[i] < InFlight'[j]
      BY <1>2, <2>4, <3>1, <3>2
    <3>5. QED
      BY <1>2, <2>2, <2>4, <3>3, <3>4 DEF InOrder
  <2>6. QED
    BY <1>1, <1>2, <2>2, <2>5 DEF Line!Deliver
<1>5. CASE Line!Deliver
  <2>1. /\ q # <<>> /\ last' = Head(q) /\ InFlight' = Tail(q) /\ sent' = sent
    BY <1>1, <1>5 DEF Line!Deliver
  <2>2. /\ n >= 1 /\ last' = q[1] /\ Len(InFlight') = n - 1
        /\ \A i \in 1..(n - 1) : InFlight'[i] = q[i + 1]
    BY <1>1, <1>2, <2>1
  <2>3. QED
    BY <1>2, <2>1, <2>2 DEF InOrder
<1>6. CASE Line!Reset
  <2>1. InFlight' = <<>> /\ sent' = sent /\ last' = last
    BY <1>6 DEF Line!Reset
  <2>2. Len(InFlight') = 0
    BY <2>1
  <2>3. InOrder'
    BY <1>2, <2>1, <2>2 DEF InOrder
  <2>4. QED
    BY <1>1, <1>2, <2>1, <2>3 DEF Line!Deliver
<1>7. CASE Line!PowerUp \/ UNCHANGED <<sent, InFlight, last, up>>
  <2>1. UNCHANGED <<sent, InFlight, last>>
    BY <1>7 DEF Line!PowerUp
  <2>2. InOrder'
    BY <2>1 DEF InOrder
  <2>3. Line!Deliver => FALSE
    BY <1>1, <1>2, <2>1 DEF Line!Deliver
  <2>4. QED
    BY <2>2, <2>3
<1>8. QED
  BY <1>3, <1>4, <1>5, <1>6, <1>7 DEF Line!LineNext

\* Whatever the handler, the ring buffer, the task and the resets do, the parser
\* is given each byte at most once and in the order in which the host has sent
\* them: every byte CMD_Task hands over is newer than the one before.
THEOREM HandsOverInOrder == Spec => [][TaskParse => last' > last]_vars
<1>1. Init => InOrder
  <2>1. Init => InFlight = <<>> /\ sent = 0 /\ last = 0
    BY DEF Init, InFlight, Held
  <2>2. QED
    BY <2>1 DEF InOrder
<1>2. ASSUME TypeOK, DownIsEmpty, InOrder, [Next]_vars
      PROVE  InOrder' /\ [TaskParse => last' > last]_vars
  <2>1. InFlight \in Seq(Nat) /\ sent \in Nat /\ last \in Nat
    BY <1>2, InFlightTypes DEF TypeOK
  <2>2. InOrder' /\ (Line!Deliver => last' > last)
    BY <1>2, <2>1, LineKeepsOrder, StepsAreLineSteps
  <2>3. QED
    BY <1>2, <2>2, TaskParseIsDeliver
<1>3. QED
  BY <1>1, <1>2, TypeCorrect, DownIsEmptyInv, PTL DEF Spec

-----------------------------------------------------------------------------
(* The protocol on top of the receive path.                                  *)

\* The receiver runs the receive path as it is: what was proved of that holds.
LEMMA ReceivesAsCmdInput == ReceiverSpec => Spec
<1>1. ReceiverInit => Init
  BY DEF ReceiverInit
<1>2. [ReceiverNext]_receiverVars => [Next]_vars
  BY DEF ReceiverNext, receiverVars, StartFrame, SendByte, BelowParser, Parse,
         ChipRestart, Next, CMD_Task
<1>3. QED
  BY <1>1, <1>2, PTL DEF ReceiverSpec, Spec

\* CmdLink's line is the one that CmdInput implements.
LEMMA SameLine ==
  /\ Line!Send => Link!Send
  /\ Line!Lose => Link!Lose
  /\ Line!Deliver => Link!Deliver
  /\ Line!PowerUp => Link!PowerUp
  /\ Line!Reset => Link!Reset
BY DEF Line!Send, Link!Send, Line!Lose, Link!Lose, Line!RemoveAt, Link!RemoveAt,
       Line!Deliver, Link!Deliver, Line!PowerUp, Link!PowerUp,
       Line!Reset, Link!Reset

\* An interrupt, CMD_Init or a turn of CMD_Task that reaches no parser is one of
\* the steps that CmdLink knows of the line, or none.
LEMMA BelowParserIsLine ==
  ASSUME TypeOK, DownIsEmpty, BelowParser
  PROVE  Link!LineLoss \/ Link!CMD_Init \/ UNCHANGED Link!vars
<1>1. UNCHANGED linkVars
  BY DEF BelowParser
<1>2. UNCHANGED Link!linkVars
  BY <1>1 DEF linkVars, Link!linkVars, Link!host
<1>3. UNCHANGED <<sent, InFlight, last, up>> => UNCHANGED Link!vars
  BY <1>2 DEF Link!vars, Link!lineVars
<1>4. CASE IsrDrain
  BY <1>2, <1>3, <1>4, IsrDrainIsLose, SameLine DEF Link!LineLoss
<1>5. CASE CMD_Init
  BY <1>2, <1>5, CMD_InitIsPowerUp, SameLine DEF Link!CMD_Init
<1>6. CASE TaskGet
  BY <1>3, <1>6, TaskGetStutters
<1>7. CASE RxTimeout \/ IsrEnter \/ IsrDrained \/ IsrAck
           \/ TaskStart \/ TaskEmpty \/ TaskReturn
  BY <1>3, <1>7, StillSteps
<1>8. QED
  BY <1>4, <1>5, <1>6, <1>7 DEF BelowParser, Isr

\* For every ring, queue, FIFO, parser buffer and set of commands, the firmware
\* with its interrupt handler implements CmdLink on the abstract line: what
\* CmdLinkProofs shows of the protocol is true of the code under the parser,
\* too.
THEOREM ReceiverImplements == ReceiverSpec => ImplementsLink
<1>1. ReceiverInit => Link!Init
  BY DEF ReceiverInit
<1>2. ASSUME TypeOK, DownIsEmpty, [ReceiverNext]_receiverVars
      PROVE  [Link!Next]_Link!vars
  <2>1. CASE StartFrame
    BY <2>1 DEF StartFrame, Link!Next
  <2>2. CASE SendByte
    <3>1. UNCHANGED linkVars /\ Link!Send
      BY <1>2, <2>2, HostSendIsSend, SameLine DEF SendByte
    <3>2. UNCHANGED Link!linkVars
      BY <3>1 DEF linkVars, Link!linkVars, Link!host
    <3>3. QED
      BY <2>2, <3>1, <3>2 DEF SendByte, Link!HostByte, Link!Next
  <2>3. CASE BelowParser
    BY <1>2, <2>3, BelowParserIsLine DEF Link!Next
  <2>4. CASE Parse
    BY <1>2, <2>4, TaskParseIsDeliver, SameLine
       DEF Parse, Link!ParseByte, Link!Next
  <2>5. CASE ChipRestart
    BY <2>5, RestartIsReset, SameLine DEF ChipRestart, Link!Restart, Link!Next
  <2>6. CASE UNCHANGED receiverVars
    <3>1. UNCHANGED vars /\ UNCHANGED linkVars
      BY <2>6 DEF receiverVars
    <3>2. UNCHANGED <<sent, InFlight, last, up>>
      BY <3>1, StillSteps
    <3>3. QED
      BY <3>1, <3>2 DEF linkVars, Link!vars, Link!lineVars, Link!linkVars, Link!host
  <2>7. QED
    BY <1>2, <2>1, <2>2, <2>3, <2>4, <2>5, <2>6 DEF ReceiverNext
<1>3. QED
  BY <1>1, <1>2, ReceivesAsCmdInput, TypeCorrect, DownIsEmptyInv, PTL
     DEF ReceiverSpec, ImplementsLink, Link!Spec
-----------------------------------------------------------------------------
(* What CmdLinkProofs proves of CmdLink is proved of every instance of it.    *)
(* The one below has the parameters that CmdReceiver gives to Link, so every  *)
(* definition means the same in both; the lemmas say so from the bottom up.   *)

Proved == INSTANCE CmdLinkProofs WITH Capacity <- RingSize, pending <- InFlight

LEMMA SameHost == Link!host = Proved!host /\ Link!linkVars = Proved!linkVars
BY DEF Link!host, Proved!host, Link!linkVars, Proved!linkVars

LEMMA SameVars == UNCHANGED Link!vars <=> UNCHANGED Proved!vars
BY DEF Link!vars, Proved!vars, Link!lineVars, Proved!lineVars,
       Link!linkVars, Proved!linkVars, Link!host, Proved!host

LEMMA SameInit == Link!Init <=> Proved!Init
BY DEF Link!Init, Proved!Init, Link!LineInit, Proved!LineInit,
       Link!ZeroBuf, Proved!ZeroBuf, Link!Num, Proved!Num

LEMMA SameBody == \A p : Link!Body(p) = Proved!Body(p)
BY DEF Link!Body, Proved!Body, Link!FlattenSeq, Proved!FlattenSeq

LEMMA SameFrame == \A p : Link!Frame(p) = Proved!Frame(p)
BY SameBody DEF Link!Frame, Proved!Frame, Link!START, Proved!START,
                Link!END, Proved!END, Link!Num, Proved!Num, Link!Crc, Proved!Crc

\* Reading protoRxBuf.
LEMMA SameBuffer ==
  /\ \A i : Link!CellAt(i) = Proved!CellAt(i)
  /\ \A x : Link!Value(x) = Proved!Value(x)
  /\ Link!DataPtr = Proved!DataPtr
BY DEF Link!DataPtr, Proved!DataPtr, Link!CellAt, Proved!CellAt,
       Link!Value, Proved!Value, Link!Num, Proved!Num

LEMMA SameReceived == Link!Received = Proved!Received /\ Link!Argc = Proved!Argc
BY SameBuffer DEF Link!Received, Proved!Received, Link!Field, Proved!Field,
                  Link!Argc, Proved!Argc, Link!Arg, Proved!Arg

LEMMA SameCompleted == Link!protoCompletedCb <=> Proved!protoCompletedCb
<1>1. Link!CrcMatches <=> Proved!CrcMatches
  BY SameBuffer, SameReceived, SameBody
     DEF Link!CrcMatches, Proved!CrcMatches, Link!Crc, Proved!Crc
<1>2. QED
  BY <1>1, SameReceived
     DEF Link!protoCompletedCb, Proved!protoCompletedCb,
         Link!CMD_Exec, Proved!CMD_Exec, Link!Unexecuted, Proved!Unexecuted

LEMMA SameParse ==
  \A cell : Link!PROTO_ParseByte(cell) <=> Proved!PROTO_ParseByte(cell)
BY SameCompleted
   DEF Link!PROTO_ParseByte, Proved!PROTO_ParseByte,
       Link!ParseStart, Proved!ParseStart, Link!ParseEnd, Proved!ParseEnd,
       Link!ParseData, Proved!ParseData, Link!START, Proved!START,
       Link!END, Proved!END, Link!Unexecuted, Proved!Unexecuted

LEMMA SameNext == Link!Next <=> Proved!Next
<1>1. Link!HostCommand <=> Proved!HostCommand
  BY SameFrame DEF Link!HostCommand, Proved!HostCommand, Link!lineVars,
     Proved!lineVars, Link!parser, Proved!parser, Link!Range, Proved!Range
<1>2. Link!HostByte <=> Proved!HostByte
  BY SameHost DEF Link!HostByte, Proved!HostByte, Link!Send, Proved!Send,
     Link!linkVars, Proved!linkVars, Link!host, Proved!host
<1>3. Link!LineLoss <=> Proved!LineLoss
  BY SameHost DEF Link!LineLoss, Proved!LineLoss, Link!Lose, Proved!Lose,
     Link!RemoveAt, Proved!RemoveAt, Link!linkVars, Proved!linkVars,
     Link!host, Proved!host
<1>4. Link!ParseByte <=> Proved!ParseByte
  BY SameHost, SameParse DEF Link!ParseByte, Proved!ParseByte,
     Link!Deliver, Proved!Deliver, Link!TakeByte, Proved!TakeByte,
     Link!host, Proved!host
<1>5. Link!CMD_Init <=> Proved!CMD_Init
  BY SameHost DEF Link!CMD_Init, Proved!CMD_Init, Link!PowerUp, Proved!PowerUp,
     Link!linkVars, Proved!linkVars, Link!host, Proved!host
<1>6. Link!Restart <=> Proved!Restart
  BY SameHost DEF Link!Restart, Proved!Restart, Link!Reset, Proved!Reset,
     Link!ParserReset, Proved!ParserReset, Link!ZeroBuf, Proved!ZeroBuf,
     Link!Num, Proved!Num, Link!host, Proved!host
<1>7. QED
  BY <1>1, <1>2, <1>3, <1>4, <1>5, <1>6 DEF Link!Next, Proved!Next

LEMMA ReceiverIsProved == ReceiverSpec => Proved!Spec
<1>1. [Link!Next]_Link!vars <=> [Proved!Next]_Proved!vars
  BY SameNext, SameVars
<1>2. QED
  BY <1>1, SameInit, ReceiverImplements, PTL
     DEF ImplementsLink, Link!Spec, Proved!Spec

\* Where a frame ends and whether it has come whole.
LEMMA SameFrames ==
  /\ \A b, i : Link!Closes(b, i) <=> Proved!Closes(b, i)
  /\ \A i, n : Link!Whole(i, n) <=> Proved!Whole(i, n)
  /\ \A i : Link!Fits(i) <=> Proved!Fits(i)
BY DEF Link!Closes, Proved!Closes, Link!Whole, Proved!Whole, Link!Fits,
       Proved!Fits, Link!FrameLen, Proved!FrameLen, Link!FrameStart,
       Proved!FrameStart

\* Under the interrupt handler, an overflowing rxRb and resets at any step, the
\* chip executes only commands that the host has sent (protoCompletedCb).
THEOREM ReceiverExecutesOnlySent == ReceiverSpec => []Link!OnlySentExecuted
<1>1. Proved!OnlySentExecuted <=> Link!OnlySentExecuted
  BY DEF Proved!OnlySentExecuted, Link!OnlySentExecuted
<1>2. Proved!Spec => []Proved!OnlySentExecuted
  BY Proved!ExecutesOnlySent, PacketsAssumption, LinkAssumption
<1>3. QED
  BY <1>1, <1>2, ReceiverIsProved, PTL

\* A frame that CMD_Task gets whole, whatever the handler lost before it, is
\* executed as the host meant it.
THEOREM ReceiverExecutesWhole == ReceiverSpec => Link!WholeFrameExecuted
<1> DEFINE
  L == \A i \in DOMAIN packets :
         (last' # last /\ Link!Closes(last', i) /\ Link!Whole(i, run')) =>
           executed' = IF packets[i].cmd \in Commands /\ Link!Fits(i)
                         THEN Append(executed, packets[i]) ELSE executed
  P == \A i \in DOMAIN packets :
         (last' # last /\ Proved!Closes(last', i) /\ Proved!Whole(i, run')) =>
           executed' = IF packets[i].cmd \in Commands /\ Proved!Fits(i)
                         THEN Append(executed, packets[i]) ELSE executed
<1>1. [P]_Proved!vars <=> [L]_Link!vars
  BY SameFrames, SameVars
<1>2. Proved!Spec => [][P]_Proved!vars
  BY Proved!WholeExecuted, PacketsAssumption, LinkAssumption
     DEF Proved!WholeFrameExecuted
<1>3. QED
  BY <1>1, <1>2, ReceiverIsProved, PTL DEF Link!WholeFrameExecuted

\* With a host that keeps no more bytes in flight than rxBuf holds, nothing but
\* a whole frame is ever executed, also when a reset comes between two of its
\* bytes or in the middle of the handler.
THEOREM ReceiverIgnoresDamaged ==
  ASSUME Window <= RingSize PROVE ReceiverSpec => Link!DamagedFrameIgnored
<1> DEFINE
  L == executed' # executed =>
         \E i \in DOMAIN packets : Link!Closes(last', i) /\ Link!Whole(i, run')
  P == executed' # executed =>
         \E i \in DOMAIN packets : Proved!Closes(last', i) /\ Proved!Whole(i, run')
<1>1. [P]_Proved!vars <=> [L]_Link!vars
  BY SameFrames, SameVars
<1>2. Proved!Spec => [][P]_Proved!vars
  BY Proved!DamagedIgnored, PacketsAssumption, LinkAssumption
     DEF Proved!DamagedFrameIgnored
<1>3. QED
  BY <1>1, <1>2, ReceiverIsProved, PTL DEF Link!DamagedFrameIgnored
=============================================================================
