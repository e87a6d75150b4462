------------------------------- MODULE Crc16 -------------------------------
(***************************************************************************)
(* The checksum of the frames (modules/crc16.c, protoCompletedCb):         *)
(* crc16_add folds one byte into a 16-bit accumulator.  A frame's bytes    *)
(* pass through three of them: the sender's, the receiver's, which sees    *)
(* the bytes after the line, and a textbook shift register for the         *)
(* polynomial that crc16.c names.  Sender and receiver each walk the       *)
(* frame: where the checksum begins follows from argc and the lengths, so  *)
(* a receiver whose argc or whose length was damaged compares what it has  *)
(* summed with bytes of another place.  CmdLink takes the checksum to be   *)
(* ideal; this module says what it detects of flipped bits.                *)
(*                                                                         *)
(* The bytes are those of protoRxBuf, without markers and escapes: damage  *)
(* that makes or breaks one of these is CmdLink's.  A word is the function *)
(* from its 16 bits, the lowest first, to whether they are set: what the   *)
(* shifts, masks and exclusive ors of the code say is about bits, and a    *)
(* word has no bit that an assignment could overflow into.                 *)
(***************************************************************************)
EXTENDS Naturals, Sequences, FiniteSets

CONSTANTS
  Octets,      \* bytes of the frame, and of older ones behind it, as words
  Errors,      \* what the line does to a byte: an xor mask, as a word
  HeadLen,     \* bytes of cmd, callback and _return: 10
  MaxOctets,   \* bound: bytes read
  MaxDamaged   \* bound: bytes damaged

Word == [0..15 -> BOOLEAN]
Octet == {x \in Word : \A i \in 8..15 : ~x[i]}

ASSUME OctetsAssumption == Octets \cup Errors \subseteq Octet
ASSUME CrcBoundsAssumption == {HeadLen, MaxOctets, MaxDamaged} \subseteq Nat \ {0}

VARIABLES
  acc,       \* the sender's checksum
  shiftReg,  \* the reference register, fed with the sender's bytes
  sent,      \* where the sender is in the frame
  rcv,       \* the receiver's checksum (crc)
  got,       \* where the receiver is, by what it has read (data_ptr, argc, len)
  resp_crc,  \* the checksum it has read
  verdict,   \* "none", or crc against resp_crc: "equal" or "different"
  errors,    \* history: what the line has done to each byte
  intact     \* history: argc and the lengths have come as they were sent

crcVars == <<acc, shiftReg, sent, rcv, got, resp_crc, verdict, errors, intact>>

Zero == [i \in 0..15 |-> FALSE]

Xor(x, y)   == [i \in 0..15 |-> x[i] # y[i]]
Or(x, y)    == [i \in 0..15 |-> x[i] \/ y[i]]
Right(x, k) == [i \in 0..15 |-> i + k <= 15 /\ x[i + k]]
Left(x, k)  == [i \in 0..15 |-> i >= k /\ x[i - k]]
HighByte(x) == [i \in 0..15 |-> i >= 8 /\ x[i]]         \* x & 0xff00

\* Fault: the mask of the last line is missing.
crc16_addNoMask(b, crc) ==
  LET a1 == Xor(crc, b)
      a2 == Or(Right(a1, 8), Left(a1, 8))
      a3 == Xor(a2, Left(HighByte(a2), 4))
      a4 == Xor(a3, Right(a3, 12))
  IN Xor(a4, Right(a4, 5))

\* One line of the function each; unsigned short truncates every assignment.
crc16_add(b, crc) ==
  LET a1 == Xor(crc, b)
      a2 == Or(Right(a1, 8), Left(a1, 8))
      a3 == Xor(a2, Left(HighByte(a2), 4))
      a4 == Xor(a3, Right(a3, 12))
  IN Xor(a4, Right(HighByte(a4), 5))

\* x^16 + x^12 + x^5 + 1, least significant bit first: the register after one
\* bit, and after the eight of b.
Taps == {3, 10, 15}
ShiftBit(bit, reg) ==
  [i \in 0..15 |-> (i < 15 /\ reg[i + 1]) # (i \in Taps /\ reg[0] # bit)]
Shift(b, reg) ==
  LET s(k, r) == ShiftBit(b[k], r)
  IN s(7, s(6, s(5, s(4, s(3, s(2, s(1, s(0, reg))))))))

-----------------------------------------------------------------------------
(* The walk over a frame: the field, how many bytes of it are left, the low  *)
(* byte of a number that is being read and how many arguments are to come.   *)

\* resp_crc, from the two bytes that CMD_ResponseEnd and its counterpart in the
\* host write; so are argc and the lengths.
AsSent(low, high) == Or(low, Left(high, 8))

Number(low, high) ==
  LET x == AsSent(low, high)
      value[n \in 0..16] == IF n = 0 THEN 0
                            ELSE value[n - 1] + (IF x[n - 1] THEN 2^(n - 1) ELSE 0)
  IN value[16]

Numbers == {"argc", "len"}
Summed  == Numbers \cup {"head", "data"}
Fields  == Summed \cup {"crc", "done"}

Field(at, left, args) == [at |-> at, left |-> left, low |-> Zero, args |-> args]

\* while(argc--)
NextArg(args) == IF args = 0 THEN Field("crc", 2, 0) ELSE Field("len", 2, args - 1)

\* while(len--)
Argument(len, args) == IF len = 0 THEN NextArg(args) ELSE Field("data", len, args)

\* One byte further.
protoCompletedCb(w, b) ==
  IF w.left > 1
    THEN [w EXCEPT !.left = @ - 1, !.low = IF w.at \in Numbers THEN b ELSE @]
    ELSE CASE w.at = "head" -> Field("argc", 2, 0)
           [] w.at = "argc" -> NextArg(Number(w.low, b))
           [] w.at = "len"  -> Argument(Number(w.low, b), w.args)
           [] w.at = "data" -> NextArg(w.args)
           [] w.at = "crc"  -> Field("done", 0, 0)

-----------------------------------------------------------------------------
CrcInit ==
  /\ acc = Zero /\ rcv = Zero /\ shiftReg = Zero
  /\ sent = Field("head", HeadLen, 0) /\ got = sent
  /\ resp_crc = Zero
  /\ verdict = "none"
  /\ errors = <<>> /\ intact = TRUE

LowByte(x) == [i \in 0..15 |-> i < 8 /\ x[i]]

\* What may come next: any byte, then the checksum's two, the low one first.
NextSent == CASE sent.at \in Summed -> Octets
              [] sent.at = "crc" /\ sent.left > 1 -> {LowByte(acc)}
              [] sent.at = "crc" /\ sent.left = 1 -> {Right(acc, 8)}

\* CMD_ResponseStart, CMD_ResponseBody and CMD_ResponseEnd, or the host's own.
Send(b) ==
  /\ sent' = protoCompletedCb(sent, b)
  /\ IF sent.at \in Summed
       THEN acc' = crc16_add(b, acc) /\ shiftReg' = Shift(b, shiftReg)
       ELSE UNCHANGED <<acc, shiftReg>>

\* Fault: the checksum is read high byte first.
ReadCrcSwapped(c) ==
  IF got.left > 1
    THEN resp_crc' = Left(c, 8) /\ UNCHANGED verdict
    ELSE /\ resp_crc' = Or(resp_crc, c)
         /\ verdict' = IF rcv = resp_crc' THEN "equal" ELSE "different"

\* resp_crc = *(uint16_t*)data_ptr, and crc against it.
ReadCrc(c) ==
  IF got.left > 1
    THEN resp_crc' = c /\ UNCHANGED verdict
    ELSE /\ resp_crc' = AsSent(resp_crc, c)
         /\ verdict' = IF rcv = resp_crc' THEN "equal" ELSE "different"

Receive(c) ==
  /\ got' = protoCompletedCb(got, c)
  /\ \/ got.at \in Summed /\ rcv' = crc16_add(c, rcv) /\ UNCHANGED <<resp_crc, verdict>>
     \/ got.at = "crc" /\ ReadCrc(c) /\ UNCHANGED rcv

Damaged == {i \in DOMAIN errors : errors[i] # Zero}

\* A byte of the frame crosses the line.
Carry ==
  /\ verdict = "none"
  /\ Len(errors) < MaxOctets
  /\ sent.at # "done"
  /\ \E b \in NextSent, e \in Errors :
       /\ e # Zero => Cardinality(Damaged) < MaxDamaged
       /\ Send(b) /\ Receive(Xor(b, e))
       /\ errors' = Append(errors, e)
       /\ intact' = (intact /\ (sent.at \in Numbers => e = Zero))

\* A receiver that has missed the end reads on in protoRxBuf, in what older
\* frames have left there.
ReadBehind ==
  /\ verdict = "none"
  /\ Len(errors) < MaxOctets
  /\ sent.at = "done"
  /\ \E c \in Octets : Receive(c)
  /\ errors' = Append(errors, Zero)
  /\ UNCHANGED <<acc, shiftReg, sent, intact>>

CrcNext == Carry \/ ReadBehind

CrcSpec == CrcInit /\ [][CrcNext]_crcVars

-----------------------------------------------------------------------------
(* Properties. *)

\* The bits that the line has flipped, in the order in which it carries them.
Flipped == {p \in 0..(8 * Len(errors) - 1) : errors[1 + (p \div 8)][p % 8]}

\* The shifts and masks of crc16_add compute the CRC of the polynomial its
\* comment names, in the bit-reflected form and from register 0.
IsCCITT == acc = shiftReg

\* A frame whose argc and lengths have come as they were sent, and in which all
\* damage lies within 16 consecutive bits, is never executed, the damage being in
\* cmd, callback, _return, the arguments' data or the checksum (protoCompletedCb).
\* Damage to argc or a length may pass: it decides what is summed and what it is
\* compared with.
BurstDetected ==
  /\ intact
  /\ Flipped # {}
  /\ \A p \in Flipped, q \in Flipped : p < q + 16
  => verdict # "equal"

\* Nor is one in which any odd number of bits outside argc and the lengths was
\* flipped, however far apart.
OddDetected == intact /\ Cardinality(Flipped) % 2 = 1 => verdict # "equal"
=============================================================================
