---------------------------- MODULE FrameProofs ----------------------------
(***************************************************************************)
(* Proofs about the content of one frame.  CMD_PopArgs, for any number of  *)
(* arguments of any length, any checksum and handlers that pop as often as *)
(* they like; and the checksum, for frames of any length, any bytes and    *)
(* any damage that leaves argc and the lengths as they were sent.          *)
(***************************************************************************)
EXTENDS CmdArgs, Crc16, SequenceLemmas, FiniteSetTheorems

-----------------------------------------------------------------------------
(* CmdArgs: where the arguments are. *)

\* off[k] cells are in front of what follows the first k arguments.
Layout(off) ==
  /\ off \in [0..argc -> Nat] /\ off[0] = 0
  /\ \A k \in 0..argc : off[k] < Len(cells)
  /\ \A k \in 1..argc :
       /\ off[k] = off[k - 1] + 1 + Len(args[k])
       /\ cells[off[k - 1] + 1] = Len(args[k])
       /\ \A j \in 1..Len(args[k]) : cells[off[k - 1] + 1 + j] = args[k][j]

\* An argument with its length in front.
Encoding == [a \in Seq(Bytes) |-> <<Len(a)>> \o a]

LEMMA EncodingType ==
  ASSUME NEW a \in Seq(Bytes)
  PROVE  /\ Encoding[a] \in Seq(Nat) /\ Len(Encoding[a]) = Len(a) + 1
         /\ Encoding[a][1] = Len(a)
         /\ \A j \in 1..Len(a) : Encoding[a][1 + j] = a[j]
<1>1. PICK l, h : l = Len(a) /\ h = <<l>>
  OBVIOUS
<1>2. l \in Nat /\ \A j \in 1..l : a[j] \in Nat
  BY <1>1, ArgsAssumption
<1>3. a \in Seq(Nat) /\ h \in Seq(Nat) /\ Len(h) = 1 /\ h[1] = l
  <2>1. a = [j \in 1..l |-> a[j]]
    BY <1>1
  <2>2. a \in Seq(Nat)
    BY <1>2, <2>1
  <2>3. h \in Seq(Nat) /\ Len(h) = 1 /\ h[1] = l
    BY <1>1, <1>2
  <2>4. QED
    BY <2>2, <2>3
<1>4. Encoding[a] = h \o a
  BY <1>1 DEF Encoding
<1>5. QED
  BY <1>1, <1>2, <1>3, <1>4

LEMMA LayoutExists ==
  ASSUME args \in Seq(Seq(Bytes)), NEW checksum \in Nat, cells = Cells(args, checksum)
  PROVE  cells \in Seq(Nat) /\ \E off : Layout(off)
<1>1. PICK n, e, f : n = argc /\ e = Mapped(Encoding, args) /\ f = FlattenSeq(e)
  OBVIOUS
<1>2. n \in Nat /\ n = Len(args) /\ DOMAIN args = 1..n
  BY <1>1 DEF argc
<1>3. e \in Seq(Seq(Nat)) /\ Len(e) = n /\ \A i \in 1..n : e[i] = Encoding[args[i]]
  <2>1. \A a \in Seq(Bytes) : Encoding[a] \in Seq(Nat)
    BY EncodingType
  <2>2. Encoding = [a \in Seq(Bytes) |-> Encoding[a]]
    BY DEF Encoding
  <2>3. Maps(Encoding, Seq(Bytes), Seq(Nat))
    BY <2>1, <2>2 DEF Maps
  <2>4. QED
    BY <1>1, <1>2, <2>3, MappedType
<1>4. f \in Seq(Nat) /\ Len(f) \in Nat
  BY <1>1, <1>3, FlattenType
<1>5. cells = f \o <<checksum>>
  <2>1. \A i \in DOMAIN args : args[i] \in Seq(Bytes)
    BY <1>2
  <2>2. e = [i \in DOMAIN args |-> <<Len(args[i])>> \o args[i]]
    BY <1>1, <2>1 DEF Mapped, Encoding
  <2>3. QED
    BY <1>1, <2>2 DEF Cells
<1>6. /\ cells \in Seq(Nat) /\ Len(cells) = Len(f) + 1
      /\ \A i \in 1..Len(f) : cells[i] = f[i]
  BY <1>4, <1>5
<1>7. PICK off : Offsets(off, e)
  BY <1>3, OffsetsExist
<1>8. /\ off \in [0..n -> Nat] /\ off[0] = 0 /\ off[n] = Len(f)
      /\ \A k \in 1..n : /\ off[k] = off[k - 1] + Len(e[k]) /\ off[k] <= Len(f)
                         /\ \A j \in 1..Len(e[k]) : f[off[k - 1] + j] = e[k][j]
  BY <1>1, <1>3, <1>7 DEF Offsets
<1>9. \A k \in 0..n : off[k] < Len(cells)
  <2>1. \A k \in 1..n : off[k] \in Nat /\ off[k] <= Len(f)
    <3>1. \A k \in 1..n : k \in 0..n
      OBVIOUS
    <3>2. QED
      BY <1>8, <3>1
  <2>2. off[0] = 0 /\ Len(cells) = Len(f) + 1
    BY <1>6, <1>8
  <2>3. \A k \in 0..n : k = 0 \/ k \in 1..n
    BY <1>2
  <2>4. QED
    BY <1>4, <2>1, <2>2, <2>3
<1>10. ASSUME NEW k \in 1..n
       PROVE  /\ off[k] = off[k - 1] + 1 + Len(args[k])
              /\ cells[off[k - 1] + 1] = Len(args[k])
              /\ \A j \in 1..Len(args[k]) : cells[off[k - 1] + 1 + j] = args[k][j]
  <2>1. PICK a, l, o : a = args[k] /\ l = Len(a) /\ o = off[k - 1]
    OBVIOUS
  <2>2. a \in Seq(Bytes) /\ l \in Nat /\ o \in Nat
    <3>1. k - 1 \in 0..n
      BY <1>2
    <3>2. o \in Nat
      BY <1>8, <2>1, <3>1
    <3>3. a \in Seq(Bytes)
      BY <1>2, <2>1
    <3>4. QED
      BY <2>1, <3>2, <3>3
  <2>3. /\ Len(e[k]) = l + 1 /\ e[k][1] = l
        /\ \A j \in 1..l : e[k][1 + j] = a[j]
    BY <1>3, <2>1, <2>2, EncodingType
  <2>4. /\ off[k] = o + (l + 1) /\ o + (l + 1) <= Len(f)
        /\ \A j \in 1..(l + 1) : f[o + j] = e[k][j]
    BY <1>8, <2>1, <2>3
  <2>5. \A j \in 1..(l + 1) : cells[o + j] = e[k][j]
    <3>1. \A j \in 1..(l + 1) : o + j \in 1..Len(f)
      BY <1>4, <2>2, <2>4
    <3>2. QED
      BY <1>6, <2>4, <3>1
  <2>6. 1 \in 1..(l + 1) /\ \A j \in 1..l : 1 + j \in 1..(l + 1) /\ o + (1 + j) = o + 1 + j
    BY <2>2
  <2>7. cells[o + 1] = l /\ \A j \in 1..l : cells[o + 1 + j] = a[j]
    BY <2>3, <2>5, <2>6
  <2>8. off[k] = o + 1 + l
    BY <2>2, <2>4
  <2>9. QED
    BY <2>1, <2>7, <2>8
<1>11. Layout(off)
  BY <1>1, <1>8, <1>9, <1>10 DEF Layout
<1>12. QED
  BY <1>6, <1>11

-----------------------------------------------------------------------------
(* The inductive invariant. *)

\* The REQUEST is at the argument after the last one popped, and the arguments
\* popped are the first ones.
Walk == \E off : Layout(off) /\ arg_ptr = off[arg_num] + 1
Popped ==
  /\ popped \in Seq(Seq(Bytes)) /\ Len(popped) = arg_num
  /\ \A i \in 1..arg_num : popped[i] = args[i]

IInv ==
  /\ args \in Seq(Seq(Bytes)) /\ cells \in Seq(Nat)
  /\ arg_num \in 0..argc /\ pops \in 0..MaxPops
  /\ Walk
  /\ Popped

\* The pop that finds an argument.
LEMMA PopKeeps ==
  ASSUME IInv, CMD_PopArgs, MoreArgs
  PROVE  IInv'
<1>1. PICK off : Layout(off) /\ arg_ptr = off[arg_num] + 1
  BY DEF IInv, Walk
<1>2. PICK n, a, l : n = arg_num + 1 /\ a = args[n] /\ l = Len(a)
  OBVIOUS
<1>3. /\ arg_num \in Nat /\ argc \in Nat /\ argc = Len(args) /\ n \in 1..argc /\ n - 1 = arg_num
      /\ args \in Seq(Seq(Bytes))
  BY <1>2 DEF IInv, MoreArgs, argc
<1>4. a \in Seq(Bytes) /\ l \in Nat
  BY <1>2, <1>3
<1>5. /\ off \in [0..argc -> Nat]
      /\ off[n] = off[n - 1] + 1 + Len(args[n])
      /\ cells[off[n - 1] + 1] = Len(args[n])
      /\ \A j \in 1..Len(args[n]) : cells[off[n - 1] + 1 + j] = args[n][j]
  BY <1>1, <1>3 DEF Layout
<1>6. /\ off[arg_num] \in Nat
      /\ off[n] = arg_ptr + l /\ CMD_ArgLen = l
      /\ \A j \in 1..l : cells[arg_ptr + j] = a[j]
  <2>1. off[arg_num] \in Nat
    <3>1. arg_num \in 0..argc
      BY <1>3
    <3>2. QED
      BY <1>5, <3>1
  <2>2. QED
    BY <1>1, <1>2, <1>3, <1>4, <1>5, <2>1 DEF CMD_ArgLen
<1>7. /\ UNCHANGED <<args, cells>>
      /\ popped' = Append(popped, [i \in 1..CMD_ArgLen |-> cells[arg_ptr + i]])
      /\ arg_ptr' = AfterArg /\ arg_num' = n
      /\ pops' = pops + 1 /\ pops < MaxPops
  BY <1>2 DEF CMD_PopArgs
<1>8. popped' = Append(popped, a)
  <2>1. a = [i \in 1..l |-> a[i]]
    BY <1>2, <1>4
  <2>2. QED
    BY <1>6, <1>7, <2>1
<1>9. Popped'
  <2>1. /\ popped \in Seq(Seq(Bytes)) /\ Len(popped) = arg_num
        /\ \A i \in 1..arg_num : popped[i] = args[i]
    BY DEF IInv, Popped
  <2>2. /\ popped' \in Seq(Seq(Bytes)) /\ Len(popped') = n /\ popped'[n] = a
        /\ \A i \in 1..arg_num : popped'[i] = popped[i]
    <3>1. a \in Seq(Bytes) /\ n = Len(popped) + 1 /\ Len(popped) \in Nat
      BY <1>2, <1>4, <2>1
    <3>2. /\ popped' \in Seq(Seq(Bytes)) /\ Len(popped') = n /\ popped'[n] = a
          /\ \A i \in 1..Len(popped) : popped'[i] = popped[i]
      BY <1>8, <2>1, <3>1, AppendProperties
    <3>3. QED
      BY <2>1, <3>2
  <2>3. ASSUME NEW i \in 1..n PROVE popped'[i] = args[i]
    <3>1. CASE i = n
      BY <1>2, <2>2, <3>1
    <3>2. CASE i # n
      <4>1. i \in 1..arg_num
        BY <1>2, <1>3, <3>2
      <4>2. QED
        BY <2>1, <2>2, <4>1
    <3>3. QED
      BY <3>1, <3>2
  <2>4. QED
    BY <1>7, <2>2, <2>3 DEF Popped
<1>10. Walk'
  <2>1. arg_ptr' = off[n] + 1
    BY <1>1, <1>4, <1>6, <1>7 DEF AfterArg
  <2>2. Layout(off)'
    BY <1>1, <1>7 DEF Layout, argc
  <2>3. QED
    BY <1>7, <2>1, <2>2 DEF Walk
<1>11. arg_num' \in 0..argc' /\ pops' \in 0..MaxPops
  BY <1>3, <1>7, ArgsAssumption DEF IInv, argc
<1>12. QED
  BY <1>3, <1>7, <1>9, <1>10, <1>11 DEF IInv

LEMMA BoundedIsSeq ==
  ASSUME NEW S, NEW n \in Nat
  PROVE  BoundedSeq(S, n) \subseteq Seq(S)
BY DEF BoundedSeq, SeqOf

LEMMA IInvInductive == Spec => []IInv
<1>1. Init => IInv
  <2> SUFFICES ASSUME Init PROVE IInv
    OBVIOUS
  <2>1. args \in Seq(Seq(Bytes))
    BY BoundedIsSeq, ArgsAssumption DEF Init
  <2>2. PICK checksum \in Checksums : cells = Cells(args, checksum)
    BY DEF Init
  <2>3. checksum \in Nat
    BY ArgsAssumption
  <2>4. cells \in Seq(Nat) /\ \E off : Layout(off)
    BY <2>1, <2>2, <2>3, LayoutExists
  <2>5. arg_num = 0 /\ arg_ptr = 1 /\ popped = <<>> /\ pops = 0
    BY DEF Init
  <2>6. Walk
    <3>1. PICK off : Layout(off)
      BY <2>4
    <3>2. off[arg_num] = 0
      BY <2>5, <3>1 DEF Layout
    <3>3. arg_ptr = off[arg_num] + 1
      BY <2>5, <3>2
    <3>4. QED
      BY <3>1, <3>3 DEF Walk
  <2>7. Popped
    BY <2>5 DEF Popped
  <2>8. QED
    BY <2>1, <2>4, <2>5, <2>6, <2>7, ArgsAssumption DEF IInv, argc
<1>2. IInv /\ [CMD_PopArgs]_vars => IInv'
  <2> SUFFICES ASSUME IInv, [CMD_PopArgs]_vars PROVE IInv'
    OBVIOUS
  <2>1. CASE CMD_PopArgs /\ MoreArgs
    BY <2>1, PopKeeps
  <2>2. CASE CMD_PopArgs /\ ~MoreArgs
    <3>1. UNCHANGED <<args, cells, popped, arg_num, arg_ptr>> /\ pops' \in 0..MaxPops
      BY <2>2, ArgsAssumption DEF CMD_PopArgs, request, IInv
    <3>2. QED
      BY <3>1 DEF IInv, Walk, Popped, Layout, argc
  <2>3. CASE UNCHANGED vars
    BY <2>3 DEF vars, request, IInv, Walk, Popped, Layout, argc
  <2>4. QED
    BY <2>1, <2>2, <2>3
<1>3. QED
  BY <1>1, <1>2, PTL DEF Spec

\* The REQUEST never leaves the frame, however often a handler pops
\* (CMD_PopArgs, CMD_ArgLen).
THEOREM ArgsTypeCorrect == Spec => []TypeOK
<1>1. IInv => TypeOK
  <2> SUFFICES ASSUME IInv PROVE TypeOK
    OBVIOUS
  <2>1. PICK off : Layout(off) /\ arg_ptr = off[arg_num] + 1
    BY DEF IInv, Walk
  <2>2. off[arg_num] \in Nat /\ off[arg_num] < Len(cells) /\ Len(cells) \in Nat
    <3>1. arg_num \in 0..argc /\ cells \in Seq(Nat)
      BY DEF IInv
    <3>2. QED
      BY <2>1, <3>1 DEF Layout
  <2>3. QED
    BY <2>1, <2>2 DEF IInv, Popped, TypeOK
<1>2. QED
  BY <1>1, IInvInductive, PTL

\* The pops return the arguments the host has sent and nothing after the last
\* one (CMD_PopArgs).
THEOREM PopsArguments == Spec => []ReadsArguments
<1>1. IInv => ReadsArguments
  <2> SUFFICES ASSUME IInv PROVE ReadsArguments
    OBVIOUS
  <2>1. /\ popped \in Seq(Seq(Bytes)) /\ Len(popped) = arg_num
        /\ \A i \in 1..arg_num : popped[i] = args[i]
        /\ arg_num \in 0..Len(args) /\ args \in Seq(Seq(Bytes))
    BY DEF IInv, Popped, argc
  <2>2. IsPrefix(popped, args)
    BY <2>1 DEF IsPrefix
  <2>3. QED
    BY <2>1, <2>2 DEF ReadsArguments
<1>2. QED
  BY <1>1, IInvInductive, PTL

-----------------------------------------------------------------------------
(* Crc16: words, bit by bit. *)

LEMMA XorBits ==
  ASSUME NEW x \in Word, NEW y \in Word
  PROVE  Xor(x, y) \in Word /\ \A i \in 0..15 : Xor(x, y)[i] = (x[i] # y[i])
BY DEF Xor, Word

\* (acc >> 8) | (acc << 8) swaps the two bytes.
LEMMA SwapBits ==
  ASSUME NEW x \in Word, NEW y, y = Or(Right(x, 8), Left(x, 8))
  PROVE  y \in Word /\ \A i \in 0..7 : y[i] = x[i + 8] /\ y[i + 8] = x[i]
BY DEF Or, Right, Left, Word

LEMMA HighBits ==
  ASSUME NEW x \in Word
  PROVE  /\ HighByte(x) \in Word
         /\ \A i \in 0..15 : HighByte(x)[i] <=> (i >= 8 /\ x[i])
BY DEF HighByte, Word

LEMMA LeftBits ==
  ASSUME NEW x \in Word
  PROVE  /\ Left(x, 4) \in Word
         /\ \A i \in 0..15 : Left(x, 4)[i] <=> (i >= 4 /\ x[i - 4])
BY DEF Left, Word

LEMMA RightBits ==
  ASSUME NEW x \in Word, NEW k \in {5, 12}
  PROVE  /\ Right(x, k) \in Word
         /\ \A i \in 0..15 : Right(x, k)[i] <=> (i + k <= 15 /\ x[i + k])
BY DEF Right, Word

\* What the five lines of crc16_add come to: y, bit by bit, for the exclusive or
\* x of the accumulator and the byte.
Folded(x, y) ==
  /\ y[0] = ((x[0] # x[4]) # x[8])
  /\ y[1] = ((x[1] # x[5]) # x[9])
  /\ y[2] = ((x[2] # x[6]) # x[10])
  /\ y[3] = ((x[3] # x[7]) # (x[0] # x[11]))
  /\ y[4] = (x[1] # x[12])
  /\ y[5] = (x[2] # x[13])
  /\ y[6] = (x[3] # x[14])
  /\ y[7] = ((x[0] # x[4]) # x[15])
  /\ y[8] = ((x[1] # x[5]) # x[0])
  /\ y[9] = ((x[2] # x[6]) # x[1])
  /\ y[10] = ((x[3] # x[7]) # x[2])
  /\ y[11] = x[3]
  /\ y[12] = (x[0] # x[4])
  /\ y[13] = (x[1] # x[5])
  /\ y[14] = (x[2] # x[6])
  /\ y[15] = (x[3] # x[7])

\* crc16_add is Folded: one step per line of the code.
LEMMA AddFolds ==
  ASSUME NEW a \in Word, NEW b \in Word
  PROVE  crc16_add(b, a) \in Word /\ Folded(Xor(a, b), crc16_add(b, a))
<1>1. PICK x : x = Xor(a, b)
  OBVIOUS
<1>2. PICK a2 : a2 = Or(Right(x, 8), Left(x, 8))
  OBVIOUS
<1>3. PICK a3 : a3 = Xor(a2, Left(HighByte(a2), 4))
  OBVIOUS
<1>4. PICK a4 : a4 = Xor(a3, Right(a3, 12))
  OBVIOUS
<1>5. crc16_add(b, a) = Xor(a4, Right(HighByte(a4), 5))
  BY <1>1, <1>2, <1>3, <1>4 DEF crc16_add
<1>6. PICK y : y = Xor(a4, Right(HighByte(a4), 5))
  OBVIOUS
<1>7. x \in Word
  BY <1>1, XorBits
<1>8. a2 \in Word /\ \A i \in 0..7 : a2[i] = x[i + 8] /\ a2[i+8] = x[i]
  BY <1>2, <1>7, SwapBits
<1>9. /\ a3 \in Word /\ \A i \in 0..11 : a3[i] = a2[i]
      /\ \A i \in 12..15 : a3[i] = (a2[i] # a2[i - 4])
  <2>1. PICK h : h = HighByte(a2)
    OBVIOUS
  <2>2. h \in Word /\ \A i \in 0..15 : h[i] <=> (i >= 8 /\ a2[i])
    BY <1>8, <2>1, HighBits
  <2>3. PICK l : l = Left(h, 4)
    OBVIOUS
  <2>4. l \in Word /\ \A i \in 0..15 : l[i] <=> (i >= 4 /\ h[i - 4])
    BY <2>2, <2>3, LeftBits
  <2>5. a3 \in Word /\ \A i \in 0..15 : a3[i] = (a2[i] # l[i])
    BY <1>3, <1>8, <2>1, <2>3, <2>4, XorBits
  <2>6. \A i \in 0..11 : ~l[i]
    BY <2>2, <2>4
  <2>7. \A i \in 12..15 : l[i] = a2[i - 4]
    BY <1>8, <2>2, <2>4 DEF Word
  <2>8. QED
    BY <1>8, <2>4, <2>5, <2>6, <2>7 DEF Word
<1>10. /\ a4 \in Word /\ \A i \in 4..15 : a4[i] = a3[i]
       /\ \A i \in 0..3 : a4[i] = (a3[i] # a3[i + 12])
  <2>1. PICK r : r = Right(a3, 12)
    OBVIOUS
  <2>2. r \in Word /\ \A i \in 0..15 : r[i] <=> (i + 12 <= 15 /\ a3[i + 12])
    BY <1>9, <2>1, RightBits
  <2>3. a4 \in Word /\ \A i \in 0..15 : a4[i] = (a3[i] # r[i])
    BY <1>4, <1>9, <2>1, <2>2, XorBits
  <2>4. \A i \in 4..15 : ~r[i]
    BY <2>2
  <2>5. \A i \in 0..3 : r[i] = a3[i + 12]
    BY <1>9, <2>2 DEF Word
  <2>6. QED
    BY <1>9, <2>2, <2>3, <2>4, <2>5 DEF Word
<1>11. /\ y \in Word /\ \A i \in 0..2 \cup 11..15 : y[i] = a4[i]
       /\ \A i \in 3..10 : y[i] = (a4[i] # a4[i + 5])
  <2>1. PICK h : h = HighByte(a4)
    OBVIOUS
  <2>2. h \in Word /\ \A i \in 0..15 : h[i] <=> (i >= 8 /\ a4[i])
    BY <1>10, <2>1, HighBits
  <2>3. PICK r : r = Right(h, 5)
    OBVIOUS
  <2>4. r \in Word /\ \A i \in 0..15 : r[i] <=> (i + 5 <= 15 /\ h[i + 5])
    BY <2>2, <2>3, RightBits
  <2>5. y \in Word /\ \A i \in 0..15 : y[i] = (a4[i] # r[i])
    BY <1>6, <1>10, <2>1, <2>3, <2>4, XorBits
  <2>6. \A i \in 0..2 \cup 11..15 : ~r[i]
    BY <2>2, <2>4
  <2>7. \A i \in 3..10 : r[i] = a4[i + 5]
    BY <1>10, <2>2, <2>4 DEF Word
  <2>8. QED
    BY <1>10, <2>4, <2>5, <2>6, <2>7 DEF Word
<1>12. Folded(x, y)
  BY <1>7, <1>8, <1>9, <1>10, <1>11 DEF Word, Folded
<1>13. QED
  BY <1>1, <1>5, <1>6, <1>11, <1>12

\* The register after one bit c.
Stepped(r, c, y) ==
         /\ y[15] <=> (r[0] # c)
         /\ y[3] <=> (r[4] # (r[0] # c))
         /\ y[10] <=> (r[11] # (r[0] # c))
         /\ \A i \in 0..14 \ {3, 10} : y[i] = r[i + 1]
LEMMA ShiftBits ==
  ASSUME NEW r \in Word, NEW b \in Word, NEW k \in 0..7
  PROVE  ShiftBit(b[k], r) \in Word /\ Stepped(r, b[k], ShiftBit(b[k], r))
<1>1. PICK c, y : c = b[k] /\ y = ShiftBit(c, r)
  OBVIOUS
<1>2. y \in Word /\ \A i \in 0..15 : y[i] <=> ((i < 15 /\ r[i + 1]) # (i \in {3, 10, 15} /\ r[0] # c))
  BY <1>1 DEF ShiftBit, Taps, Word
<1>3. c \in BOOLEAN /\ \A i \in 0..15 : r[i] \in BOOLEAN /\ y[i] \in BOOLEAN
  BY <1>1, <1>2 DEF Word
<1>4. y[15] <=> (r[0] # c)
  BY <1>2, <1>3
<1>5. y[3] <=> (r[4] # (r[0] # c))
  BY <1>2, <1>3
<1>6. y[10] <=> (r[11] # (r[0] # c))
  BY <1>2, <1>3
<1>7. ASSUME NEW i \in 0..14 \ {3, 10} PROVE y[i] = r[i + 1]
  <2>1. y[i] <=> r[i + 1]
    BY <1>2
  <2>2. y[i] \in BOOLEAN /\ r[i + 1] \in BOOLEAN
    BY <1>3
  <2>3. QED
    BY <2>1, <2>2
<1>8. Stepped(r, c, y)
  BY <1>4, <1>5, <1>6, <1>7 DEF Stepped
<1>9. QED
  BY <1>1, <1>2, <1>8

\* Eight steps of the reference register are Folded, too.
LEMMA ShiftFolds ==
  ASSUME NEW a \in Word, NEW b \in Octet
  PROVE  Shift(b, a) \in Word /\ Folded(Xor(a, b), Shift(b, a))
<1>1. b \in Word
  BY DEF Octet
<1>2. PICK x : x = Xor(a, b)
  OBVIOUS
<1>3. x \in Word /\ (\A i \in 0..15 : x[i] = (a[i] # b[i])) /\ \A i \in 8..15 : x[i] = a[i]
  BY <1>1, <1>2, XorBits DEF Octet, Word
<1>4. PICK r1 : r1 = ShiftBit(b[0], a)
  OBVIOUS
<1>5. PICK r2 : r2 = ShiftBit(b[1], r1)
  OBVIOUS
<1>6. PICK r3 : r3 = ShiftBit(b[2], r2)
  OBVIOUS
<1>7. PICK r4 : r4 = ShiftBit(b[3], r3)
  OBVIOUS
<1>8. PICK r5 : r5 = ShiftBit(b[4], r4)
  OBVIOUS
<1>9. PICK r6 : r6 = ShiftBit(b[5], r5)
  OBVIOUS
<1>10. PICK r7 : r7 = ShiftBit(b[6], r6)
  OBVIOUS
<1>11. PICK r8 : r8 = ShiftBit(b[7], r7)
  OBVIOUS
<1>12. Shift(b, a) = r8
  BY <1>4, <1>5, <1>6, <1>7, <1>8, <1>9, <1>10, <1>11 DEF Shift
<1>13. r1 \in Word /\ Stepped(a, b[0], r1)
  BY <1>1, <1>4, ShiftBits
<1>14. r2 \in Word /\ Stepped(r1, b[1], r2)
  BY <1>1, <1>5, <1>13, ShiftBits
<1>15. r3 \in Word /\ Stepped(r2, b[2], r3)
  BY <1>1, <1>6, <1>14, ShiftBits
<1>16. r4 \in Word /\ Stepped(r3, b[3], r4)
  BY <1>1, <1>7, <1>15, ShiftBits
<1>17. r5 \in Word /\ Stepped(r4, b[4], r5)
  BY <1>1, <1>8, <1>16, ShiftBits
<1>18. r6 \in Word /\ Stepped(r5, b[5], r6)
  BY <1>1, <1>9, <1>17, ShiftBits
<1>19. r7 \in Word /\ Stepped(r6, b[6], r7)
  BY <1>1, <1>10, <1>18, ShiftBits
<1>20. r8 \in Word /\ Stepped(r7, b[7], r8)
  BY <1>1, <1>11, <1>19, ShiftBits
<1>21. Folded(x, r8)
  BY <1>1, <1>3, <1>13, <1>14, <1>15, <1>16, <1>17, <1>18, <1>19, <1>20 DEF Folded, Word, Stepped
<1>22. QED
  BY <1>2, <1>12, <1>20, <1>21

LEMMA SameBits ==
  ASSUME NEW x \in Word, NEW y \in Word, \A i \in 0..15 : x[i] <=> y[i]
  PROVE  x = y
BY DEF Word

\* A word has one image.
LEMMA FoldsOnce ==
  ASSUME NEW x \in Word, NEW y \in Word, NEW z \in Word, Folded(x, y), Folded(x, z)
  PROVE  y = z
<1>1. \A i \in 0..15 : y[i] <=> z[i]
  BY DEF Folded, Word
<1>2. QED
  BY <1>1, SameBits

\* crc16_add is the division by the polynomial, for every accumulator and byte.
LEMMA AddIsShift ==
  ASSUME NEW a \in Word, NEW b \in Octet
  PROVE  crc16_add(b, a) = Shift(b, a)
BY AddFolds, ShiftFolds, FoldsOnce, XorBits DEF Octet

LEMMA ZeroWord ==
  Zero \in Octet /\ Octet \subseteq Word /\ \A i \in 0..15 : ~Zero[i]
BY DEF Zero, Octet, Word

\* Only zero has the image zero ...
LEMMA FoldsZero ==
  ASSUME NEW x \in Word
  PROVE  Folded(x, Zero) <=> x = Zero
<1>1. ASSUME Folded(x, Zero) PROVE \A i \in 0..15 : x[i] <=> Zero[i]
  BY <1>1, ZeroWord DEF Folded, Word
<1>2. Folded(Zero, Zero)
  <2>1. PICK z : z = Zero
    OBVIOUS
  <2>2. \A i \in 0..15 : z[i] \in BOOLEAN /\ ~z[i]
    BY <2>1, ZeroWord DEF Word
  <2>3. Folded(z, z)
    BY <2>2 DEF Folded
  <2>4. QED
    BY <2>1, <2>3
<1>3. QED
  BY <1>1, <1>2, SameBits, ZeroWord

\* ... and the image of a difference is the difference of the images.
LEMMA FoldsLinear ==
  ASSUME NEW x1 \in Word, NEW x2 \in Word, NEW y1 \in Word, NEW y2 \in Word,
         Folded(x1, y1), Folded(x2, y2)
  PROVE  Folded(Xor(x1, x2), Xor(y1, y2))
<1>1. PICK x, y : x = Xor(x1, x2) /\ y = Xor(y1, y2)
  OBVIOUS
<1>2. /\ x \in Word /\ y \in Word
      /\ \A i \in 0..15 : x[i] = (x1[i] # x2[i]) /\ y[i] = (y1[i] # y2[i])
  BY <1>1, XorBits
<1>3. Folded(x, y)
  BY <1>2 DEF Folded, Word
<1>4. QED
  BY <1>1, <1>3

\* So the difference of sender and receiver goes its own way: it takes in the
\* error, whatever the byte was.
LEMMA AddLinear ==
  ASSUME NEW a \in Word, NEW r \in Word, NEW b \in Word, NEW e \in Word
  PROVE  Xor(crc16_add(b, a), crc16_add(Xor(b, e), r)) = crc16_add(e, Xor(a, r))
<1>1. PICK y1, y2, y : /\ y1 = crc16_add(b, a) /\ y2 = crc16_add(Xor(b, e), r)
                      /\ y = crc16_add(e, Xor(a, r))
  OBVIOUS
<1>2. /\ y1 \in Word /\ Folded(Xor(a, b), y1)
      /\ y2 \in Word /\ Folded(Xor(r, Xor(b, e)), y2)
      /\ y \in Word /\ Folded(Xor(Xor(a, r), e), y)
  BY <1>1, AddFolds, XorBits
<1>3. Folded(Xor(Xor(a, b), Xor(r, Xor(b, e))), Xor(y1, y2))
  BY <1>2, FoldsLinear, XorBits
<1>4. Xor(Xor(a, b), Xor(r, Xor(b, e))) = Xor(Xor(a, r), e)
  <2>1. PICK u, v, w, p, q, z : /\ u = Xor(a, b) /\ v = Xor(b, e) /\ w = Xor(r, v)
                               /\ p = Xor(u, w) /\ q = Xor(a, r) /\ z = Xor(q, e)
    OBVIOUS
  <2>2. u \in Word /\ v \in Word /\ q \in Word
        /\ \A i \in 0..15 : u[i] = (a[i] # b[i]) /\ v[i] = (b[i] # e[i]) /\ q[i] = (a[i] # r[i])
    BY <2>1, XorBits
  <2>3. w \in Word /\ z \in Word
        /\ \A i \in 0..15 : w[i] = (r[i] # v[i]) /\ z[i] = (q[i] # e[i])
    BY <2>1, <2>2, XorBits
  <2>4. p \in Word /\ \A i \in 0..15 : p[i] = (u[i] # w[i])
    BY <2>1, <2>2, <2>3, XorBits
  <2>5. \A i \in 0..15 : p[i] <=> z[i]
    BY <2>2, <2>3, <2>4 DEF Word
  <2>6. QED
    BY <2>1, <2>3, <2>4, <2>5, SameBits
<1>5. QED
  BY <1>1, <1>2, <1>3, <1>4, FoldsOnce, XorBits

LEMMA AddType ==
  ASSUME NEW a \in Word, NEW b \in Word
  PROVE  crc16_add(b, a) \in Word
BY AddFolds

LEMMA XorZero ==
  ASSUME NEW x \in Word, NEW y \in Word
  PROVE  /\ (Xor(x, y) = Zero) <=> (x = y)
         /\ Xor(x, Zero) = x /\ Xor(Zero, x) = x
<1>1. PICK z, p, q : z = Xor(x, y) /\ p = Xor(x, Zero) /\ q = Xor(Zero, x)
  OBVIOUS
<1>2. /\ z \in Word /\ p \in Word /\ q \in Word
      /\ \A i \in 0..15 : z[i] = (x[i] # y[i])
      /\ \A i \in 0..15 : p[i] <=> x[i]
      /\ \A i \in 0..15 : q[i] <=> x[i]
  BY <1>1, XorBits, ZeroWord DEF Word
<1>3. p = x /\ q = x
  BY <1>2, SameBits
<1>4. ASSUME z = Zero PROVE x = y
  <2>1. \A i \in 0..15 : x[i] <=> y[i]
    BY <1>2, <1>4, ZeroWord DEF Word
  <2>2. QED
    BY <2>1, SameBits
<1>5. ASSUME x = y PROVE z = Zero
  <2>1. \A i \in 0..15 : z[i] <=> Zero[i]
    BY <1>2, <1>5, ZeroWord DEF Word
  <2>2. QED
    BY <1>2, <2>1, SameBits, ZeroWord
<1>6. QED
  BY <1>1, <1>3, <1>4, <1>5

\* A difference vanishes only if the next error equals it.
LEMMA AddIsZero ==
  ASSUME NEW a \in Word, NEW b \in Word
  PROVE  (crc16_add(b, a) = Zero) <=> (a = b)
<1>1. PICK y : y = crc16_add(b, a)
  OBVIOUS
<1>2. y \in Word /\ Folded(Xor(a, b), y) /\ Xor(a, b) \in Word
  BY <1>1, AddFolds, XorBits
<1>3. (y = Zero) <=> (Xor(a, b) = Zero)
  BY <1>2, FoldsZero, FoldsOnce, ZeroWord
<1>4. QED
  BY <1>1, <1>3, XorZero

\* An error that begins with bit i of one byte and ends before bit i of the next
\* but one cannot make the difference vanish.
LEMMA Window ==
  ASSUME NEW e1 \in Octet, NEW e2 \in Octet, NEW e3 \in Octet, e1 # Zero,
         \A i \in 0..7, j \in 0..7 : e1[i] /\ e3[j] => j < i
  PROVE  crc16_add(e3, crc16_add(e2, crc16_add(e1, Zero))) # Zero
<1>1. PICK y1, x2, y2 : /\ y1 = crc16_add(e1, Zero) /\ x2 = Xor(y1, e2)
                        /\ y2 = crc16_add(e2, y1)
  OBVIOUS
<1>2. e1 \in Word /\ e2 \in Word /\ e3 \in Word /\ Zero \in Word
  BY ZeroWord
<1>3. y1 \in Word /\ Folded(e1, y1)
  BY <1>1, <1>2, AddFolds, XorZero
<1>4. y2 \in Word /\ Folded(x2, y2) /\ x2 \in Word
  BY <1>1, <1>2, <1>3, AddFolds, XorBits
<1>5. SUFFICES ASSUME y2 = e3 PROVE FALSE
  BY <1>1, <1>2, <1>4, AddIsZero
<1>6. /\ \A i \in 0..7 : x2[i] <=> FALSE
      /\ \A i \in 8..15 : x2[i] <=> e3[i - 8]
  <2>1. \A i \in 8..15 : ~y2[i]
    BY <1>5 DEF Octet
  <2>2. \A i \in 0..7 : x2[i] <=> FALSE
    BY <1>4, <2>1 DEF Folded, Word
  <2>3. \A i \in 8..15 : x2[i] <=> y2[i - 8]
    BY <1>4, <2>2 DEF Folded, Word
  <2>4. QED
    BY <1>5, <2>2, <2>3
<1>7. \A i \in 8..15 : x2[i] <=> y1[i]
  BY <1>1, <1>2, <1>3, XorBits DEF Octet, Word
<1>8. /\ ((e1[1] # e1[5]) # e1[0]) <=> e3[0]
      /\ ((e1[2] # e1[6]) # e1[1]) <=> e3[1]
      /\ ((e1[3] # e1[7]) # e1[2]) <=> e3[2]
      /\ e1[3] <=> e3[3]
      /\ (e1[0] # e1[4]) <=> e3[4]
      /\ (e1[1] # e1[5]) <=> e3[5]
      /\ (e1[2] # e1[6]) <=> e3[6]
      /\ (e1[3] # e1[7]) <=> e3[7]
  BY <1>2, <1>3, <1>6, <1>7 DEF Folded, Word
<1>9. \A i \in 0..7 : ~e1[i]
  BY <1>2, <1>8 DEF Word
<1>10. \A i \in 0..15 : e1[i] <=> Zero[i]
  BY <1>9, ZeroWord DEF Octet
<1>11. QED
  BY <1>2, <1>10, SameBits

-----------------------------------------------------------------------------
(* Crc16: an odd number of errors.  The polynomial has an even number of      *)
(* terms, so the register keeps the parity of what went in.                   *)

\* Whether a word has an odd number of bits.
Parity(x) ==
  (((x[0] # x[1]) # (x[2] # x[3])) # ((x[4] # x[5]) # (x[6] # x[7])))
    # (((x[8] # x[9]) # (x[10] # x[11])) # ((x[12] # x[13]) # (x[14] # x[15])))

LEMMA ParityKept ==
  ASSUME NEW x \in Word, NEW y \in Word, Folded(x, y)
  PROVE  Parity(y) <=> Parity(x)
BY DEF Folded, Parity, Word

LEMMA ParityXor ==
  ASSUME NEW x \in Word, NEW y \in Word
  PROVE  Parity(Xor(x, y)) <=> (Parity(x) # Parity(y))
<1>1. PICK z : z = Xor(x, y)
  OBVIOUS
<1>2. z \in Word /\ \A i \in 0..15 : z[i] = (x[i] # y[i])
  BY <1>1, XorBits
<1>3. Parity(z) <=> (Parity(x) # Parity(y))
  BY <1>2 DEF Parity, Word
<1>4. QED
  BY <1>1, <1>3

LEMMA ParityAdd ==
  ASSUME NEW a \in Word, NEW b \in Word
  PROVE  Parity(crc16_add(b, a)) <=> (Parity(a) # Parity(b))
BY AddFolds, ParityKept, ParityXor, XorBits

LEMMA OctetParity ==
  ASSUME NEW e \in Octet
  PROVE  Parity(e) <=> (((e[0] # e[1]) # (e[2] # e[3]))
                          # ((e[4] # e[5]) # (e[6] # e[7])))
BY DEF Parity, Octet, Word

\* The bits that the errors s flip; with the first k of one more error e.
Flips(s) == {p \in 0..(8 * Len(s) - 1) : s[1 + (p \div 8)][p % 8]}
Part(s, e, k) ==
  Flips(s) \cup {p \in (8 * Len(s))..(8 * Len(s) + k - 1) : e[p - 8 * Len(s)]}

Odd(S) == Cardinality(S) % 2 = 1

LEMMA OddAdd ==
  ASSUME NEW S, IsFiniteSet(S), NEW m, m \notin S, NEW c \in BOOLEAN,
         NEW R, R = S \cup (IF c THEN {m} ELSE {})
  PROVE  IsFiniteSet(R) /\ (Odd(R) <=> (Odd(S) # c))
<1>1. CASE c
  <2>1. IsFiniteSet(R) /\ Cardinality(R) = Cardinality(S) + 1 /\ Cardinality(S) \in Nat
    BY <1>1, FS_AddElement, FS_CardinalityType
  <2>2. Odd(R) <=> ~Odd(S)
    BY <2>1 DEF Odd
  <2>3. QED
    BY <1>1, <2>1, <2>2
<1>2. CASE ~c
  <2>1. R = S /\ c = FALSE
    BY <1>2
  <2>2. QED
    BY <2>1 DEF Odd
<1>3. QED
  BY <1>1, <1>2

LEMMA PartStep ==
  ASSUME NEW s \in Seq(Octet), NEW e \in Octet, NEW k \in 0..7, IsFiniteSet(Part(s, e, k))
  PROVE  /\ IsFiniteSet(Part(s, e, k + 1))
         /\ Odd(Part(s, e, k + 1)) <=> (Odd(Part(s, e, k)) # e[k])
<1>1. PICK n, m, S, R : /\ n = Len(s) /\ m = 8 * n + k
                        /\ S = Part(s, e, k) /\ R = Part(s, e, k + 1)
  OBVIOUS
<1>2. n \in Nat /\ e[k] \in BOOLEAN /\ m - 8 * n = k
  BY <1>1 DEF Octet, Word
<1>3. m \notin S
  BY <1>1, <1>2 DEF Part, Flips
<1>4. R = S \cup (IF e[k] THEN {m} ELSE {})
  <2>1. (8 * n)..(8 * n + (k + 1) - 1) = (8 * n)..(8 * n + k - 1) \cup {m}
    BY <1>1, <1>2
  <2>2. QED
    BY <1>1, <1>2, <2>1 DEF Part
<1>5. QED
  BY <1>1, <1>2, <1>3, <1>4, OddAdd

LEMMA FlipsGrow ==
  ASSUME NEW s \in Seq(Octet), NEW e \in Octet
  PROVE  Flips(Append(s, e)) = Part(s, e, 8) /\ Flips(s) = Part(s, e, 0)
<1>1. PICK n, t : n = Len(s) /\ t = Append(s, e)
  OBVIOUS
<1>2. /\ n \in Nat /\ Len(t) = n + 1 /\ t[n + 1] = e
      /\ \A i \in 1..n : t[i] = s[i]
  BY <1>1
<1>3. ASSUME NEW p \in 0..(8 * n - 1)
      PROVE  p \in Flips(t) <=> p \in Flips(s)
  <2>1. 1 + (p \div 8) \in 1..n
    BY <1>2, <1>3
  <2>2. QED
    BY <1>1, <1>2, <2>1 DEF Flips
<1>4. ASSUME NEW p \in (8 * n)..(8 * n + 7)
      PROVE  p \in Flips(t) <=> e[p - 8 * n]
  <2>1. 1 + (p \div 8) = n + 1 /\ p % 8 = p - 8 * n
    BY <1>2, <1>4
  <2>2. p \in 0..(8 * Len(t) - 1)
    BY <1>2, <1>4
  <2>3. p \in Flips(t) <=> t[1 + (p \div 8)][p % 8]
    BY <2>2 DEF Flips
  <2>4. QED
    BY <1>2, <2>1, <2>3
<1>5. /\ Flips(t) \subseteq 0..(8 * n + 7) /\ Flips(s) \subseteq 0..(8 * n - 1)
      /\ 0..(8 * n + 7) = 0..(8 * n - 1) \cup (8 * n)..(8 * n + 7)
  BY <1>1, <1>2 DEF Flips
<1>6. Part(s, e, 8) = Flips(s) \cup {p \in (8 * n)..(8 * n + 7) : e[p - 8 * n]}
  <2>1. 8 * n + 8 - 1 = 8 * n + 7
    BY <1>2
  <2>2. QED
    BY <1>1, <2>1 DEF Part
<1>7. Flips(t) = Part(s, e, 8)
  BY <1>3, <1>4, <1>5, <1>6
<1>8. Flips(s) = Part(s, e, 0)
  BY <1>1, <1>2 DEF Part
<1>9. QED
  BY <1>1, <1>7, <1>8

\* One more error changes the parity of the flipped bits by its own.
LEMMA OddGrows ==
  ASSUME NEW s \in Seq(Octet), NEW e \in Octet, IsFiniteSet(Flips(s))
  PROVE  /\ IsFiniteSet(Flips(Append(s, e)))
         /\ Odd(Flips(Append(s, e))) <=> (Odd(Flips(s)) # Parity(e))
<1> DEFINE Q(k) == Part(s, e, k)
<1>1. IsFiniteSet(Q(0))
  BY FlipsGrow
<1>2. IsFiniteSet(Q(1)) /\ (Odd(Q(1)) <=> (Odd(Q(0)) # e[0]))
  BY <1>1, PartStep, 0 + 1 = 1
<1>3. IsFiniteSet(Q(2)) /\ (Odd(Q(2)) <=> (Odd(Q(1)) # e[1]))
  BY <1>2, PartStep, 1 + 1 = 2
<1>4. IsFiniteSet(Q(3)) /\ (Odd(Q(3)) <=> (Odd(Q(2)) # e[2]))
  BY <1>3, PartStep, 2 + 1 = 3
<1>5. IsFiniteSet(Q(4)) /\ (Odd(Q(4)) <=> (Odd(Q(3)) # e[3]))
  BY <1>4, PartStep, 3 + 1 = 4
<1>6. IsFiniteSet(Q(5)) /\ (Odd(Q(5)) <=> (Odd(Q(4)) # e[4]))
  BY <1>5, PartStep, 4 + 1 = 5
<1>7. IsFiniteSet(Q(6)) /\ (Odd(Q(6)) <=> (Odd(Q(5)) # e[5]))
  BY <1>6, PartStep, 5 + 1 = 6
<1>8. IsFiniteSet(Q(7)) /\ (Odd(Q(7)) <=> (Odd(Q(6)) # e[6]))
  BY <1>7, PartStep, 6 + 1 = 7
<1>9. IsFiniteSet(Q(8)) /\ (Odd(Q(8)) <=> (Odd(Q(7)) # e[7]))
  BY <1>8, PartStep, 7 + 1 = 8
<1> HIDE DEF Q
<1>10. Odd(Q(8)) <=> (Odd(Q(0)) # Parity(e))
  <2>1. Parity(e) <=> (((e[0] # e[1]) # (e[2] # e[3]))
                         # ((e[4] # e[5]) # (e[6] # e[7])))
    BY OctetParity
  <2>2. \A i \in 0..7 : e[i] \in BOOLEAN
    BY DEF Octet, Word
  <2>3. Odd(Q(4)) <=> (Odd(Q(0)) # ((e[0] # e[1]) # (e[2] # e[3])))
    BY <1>2, <1>3, <1>4, <1>5, <2>2 DEF Odd
  <2>4. Odd(Q(8)) <=> (Odd(Q(4)) # ((e[4] # e[5]) # (e[6] # e[7])))
    BY <1>6, <1>7, <1>8, <1>9, <2>2 DEF Odd
  <2>5. PICK u, v, o, p, q : /\ u = ((e[0] # e[1]) # (e[2] # e[3]))
                             /\ v = ((e[4] # e[5]) # (e[6] # e[7]))
                             /\ o = Odd(Q(0)) /\ p = Odd(Q(4)) /\ q = Odd(Q(8))
    OBVIOUS
  <2>6. {u, v, o, p, q} \subseteq BOOLEAN
    BY <2>5 DEF Odd
  <2>7. (Parity(e) <=> (u # v)) /\ (p <=> (o # u)) /\ (q <=> (p # v))
    BY <2>1, <2>3, <2>4, <2>5
  <2>8. q <=> (o # (u # v))
    BY <2>6, <2>7
  <2>9. Parity(e) = (u # v)
    BY <2>6, <2>7 DEF Parity
  <2>10. QED
    BY <2>5, <2>8, <2>9
<1>11. QED
  BY <1>9, <1>10, FlipsGrow DEF Q

-----------------------------------------------------------------------------
(* Crc16: a burst of errors. *)

\* The first byte damaged.
FirstAt(s, f) == s[f] # Zero /\ \A i \in 1..(f - 1) : s[i] = Zero

Burst(s) == Flips(s) # {} /\ \A p \in Flips(s), q \in Flips(s) : p < q + 16

\* The difference D is made by the errors since byte f, the last three of them
\* written out; after that a burst has come to its end.
Since(s, D, f) ==
  LET n == Len(s)
      one == crc16_add(s[f], Zero)
      two == crc16_add(s[f + 1], one)
  IN /\ n = f => D = one
     /\ n = f + 1 => D = two
     /\ n = f + 2 => D = crc16_add(s[f + 2], two)
     /\ n > f + 2 /\ Burst(s) => D # Zero

BurstInv(s, D) ==
  \/ D = Zero /\ \A i \in 1..Len(s) : s[i] = Zero
  \/ \E f \in 1..Len(s) : FirstAt(s, f) /\ Since(s, D, f)

\* A bit of a byte is a flipped bit.
LEMMA BitFlipped ==
  ASSUME NEW s \in Seq(Octet), NEW i \in 1..Len(s), NEW k \in 0..7, s[i][k]
  PROVE  8 * (i - 1) + k \in Flips(s)
<1>1. Len(s) \in Nat /\ i \in Nat /\ i >= 1 /\ i <= Len(s)
  OBVIOUS
<1>2. PICK p : p = 8 * (i - 1) + k
  OBVIOUS
<1>3. p \in 0..(8 * Len(s) - 1) /\ 1 + (p \div 8) = i /\ p % 8 = k
  BY <1>1, <1>2
<1>4. QED
  BY <1>2, <1>3 DEF Flips

\* A damaged byte has one.
LEMMA OctetHasBit ==
  ASSUME NEW e \in Octet, e # Zero
  PROVE  \E k \in 0..7 : e[k]
<1>1. SUFFICES ASSUME \A k \in 0..7 : ~e[k] PROVE FALSE
  OBVIOUS
<1>2. \A i \in 0..15 : e[i] <=> Zero[i]
  BY <1>1, ZeroWord DEF Octet
<1>3. QED
  BY <1>2, SameBits, ZeroWord

\* A burst that begins in byte f does not reach the third byte after it, and what
\* it may have in the second is not enough.
LEMMA Far ==
  ASSUME NEW s \in Seq(Octet), Burst(s), NEW f \in 1..Len(s), NEW g \in 1..Len(s),
         s[f] # Zero, g > f + 2
  PROVE  s[g] = Zero
<1>1. SUFFICES ASSUME s[g] # Zero PROVE FALSE
  OBVIOUS
<1>2. s[f] \in Octet /\ s[g] \in Octet
  OBVIOUS
<1>3. PICK i \in 0..7 : s[f][i]
  BY <1>2, OctetHasBit
<1>4. PICK j \in 0..7 : s[g][j]
  BY <1>1, <1>2, OctetHasBit
<1>5. 8 * (g - 1) + j < 8 * (f - 1) + i + 16
  BY <1>3, <1>4, BitFlipped DEF Burst
<1>6. QED
  BY <1>5

LEMMA Near ==
  ASSUME NEW s \in Seq(Octet), Burst(s), NEW f \in 1..Len(s), f + 2 <= Len(s),
         s[f] # Zero
  PROVE  crc16_add(s[f + 2], crc16_add(s[f + 1], crc16_add(s[f], Zero))) # Zero
<1>1. f + 1 \in 1..Len(s) /\ f + 2 \in 1..Len(s)
  OBVIOUS
<1>2. s[f] \in Octet /\ s[f + 1] \in Octet /\ s[f + 2] \in Octet
  BY <1>1
<1>3. ASSUME NEW i \in 0..7, NEW j \in 0..7, s[f][i], s[f + 2][j]
      PROVE  j < i
  <2>1. 8 * (f - 1) + i \in Flips(s) /\ 8 * ((f + 2) - 1) + j \in Flips(s)
    BY <1>1, <1>3, BitFlipped
  <2>2. 8 * ((f + 2) - 1) + j < 8 * (f - 1) + i + 16
    BY <2>1 DEF Burst
  <2>3. QED
    BY <2>2
<1>4. QED
  BY <1>2, <1>3, Window

LEMMA SeqAppended ==
  ASSUME NEW s \in Seq(Octet), NEW e \in Octet, NEW t, t = Append(s, e)
  PROVE  /\ t \in Seq(Octet) /\ Len(t) = Len(s) + 1 /\ t[Len(s) + 1] = e
         /\ \A i \in 1..Len(s) : t[i] = s[i]
OBVIOUS

LEMMA FlipsKept ==
  ASSUME NEW s \in Seq(Octet), NEW e \in Octet
  PROVE  Flips(s) \subseteq Flips(Append(s, e))
BY FlipsGrow DEF Part

\* BurstInv is preserved when one more byte passes with the error e.
LEMMA BurstStep ==
  ASSUME NEW s \in Seq(Octet), NEW e \in Octet, NEW D \in Word, BurstInv(s, D)
  PROVE  BurstInv(Append(s, e), crc16_add(e, D))
<1>1. PICK n, t, E : n = Len(s) /\ t = Append(s, e) /\ E = crc16_add(e, D)
  OBVIOUS
<1>2. /\ t \in Seq(Octet) /\ n \in Nat /\ Len(t) = n + 1 /\ t[n + 1] = e
      /\ \A i \in 1..n : t[i] = s[i]
  BY <1>1, SeqAppended
<1>3. e \in Word /\ Zero \in Word
  BY ZeroWord
<1>4. CASE D = Zero /\ \A i \in 1..n : s[i] = Zero
  <2>1. CASE e = Zero
    <3>1. E = Zero
      BY <1>1, <1>3, <1>4, <2>1, AddIsZero
    <3>2. \A i \in 1..(n + 1) : t[i] = Zero
      BY <1>2, <1>4, <2>1
    <3>3. QED
      BY <1>1, <1>2, <3>1, <3>2 DEF BurstInv
  <2>2. CASE e # Zero
    <3>1. FirstAt(t, n + 1) /\ n + 1 \in 1..Len(t)
      BY <1>2, <1>4, <2>2 DEF FirstAt
    <3>2. Since(t, E, n + 1)
      BY <1>1, <1>2, <1>4 DEF Since
    <3>3. QED
      BY <1>1, <3>1, <3>2 DEF BurstInv
  <2>3. QED
    BY <2>1, <2>2
<1>5. CASE \E f \in 1..n : FirstAt(s, f) /\ Since(s, D, f)
  <2>1. PICK f \in 1..n : FirstAt(s, f) /\ Since(s, D, f)
    BY <1>5
  <2>2. FirstAt(t, f) /\ f \in 1..Len(t)
    BY <1>2, <2>1 DEF FirstAt
  <2>3. t[f] = s[f] /\ (f + 1 <= n => t[f + 1] = s[f + 1])
        /\ (f + 2 <= n => t[f + 2] = s[f + 2])
    BY <1>2
  <2>4. n + 1 # f
    BY <1>2
  <2>5. n + 1 = f + 1 => E = crc16_add(t[f + 1], crc16_add(t[f], Zero))
    BY <1>1, <1>2, <2>1, <2>3 DEF Since
  <2>6. n + 1 = f + 2 =>
          E = crc16_add(t[f + 2], crc16_add(t[f + 1], crc16_add(t[f], Zero)))
    BY <1>1, <1>2, <2>1, <2>3 DEF Since
  <2>7. ASSUME n + 1 > f + 2, Burst(t) PROVE E # Zero
    <3>1. t[n + 1] = Zero
      BY <1>2, <2>2, <2>7, Far DEF FirstAt
    <3>2. SUFFICES D # Zero
      BY <1>1, <1>2, <1>3, <3>1, AddIsZero
    <3>3. CASE n = f + 2
      <4>1. D = crc16_add(t[f + 2], crc16_add(t[f + 1], crc16_add(t[f], Zero)))
        <5>1. t[f] = s[f] /\ t[f + 1] = s[f + 1] /\ t[f + 2] = s[f + 2]
          BY <1>2, <2>1, <2>3, <3>3
        <5>2. D = crc16_add(s[f + 2], crc16_add(s[f + 1], crc16_add(s[f], Zero)))
          BY <1>1, <2>1, <3>3 DEF Since
        <5>3. QED
          BY <5>1, <5>2
      <4>2. f + 2 <= Len(t) /\ t[f] # Zero
        BY <1>2, <2>2, <3>3 DEF FirstAt
      <4>3. QED
        BY <1>2, <2>2, <2>7, <4>1, <4>2, Near
    <3>4. CASE n > f + 2
      <4>1. Flips(s) \subseteq Flips(t)
        BY <1>1, FlipsKept
      <4>2. Flips(s) # {}
        <5>1. s[f] \in Octet /\ s[f] # Zero
          BY <1>1, <2>1 DEF FirstAt
        <5>2. PICK k \in 0..7 : s[f][k]
          BY <5>1, OctetHasBit
        <5>3. QED
          BY <1>1, <5>2, BitFlipped
      <4>3. Burst(s)
        BY <2>7, <4>1, <4>2 DEF Burst
      <4>4. QED
        BY <1>1, <2>1, <3>4, <4>3 DEF Since
    <3>5. QED
      BY <1>2, <2>7, <3>3, <3>4
  <2>8. Since(t, E, f)
    BY <1>2, <2>4, <2>5, <2>6, <2>7 DEF Since
  <2>9. QED
    BY <1>1, <2>2, <2>8 DEF BurstInv
<1>6. QED
  BY <1>1, <1>4, <1>5 DEF BurstInv

\* A burst leaves a difference.
LEMMA BurstSeen ==
  ASSUME NEW s \in Seq(Octet), NEW D \in Word, BurstInv(s, D), Burst(s)
  PROVE  D # Zero
<1>1. CASE \A i \in 1..Len(s) : s[i] = Zero
  <2>1. PICK p : p \in Flips(s)
    BY DEF Burst
  <2>2. 1 + (p \div 8) \in 1..Len(s) /\ p % 8 \in 0..15 /\ s[1 + (p \div 8)][p % 8]
    BY <2>1 DEF Flips
  <2>3. QED
    BY <1>1, <2>2, ZeroWord
<1>2. CASE \E f \in 1..Len(s) : FirstAt(s, f) /\ Since(s, D, f)
  <2>1. PICK f \in 1..Len(s) : FirstAt(s, f) /\ Since(s, D, f)
    BY <1>2
  <2>2. s[f] \in Octet /\ s[f] # Zero /\ s[f] \in Word /\ Zero \in Word
    BY <2>1, ZeroWord DEF FirstAt
  <2>3. CASE Len(s) = f
    BY <2>1, <2>2, <2>3, AddIsZero DEF Since
  <2>4. CASE Len(s) = f + 1
    <3>1. s[f + 1] \in Octet /\ s[f + 1] \in Word
      BY <2>4, ZeroWord
    <3>2. crc16_add(s[f + 1], crc16_add(s[f], Zero)) \in Word
      BY <2>2, <3>1, AddType
    <3>3. crc16_add(Zero, crc16_add(s[f + 1], crc16_add(s[f], Zero))) # Zero
      BY <2>2, <3>1, ZeroWord, Window
    <3>4. QED
      BY <2>1, <2>2, <2>4, <3>2, <3>3, AddIsZero DEF Since
  <2>5. CASE Len(s) = f + 2
    BY <2>1, <2>2, <2>5, Near DEF Since
  <2>6. CASE Len(s) > f + 2
    BY <2>1, <2>6 DEF Since
  <2>7. QED
    BY <2>3, <2>4, <2>5, <2>6
<1>3. QED
  BY <1>1, <1>2 DEF BurstInv

-----------------------------------------------------------------------------
(* Crc16: the theorems. *)

\* What the walks stand on.
IsField(w) ==
  /\ w = [at |-> w.at, left |-> w.left, low |-> w.low, args |-> w.args]
  /\ w.at \in Fields
  /\ w.at = "crc" => w.left \in {1, 2}

\* Before the checksum: some field that is summed, or its first byte.
Summing(w) == w.at \in Summed \/ (w.at = "crc" /\ w.left = 2)

\* D is the difference of sender and receiver; what has damaged the checksum's
\* own bytes is taken in as if they were two more of the frame.
Linked(D) ==
  /\ Summing(sent) => D = Xor(acc, rcv)
  /\ sent.at = "crc" /\ sent.left = 1 =>
       \E e \in Octet : D = crc16_add(e, Xor(acc, rcv)) /\ resp_crc = Xor(LowByte(acc), e)
  /\ sent.at = "done" => (verdict = "equal" => D = Zero)

\* The difference tells of bursts and of odd numbers of bits.
Tells(s, D) ==
  /\ s \in Seq(Octet) /\ D \in Word
  /\ BurstInv(s, D)
  /\ IsFiniteSet(Flips(s)) /\ (Odd(Flips(s)) <=> Parity(D))

\* Sender and receiver are at the same byte.
Together ==
  /\ acc \in Word /\ rcv \in Word
  /\ IsField(sent) /\ got = sent
  /\ verdict = "none" <=> sent.at # "done"
  /\ \E D : Tells(errors, D) /\ Linked(D)

\* The inductive invariant: of a frame whose argc or lengths were damaged it says
\* nothing.
DamageInv == intact => Together

LEMMA WalkSummed ==
  ASSUME NEW w, IsField(w), w.at \in Summed, NEW b, NEW v, v = protoCompletedCb(w, b)
  PROVE  IsField(v) /\ Summing(v)
<1>1. CASE w.left > 1
  BY <1>1 DEF protoCompletedCb, IsField, Summing, Summed, Numbers, Fields
<1>2. CASE ~(w.left > 1)
  <2>1. \A n : IsField(NextArg(n)) /\ Summing(NextArg(n))
    BY DEF NextArg, Field, IsField, Summing, Summed, Numbers, Fields
  <2>2. \A n, a : IsField(Argument(n, a)) /\ Summing(Argument(n, a))
    BY <2>1 DEF Argument, Field, IsField, Summing, Summed, Numbers, Fields
  <2>3. IsField(Field("argc", 2, 0)) /\ Summing(Field("argc", 2, 0))
    BY DEF Field, IsField, Summing, Summed, Numbers, Fields
  <2>4. w.at \in {"head", "argc", "len", "data"}
    BY DEF Summed, Numbers
  <2>5. QED
    BY <1>2, <2>1, <2>2, <2>3, <2>4 DEF protoCompletedCb
<1>3. QED
  BY <1>1, <1>2

LEMMA WalkCrc ==
  ASSUME NEW w, IsField(w), w.at = "crc", NEW b, NEW v, v = protoCompletedCb(w, b)
  PROVE  /\ IsField(v)
         /\ w.left = 2 => v.at = "crc" /\ v.left = 1
         /\ w.left = 1 => v.at = "done"
<1>1. CASE w.left = 2
  <2>1. w = [at |-> "crc", left |-> 2, low |-> w.low, args |-> w.args]
    BY <1>1 DEF IsField
  <2>2. v = [w EXCEPT !.left = 1, !.low = w.low]
    BY <1>1 DEF protoCompletedCb, Numbers
  <2>3. v = [at |-> "crc", left |-> 1, low |-> w.low, args |-> w.args]
    BY <2>1, <2>2
  <2>4. QED
    BY <1>1, <2>3 DEF IsField, Fields
<1>2. CASE w.left = 1
  <2>1. v = Field("done", 0, 0)
    BY <1>2 DEF protoCompletedCb
  <2>2. QED
    BY <1>2, <2>1 DEF Field, IsField, Fields
<1>3. QED
  BY <1>1, <1>2 DEF IsField

\* Only the bytes of argc and of the lengths decide where the walk goes on.
LEMMA SameWalk ==
  ASSUME NEW w, w.at \in Summed \cup {"crc"}, NEW b, NEW c, w.at \in Numbers => b = c
  PROVE  protoCompletedCb(w, b) = protoCompletedCb(w, c)
<1>1. CASE w.at \in Numbers
  BY <1>1
<1>2. CASE w.at \notin Numbers
  <2>1. w.at \in {"head", "data", "crc"}
    BY <1>2 DEF Summed, Numbers
  <2>2. CASE w.left > 1
    BY <1>2, <2>2 DEF protoCompletedCb
  <2>3. CASE ~(w.left > 1)
    BY <2>1, <2>3 DEF protoCompletedCb
  <2>4. QED
    BY <2>2, <2>3
<1>3. QED
  BY <1>1, <1>2

\* The two bytes that the sender writes are its checksum's.
LEMMA BytesOfWord ==
  ASSUME NEW x \in Word
  PROVE  /\ LowByte(x) \in Octet /\ LowByte(x) \in Word
         /\ Right(x, 8) \in Octet /\ Right(x, 8) \in Word
         /\ \A i \in 0..7 : LowByte(x)[i] <=> x[i]
         /\ \A i \in 0..7 : Right(x, 8)[i] <=> x[i + 8]
<1>1. PICK l, h : l = LowByte(x) /\ h = Right(x, 8)
  OBVIOUS
<1>2. l \in Word /\ \A i \in 0..15 : l[i] <=> (i < 8 /\ x[i])
  BY <1>1 DEF LowByte, Word
<1>3. h \in Word /\ \A i \in 0..15 : h[i] <=> (i + 8 <= 15 /\ x[i + 8])
  BY <1>1 DEF Right, Word
<1>4. (\A i \in 8..15 : ~l[i]) /\ (\A i \in 0..7 : l[i] <=> x[i])
  BY <1>2
<1>5. (\A i \in 8..15 : ~h[i]) /\ (\A i \in 0..7 : h[i] <=> x[i + 8])
  BY <1>3
<1>6. l \in Octet /\ h \in Octet
  BY <1>2, <1>3, <1>4, <1>5 DEF Octet
<1>7. QED
  BY <1>1, <1>2, <1>3, <1>4, <1>5, <1>6

\* Damaged, they make a number that differs by what has damaged them.
LEMMA ReadsDamage ==
  ASSUME NEW x \in Word, NEW low \in Octet, NEW high \in Octet
  PROVE  AsSent(Xor(LowByte(x), low), Xor(Right(x, 8), high)) = Xor(x, AsSent(low, high))
<1>1. PICK l, h, m, y, z :
        /\ l = Xor(LowByte(x), low) /\ h = Xor(Right(x, 8), high)
        /\ m = AsSent(low, high) /\ y = AsSent(l, h) /\ z = Xor(x, m)
  OBVIOUS
<1>2. low \in Word /\ high \in Word
  BY ZeroWord
<1>3. \A i \in 8..15 : ~low[i] /\ ~LowByte(x)[i]
  BY BytesOfWord DEF Octet
<1>4. l \in Word /\ \A i \in 0..15 : l[i] <=> (LowByte(x)[i] # low[i])
  <2>1. PICK u : u = LowByte(x)
    OBVIOUS
  <2>2. u \in Word /\ l = Xor(u, low)
    BY <1>1, <2>1, BytesOfWord
  <2>3. l \in Word /\ \A i \in 0..15 : l[i] = (u[i] # low[i])
    BY <1>2, <2>2, XorBits
  <2>4. QED
    BY <2>1, <2>3
<1>5. h \in Word /\ \A i \in 0..15 : h[i] <=> (Right(x, 8)[i] # high[i])
  <2>1. PICK u : u = Right(x, 8)
    OBVIOUS
  <2>2. u \in Word /\ h = Xor(u, high)
    BY <1>1, <2>1, BytesOfWord
  <2>3. h \in Word /\ \A i \in 0..15 : h[i] = (u[i] # high[i])
    BY <1>2, <2>2, XorBits
  <2>4. QED
    BY <2>1, <2>3
<1>6. m \in Word /\ \A i \in 0..15 : m[i] <=> (low[i] \/ (i >= 8 /\ high[i - 8]))
  BY <1>1, <1>2 DEF AsSent, Or, Left, Word
<1>7. y \in Word /\ \A i \in 0..15 : y[i] <=> (l[i] \/ (i >= 8 /\ h[i - 8]))
  BY <1>1, <1>4, <1>5 DEF AsSent, Or, Left, Word
<1>8. z \in Word /\ \A i \in 0..15 : z[i] = (x[i] # m[i])
  BY <1>1, <1>6, XorBits
<1>9. \A i \in 0..7 : y[i] <=> z[i]
  <2>1. \A i \in 0..7 : (y[i] <=> l[i]) /\ (m[i] <=> low[i])
    BY <1>6, <1>7
  <2>2. \A i \in 0..7 : l[i] <=> (x[i] # low[i])
    <3>1. PICK u : u = LowByte(x)
      OBVIOUS
    <3>2. u \in Word /\ (\A i \in 0..7 : u[i] <=> x[i])
      BY <3>1, BytesOfWord
    <3>3. \A i \in 0..7 : u[i] = x[i]
      BY <3>2 DEF Word
    <3>4. QED
      BY <1>4, <3>1, <3>3
  <2>3. \A i \in 0..7 : z[i] = (x[i] # low[i])
    BY <1>2, <1>6, <1>8, <2>1 DEF Word
  <2>4. QED
    BY <1>4, <1>7, <1>8, <2>1, <2>2, <2>3 DEF Word
<1>10. \A i \in 8..15 : y[i] <=> z[i]
  <2>1. \A i \in 8..15 : ~l[i]
    <3>1. PICK u : u = LowByte(x)
      OBVIOUS
    <3>2. u \in Word
      BY <3>1, BytesOfWord
    <3>3. \A i \in 8..15 : u[i] = FALSE /\ low[i] = FALSE
      BY <1>2, <1>3, <3>1, <3>2 DEF Word
    <3>4. \A i \in 8..15 : l[i] <=> (u[i] # low[i])
      BY <1>4, <3>1
    <3>5. QED
      BY <3>3, <3>4
  <2>2. \A i \in 8..15 : (y[i] <=> h[i - 8]) /\ (m[i] <=> high[i - 8])
    BY <1>3, <1>6, <1>7, <2>1
  <2>3. \A i \in 8..15 : i - 8 \in 0..7 /\ (i - 8) + 8 = i
    OBVIOUS
  <2>4. \A i \in 0..7 : h[i] <=> (x[i + 8] # high[i])
    <3>1. PICK u : u = Right(x, 8)
      OBVIOUS
    <3>2. u \in Word /\ (\A i \in 0..7 : u[i] <=> x[i + 8])
      BY <3>1, BytesOfWord
    <3>3. \A i \in 0..7 : u[i] = x[i + 8]
      BY <3>2 DEF Word
    <3>4. QED
      BY <1>5, <3>1, <3>3
  <2>5. \A i \in 8..15 : h[i - 8] <=> (x[i] # high[i - 8])
    BY <2>3, <2>4
  <2>6. \A i \in 8..15 : z[i] = (x[i] # high[i - 8])
    BY <1>2, <1>6, <1>8, <2>2, <2>3 DEF Word
  <2>7. QED
    BY <1>5, <1>7, <1>8, <2>2, <2>5, <2>6 DEF Word
<1>11. y = z
  <2>1. \A i \in 0..15 : y[i] <=> z[i]
    BY <1>9, <1>10
  <2>2. QED
    BY <1>7, <1>8, <2>1, SameBits
<1>12. QED
  BY <1>1, <1>11

LEMMA XorTwice ==
  ASSUME NEW x \in Word, NEW y \in Word
  PROVE  Xor(x, Xor(x, y)) = y
<1>1. PICK u, v : u = Xor(x, y) /\ v = Xor(x, u)
  OBVIOUS
<1>2. u \in Word /\ \A i \in 0..15 : u[i] = (x[i] # y[i])
  BY <1>1, XorBits
<1>3. v \in Word /\ \A i \in 0..15 : v[i] = (x[i] # u[i])
  BY <1>1, <1>2, XorBits
<1>4. \A i \in 0..15 : v[i] <=> y[i]
  BY <1>2, <1>3 DEF Word
<1>5. v = y
  BY <1>3, <1>4, SameBits
<1>6. QED
  BY <1>1, <1>5

\* If the difference is what the damaged checksum differs by, nothing is left of
\* it after the checksum's two bytes.
LEMMA EqualIsZero ==
  ASSUME NEW low \in Octet, NEW high \in Octet
  PROVE  crc16_add(high, crc16_add(low, AsSent(low, high))) = Zero
<1>1. PICK m, x, y : m = AsSent(low, high) /\ x = Xor(m, low) /\ y = crc16_add(low, m)
  OBVIOUS
<1>2. low \in Word /\ high \in Word
  BY ZeroWord
<1>3. /\ m \in Word
      /\ \A i \in 0..7 : m[i] <=> low[i]
      /\ \A i \in 8..15 : m[i] <=> high[i - 8]
  <2>1. /\ m \in Word
        /\ \A i \in 0..15 : m[i] <=> (low[i] \/ (i >= 8 /\ high[i - 8]))
    BY <1>1, <1>2 DEF AsSent, Or, Left, Word
  <2>2. \A i \in 8..15 : ~low[i]
    BY DEF Octet
  <2>3. QED
    BY <2>1, <2>2
<1>4. /\ x \in Word
      /\ \A i \in 0..7 : ~x[i]
      /\ \A i \in 8..15 : x[i] <=> high[i - 8]
  <2>1. x \in Word /\ \A i \in 0..15 : x[i] = (m[i] # low[i])
    BY <1>1, <1>2, <1>3, XorBits
  <2>2. \A i \in 8..15 : ~low[i]
    BY DEF Octet
  <2>3. QED
    BY <1>2, <1>3, <2>1, <2>2 DEF Word
<1>5. y \in Word /\ Folded(x, y)
  BY <1>1, <1>2, <1>3, AddFolds
<1>6. \A i \in 0..15 : y[i] <=> high[i]
  <2>1. \A i \in 8..15 : ~high[i] /\ ~y[i]
    BY <1>4, <1>5 DEF Folded, Word, Octet
  <2>2. \A i \in 0..7 : y[i] <=> x[i + 8]
    BY <1>4, <1>5 DEF Folded, Word
  <2>3. \A i \in 0..7 : x[i + 8] <=> high[i]
    BY <1>4
  <2>4. QED
    BY <2>1, <2>2, <2>3
<1>7. y = high
  BY <1>2, <1>5, <1>6, SameBits
<1>8. QED
  BY <1>1, <1>2, <1>7, AddIsZero

LEMMA ZeroEven == ~Parity(Zero)
<1>1. PICK z : z = Zero
  OBVIOUS
<1>2. \A i \in 0..15 : z[i] \in BOOLEAN /\ ~z[i]
  BY <1>1, ZeroWord DEF Word
<1>3. ~Parity(z)
  BY <1>2 DEF Parity
<1>4. QED
  BY <1>1, <1>3

LEMMA InitDamage == CrcInit => DamageInv
<1> SUFFICES ASSUME CrcInit PROVE DamageInv
  OBVIOUS
<1>1. errors \in Seq(Octet) /\ Len(errors) = 0
  BY DEF CrcInit
<1>2. sent = Field("head", HeadLen, 0) /\ got = sent /\ verdict = "none"
  BY DEF CrcInit
<1>3. IsField(sent) /\ sent.at = "head"
  BY <1>2 DEF Field, IsField, Fields, Summed
<1>4. acc = Zero /\ rcv = Zero /\ Zero \in Word /\ Xor(Zero, Zero) = Zero
  BY ZeroWord, XorZero DEF CrcInit
<1>5. Linked(Zero)
  BY <1>3, <1>4 DEF Linked
<1>6. BurstInv(errors, Zero)
  BY <1>1 DEF BurstInv
<1>7. Flips(errors) = {}
  BY <1>1 DEF Flips
<1>8. IsFiniteSet(Flips(errors)) /\ ~Odd(Flips(errors))
  BY <1>7, FS_EmptySet DEF Odd
<1>9. Tells(errors, Zero)
  BY <1>1, <1>4, <1>6, <1>8, ZeroEven DEF Tells
<1>10. QED
  BY <1>2, <1>3, <1>4, <1>5, <1>9 DEF DamageInv, Together

\* One more byte keeps what the difference tells.
LEMMA OneMore ==
  ASSUME NEW s, NEW D, NEW e \in Octet, Tells(s, D)
  PROVE  Tells(Append(s, e), crc16_add(e, D))
<1>1. PICK t, E : t = Append(s, e) /\ E = crc16_add(e, D)
  OBVIOUS
<1>2. /\ s \in Seq(Octet) /\ D \in Word /\ e \in Word /\ BurstInv(s, D)
      /\ IsFiniteSet(Flips(s)) /\ (Odd(Flips(s)) <=> Parity(D))
  BY ZeroWord DEF Tells
<1>3. E \in Word /\ (Parity(E) <=> (Parity(D) # Parity(e)))
  BY <1>1, <1>2, AddType, ParityAdd
<1>4. IsFiniteSet(Flips(t)) /\ (Odd(Flips(t)) <=> (Odd(Flips(s)) # Parity(e)))
  BY <1>1, <1>2, OddGrows
<1>5. t \in Seq(Octet) /\ BurstInv(t, E)
  BY <1>1, <1>2, BurstStep
<1>6. Odd(Flips(t)) <=> Parity(E)
  BY <1>2, <1>3, <1>4 DEF Odd, Parity
<1>7. QED
  BY <1>1, <1>3, <1>4, <1>5, <1>6 DEF Tells

\* A byte that is summed.
LEMMA SummedCarried ==
  ASSUME Together, sent.at \in Summed,
         NEW b \in Octets, NEW e \in Octet, sent.at \in Numbers => e = Zero,
         Send(b), Receive(Xor(b, e)), errors' = Append(errors, e), verdict = "none"
  PROVE  Together'
<1>1. /\ acc \in Word /\ rcv \in Word /\ IsField(sent) /\ got = sent
  BY DEF Together
<1>2. PICK D : Tells(errors, D) /\ Linked(D)
  BY DEF Together
<1>3. b \in Word /\ e \in Word /\ Xor(b, e) \in Word
  BY OctetsAssumption, ZeroWord, XorBits
<1>4. D = Xor(acc, rcv)
  BY <1>2 DEF Linked, Summing
<1>5. /\ sent' = protoCompletedCb(sent, b) /\ acc' = crc16_add(b, acc)
      /\ got' = protoCompletedCb(sent, Xor(b, e)) /\ rcv' = crc16_add(Xor(b, e), rcv)
      /\ verdict' = "none"
  BY <1>1 DEF Send, Receive, Summed, Numbers
<1>6. got' = sent'
  <2>1. sent.at \in Numbers => Xor(b, e) = b
    BY <1>3, XorZero
  <2>2. QED
    BY <1>5, <2>1, SameWalk
<1>7. IsField(sent') /\ Summing(sent') /\ sent'.at # "done"
  <2>1. IsField(sent') /\ Summing(sent')
    BY <1>1, <1>5, WalkSummed
  <2>2. QED
    BY <2>1 DEF Summing, Summed, Numbers
<1>8. acc' \in Word /\ rcv' \in Word
  BY <1>1, <1>3, <1>5, AddType
<1>9. PICK E : E = crc16_add(e, D)
  OBVIOUS
<1>10. Tells(errors', E)
  BY <1>2, <1>9, OneMore
<1>11. E = Xor(acc', rcv')
  BY <1>1, <1>3, <1>4, <1>5, <1>9, AddLinear
<1>12. Linked(E)'
  BY <1>7, <1>11 DEF Linked, Summing, Summed, Numbers
<1>13. QED
  BY <1>5, <1>6, <1>7, <1>8, <1>10, <1>12 DEF Together

\* A byte of the checksum.
LEMMA ChecksumCarried ==
  ASSUME Together, sent.at = "crc", NEW b \in NextSent, NEW e \in Octet,
         Send(b), Receive(Xor(b, e)), errors' = Append(errors, e), verdict = "none"
  PROVE  Together'
<1>1. /\ acc \in Word /\ rcv \in Word /\ IsField(sent) /\ got = sent
      /\ sent.left \in {1, 2}
  BY DEF Together, IsField
<1>2. PICK D : Tells(errors, D) /\ Linked(D)
  BY DEF Together
<1>3. /\ sent' = protoCompletedCb(sent, b) /\ acc' = acc
      /\ got' = protoCompletedCb(sent, Xor(b, e)) /\ rcv' = rcv
      /\ ReadCrc(Xor(b, e))
  BY <1>1 DEF Send, Receive, Summed, Numbers
<1>4. got' = sent'
  BY <1>3, SameWalk DEF Numbers
<1>5. /\ IsField(sent')
      /\ sent.left = 2 => sent'.at = "crc" /\ sent'.left = 1
      /\ sent.left = 1 => sent'.at = "done"
  BY <1>1, <1>3, WalkCrc
<1>6. PICK E : E = crc16_add(e, D)
  OBVIOUS
<1>7. Tells(errors', E)
  BY <1>2, <1>6, OneMore
<1>8. CASE sent.left = 2
  <2>1. b = LowByte(acc)
    BY <1>8 DEF NextSent, Summed, Numbers
  <2>2. resp_crc' = Xor(LowByte(acc), e) /\ verdict' = "none"
    BY <1>1, <1>3, <1>8, <2>1 DEF ReadCrc
  <2>3. D = Xor(acc, rcv)
    BY <1>2, <1>8 DEF Linked, Summing
  <2>4. Linked(E)'
    BY <1>3, <1>5, <1>6, <1>8, <2>2, <2>3 DEF Linked, Summing, Summed, Numbers
  <2>5. QED
    BY <1>1, <1>3, <1>4, <1>5, <1>7, <1>8, <2>2, <2>4 DEF Together
<1>9. CASE sent.left = 1
  <2>1. b = Right(acc, 8)
    BY <1>9 DEF NextSent, Summed, Numbers
  <2>2. PICK low \in Octet : D = crc16_add(low, Xor(acc, rcv)) /\ resp_crc = Xor(LowByte(acc), low)
    BY <1>2, <1>9 DEF Linked
  <2>3. PICK m : m = AsSent(low, e)
    OBVIOUS
  <2>4. resp_crc' = Xor(acc, m)
    <3>1. resp_crc' = AsSent(resp_crc, Xor(b, e))
      BY <1>1, <1>3, <1>9 DEF ReadCrc
    <3>2. QED
      BY <1>1, <2>1, <2>2, <2>3, <3>1, ReadsDamage
  <2>5. verdict' = IF rcv = Xor(acc, m) THEN "equal" ELSE "different"
    BY <1>1, <1>3, <1>9, <2>4 DEF ReadCrc
  <2>6. m \in Word
    BY <2>3, ZeroWord DEF AsSent, Or, Left, Word
  <2>7. ASSUME rcv = Xor(acc, m) PROVE E = Zero
    <3>1. Xor(acc, rcv) = m
      BY <1>1, <2>6, <2>7, XorTwice
    <3>2. QED
      BY <1>6, <2>2, <2>3, <3>1, EqualIsZero
  <2>8. verdict' # "none" /\ (verdict' = "equal" => E = Zero)
    BY <2>5, <2>7
  <2>9. Linked(E)'
    BY <1>5, <1>9, <2>8 DEF Linked, Summing, Summed, Numbers
  <2>10. QED
    BY <1>1, <1>3, <1>4, <1>5, <1>7, <1>9, <2>8, <2>9 DEF Together
<1>10. QED
  BY <1>1, <1>8, <1>9

LEMMA CarryDamage == ASSUME DamageInv, Carry PROVE DamageInv'
<1> SUFFICES ASSUME intact' PROVE Together'
  BY DEF DamageInv
<1>1. PICK b \in NextSent, e \in Errors :
        /\ Send(b) /\ Receive(Xor(b, e))
        /\ errors' = Append(errors, e)
        /\ intact' = (intact /\ (sent.at \in Numbers => e = Zero))
  BY DEF Carry
<1>2. verdict = "none" /\ sent.at # "done"
  BY DEF Carry
<1>3. intact /\ (sent.at \in Numbers => e = Zero)
  BY <1>1
<1>4. e \in Octet
  BY OctetsAssumption
<1>5. Together
  BY <1>3 DEF DamageInv
<1>6. sent.at \in Summed \/ sent.at = "crc"
  BY <1>2, <1>5 DEF Together, IsField, Fields
<1>7. CASE sent.at \in Summed
  <2>1. b \in Octets
    BY <1>7 DEF NextSent, Summed, Numbers
  <2>2. QED
    BY <1>1, <1>2, <1>3, <1>4, <1>5, <1>7, <2>1, SummedCarried
<1>8. CASE sent.at = "crc"
  BY <1>1, <1>2, <1>4, <1>5, <1>8, ChecksumCarried
<1>9. QED
  BY <1>6, <1>7, <1>8

LEMMA DamageInvariant == CrcSpec => []DamageInv
<1>1. DamageInv /\ [CrcNext]_crcVars => DamageInv'
  <2> SUFFICES ASSUME DamageInv, [CrcNext]_crcVars PROVE DamageInv'
    OBVIOUS
  <2>1. CASE Carry
    BY <2>1, CarryDamage
  <2>2. CASE ReadBehind
    \* A receiver that has what was sent has ended with the sender.
    BY <2>2 DEF ReadBehind, DamageInv, Together
  <2>3. CASE UNCHANGED crcVars
    BY <2>3 DEF crcVars, DamageInv, Together, Linked
  <2>4. QED
    BY <2>1, <2>2, <2>3 DEF CrcNext
<1>2. QED
  BY InitDamage, <1>1, PTL DEF CrcSpec

\* A frame whose argc and lengths have come as they were sent, and in which all
\* damage lies within 16 consecutive bits, is never executed: for frames of every
\* length, any number of arguments of any length and any bytes, the damage being
\* in cmd, callback, _return, the arguments' data or the checksum
\* (crc16_add, protoCompletedCb).
THEOREM BurstsFound == CrcSpec => []BurstDetected
<1>1. DamageInv => BurstDetected
  <2> SUFFICES ASSUME DamageInv, intact, Burst(errors), verdict = "equal" PROVE FALSE
    BY DEF BurstDetected, Burst, Flipped, Flips
  <2>1. sent.at = "done"
    BY DEF DamageInv, Together
  <2>2. PICK D : Tells(errors, D) /\ Linked(D)
    BY DEF DamageInv, Together
  <2>3. D # Zero
    BY <2>2, BurstSeen DEF Tells
  <2>4. QED
    BY <2>1, <2>2, <2>3 DEF Linked
<1>2. QED
  BY <1>1, DamageInvariant, PTL

\* Nor is such a frame executed when an odd number of its bits was flipped,
\* however far apart they are (crc16_add, protoCompletedCb).
THEOREM OddErrorsFound == CrcSpec => []OddDetected
<1>1. DamageInv => OddDetected
  <2> SUFFICES ASSUME DamageInv, intact, Odd(Flips(errors)), verdict = "equal" PROVE FALSE
    BY DEF OddDetected, Odd, Flipped, Flips
  <2>1. sent.at = "done"
    BY DEF DamageInv, Together
  <2>2. PICK D : Tells(errors, D) /\ Linked(D)
    BY DEF DamageInv, Together
  <2>3. Parity(Zero)
    BY <2>1, <2>2 DEF Linked, Tells
  <2>4. QED
    BY <2>3, ZeroEven
<1>2. QED
  BY <1>1, DamageInvariant, PTL

\* The accumulator is the remainder that the shift register of the polynomial
\* computes, for every sequence of bytes (crc16_add).
THEOREM IsPolynomial == CrcSpec => []IsCCITT
<1> DEFINE Inv == IsCCITT /\ acc \in Word
<1>1. CrcInit => Inv
  BY ZeroWord DEF CrcInit, IsCCITT
<1>2. Inv /\ [CrcNext]_crcVars => Inv'
  <2> SUFFICES ASSUME Inv, [CrcNext]_crcVars PROVE Inv'
    OBVIOUS
  <2>1. CASE Carry
    <3>1. PICK b \in NextSent : Send(b)
      BY <2>1 DEF Carry
    <3>2. CASE sent.at \in Summed
      <4>1. acc' = crc16_add(b, acc) /\ shiftReg' = Shift(b, shiftReg)
        BY <3>1, <3>2 DEF Send
      <4>2. b \in Octet /\ b \in Word
        BY <3>2, OctetsAssumption, ZeroWord DEF NextSent, Summed, Numbers
      <4>3. QED
        BY <4>1, <4>2, AddIsShift, AddType DEF IsCCITT
    <3>3. CASE sent.at \notin Summed
      BY <3>1, <3>3 DEF Send, IsCCITT
    <3>4. QED
      BY <3>2, <3>3
  <2>2. CASE ReadBehind \/ UNCHANGED crcVars
    BY <2>2 DEF ReadBehind, crcVars, IsCCITT
  <2>3. QED
    BY <2>1, <2>2 DEF CrcNext
<1>3. QED
  BY <1>1, <1>2, PTL DEF CrcSpec
=============================================================================
