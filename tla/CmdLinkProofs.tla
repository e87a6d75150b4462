---------------------------- MODULE CmdLinkProofs ----------------------------
(***************************************************************************)
(* Proofs about the command protocol for every set of packets, arguments   *)
(* of every number and length, and every size of the buffers.              *)
(***************************************************************************)
EXTENDS CmdLink, SequenceLemmas

Packet == [cmd : Nat, ret : Nat, args : Seq(Seq(Nat))]

\* The arguments as Body writes them.
Encoded(args) == [i \in DOMAIN args |-> <<Len(args[i])>> \o args[i]]

-----------------------------------------------------------------------------
(* Bodies. *)

LEMMA EncodedType ==
  ASSUME NEW args \in Seq(Seq(Nat))
  PROVE  /\ Encoded(args) \in Seq(Seq(Nat)) /\ Len(Encoded(args)) = Len(args)
         /\ \A k \in 1..Len(args) :
              /\ Len(args[k]) \in Nat
              /\ Len(Encoded(args)[k]) = 1 + Len(args[k])
              /\ Encoded(args)[k][1] = Len(args[k])
              /\ \A j \in 1..Len(args[k]) : Encoded(args)[k][1 + j] = args[k][j]
<1>1. DOMAIN args = 1..Len(args) /\ Len(args) \in Nat
  OBVIOUS
<1>2. ASSUME NEW k \in 1..Len(args)
      PROVE  LET a == args[k]
                 e == <<Len(a)>> \o a
             IN /\ Len(a) \in Nat /\ e \in Seq(Nat) /\ Len(e) = 1 + Len(a) /\ e[1] = Len(a)
                /\ \A j \in 1..Len(a) : e[1 + j] = a[j]
  <2>1. args[k] \in Seq(Nat)
    OBVIOUS
  <2>2. ASSUME NEW a \in Seq(Nat)
        PROVE  /\ Len(a) \in Nat /\ <<Len(a)>> \o a \in Seq(Nat)
               /\ Len(<<Len(a)>> \o a) = 1 + Len(a) /\ (<<Len(a)>> \o a)[1] = Len(a)
               /\ \A j \in 1..Len(a) : (<<Len(a)>> \o a)[1 + j] = a[j]
    OBVIOUS
  <2>3. QED
    BY <2>1, <2>2
<1>3. \A k \in 1..Len(args) : Encoded(args)[k] = <<Len(args[k])>> \o args[k]
  BY <1>1 DEF Encoded
<1>4. Encoded(args) \in Seq(Seq(Nat)) /\ Len(Encoded(args)) = Len(args)
  BY <1>1, <1>2 DEF Encoded
<1>5. QED
  BY <1>2, <1>3, <1>4

LEMMA BodyType ==
  ASSUME NEW p \in Packet
  PROVE  LET flat == FlattenSeq(Encoded(p.args))
         IN /\ flat \in Seq(Nat) /\ Body(p) = <<p.cmd, p.ret, Len(p.args)>> \o flat
            /\ Body(p) \in Seq(Nat) /\ Len(Body(p)) = 3 + Len(flat)
            /\ Body(p)[1] = p.cmd /\ Body(p)[2] = p.ret /\ Body(p)[3] = Len(p.args)
            /\ \A j \in 1..Len(flat) : Body(p)[3 + j] = flat[j]
<1>1. p.cmd \in Nat /\ p.ret \in Nat /\ p.args \in Seq(Seq(Nat)) /\ Len(p.args) \in Nat
  BY DEF Packet
<1>2. PICK flat : flat = FlattenSeq(Encoded(p.args))
  OBVIOUS
<1>3. flat \in Seq(Nat)
  BY <1>1, <1>2, EncodedType, FlattenType
<1>4. Body(p) = <<p.cmd, p.ret, Len(p.args)>> \o flat
  BY <1>2 DEF Body, Encoded
<1>5. ASSUME NEW a \in Nat, NEW b \in Nat, NEW n \in Nat
      PROVE  /\ <<a, b, n>> \o flat \in Seq(Nat) /\ Len(<<a, b, n>> \o flat) = 3 + Len(flat)
             /\ (<<a, b, n>> \o flat)[1] = a /\ (<<a, b, n>> \o flat)[2] = b
             /\ (<<a, b, n>> \o flat)[3] = n
             /\ \A j \in 1..Len(flat) : (<<a, b, n>> \o flat)[3 + j] = flat[j]
  BY <1>3
<1>6. QED
  BY <1>1, <1>2, <1>3, <1>4, <1>5

\* Where argument k + 1 is in the fields of a body.
LiesAt(args, off, flat, k) ==
  /\ args[k + 1] \in Seq(Nat) /\ Len(args[k + 1]) \in Nat
  /\ off[k] \in Nat /\ off[k + 1] = off[k] + (1 + Len(args[k + 1]))
  /\ off[k + 1] <= Len(flat)
  /\ flat[off[k] + 1] = Len(args[k + 1])
  /\ \A j \in 1..Len(args[k + 1]) : flat[off[k] + (1 + j)] = args[k + 1][j]

LEMMA ArgOffsets ==
  ASSUME NEW args \in Seq(Seq(Nat)), NEW off, Offsets(off, Encoded(args)),
         NEW flat, flat = FlattenSeq(Encoded(args)),
         NEW k \in Nat, k + 1 \in 1..Len(args)
  PROVE  LiesAt(args, off, flat, k)
<1>1. PICK e : e = Encoded(args) /\ flat = FlattenSeq(e)
  OBVIOUS
<1>2. /\ Len(e) = Len(args) /\ Len(args[k + 1]) \in Nat
      /\ Len(e[k + 1]) = 1 + Len(args[k + 1])
      /\ e[k + 1][1] = Len(args[k + 1])
      /\ \A j \in 1..Len(args[k + 1]) : e[k + 1][1 + j] = args[k + 1][j]
  BY <1>1, EncodedType
<1>3. /\ off[k + 1] = off[(k + 1) - 1] + Len(e[k + 1]) /\ off[k + 1] <= Len(flat)
      /\ \A j \in 1..Len(e[k + 1]) : flat[off[(k + 1) - 1] + j] = e[k + 1][j]
  BY <1>1, <1>2 DEF Offsets
<1>4. (k + 1) - 1 = k
  OBVIOUS
<1>5. /\ off[k + 1] = off[k] + Len(e[k + 1])
      /\ \A j \in 1..Len(e[k + 1]) : flat[off[k] + j] = e[k + 1][j]
  BY <1>3, <1>4, Zenon
<1>6. 1 \in 1..Len(e[k + 1]) /\ \A j \in 1..Len(args[k + 1]) : 1 + j \in 1..Len(e[k + 1])
  BY <1>2
<1>7. flat[off[k] + 1] = Len(args[k + 1])
  BY <1>2, <1>5, <1>6
<1>8. \A j \in 1..Len(args[k + 1]) : flat[off[k] + (1 + j)] = args[k + 1][j]
  BY <1>2, <1>5, <1>6, Zenon
<1>9. args[k + 1] \in Seq(Nat) /\ off[k] \in Nat
  <2>1. k \in 0..Len(e)
    BY <1>2
  <2>2. off \in [0..Len(e) -> Nat]
    BY <1>1 DEF Offsets
  <2>3. off[k] \in Nat
    BY <2>1, <2>2
  <2>4. args[k + 1] \in Seq(Nat)
    OBVIOUS
  <2>5. QED
    BY <2>3, <2>4
<1>10. QED
  BY <1>1, <1>2, <1>3, <1>5, <1>7, <1>8, <1>9 DEF LiesAt

\* Arguments can be read back from what Body writes.
LEMMA EncodedInjective ==
  ASSUME NEW a \in Seq(Seq(Nat)), NEW b \in Seq(Seq(Nat)), Len(a) = Len(b),
         FlattenSeq(Encoded(a)) = FlattenSeq(Encoded(b))
  PROVE  a = b
<1>1. PICK n, flat : n = Len(a) /\ flat = FlattenSeq(Encoded(a))
  OBVIOUS
<1>2. n \in Nat /\ Len(b) = n /\ flat = FlattenSeq(Encoded(b))
  BY <1>1
<1>3. PICK f, g : Offsets(f, Encoded(a)) /\ Offsets(g, Encoded(b))
  BY EncodedType, OffsetsExist
<1>4. ASSUME NEW c \in Seq(Seq(Nat)), Len(c) = n, flat = FlattenSeq(Encoded(c)),
             NEW h, Offsets(h, Encoded(c)), NEW k \in Nat, k + 1 \in 1..n
      PROVE  /\ h[k + 1] = h[k] + (1 + Len(c[k + 1])) /\ flat[h[k] + 1] = Len(c[k + 1])
             /\ \A j \in 1..Len(c[k + 1]) : flat[h[k] + (1 + j)] = c[k + 1][j]
             /\ c[k + 1] \in Seq(Nat)
  <2>1. c \in Seq(Seq(Nat)) /\ k \in Nat /\ k + 1 \in 1..Len(c)
    BY <1>4
  <2>2. flat = FlattenSeq(Encoded(c)) /\ Offsets(h, Encoded(c))
    BY <1>4
  <2>3. LiesAt(c, h, flat, k)
    BY <2>1, <2>2, ArgOffsets
  <2>4. QED
    BY <2>3 DEF LiesAt
<1> DEFINE K == {k \in Nat : k \in 0..n => f[k] = g[k] /\ (k # 0 => a[k] = b[k])}
<1>5. 0 \in K
  BY <1>2, <1>3 DEF Offsets
<1>6. ASSUME NEW k \in Nat, k \in K PROVE k + 1 \in K
  <2> SUFFICES ASSUME k + 1 \in 0..n PROVE f[k + 1] = g[k + 1] /\ a[k + 1] = b[k + 1]
    OBVIOUS
  <2>1. k + 1 \in 1..n /\ f[k] = g[k]
    BY <1>2, <1>6
  <2>2. /\ f[k + 1] = f[k] + (1 + Len(a[k + 1])) /\ flat[f[k] + 1] = Len(a[k + 1])
        /\ \A j \in 1..Len(a[k + 1]) : flat[f[k] + (1 + j)] = a[k + 1][j]
        /\ a[k + 1] \in Seq(Nat)
    BY <1>1, <1>3, <1>4, <2>1
  <2>3. /\ g[k + 1] = g[k] + (1 + Len(b[k + 1])) /\ flat[g[k] + 1] = Len(b[k + 1])
        /\ \A j \in 1..Len(b[k + 1]) : flat[g[k] + (1 + j)] = b[k + 1][j]
        /\ b[k + 1] \in Seq(Nat)
    BY <1>2, <1>3, <1>4, <2>1
  <2>4. Len(a[k + 1]) = Len(b[k + 1])
    BY <2>1, <2>2, <2>3
  <2>5. \A j \in 1..Len(a[k + 1]) : a[k + 1][j] = b[k + 1][j]
    BY <2>1, <2>2, <2>3, <2>4
  <2>6. a[k + 1] = b[k + 1]
    BY <2>2, <2>3, <2>4, <2>5, SeqEqual
  <2>7. QED
    BY <2>1, <2>2, <2>3, <2>4, <2>6
<1>7. Nat \subseteq K
  <2> HIDE DEF K
  <2>1. QED
    BY <1>5, <1>6, NumberInduction
<1>8. \A k \in 1..n : a[k] = b[k]
  BY <1>7
<1>9. QED
  BY <1>1, <1>2, <1>8, SeqEqual

\* Two packets with the same body are the same.
LEMMA BodyInjective ==
  ASSUME NEW p \in Packet, NEW q \in Packet, Body(p) = Body(q)
  PROVE  p = q
<1>1. PICK x, y : x = FlattenSeq(Encoded(p.args)) /\ y = FlattenSeq(Encoded(q.args))
  OBVIOUS
<1>2. /\ p.cmd = q.cmd /\ p.ret = q.ret /\ Len(p.args) = Len(q.args)
      /\ x \in Seq(Nat) /\ y \in Seq(Nat) /\ 3 + Len(x) = 3 + Len(y)
      /\ \A j \in 1..Len(x) : Body(p)[3 + j] = x[j]
      /\ \A j \in 1..Len(y) : Body(p)[3 + j] = y[j]
  BY <1>1, BodyType
<1>3. Len(x) = Len(y)
  BY <1>2
<1>4. x = y
  BY <1>2, <1>3, SeqEqual
<1>5. p.args = q.args
  BY <1>1, <1>2, <1>4, EncodedInjective DEF Packet
<1>6. p.cmd = q.cmd /\ p.ret = q.ret
  BY <1>2
<1>7. QED
  BY <1>5, <1>6 DEF Packet

-----------------------------------------------------------------------------
(* What protoCompletedCb reads from the buffer. *)

Nums == {Num(n) : n \in Nat}
SentCrcs == {Crc(Body(packets[k])) : k \in DOMAIN packets}
Cells == Nums \cup SentCrcs

LEMMA CellTypes ==
  /\ \A n : Num(n).t = "num" /\ Num(n).v[1] = n
  /\ \A b : Crc(b).t = "crc" /\ Crc(b).v = b
  /\ START \notin Cells /\ END \notin Cells /\ START # END
BY DEF Num, Crc, START, END, Cells, Nums, SentCrcs

LEMMA FieldType ==
  ASSUME protoRxBuf \in [1..BufLen -> Cells], NEW i \in Nat \ {0}
  PROVE  CellAt(i) \in Cells /\ Field(i) \in Nat
<1>1. BufLen \in Nat
  BY LinkAssumption
<1>2. CellAt(i) \in Cells
  BY <1>1 DEF CellAt, Cells, Nums
<1>3. ASSUME NEW c \in Cells PROVE Value(c) \in Nat
  BY CellTypes DEF Value, Cells, Nums, SentCrcs
<1>4. QED
  BY <1>2, <1>3 DEF Field

LEMMA DataPtrIterates ==
  ASSUME protoRxBuf \in [1..BufLen -> Cells]
  PROVE  /\ DataPtr[0] = 4
         /\ \A k \in Nat : /\ DataPtr[k] \in Nat \ {0}
                           /\ DataPtr[k + 1] = DataPtr[k] + 1 + Field(DataPtr[k])
<1> DEFINE F == [n \in Nat |-> n + 1 + Value(CellAt(n))]
<1> DEFINE IsPtr(d) == d = [k \in Nat |-> IF k = 0 THEN 4
                              ELSE d[k - 1] + 1 + Value(CellAt(d[k - 1]))]
<1>1. \A n \in Nat \ {0} : F[n] = n + 1 + Field(n) /\ F[n] \in Nat \ {0}
  BY FieldType DEF Field
<1>2. PICK f : Iterates(f, F, 4)
  BY IterationExists
<1>3. \A k \in Nat : f[k] \in Nat \ {0}
  <2> DEFINE K == {k \in Nat : f[k] \in Nat \ {0}}
  <2> HIDE DEF F
  <2>1. 0 \in K
    BY <1>2 DEF Iterates
  <2>2. ASSUME NEW k \in Nat, k \in K PROVE k + 1 \in K
    <3>1. f[k + 1] = F[f[(k + 1) - 1]] /\ (k + 1) - 1 = k
      BY <1>2 DEF Iterates
    <3>2. f[k + 1] = F[f[k]]
      BY <3>1, Zenon
    <3>3. F[f[k]] \in Nat \ {0}
      BY <1>1, <2>2
    <3>4. QED
      BY <3>2, <3>3
  <2>3. Nat \subseteq K
    <3> HIDE DEF K
    <3>1. QED
      BY <2>1, <2>2, NumberInduction
  <2>4. QED
    BY <2>3
<1>4. IsPtr(f)
  <2>1. ASSUME NEW k \in Nat, k # 0
        PROVE  F[f[k - 1]] = f[k - 1] + 1 + Value(CellAt(f[k - 1]))
    BY <1>3, <2>1
  <2> HIDE DEF F
  <2>2. QED
    BY <1>2, <2>1 DEF Iterates
<1>5. IsPtr(DataPtr)
  BY <1>4 DEF DataPtr
<1>6. /\ DataPtr[0] = 4
      /\ \A k \in Nat : DataPtr[k + 1] = DataPtr[k] + 1 + Field(DataPtr[k])
  <2>1. \A d : IsPtr(d) => /\ d[0] = 4
                           /\ \A k \in Nat : d[k + 1] = d[k] + 1 + Value(CellAt(d[k]))
    <3> SUFFICES ASSUME NEW d, IsPtr(d), NEW k \in Nat
                 PROVE  d[0] = 4 /\ d[k + 1] = d[k] + 1 + Value(CellAt(d[k]))
      OBVIOUS
    <3>1. k + 1 \in Nat /\ k + 1 # 0 /\ (k + 1) - 1 = k
      OBVIOUS
    <3>2. \A i \in Nat : d[i] = IF i = 0 THEN 4 ELSE d[i - 1] + 1 + Value(CellAt(d[i - 1]))
      BY Zenon
    <3>3. QED
      BY <3>1, <3>2
  <2>2. QED
    BY <1>5, <2>1 DEF Field
<1>7. \A k \in Nat : DataPtr[k] \in Nat \ {0}
  <2> DEFINE K == {k \in Nat : DataPtr[k] \in Nat \ {0}}
  <2>1. 0 \in K
    BY <1>6
  <2>2. ASSUME NEW k \in Nat, k \in K PROVE k + 1 \in K
    <3>1. DataPtr[k] \in Nat \ {0} /\ Field(DataPtr[k]) \in Nat
      BY <2>2, FieldType
    <3>2. DataPtr[k + 1] = DataPtr[k] + 1 + Field(DataPtr[k])
      BY <1>6
    <3>3. QED
      BY <3>1, <3>2
  <2>3. Nat \subseteq K
    <3> HIDE DEF K
    <3>1. QED
      BY <2>1, <2>2, NumberInduction
  <2>4. QED
    BY <2>3
<1>8. QED
  BY <1>6, <1>7

\* Whatever the buffer holds, Received has the form of a packet.
LEMMA ReceivedType ==
  ASSUME protoRxBuf \in [1..BufLen -> Cells]
  PROVE  Received \in Packet /\ Argc \in Nat /\ DataPtr[Argc] \in Nat \ {0}
<1>1. Field(1) \in Nat /\ Field(2) \in Nat /\ Argc \in Nat
  BY FieldType DEF Argc, Field
<1>2. ASSUME NEW k \in 1..Argc PROVE Arg(k) \in Seq(Nat)
  <2>1. k - 1 \in Nat /\ DataPtr[k - 1] \in Nat \ {0}
    BY <1>1, DataPtrIterates
  <2>2. Field(DataPtr[k - 1]) \in Nat
    BY <2>1, FieldType
  <2>3. \A i \in 1..Field(DataPtr[k - 1]) : Field(DataPtr[k - 1] + i) \in Nat
    BY <2>1, <2>2, FieldType
  <2>4. QED
    BY <2>2, <2>3 DEF Arg
<1>3. [k \in 1..Argc |-> Arg(k)] \in Seq(Seq(Nat))
  BY <1>1, <1>2
<1>4. QED
  BY <1>1, <1>3, DataPtrIterates DEF Received, Packet

\* A checksum that matches is the one of a packet the host has sent.
LEMMA MatchIsSent ==
  ASSUME protoRxBuf \in [1..BufLen -> Cells], packets \in Seq(Packet), CrcMatches
  PROVE  \E k \in DOMAIN packets : Received = packets[k]
<1>1. CellAt(DataPtr[Argc]) = Crc(Body(Received)) /\ CellAt(DataPtr[Argc]) \in Cells
  BY ReceivedType, FieldType DEF CrcMatches
<1>2. PICK k \in DOMAIN packets : Crc(Body(packets[k])) = Crc(Body(Received))
  BY <1>1, CellTypes DEF Cells, Nums, SentCrcs
<1>3. Body(packets[k]) = Body(Received)
  BY <1>2, CellTypes
<1>4. packets[k] \in Packet
  OBVIOUS
<1>5. QED
  BY <1>3, <1>4, ReceivedType, BodyInjective

\* Conversely, when the checksum matches, the buffer has the fields of the
\* packet that is read from it, and the checksum behind them.
Holds(p) ==
  /\ \A j \in 1..Len(Body(p)) : CellAt(j) = Num(Body(p)[j])
  /\ CellAt(Len(Body(p)) + 1) = Crc(Body(p))

LEMMA MatchHolds ==
  ASSUME protoRxBuf \in [1..BufLen -> Cells], CrcMatches
  PROVE  Holds(Received)
<1>1. PICK p, args, flat, a, n : /\ p = Received /\ args = p.args /\ a = Len(args)
                                 /\ flat = FlattenSeq(Encoded(args))
                                 /\ n = Len(flat)
  OBVIOUS
<1>2. p \in Packet /\ Argc \in Nat /\ args \in Seq(Seq(Nat)) /\ a \in Nat
  BY <1>1, ReceivedType DEF Packet
<1>3. /\ Field(1) = p.cmd /\ Field(2) = p.ret /\ args = [k \in 1..Argc |-> Arg(k)]
  BY <1>1 DEF Received
<1>4. a = Argc /\ \A k \in 1..a : args[k] = Arg(k)
  BY <1>1, <1>2, <1>3
<1>5. /\ flat \in Seq(Nat) /\ n \in Nat /\ Len(Body(p)) = 3 + n
      /\ Body(p)[1] = p.cmd /\ Body(p)[2] = p.ret /\ Body(p)[3] = a
      /\ \A j \in 1..n : Body(p)[3 + j] = flat[j]
  <2>1. /\ flat \in Seq(Nat) /\ Len(Body(p)) = 3 + n
        /\ Body(p)[1] = p.cmd /\ Body(p)[2] = p.ret /\ Body(p)[3] = a
        /\ \A j \in 1..n : Body(p)[3 + j] = flat[j]
    BY <1>1, <1>2, BodyType, Zenon
  <2>2. n \in Nat
    BY <1>1, <2>1
  <2>3. QED
    BY <2>1, <2>2
<1>6. PICK off : Offsets(off, Encoded(args))
  BY <1>2, EncodedType, OffsetsExist
<1>7. off[0] = 0 /\ off[a] = n
  BY <1>1, <1>2, <1>6, EncodedType DEF Offsets
<1>8. ASSUME NEW k \in Nat, k + 1 \in 1..a
      PROVE  /\ Len(args[k + 1]) \in Nat
             /\ off[k] \in Nat /\ off[k + 1] = off[k] + (1 + Len(args[k + 1]))
             /\ flat[off[k] + 1] = Len(args[k + 1])
             /\ \A j \in 1..Len(args[k + 1]) : flat[off[k] + (1 + j)] = args[k + 1][j]
  <2>1. args \in Seq(Seq(Nat)) /\ k \in Nat /\ k + 1 \in 1..Len(args)
    BY <1>1, <1>2, <1>8
  <2>2. flat = FlattenSeq(Encoded(args)) /\ Offsets(off, Encoded(args))
    BY <1>1, <1>6
  <2>3. LiesAt(args, off, flat, k)
    BY <2>1, <2>2, ArgOffsets
  <2>4. QED
    BY <2>3 DEF LiesAt
<1>9. ASSUME NEW k \in Nat, k + 1 \in 1..a
      PROVE  /\ Field(DataPtr[k]) = Len(args[k + 1])
             /\ \A j \in 1..Len(args[k + 1]) : Field(DataPtr[k] + j) = args[k + 1][j]
             /\ DataPtr[k + 1] = DataPtr[k] + 1 + Len(args[k + 1])
  <2>1. PICK l, f : l = k + 1 /\ f = Field(DataPtr[l - 1])
    OBVIOUS
  <2>2. l - 1 = k /\ args[l] = Arg(l)
    BY <1>4, <1>9, <2>1
  <2>3. args[l] = [i \in 1..f |-> Field(DataPtr[l - 1] + i)]
    BY <2>1, <2>2 DEF Arg
  <2>4. f \in Nat
    BY <1>9, <2>1, <2>2, DataPtrIterates, FieldType
  <2>5. Len(args[l]) = f /\ \A j \in 1..f : args[l][j] = Field(DataPtr[l - 1] + j)
    BY <2>3, <2>4
  <2>6. QED
    BY <2>1, <2>2, <2>5, DataPtrIterates
\* The first k arguments.
<1> DEFINE K == {k \in Nat : k \in 0..a => /\ off[k] \in Nat /\ DataPtr[k] = 4 + off[k]
                                          /\ \A j \in 1..off[k] : Field(3 + j) = flat[j]}
<1>10. 0 \in K
  BY <1>7, DataPtrIterates
<1>11. ASSUME NEW k \in Nat, k \in K PROVE k + 1 \in K
  <2> SUFFICES ASSUME k + 1 \in 0..a
               PROVE  /\ off[k + 1] \in Nat /\ DataPtr[k + 1] = 4 + off[k + 1]
                      /\ \A j \in 1..off[k + 1] : Field(3 + j) = flat[j]
    OBVIOUS
  <2>1. k + 1 \in 1..a /\ k \in 0..a
    BY <1>2
  <2>2. PICK o, l, d : o = off[k] /\ l = Len(args[k + 1]) /\ d = DataPtr[k]
    OBVIOUS
  <2>3. o \in Nat /\ l \in Nat /\ d = 4 + o /\ \A j \in 1..o : Field(3 + j) = flat[j]
    BY <1>8, <1>11, <2>1, <2>2
  <2>4. off[k + 1] = o + (1 + l) /\ DataPtr[k + 1] = d + 1 + l
    BY <1>8, <1>9, <2>1, <2>2
  <2>5. flat[o + 1] = l /\ \A j \in 1..l : flat[o + (1 + j)] = args[k + 1][j]
    BY <1>8, <2>1, <2>2
  <2>6. Field(d) = l /\ \A j \in 1..l : Field(d + j) = args[k + 1][j]
    BY <1>9, <2>1, <2>2
  <2>7. ASSUME NEW j \in 1..(o + (1 + l)) PROVE Field(3 + j) = flat[j]
    <3>1. CASE j <= o
      BY <2>3, <3>1
    <3>2. CASE j = o + 1
      <4>1. 3 + j = d
        BY <2>3, <3>2
      <4>2. QED
        BY <2>5, <2>6, <3>2, <4>1
    <3>3. CASE j > o + 1
      <4>1. PICK i : i = j - (o + 1)
        OBVIOUS
      <4>2. i \in 1..l /\ j = o + (1 + i) /\ 3 + j = d + i
        BY <2>3, <3>3, <4>1
      <4>3. Field(d + i) = args[k + 1][i] /\ flat[o + (1 + i)] = args[k + 1][i]
        BY <2>5, <2>6, <4>2
      <4>4. QED
        BY <4>2, <4>3
    <3>4. QED
      BY <2>3, <3>1, <3>2, <3>3
  <2>8. o + (1 + l) \in Nat /\ d + 1 + l = 4 + (o + (1 + l))
    BY <2>3
  <2>9. QED
    BY <2>4, <2>7, <2>8
<1>12. Nat \subseteq K
  <2> HIDE DEF K
  <2>1. QED
    BY <1>10, <1>11, NumberInduction
<1>13. DataPtr[a] = 4 + n /\ \A j \in 1..n : Field(3 + j) = flat[j]
  BY <1>2, <1>7, <1>12
<1>14. ASSUME NEW j \in 1..(3 + n) PROVE Field(j) = Body(p)[j]
  <2>1. CASE j \in {1, 2, 3}
    BY <1>3, <1>4, <1>5, <2>1 DEF Argc, Field
  <2>2. CASE j > 3
    <3>1. PICK i : i = j - 3
      OBVIOUS
    <3>2. i \in 1..n /\ j = 3 + i
      BY <1>5, <2>2, <3>1
    <3>3. QED
      BY <1>5, <1>13, <3>2
  <2>3. QED
    BY <1>5, <2>1, <2>2
\* They are fields, and the checksum is where the walk has ended.
<1>15. ASSUME NEW j \in 1..(3 + n) PROVE CellAt(j) = Num(Body(p)[j])
  <2>1. j \in 1..(DataPtr[Argc] - 1) /\ j \in Nat \ {0}
    BY <1>4, <1>5, <1>13
  <2>2. CellAt(j).t = "num" /\ CellAt(j) \in Cells
    BY <2>1, FieldType DEF CrcMatches
  <2>3. PICK m \in Nat : CellAt(j) = Num(m)
    BY <2>2, CellTypes DEF Cells, Nums, SentCrcs
  <2>4. Field(j) = m
    BY <2>3, CellTypes DEF Field, Value
  <2>5. QED
    BY <1>14, <2>3, <2>4
<1>16. CellAt((3 + n) + 1) = Crc(Body(p))
  <2>1. DataPtr[Argc] = (3 + n) + 1
    BY <1>4, <1>5, <1>13
  <2>2. QED
    BY <1>1, <2>1 DEF CrcMatches
<1>17. QED
  BY <1>1, <1>5, <1>15, <1>16 DEF Holds

-----------------------------------------------------------------------------
(* Types, and where executed commands come from. *)

\* Packets are packets.
LEMMA PacketType == Packets \subseteq Packet
BY PacketsAssumption DEF Packet

\* A frame, cell by cell.
LEMMA FrameCells ==
  ASSUME NEW p \in Packet
  PROVE  LET b == Body(p)
             n == Len(b)
         IN /\ b \in Seq(Nat) /\ n \in Nat /\ n >= 3
            /\ Len(Frame(p)) = n + 3 /\ DOMAIN Frame(p) = 1..(n + 3)
            /\ Frame(p)[1] = START /\ Frame(p)[n + 2] = Crc(b) /\ Frame(p)[n + 3] = END
            /\ \A j \in 1..n : Frame(p)[1 + j] = Num(b[j])
            /\ Frame(p) \in Seq(Nums \cup {Crc(b), START, END})
<1>1. PICK b, n, C : b = Body(p) /\ n = Len(b) /\ C = Nums \cup {Crc(b), START, END}
  OBVIOUS
<1>2. b \in Seq(Nat) /\ n \in Nat /\ n >= 3
  <2>1. PICK flat : flat = FlattenSeq(Encoded(p.args))
    OBVIOUS
  <2>2. b \in Seq(Nat) /\ flat \in Seq(Nat) /\ n = 3 + Len(flat)
    BY <1>1, <2>1, BodyType
  <2>3. QED
    BY <2>2
<1>3. PICK m : m = [i \in DOMAIN b |-> Num(b[i])]
  OBVIOUS
<1>4. /\ m \in Seq(C) /\ Len(m) = n /\ \A j \in 1..n : m[j] = Num(b[j])
  BY <1>1, <1>2, <1>3 DEF Nums
<1>5. PICK x, y, z, g : x = START /\ y = Crc(b) /\ z = END /\ g = <<x>> \o m
  OBVIOUS
<1>6. x \in C /\ y \in C /\ z \in C
  BY <1>1, <1>5
<1>7. Frame(p) = g \o <<y, z>>
  BY <1>1, <1>3, <1>5 DEF Frame
<1>8. /\ Frame(p) \in Seq(C) /\ Len(Frame(p)) = n + 3
      /\ Frame(p)[1] = x /\ Frame(p)[n + 2] = y /\ Frame(p)[n + 3] = z
      /\ \A j \in 1..n : Frame(p)[1 + j] = m[j]
  <2>1. /\ g \in Seq(C) /\ Len(g) = n + 1 /\ g[1] = x /\ \A j \in 1..n : g[1 + j] = m[j]
    BY <1>2, <1>4, <1>5, <1>6
  <2>2. <<y, z>> \in Seq(C) /\ Len(<<y, z>>) = 2
    BY <1>6
  <2>3. /\ g \o <<y, z>> \in Seq(C) /\ Len(g \o <<y, z>>) = n + 3
        /\ \A i \in 1..(n + 3) : (g \o <<y, z>>)[i] =
                                   IF i <= n + 1 THEN g[i] ELSE <<y, z>>[i - (n + 1)]
    BY <1>2, <2>1, <2>2, ConcatProperties
  <2>4. (g \o <<y, z>>)[1] = x
    BY <1>2, <2>1, <2>3
  <2>5. (g \o <<y, z>>)[n + 2] = y /\ (g \o <<y, z>>)[n + 3] = z
    BY <1>2, <2>3
  <2>6. \A j \in 1..n : (g \o <<y, z>>)[1 + j] = m[j]
    BY <1>2, <2>1, <2>3
  <2>7. QED
    BY <1>7, <2>3, <2>4, <2>5, <2>6
<1>9. Frame(p) \in Seq(Nums \cup {Crc(b), START, END})
  BY <1>1, <1>8, Zenon
<1>10. \A j \in 1..n : Frame(p)[1 + j] = Num(b[j])
  BY <1>4, <1>8
<1>11. /\ Len(Frame(p)) = n + 3 /\ DOMAIN Frame(p) = 1..(n + 3)
       /\ Frame(p)[1] = START /\ Frame(p)[n + 2] = Crc(b) /\ Frame(p)[n + 3] = END
  BY <1>2, <1>5, <1>8
<1>12. QED
  BY <1>1, <1>2, <1>9, <1>10, <1>11, Zenon

Types ==
  /\ packets \in Seq(Packets)
  /\ wire \in Seq(Cells \cup {START, END})
  /\ frameEnd \in Seq(Nat)
  /\ sent \in 0..Len(wire) /\ pending \in Seq(1..sent) /\ last \in 0..sent /\ up \in BOOLEAN
  /\ isBegin \in BOOLEAN /\ dataLen \in 0..BufLen
  /\ protoRxBuf \in [1..BufLen -> ({Num(0)} \cup Range(wire)) \ {START, END}]
  /\ restart \in BOOLEAN
  /\ executed \in Seq(Packet) /\ \A i \in DOMAIN executed : executed[i].cmd \in Commands
  /\ answers \in Seq(Nat) /\ Len(answers) <= Len(executed)
  /\ run \in 0..last /\ resets \in 0..MaxResets

LEMMA BufferCells ==
  ASSUME Types
  PROVE  protoRxBuf \in [1..BufLen -> Cells]
<1>1. Num(0) \in Cells
  BY DEF Cells, Nums
<1>2. Range(wire) \subseteq Cells \cup {START, END}
  BY DEF Types, Range
<1>3. QED
  BY <1>1, <1>2 DEF Types

\* Losing a byte keeps the type.
LEMMA RemoveType ==
  ASSUME NEW S, NEW s \in Seq(S), NEW i \in 1..Len(s)
  PROVE  RemoveAt(s, i) \in Seq(S) /\ Len(RemoveAt(s, i)) = Len(s) - 1
<1>1. PICK a, b : a = SubSeq(s, 1, i - 1) /\ b = SubSeq(s, i + 1, Len(s))
  OBVIOUS
<1>2. i \in Nat /\ Len(s) \in Nat /\ 1 <= i /\ i <= Len(s)
  OBVIOUS
<1>3. a \in Seq(S) /\ Len(a) = i - 1
  BY <1>1, <1>2, SubSeqProperties
<1>4. b \in Seq(S) /\ Len(b) = Len(s) - i
  BY <1>1, <1>2, SubSeqProperties
<1>5. a \o b \in Seq(S) /\ Len(a \o b) = Len(a) + Len(b)
  BY <1>3, <1>4, ConcatProperties
<1>6. RemoveAt(s, i) = a \o b
  BY <1>1 DEF RemoveAt
<1>7. Len(a \o b) = Len(s) - 1
  BY <1>2, <1>3, <1>4, <1>5
<1>8. QED
  BY <1>5, <1>6, <1>7, Zenon

IInv == Types /\ OnlySentExecuted

LEMMA HostCommandKeeps ==
  ASSUME IInv, HostCommand
  PROVE  IInv'
<1>1. PICK p \in Packets : /\ packets' = Append(packets, p)
                           /\ wire' = wire \o Frame(p)
  BY DEF HostCommand
<1>2. /\ frameEnd' = Append(frameEnd, Len(wire'))
      /\ UNCHANGED <<sent, pending, last, up, isBegin, dataLen, protoRxBuf, restart,
                     executed, answers, run, resets>>
  BY DEF HostCommand, lineVars, parser
<1>3. /\ packets' \in Seq(Packets) /\ Len(packets') = Len(packets) + 1
      /\ packets'[Len(packets) + 1] = p
      /\ \A k \in DOMAIN packets : k \in DOMAIN packets' /\ packets'[k] = packets[k]
      /\ Len(packets) + 1 \in DOMAIN packets'
  BY <1>1 DEF IInv, Types
<1>4. SentCrcs \subseteq SentCrcs' /\ Crc(Body(p)) \in SentCrcs'
  BY <1>3 DEF SentCrcs
<1>5. PICK C : C = (Cells \cup {START, END})'
  OBVIOUS
<1>6. Cells \cup {START, END} \subseteq C /\ Nums \cup {Crc(Body(p)), START, END} \subseteq C
  BY <1>4, <1>5 DEF Cells
<1>7. wire \in Seq(C) /\ Frame(p) \in Seq(C)
  <2>1. \A D \in SUBSET C : Seq(D) \subseteq Seq(C)
    OBVIOUS
  <2>2. Frame(p) \in Seq(Nums \cup {Crc(Body(p)), START, END})
    BY PacketType, FrameCells
  <2>3. QED
    BY <1>6, <2>1, <2>2 DEF IInv, Types
<1>8. /\ wire' \in Seq(C) /\ Len(wire) <= Len(wire') /\ Len(wire') \in Nat
      /\ Range(wire) \subseteq Range(wire')
  <2>1. /\ wire' \in Seq(C) /\ Len(wire') = Len(wire) + Len(Frame(p))
        /\ \A i \in 1..Len(wire) : wire'[i] = wire[i]
    BY <1>1, <1>7, ConcatProperties
  <2>2. Len(wire) \in Nat /\ Len(Frame(p)) \in Nat
    BY <1>7
  <2>3. QED
    BY <1>7, <2>1, <2>2 DEF Range
<1>9. Types'
  <2>1. sent' \in 0..Len(wire')
    BY <1>2, <1>8 DEF IInv, Types
  <2>2. frameEnd' \in Seq(Nat)
    BY <1>2, <1>8 DEF IInv, Types
  <2>3. protoRxBuf' \in [1..BufLen -> ({Num(0)} \cup Range(wire')) \ {START, END}]
    BY <1>2, <1>8 DEF IInv, Types
  <2>4. QED
    BY <1>2, <1>3, <1>5, <1>8, <2>1, <2>2, <2>3 DEF IInv, Types
<1>10. OnlySentExecuted'
  BY <1>2, <1>3 DEF IInv, OnlySentExecuted
<1>11. QED
  BY <1>9, <1>10 DEF IInv

\* The parser and the host are left alone.
LEMMA LineStepKeeps ==
  ASSUME IInv, UNCHANGED linkVars,
         sent' \in 0..Len(wire), pending' \in Seq(1..sent'), last' = last, last \in 0..sent',
         up' \in BOOLEAN
  PROVE  IInv'
BY DEF IInv, Types, OnlySentExecuted, linkVars, host, Cells, Nums, SentCrcs

LEMMA LineKeeps ==
  ASSUME IInv, HostByte \/ LineLoss \/ CMD_Init
  PROVE  IInv'
<1>1. CASE HostByte
  <2>1. /\ sent \in Nat /\ sent' = sent + 1 /\ pending' = Append(pending, sent + 1)
        /\ last' = last /\ up' = up /\ UNCHANGED linkVars /\ sent < Len(wire)
    BY <1>1 DEF HostByte, Send, IInv, Types
  <2>2. pending' \in Seq(1..sent')
    <3>1. 1..sent \subseteq 1..sent'
      BY <2>1
    <3>2. pending \in Seq(1..sent')
      <4>1. \A D, E : D \subseteq E => Seq(D) \subseteq Seq(E)
        OBVIOUS
      <4>2. Seq(1..sent) \subseteq Seq(1..sent')
        BY <3>1, <4>1
      <4>3. QED
        BY <4>2 DEF IInv, Types
    <3>3. sent + 1 \in 1..sent'
      BY <2>1
    <3>4. QED
      BY <2>1, <3>2, <3>3
  <2>3. sent' \in 0..Len(wire) /\ last \in 0..sent'
    BY <2>1 DEF IInv, Types
  <2>4. QED
    BY <2>1, <2>2, <2>3, LineStepKeeps DEF IInv, Types
<1>2. CASE LineLoss
  <2>1. \E i \in 1..Len(pending) : pending' = RemoveAt(pending, i)
    BY <1>2 DEF LineLoss, Lose
  <2>2. pending' \in Seq(1..sent)
    BY <2>1, RemoveType DEF IInv, Types
  <2>3. QED
    BY <1>2, <2>2, LineStepKeeps DEF LineLoss, Lose, IInv, Types
<1>3. CASE CMD_Init
  BY <1>3, LineStepKeeps DEF CMD_Init, PowerUp, IInv, Types
<1>4. QED
  BY <1>1, <1>2, <1>3

\* What CMD_Exec does with a packet that the host has sent.
LEMMA ExecKeeps ==
  ASSUME IInv, NEW packet \in Packet, CMD_Exec(packet),
         \E k \in DOMAIN packets : packet = packets[k], packets' = packets
  PROVE  /\ restart' \in BOOLEAN
         /\ executed' \in Seq(Packet) /\ \A i \in DOMAIN executed' : executed'[i].cmd \in Commands
         /\ answers' \in Seq(Nat) /\ Len(answers') <= Len(executed')
         /\ OnlySentExecuted'
<1>1. CASE packet.cmd \notin Commands
  <2>1. UNCHANGED <<restart, executed, answers>>
    BY <1>1 DEF CMD_Exec, Unexecuted
  <2>2. QED
    BY <2>1 DEF IInv, Types, OnlySentExecuted
<1>2. CASE packet.cmd \in Commands
  <2>1. /\ executed' = Append(executed, packet)
        /\ restart' = (restart \/ packet.cmd = CMD_RESET)
        /\ answers' = IF packet.ret # 0 THEN Append(answers, packet.cmd) ELSE answers
    BY <1>2 DEF CMD_Exec, Unexecuted
  <2>2. /\ executed' \in Seq(Packet) /\ DOMAIN executed' = 1..(Len(executed) + 1)
        /\ Len(executed') = Len(executed) + 1 /\ Len(executed) \in Nat
        /\ DOMAIN executed = 1..Len(executed)
        /\ executed'[Len(executed) + 1] = packet
        /\ \A i \in DOMAIN executed : executed'[i] = executed[i]
    BY <2>1 DEF IInv, Types
  <2>3. answers' \in Seq(Nat) /\ Len(answers') <= Len(answers) + 1 /\ Len(answers) \in Nat
    <3>1. packet.cmd \in Nat /\ answers \in Seq(Nat)
      BY DEF Packet, IInv, Types
    <3>2. Append(answers, packet.cmd) \in Seq(Nat) /\ Len(Append(answers, packet.cmd)) = Len(answers) + 1
      BY <3>1
    <3>3. Len(answers) \in Nat
      BY <3>1
    <3>4. QED
      BY <2>1, <3>1, <3>2, <3>3
  <2>4. \A i \in DOMAIN executed' : executed'[i].cmd \in Commands
    <3>1. ASSUME NEW i \in DOMAIN executed' PROVE executed'[i].cmd \in Commands
      <4>1. CASE i = Len(executed) + 1
        BY <1>2, <2>2, <4>1
      <4>2. CASE i # Len(executed) + 1
        <5>1. i \in DOMAIN executed /\ executed'[i] = executed[i]
          BY <2>2, <4>2
        <5>2. QED
          BY <5>1 DEF IInv, Types
      <4>3. QED
        BY <4>1, <4>2
    <3>2. QED
      BY <3>1
  <2>5. OnlySentExecuted'
    BY <2>2 DEF IInv, OnlySentExecuted
  <2>6. Len(answers') <= Len(executed')
    BY <2>2, <2>3 DEF IInv, Types
  <2>7. QED
    BY <2>1, <2>2, <2>3, <2>4, <2>5, <2>6 DEF IInv, Types
<1>3. QED
  BY <1>1, <1>2

\* The byte delivered is one that was sent.
LEMMA ByteSent ==
  ASSUME Types, ParseByte
  PROVE  last' \in 1..sent /\ last' \in 1..Len(wire) /\ pending' \in Seq(1..sent)
<1>1. PICK q, S : q = pending /\ S = 1..sent
  OBVIOUS
<1>2. q \in Seq(S) /\ q # <<>> /\ last' = Head(q) /\ pending' = Tail(q)
  BY <1>1 DEF ParseByte, TakeByte, Deliver, Types
<1>3. Head(q) \in S /\ Tail(q) \in Seq(S)
  BY <1>2
<1>4. sent \in 0..Len(wire) /\ Len(wire) \in Nat
  BY DEF Types
<1>5. last' \in 1..sent /\ pending' \in Seq(1..sent)
  BY <1>1, <1>2, <1>3
<1>6. QED
  BY <1>4, <1>5

LEMMA ParseKeeps ==
  ASSUME IInv, ParseByte
  PROVE  IInv'
<1>1. /\ last' = Head(pending) /\ pending' = Tail(pending) /\ pending # <<>>
      /\ UNCHANGED <<sent, up, packets, wire, frameEnd, resets>>
      /\ run' = IF run > 0 /\ last' = last + 1 THEN run + 1 ELSE 1
      /\ PROTO_ParseByte(wire[last'])
  BY DEF ParseByte, TakeByte, Deliver, host
<1>2. last' \in 1..sent /\ pending' \in Seq(1..sent)
  BY ByteSent DEF IInv
<1>3. run' \in 0..last'
  BY <1>1, <1>2 DEF IInv, Types
<1>4. PICK cell : cell = wire[last']
  OBVIOUS
<1>5. cell \in Range(wire)
  BY <1>2, <1>4 DEF IInv, Types, Range
<1>6. /\ isBegin' \in BOOLEAN /\ dataLen' \in 0..BufLen
      /\ protoRxBuf' \in [1..BufLen -> ({Num(0)} \cup Range(wire)) \ {START, END}]
  <2>1. CASE ParseStart(cell)
    BY <2>1, LinkAssumption DEF ParseStart, IInv, Types
  <2>2. CASE ParseEnd(cell)
    BY <2>2 DEF ParseEnd, IInv, Types
  <2>3. CASE ParseData(cell)
    <3>1. /\ isBegin' = isBegin /\ cell \in Range(wire) \ {START, END} /\ BufLen \in Nat
          /\ dataLen \in 0..BufLen
      BY <1>5, <2>3, LinkAssumption DEF ParseData, IInv, Types
    <3>2. CASE dataLen < BufLen /\ isBegin
      <4>1. /\ dataLen' = dataLen + 1 /\ dataLen + 1 \in 1..BufLen
            /\ protoRxBuf' = [protoRxBuf EXCEPT ![dataLen + 1] = cell]
        BY <2>3, <3>1, <3>2 DEF ParseData
      <4>2. PICK B, i : /\ B = ({Num(0)} \cup Range(wire)) \ {START, END}
                        /\ i = dataLen + 1 /\ protoRxBuf \in [1..BufLen -> B]
        BY DEF IInv, Types
      <4>3. protoRxBuf' \in [1..BufLen -> B]
        BY <3>1, <4>1, <4>2
      <4>4. QED
        BY <3>1, <4>1, <4>2, <4>3 DEF IInv, Types
    <3>3. CASE ~(dataLen < BufLen /\ isBegin)
      BY <2>3, <3>1, <3>3 DEF ParseData, IInv, Types
    <3>4. QED
      BY <3>2, <3>3
  <2>4. QED
    BY <1>1, <1>4, <2>1, <2>2, <2>3 DEF PROTO_ParseByte
<1>7. /\ restart' \in BOOLEAN
      /\ executed' \in Seq(Packet) /\ \A i \in DOMAIN executed' : executed'[i].cmd \in Commands
      /\ answers' \in Seq(Nat) /\ Len(answers') <= Len(executed')
      /\ OnlySentExecuted'
  <2>1. CASE Unexecuted
    BY <1>1, <2>1 DEF Unexecuted, IInv, Types, OnlySentExecuted
  <2>2. CASE CrcMatches /\ CMD_Exec(Received)
    <3>1. protoRxBuf \in [1..BufLen -> Cells] /\ packets \in Seq(Packet)
      BY BufferCells, PacketType DEF IInv, Types
    <3>2. /\ \E k \in DOMAIN packets : Received = packets[k]
          /\ Received \in Packet
      BY <2>2, <3>1, MatchIsSent, ReceivedType
    <3>3. QED
      BY <1>1, <2>2, <3>2, ExecKeeps
  <2>3. QED
    BY <1>1, <2>1, <2>2 DEF PROTO_ParseByte, ParseStart, ParseEnd, ParseData, protoCompletedCb
<1>8. Types'
  <2>1. Cells' = Cells
    BY <1>1 DEF Cells, SentCrcs
  <2>2. last' \in 0..sent' /\ pending' \in Seq(1..sent')
    BY <1>1, <1>2
  <2>3. /\ packets' \in Seq(Packets) /\ wire' \in Seq((Cells \cup {START, END})')
        /\ sent' \in 0..Len(wire') /\ up' \in BOOLEAN
        /\ frameEnd' \in Seq(Nat) /\ resets' \in 0..MaxResets
        /\ protoRxBuf' \in [1..BufLen -> ({Num(0)} \cup Range(wire')) \ {START, END}]
    BY <1>1, <1>6, <2>1 DEF IInv, Types
  <2>4. QED
    BY <1>3, <1>6, <1>7, <2>2, <2>3 DEF Types
<1>9. QED
  BY <1>7, <1>8 DEF IInv

LEMMA RestartKeeps ==
  ASSUME IInv, Restart
  PROVE  IInv'
<1>1. ZeroBuf \in [1..BufLen -> ({Num(0)} \cup Range(wire)) \ {START, END}]
  BY DEF ZeroBuf, Num, START, END
<1>2. Cells' = Cells
  BY DEF Restart, ParserReset, host, Cells, SentCrcs
<1>3. resets' \in 0..MaxResets
  BY LinkAssumption DEF Restart, ParserReset, IInv, Types
<1>4. Types'
  <2>1. /\ packets' \in Seq(Packets) /\ wire' \in Seq((Cells \cup {START, END})')
        /\ frameEnd' \in Seq(Nat) /\ sent' \in 0..Len(wire') /\ last' \in 0..sent'
        /\ executed' \in Seq(Packet) /\ \A i \in DOMAIN executed' : executed'[i].cmd \in Commands
        /\ answers' \in Seq(Nat) /\ Len(answers') <= Len(executed')
        /\ wire' = wire
    BY <1>2 DEF Restart, ParserReset, Reset, host, IInv, Types
  <2>2. /\ pending' \in Seq(1..sent') /\ up' \in BOOLEAN /\ isBegin' \in BOOLEAN
        /\ restart' \in BOOLEAN
    BY EmptySeq DEF Restart, ParserReset, Reset
  <2>3. dataLen' \in 0..BufLen /\ run' \in 0..last'
    BY <2>1, LinkAssumption DEF Restart, ParserReset, Reset, IInv, Types
  <2>4. protoRxBuf' \in [1..BufLen -> ({Num(0)} \cup Range(wire')) \ {START, END}]
    BY <1>1, <2>1 DEF Restart, ParserReset
  <2>5. QED
    BY <1>3, <2>1, <2>2, <2>3, <2>4 DEF Types
<1>5. QED
  BY <1>4 DEF Restart, ParserReset, host, IInv, OnlySentExecuted

LEMMA IInvInductive == Spec => []IInv
<1>1. Init => IInv
  <2> SUFFICES ASSUME Init PROVE IInv
    OBVIOUS
  <2>1. ZeroBuf \in [1..BufLen -> ({Num(0)} \cup Range(wire)) \ {START, END}]
    BY DEF ZeroBuf, Num, START, END
  <2>2. Types
    <3>1. \A D : <<>> \in Seq(D) /\ Len(<<>>) = 0 /\ DOMAIN <<>> = {}
      BY EmptySeq
    <3>2. BufLen \in Nat /\ MaxResets \in Nat
      BY LinkAssumption
    <3>3. /\ packets \in Seq(Packets) /\ wire \in Seq(Cells \cup {START, END})
          /\ frameEnd \in Seq(Nat) /\ pending \in Seq(1..sent)
          /\ executed \in Seq(Packet) /\ answers \in Seq(Nat)
      BY <3>1 DEF Init, LineInit
    <3>4. /\ Len(wire) = 0 /\ Len(executed) = 0 /\ Len(answers) = 0 /\ DOMAIN executed = {}
          /\ sent = 0 /\ last = 0 /\ run = 0 /\ dataLen = 0 /\ resets = 0
      BY <3>1 DEF Init, LineInit
    <3>5. /\ isBegin \in BOOLEAN /\ up \in BOOLEAN /\ restart \in BOOLEAN
          /\ protoRxBuf = ZeroBuf
      BY DEF Init, LineInit
    <3>6. QED
      BY <2>1, <3>2, <3>3, <3>4, <3>5 DEF Types
  <2>3. QED
    BY <2>2 DEF Init, IInv, OnlySentExecuted
<1>2. IInv /\ [Next]_vars => IInv'
  <2>1. IInv /\ UNCHANGED vars => IInv'
    BY DEF vars, lineVars, linkVars, host, IInv, Types, OnlySentExecuted, Cells, SentCrcs
  <2>2. QED
    BY <2>1, HostCommandKeeps, LineKeeps, ParseKeeps, RestartKeeps DEF Next
<1>3. QED
  BY <1>1, <1>2, PTL DEF Spec

\* The parser's position stays in its buffer, the buffer holds only cells the
\* host has sent, and what is executed is in the command table (rxProto,
\* protoCompletedCb, CMD_Exec).
THEOREM TypeCorrect == Spec => []TypeOK
<1>1. IInv => TypeOK
  <2> SUFFICES ASSUME Types PROVE TypeOK
    BY DEF IInv
  <2>1. run \in 0..sent
    BY DEF Types
  <2>2. /\ DOMAIN protoRxBuf = 1..BufLen
        /\ \A i \in 1..BufLen : protoRxBuf[i] \in ({Num(0)} \cup Range(wire)) \ {START, END}
    BY DEF Types
  <2>3. QED
    BY <2>1, <2>2 DEF Types, TypeOK
<1>2. QED
  BY <1>1, IInvInductive, PTL

\* Whatever the line loses and the buffer keeps, the chip never executes a
\* command the host did not send (protoCompletedCb).
THEOREM ExecutesOnlySent == Spec => []OnlySentExecuted
<1>1. IInv => OnlySentExecuted
  BY DEF IInv
<1>2. QED
  BY <1>1, IInvInductive, PTL

\* What a handler's REQUEST walks over: whenever the checksum in protoRxBuf is
\* right, the buffer begins with the fields of one of the host's commands and
\* their checksum, also when they are what an earlier frame has left there
\* (protoCompletedCb, CMD_Exec).
THEOREM HandlersReadSent ==
  Spec => [](CrcMatches => \E k \in DOMAIN packets :
                              Received = packets[k] /\ Holds(packets[k]))
<1>1. IInv /\ CrcMatches => \E k \in DOMAIN packets :
                              Received = packets[k] /\ Holds(packets[k])
  <2> SUFFICES ASSUME IInv, CrcMatches
               PROVE  \E k \in DOMAIN packets : Received = packets[k] /\ Holds(packets[k])
    OBVIOUS
  <2>1. Types /\ protoRxBuf \in [1..BufLen -> Cells]
    BY BufferCells DEF IInv
  <2>2. packets \in Seq(Packet)
    <3>1. packets \in Seq(Packets)
      BY <2>1 DEF Types
    <3>2. QED
      BY <3>1, PacketType
  <2>3. Holds(Received)
    BY <2>1, MatchHolds
  <2>4. PICK k \in DOMAIN packets : Received = packets[k]
    BY <2>1, <2>2, MatchIsSent
  <2>5. QED
    BY <2>3, <2>4
<1>2. QED
  BY <1>1, IInvInductive, PTL

-----------------------------------------------------------------------------
(* The wire: one frame after the other. *)

FrameAt(i) ==
  /\ FrameStart(i) \in Nat \ {0}
  /\ frameEnd[i] = FrameStart(i) + Len(Body(packets[i])) + 2
  /\ frameEnd[i] <= Len(wire)
  /\ \A j \in 1..Len(Frame(packets[i])) :
       wire[FrameStart(i) - 1 + j] = Frame(packets[i])[j]

Layout ==
  /\ Len(frameEnd) = Len(packets)
  /\ Len(wire) = IF packets = <<>> THEN 0 ELSE frameEnd[Len(packets)]
  /\ \A i \in DOMAIN packets : FrameAt(i)
  /\ \A b \in 1..Len(wire) : \E i \in DOMAIN packets : b \in FrameStart(i)..frameEnd[i]

\* The line has delivered frame i without a gap up to last, and not its END.
Inside(i) ==
  FrameStart(i) <= last /\ last < frameEnd[i] /\ run >= last + 1 - FrameStart(i)

\* Then protoRxBuf holds the cells that came since START, as many as fit.
BufferInv ==
  \A i \in DOMAIN packets : Inside(i) =>
    /\ isBegin
    /\ dataLen = IF last - FrameStart(i) <= BufLen THEN last - FrameStart(i) ELSE BufLen
    /\ \A j \in 1..dataLen : protoRxBuf[j] = wire[FrameStart(i) + j]

WholeInv == IInv /\ Layout /\ BufferInv

\* With a window of at most Capacity bytes nothing is lost once the chip is up:
\* from the first byte after a reset there is no gap, and a frame that is open
\* is one of which every byte has come.
NoGap ==
  /\ Len(pending) <= Window
  /\ \A k \in 1..Len(pending) : pending[k] = sent - Len(pending) + k
  /\ run > 0 => up /\ last = sent - Len(pending)

OpenInv ==
  /\ run = 0 => ~isBegin /\ protoRxBuf = ZeroBuf
  /\ isBegin => \E i \in DOMAIN packets : Inside(i)
  /\ ~isBegin => protoRxBuf = ZeroBuf \/ \E i \in DOMAIN packets : last = frameEnd[i]

WindowInv == WholeInv /\ NoGap /\ OpenInv

\* Where the cells of a frame are.
LEMMA FrameOnWire ==
  ASSUME Types, Layout, NEW i \in DOMAIN packets
  PROVE  LET b == Body(packets[i])
             n == Len(b)
             s == FrameStart(i)
         IN /\ packets[i] \in Packet /\ b \in Seq(Nat) /\ n \in Nat /\ n >= 3
            /\ s \in Nat \ {0} /\ frameEnd[i] = s + n + 2 /\ frameEnd[i] <= Len(wire)
            /\ FrameLen(i) = n + 3
            /\ wire[s] = START /\ wire[s + n + 1] = Crc(b) /\ wire[s + n + 2] = END
            /\ \A j \in 1..n : wire[s + j] = Num(b[j])
<1>1. PICK b, n, s, f : /\ b = Body(packets[i]) /\ n = Len(b) /\ s = FrameStart(i)
                        /\ f = Frame(packets[i])
  OBVIOUS
<1>2. packets[i] \in Packet
  BY PacketType DEF Types
<1>3. /\ b \in Seq(Nat) /\ n \in Nat /\ n >= 3 /\ Len(f) = n + 3
      /\ f[1] = START /\ f[n + 2] = Crc(b) /\ f[n + 3] = END
      /\ \A j \in 1..n : f[1 + j] = Num(b[j])
  BY <1>1, <1>2, FrameCells
<1>4. /\ s \in Nat \ {0} /\ frameEnd[i] = s + n + 2 /\ frameEnd[i] <= Len(wire)
      /\ \A j \in 1..(n + 3) : wire[s - 1 + j] = f[j]
  BY <1>1, <1>3 DEF Layout, FrameAt
<1>5. FrameLen(i) = n + 3
  BY <1>1, <1>3, <1>4 DEF FrameLen
<1>sizes. n \in Nat /\ s \in Nat \ {0}
  BY <1>3, <1>4
<1>6. ASSUME NEW j \in 1..(n + 3), NEW c, c = s - 1 + j PROVE wire[c] = f[j]
  BY <1>4, <1>6
<1>7. wire[s] = START /\ wire[s + n + 1] = Crc(b) /\ wire[s + n + 2] = END
  <2>1. /\ 1 \in 1..(n + 3) /\ s = s - 1 + 1
        /\ n + 2 \in 1..(n + 3) /\ s + n + 1 = s - 1 + (n + 2)
        /\ n + 3 \in 1..(n + 3) /\ s + n + 2 = s - 1 + (n + 3)
    BY <1>sizes
  <2>2. wire[s] = f[1] /\ wire[s + n + 1] = f[n + 2] /\ wire[s + n + 2] = f[n + 3]
    BY <1>6, <2>1
  <2>3. QED
    BY <1>3, <2>2
<1>8. ASSUME NEW j \in 1..n PROVE wire[s + j] = Num(b[j])
  <2>1. 1 + j \in 1..(n + 3) /\ s + j = s - 1 + (1 + j)
    BY <1>sizes
  <2>2. wire[s + j] = f[1 + j]
    BY <1>6, <2>1
  <2>3. QED
    BY <1>3, <2>2
<1>9. QED
  BY <1>1, <1>2, <1>3, <1>4, <1>5, <1>7, <1>8

\* Where a frame begins and ends.
LEMMA FrameBounds ==
  ASSUME Types, Layout, NEW i \in DOMAIN packets
  PROVE  /\ FrameStart(i) \in Nat \ {0} /\ frameEnd[i] \in Nat
         /\ FrameStart(i) < frameEnd[i] /\ frameEnd[i] <= Len(wire)
<1>1. PICK n, s : n = Len(Body(packets[i])) /\ s = FrameStart(i)
  OBVIOUS
<1>2. n \in Nat /\ s \in Nat \ {0} /\ frameEnd[i] = s + n + 2 /\ frameEnd[i] <= Len(wire)
  BY <1>1, FrameOnWire
<1>3. s + n + 2 \in Nat /\ s < s + n + 2
  BY <1>2
<1>4. QED
  BY <1>1, <1>2, <1>3

\* START is the first cell of a frame only, END the last.
LEMMA MarkerCells ==
  ASSUME Types, Layout, NEW i \in DOMAIN packets, NEW c \in FrameStart(i)..frameEnd[i]
  PROVE  /\ wire[c] = START <=> c = FrameStart(i)
         /\ wire[c] = END <=> c = frameEnd[i]
<1>1. PICK b, n, s : b = Body(packets[i]) /\ n = Len(b) /\ s = FrameStart(i)
  OBVIOUS
<1>2. /\ n \in Nat /\ s \in Nat \ {0} /\ frameEnd[i] = s + n + 2 /\ b \in Seq(Nat)
      /\ wire[s] = START /\ wire[s + n + 1] = Crc(b) /\ wire[s + n + 2] = END
      /\ \A j \in 1..n : wire[s + j] = Num(b[j])
  BY <1>1, FrameOnWire
<1>3. CASE c = s \/ c = s + n + 2
  BY <1>1, <1>2, <1>3, CellTypes
<1>4. CASE c = s + n + 1
  <2>1. Crc(b) # START /\ Crc(b) # END
    BY DEF Crc, START, END
  <2>2. QED
    BY <1>1, <1>2, <1>4, <2>1
<1>5. CASE c \in (s + 1)..(s + n)
  <2>1. c - s \in 1..n /\ s + (c - s) = c
    BY <1>2, <1>5
  <2>2. wire[c] = Num(b[c - s])
    BY <1>2, <2>1
  <2>3. \A m : Num(m) # START /\ Num(m) # END
    BY DEF Num, START, END
  <2>4. QED
    BY <1>1, <1>2, <1>5, <2>2, <2>3
<1>6. c = s \/ c = s + n + 2 \/ c = s + n + 1 \/ c \in (s + 1)..(s + n)
  <2>1. n \in Nat /\ s \in Nat /\ c \in s..(s + n + 2)
    BY <1>1, <1>2
  <2>2. QED
    BY <2>1
<1>7. QED
  BY <1>3, <1>4, <1>5, <1>6

\* A buffer with the fields and the checksum of a packet is read as that
\* packet.
LEMMA FrameDecoded ==
  ASSUME protoRxBuf \in [1..BufLen -> Cells], NEW p \in Packet,
         Len(Body(p)) + 1 <= BufLen,
         \A j \in 1..Len(Body(p)) : protoRxBuf[j] = Num(Body(p)[j]),
         protoRxBuf[Len(Body(p)) + 1] = Crc(Body(p))
  PROVE  CrcMatches /\ Received = p
<1>1. PICK b, n, flat, args, a : /\ b = Body(p) /\ n = Len(b) /\ args = p.args
                                 /\ flat = FlattenSeq(Encoded(args)) /\ a = Len(args)
  OBVIOUS
<1>2. /\ p.cmd \in Nat /\ p.ret \in Nat /\ args \in Seq(Seq(Nat)) /\ a \in Nat
      /\ flat \in Seq(Nat) /\ Len(flat) \in Nat /\ n = 3 + Len(flat) /\ b \in Seq(Nat)
      /\ b[1] = p.cmd /\ b[2] = p.ret /\ b[3] = a
      /\ \A j \in 1..Len(flat) : b[3 + j] = flat[j]
  <2>1. p.cmd \in Nat /\ p.ret \in Nat /\ args \in Seq(Seq(Nat)) /\ a \in Nat
    BY <1>1 DEF Packet
  <2>2. /\ flat \in Seq(Nat) /\ n = 3 + Len(flat) /\ b \in Seq(Nat)
        /\ b[1] = p.cmd /\ b[2] = p.ret /\ b[3] = a
        /\ \A j \in 1..Len(flat) : b[3 + j] = flat[j]
    BY <1>1, BodyType, Zenon
  <2>3. Len(flat) \in Nat
    BY <2>2
  <2>4. QED
    BY <2>1, <2>2, <2>3
<1>3. BufLen \in Nat
  BY LinkAssumption
<1>sizes. a \in Nat /\ n \in Nat /\ Len(flat) \in Nat /\ n = 3 + Len(flat)
  BY <1>2
<1>4. ASSUME NEW j \in 1..n PROVE CellAt(j) = Num(b[j]) /\ Field(j) = b[j]
  <2>1. CellAt(j) = Num(b[j])
    <3>1. j <= BufLen
      BY <1>1, <1>3, <1>sizes
    <3>2. QED
      BY <1>1, <3>1 DEF CellAt
  <2>2. QED
    BY <2>1, CellTypes DEF Field, Value
<1>5. CellAt(n + 1) = Crc(b)
  BY <1>1 DEF CellAt
<1>6. Field(1) = p.cmd /\ Field(2) = p.ret /\ Argc = a
  <2>1. 1 \in 1..n /\ 2 \in 1..n /\ 3 \in 1..n
    BY <1>sizes
  <2>2. Field(1) = b[1] /\ Field(2) = b[2] /\ Field(3) = b[3]
    BY <1>4, <2>1
  <2>3. QED
    BY <1>2, <2>2 DEF Argc, Field
<1>7. PICK off : Offsets(off, Encoded(args))
  BY <1>2, EncodedType, OffsetsExist
<1>8. off \in [0..a -> Nat] /\ off[0] = 0 /\ off[a] = Len(flat)
  BY <1>1, <1>2, <1>7, EncodedType DEF Offsets
<1>9. ASSUME NEW k \in Nat, k + 1 \in 1..a
      PROVE  /\ args[k + 1] \in Seq(Nat) /\ Len(args[k + 1]) \in Nat
             /\ off[k] \in Nat /\ off[k + 1] = off[k] + (1 + Len(args[k + 1]))
             /\ off[k + 1] <= Len(flat)
             /\ flat[off[k] + 1] = Len(args[k + 1])
             /\ \A j \in 1..Len(args[k + 1]) : flat[off[k] + (1 + j)] = args[k + 1][j]
  <2>1. args \in Seq(Seq(Nat)) /\ k \in Nat /\ k + 1 \in 1..Len(args)
    BY <1>1, <1>2, <1>9
  <2>2. flat = FlattenSeq(Encoded(args)) /\ Offsets(off, Encoded(args))
    BY <1>1, <1>7
  <2>3. LiesAt(args, off, flat, k)
    BY <2>1, <2>2, ArgOffsets
  <2>4. QED
    BY <2>3 DEF LiesAt
\* A cell of an argument is where data_ptr looks for it.
<1>10. ASSUME NEW k \in Nat, k + 1 \in 1..a, DataPtr[k] = 4 + off[k]
       PROVE  /\ Field(DataPtr[k]) = Len(args[k + 1])
              /\ \A j \in 1..Len(args[k + 1]) : Field(DataPtr[k] + j) = args[k + 1][j]
  <2>1. /\ Len(args[k + 1]) \in Nat /\ off[k] \in Nat
        /\ off[k] + (1 + Len(args[k + 1])) <= Len(flat)
        /\ flat[off[k] + 1] = Len(args[k + 1])
        /\ \A j \in 1..Len(args[k + 1]) : flat[off[k] + (1 + j)] = args[k + 1][j]
    BY <1>9, <1>10
  <2>2. ASSUME NEW j \in 0..Len(args[k + 1])
        PROVE  Field(DataPtr[k] + j) = flat[off[k] + (1 + j)]
    <3> DEFINE c == off[k] + (1 + j)
    <3>0. /\ Len(args[k + 1]) \in Nat /\ off[k] \in Nat
          /\ off[k] + (1 + Len(args[k + 1])) <= Len(flat)
      BY <2>1
    <3>1. c \in 1..Len(flat) /\ DataPtr[k] + j = 3 + c /\ 3 + c \in 1..n
      <4>1. PICK l, o, m : l = Len(args[k + 1]) /\ o = off[k] /\ m = Len(flat)
        OBVIOUS
      <4>2. /\ l \in Nat /\ o \in Nat /\ m \in Nat /\ o + (1 + l) <= m /\ j \in 0..l
            /\ n = 3 + m /\ DataPtr[k] = 4 + o
        BY <1>10, <1>sizes, <3>0, <4>1
      <4>3. /\ o + (1 + j) \in 1..m /\ DataPtr[k] + j = 3 + (o + (1 + j))
            /\ 3 + (o + (1 + j)) \in 1..n
        BY <4>2
      <4>4. QED
        BY <4>1, <4>3, Zenon
    <3> HIDE DEF c
    <3>2. Field(3 + c) = b[3 + c]
      BY <1>4, <3>1
    <3>3. b[3 + c] = flat[c]
      BY <1>2, <3>1
    <3>4. Field(DataPtr[k] + j) = flat[c]
      BY <3>1, <3>2, <3>3
    <3>5. QED
      BY <3>4 DEF c
  <2>3. Field(DataPtr[k]) = Len(args[k + 1])
    <3>1. Field(DataPtr[k] + 0) = flat[off[k] + (1 + 0)] /\ DataPtr[k] + 0 = DataPtr[k]
      BY <1>10, <2>1, <2>2
    <3>2. QED
      BY <2>1, <3>1
  <2>4. QED
    BY <2>1, <2>2, <2>3
<1>11. \A k \in 0..a : DataPtr[k] = 4 + off[k]
  <2> DEFINE K == {k \in Nat : k \in 0..a => DataPtr[k] = 4 + off[k]}
  <2>1. 0 \in K
    BY <1>8, DataPtrIterates
  <2>2. ASSUME NEW k \in Nat, k \in K PROVE k + 1 \in K
    <3> SUFFICES ASSUME k + 1 \in 0..a PROVE DataPtr[k + 1] = 4 + off[k + 1]
      OBVIOUS
    <3>1. k + 1 \in 1..a /\ DataPtr[k] = 4 + off[k]
      BY <1>2, <2>2
    <3>2. DataPtr[k + 1] = DataPtr[k] + 1 + Len(args[k + 1])
      BY <1>10, <3>1, DataPtrIterates
    <3>3. /\ off[k] \in Nat /\ Len(args[k + 1]) \in Nat
          /\ off[k + 1] = off[k] + (1 + Len(args[k + 1]))
      BY <1>9, <3>1
    <3>4. \A o, l \in Nat : 4 + o + 1 + l = 4 + (o + (1 + l))
      OBVIOUS
    <3>5. QED
      BY <3>1, <3>2, <3>3, <3>4
  <2>3. Nat \subseteq K
    <3> HIDE DEF K
    <3>1. QED
      BY <2>1, <2>2, NumberInduction
  <2>4. QED
    BY <2>3
<1>12. ASSUME NEW k \in 1..a PROVE Arg(k) = args[k]
  <2>1. PICK l : l = k - 1
    OBVIOUS
  <2>2. l \in Nat /\ l + 1 = k /\ l + 1 \in 1..a /\ DataPtr[l] = 4 + off[l]
    BY <1>2, <1>11, <2>1
  <2>3. /\ Field(DataPtr[l]) = Len(args[k])
        /\ \A j \in 1..Len(args[k]) : Field(DataPtr[l] + j) = args[k][j]
    BY <1>10, <2>2
  <2>4. args[k] \in Seq(Nat)
    BY <1>9, <2>2
  <2>5. Arg(k) = [j \in 1..Len(args[k]) |-> args[k][j]]
    BY <2>1, <2>3 DEF Arg
  <2>6. QED
    BY <2>4, <2>5
<1>13. Received = p
  <2>1. [k \in 1..Argc |-> Arg(k)] = args
    <3>1. args = [k \in 1..a |-> args[k]]
      BY <1>1, <1>2
    <3>2. QED
      BY <1>6, <1>12, <3>1
  <2>2. Received = [cmd |-> p.cmd, ret |-> p.ret, args |-> args]
    BY <1>6, <2>1 DEF Received
  <2>3. QED
    BY <1>1, <2>2 DEF Packet
<1>14. DataPtr[Argc] = n + 1
  BY <1>2, <1>6, <1>8, <1>11
<1>15. CrcMatches
  <2>1. ASSUME NEW j \in 1..(DataPtr[Argc] - 1) PROVE CellAt(j).t = "num"
    <3>1. j \in 1..n
      BY <1>2, <1>14
    <3>2. QED
      BY <1>4, <3>1, CellTypes
  <2>2. QED
    BY <1>1, <1>5, <1>13, <1>14, <2>1 DEF CrcMatches
<1>16. QED
  BY <1>13, <1>15

\* The next frame goes behind the last one, which stay where they are.
LEMMA LayoutGrows ==
  ASSUME Types, Layout, HostCommand
  PROVE  /\ Layout'
         /\ DOMAIN packets \subseteq DOMAIN packets'
         /\ \A i \in DOMAIN packets : /\ packets'[i] = packets[i]
                                      /\ frameEnd'[i] = frameEnd[i]
                                      /\ FrameStart(i)' = FrameStart(i)
         /\ \A i \in DOMAIN packets' \ DOMAIN packets : FrameStart(i)' = Len(wire) + 1
         /\ \A c \in 1..Len(wire) : wire'[c] = wire[c]
<1>1. PICK p \in Packets : /\ packets' = Append(packets, p)
                           /\ wire' = wire \o Frame(p)
                           /\ frameEnd' = Append(frameEnd, Len(wire'))
  BY DEF HostCommand
<1>2. PICK m, L, n, f, b : /\ m = Len(packets) /\ L = Len(wire) /\ f = Frame(p)
                           /\ b = Body(p) /\ n = Len(b)
  OBVIOUS
<1>3. m \in Nat /\ L \in Nat /\ Len(frameEnd) = m /\ DOMAIN packets = 1..m
  BY <1>2 DEF Types, Layout
<1>4. n \in Nat /\ Len(f) = n + 3 /\ f \in Seq(Nums \cup {Crc(b), START, END})
  BY <1>2, PacketType, FrameCells
<1>5. /\ Len(packets') = m + 1 /\ DOMAIN packets' = 1..(m + 1) /\ packets'[m + 1] = p
      /\ \A i \in 1..m : packets'[i] = packets[i]
  BY <1>1, <1>2 DEF Types
<1>6. /\ Len(wire') = L + (n + 3)
      /\ \A c \in 1..L : wire'[c] = wire[c]
      /\ \A j \in 1..(n + 3) : wire'[L + j] = f[j]
  <2>1. PICK C : C = Cells \cup {START, END} \cup (Nums \cup {Crc(b), START, END})
    OBVIOUS
  <2>2. wire \in Seq(C) /\ f \in Seq(C)
    <3>1. \A D, E : D \subseteq E => Seq(D) \subseteq Seq(E)
      OBVIOUS
    <3>2. /\ Seq(Cells \cup {START, END}) \subseteq Seq(C)
          /\ Seq(Nums \cup {Crc(b), START, END}) \subseteq Seq(C)
      BY <2>1, <3>1
    <3>3. QED
      BY <1>4, <3>2 DEF Types
  <2>3. wire' = wire \o f
    BY <1>1, <1>2
  <2>4. /\ Len(wire') = L + (n + 3)
        /\ \A c \in 1..Len(wire') : wire'[c] = IF c <= L THEN wire[c] ELSE f[c - L]
    <3>1. PICK w : w = wire \o f
      OBVIOUS
    <3>2. /\ Len(w) = Len(wire) + Len(f)
          /\ \A c \in 1..Len(wire) + Len(f) :
               w[c] = IF c <= Len(wire) THEN wire[c] ELSE f[c - Len(wire)]
      BY <2>2, <3>1, ConcatProperties
    <3>3. Len(wire) = L /\ Len(f) = n + 3 /\ wire' = w
      BY <1>2, <1>4, <2>3, <3>1
    <3>4. QED
      BY <3>2, <3>3, Zenon
  <2>5. ASSUME NEW c \in 1..L PROVE wire'[c] = wire[c]
    BY <1>3, <1>4, <2>4
  <2>6. ASSUME NEW j \in 1..(n + 3) PROVE wire'[L + j] = f[j]
    <3>1. n \in Nat
      BY <1>4
    <3>2. L + j \in 1..(L + (n + 3)) /\ ~(L + j <= L) /\ (L + j) - L = j
      BY <1>3, <3>1
    <3>3. QED
      BY <2>4, <3>2
  <2>7. QED
    BY <2>4, <2>5, <2>6
<1>7. /\ Len(frameEnd') = m + 1 /\ frameEnd'[m + 1] = L + (n + 3)
      /\ \A i \in 1..m : frameEnd'[i] = frameEnd[i]
  <2>1. frameEnd \in Seq(Nat) /\ Len(wire') \in Nat /\ Len(wire') = L + (n + 3)
    BY <1>3, <1>4, <1>6 DEF Types
  <2>2. QED
    BY <1>1, <1>3, <2>1
<1>8. ASSUME NEW i \in 1..m PROVE FrameStart(i)' = FrameStart(i)
  BY <1>3, <1>7 DEF FrameStart
<1>9. FrameStart(m + 1)' = L + 1
  <2>1. CASE m = 0
    <3>1. packets = <<>>
      BY <1>2, <2>1, EmptySeq DEF Types
    <3>2. L = 0
      BY <1>2, <3>1 DEF Layout
    <3>3. QED
      BY <2>1, <3>2 DEF FrameStart
  <2>2. CASE m # 0
    <3>1. m + 1 # 1 /\ (m + 1) - 1 = m /\ m \in 1..m /\ packets # <<>>
      BY <1>2, <1>3, <2>2
    <3>2. L = frameEnd[m]
      BY <1>2, <3>1 DEF Layout
    <3>3. FrameStart(m + 1)' = frameEnd'[m] + 1
      BY <3>1 DEF FrameStart
    <3>4. QED
      BY <1>7, <3>1, <3>2, <3>3
  <2>3. QED
    BY <2>1, <2>2
<1>10. ASSUME NEW i \in 1..(m + 1) PROVE FrameAt(i)'
  <2>1. CASE i = m + 1
    <3>1. packets'[i] = p /\ FrameStart(i)' = L + 1 /\ frameEnd'[i] = L + (n + 3)
      BY <1>5, <1>7, <1>9, <2>1
    <3>4. frameEnd'[i] <= Len(wire')
      BY <1>3, <1>4, <1>6, <3>1
    <3>5. /\ FrameStart(i)' \in Nat \ {0} /\ frameEnd'[i] = FrameStart(i)' + n + 2
          /\ \A j \in 1..(n + 3) : wire'[FrameStart(i)' - 1 + j] = f[j]
      <4>1. PICK t : t = FrameStart(i)'
        OBVIOUS
      <4>2. t = L + 1 /\ t \in Nat \ {0} /\ frameEnd'[i] = t + n + 2
        BY <1>3, <1>4, <3>1, <4>1
      <4>3. ASSUME NEW j \in 1..(n + 3) PROVE wire'[t - 1 + j] = f[j]
        <5>1. t - 1 + j = L + j
          BY <1>3, <1>4, <4>2
        <5>2. wire'[L + j] = f[j]
          BY <1>6
        <5>3. QED
          BY <5>1, <5>2, Zenon
      <4>4. QED
        BY <4>1, <4>2, <4>3, Zenon
    <3>6. Body(packets'[i]) = b /\ Frame(packets'[i]) = f
      BY <1>2, <3>1
    <3>7. QED
      BY <1>2, <1>4, <3>4, <3>5, <3>6 DEF FrameAt
  <2>2. CASE i # m + 1
    <3>1. i \in 1..m /\ i \in DOMAIN packets
      BY <1>3, <2>2
    <3>2. PICK s, l, g : s = FrameStart(i) /\ l = Len(Body(packets[i])) /\ g = Frame(packets[i])
      OBVIOUS
    <3>3. packets[i] \in Packet
      BY <3>1, PacketType DEF Types
    <3>4. l \in Nat /\ Len(g) = l + 3
      BY <3>2, <3>3, FrameCells
    <3>5. /\ s \in Nat \ {0} /\ frameEnd[i] = s + l + 2 /\ frameEnd[i] <= L
          /\ \A j \in 1..(l + 3) : wire[s - 1 + j] = g[j]
      BY <1>2, <3>1, <3>2, <3>4 DEF Layout, FrameAt
    <3>6. /\ packets'[i] = packets[i] /\ frameEnd'[i] = s + l + 2 /\ FrameStart(i)' = s
          /\ frameEnd'[i] <= Len(wire')
      <4>1. packets'[i] = packets[i] /\ frameEnd'[i] = frameEnd[i] /\ FrameStart(i)' = s
        BY <1>5, <1>7, <1>8, <3>1, <3>2
      <4>2. frameEnd[i] = s + l + 2 /\ frameEnd[i] <= L /\ frameEnd[i] \in Nat
        BY <3>4, <3>5
      <4>3. L <= Len(wire') /\ Len(wire') \in Nat
        BY <1>3, <1>4, <1>6
      <4>4. QED
        BY <1>3, <4>1, <4>2, <4>3
    <3>7. ASSUME NEW j \in 1..(l + 3) PROVE wire'[s - 1 + j] = g[j]
      <4>1. s \in Nat \ {0} /\ s + l + 2 <= L
        BY <3>5
      <4>2. s - 1 + j \in 1..L
        BY <1>3, <3>4, <4>1
      <4>3. QED
        BY <1>6, <3>5, <4>2
    <3>8. Len(Body(packets'[i])) = l /\ Frame(packets'[i]) = g
      BY <3>2, <3>6
    <3>9. QED
      BY <3>4, <3>5, <3>6, <3>7, <3>8 DEF FrameAt
  <2>3. QED
    BY <2>1, <2>2
<1>11. ASSUME NEW c \in 1..Len(wire')
       PROVE  \E i \in 1..(m + 1) : c \in FrameStart(i)'..frameEnd'[i]
  <2>1. CASE c <= L
    <3>1. c \in 1..L
      BY <1>3, <2>1
    <3>2. PICK i \in 1..m : c \in FrameStart(i)..frameEnd[i]
      BY <1>2, <1>3, <3>1 DEF Layout
    <3>3. c \in FrameStart(i)'..frameEnd'[i]
      BY <1>7, <1>8, <3>2
    <3>4. QED
      BY <1>3, <3>3
  <2>2. CASE c > L
    <3>1. c \in (L + 1)..(L + (n + 3))
      BY <1>3, <1>4, <1>6, <2>2
    <3>2. m + 1 \in 1..(m + 1)
      BY <1>3
    <3>3. QED
      BY <1>7, <1>9, <3>1, <3>2
  <2>3. QED
    BY <1>3, <1>6, <2>1, <2>2
<1>12. Layout'
  <2>1. packets' # <<>>
    BY <1>3, <1>5
  <2>2. Len(wire') = frameEnd'[Len(packets')]
    BY <1>5, <1>6, <1>7
  <2>3. QED
    BY <1>5, <1>7, <1>10, <1>11, <2>1, <2>2 DEF Layout
<1>13. QED
  <2>1. \A i \in DOMAIN packets : packets'[i] = packets[i] /\ frameEnd'[i] = frameEnd[i]
    BY <1>3, <1>5, <1>7
  <2>2. \A i \in DOMAIN packets : FrameStart(i)' = FrameStart(i)
    BY <1>3, <1>8
  <2>3. ASSUME NEW i \in DOMAIN packets' \ DOMAIN packets PROVE FrameStart(i)' = Len(wire) + 1
    <3>1. i = m + 1
      BY <1>3, <1>5
    <3>2. QED
      BY <1>2, <1>9, <3>1
  <2>4. DOMAIN packets \subseteq DOMAIN packets'
    BY <1>3, <1>5
  <2>5. QED
    BY <1>2, <1>6, <1>12, <2>1, <2>2, <2>3, <2>4

LEMMA LayoutKept ==
  ASSUME Layout, UNCHANGED host
  PROVE  Layout'
BY DEF Layout, FrameAt, FrameStart, host

-----------------------------------------------------------------------------
(* Frames that arrive whole. *)

LEMMA BufferUntouched ==
  ASSUME BufferInv, UNCHANGED <<host, parser, last, run>>
  PROVE  BufferInv'
BY DEF BufferInv, Inside, FrameStart, host, parser

LEMMA HostCommandKeepsBuffer ==
  ASSUME WholeInv, HostCommand
  PROVE  BufferInv'
<1>1. UNCHANGED <<last, run, isBegin, dataLen, protoRxBuf>>
  BY DEF HostCommand, lineVars, parser
<1>2. /\ \A i \in DOMAIN packets : /\ frameEnd'[i] = frameEnd[i]
                                   /\ FrameStart(i)' = FrameStart(i)
      /\ \A i \in DOMAIN packets' \ DOMAIN packets : FrameStart(i)' = Len(wire) + 1
      /\ \A c \in 1..Len(wire) : wire'[c] = wire[c]
  BY LayoutGrows DEF WholeInv, IInv
<1>3. last \in Nat /\ last <= Len(wire) /\ Len(wire) \in Nat /\ dataLen \in Nat
  BY LinkAssumption DEF WholeInv, IInv, Types
<1>4. SUFFICES ASSUME NEW i \in DOMAIN packets', Inside(i)'
               PROVE  /\ isBegin
                      /\ dataLen = IF last - FrameStart(i)' <= BufLen
                                     THEN last - FrameStart(i)' ELSE BufLen
                      /\ \A j \in 1..dataLen : protoRxBuf[j] = wire'[FrameStart(i)' + j]
  BY <1>1 DEF BufferInv
<1>5. i \in DOMAIN packets
  BY <1>1, <1>2, <1>3, <1>4 DEF Inside
<1>6. PICK s : s = FrameStart(i)
  OBVIOUS
<1>7. s \in Nat \ {0} /\ FrameStart(i)' = s /\ s <= last
  BY <1>1, <1>2, <1>4, <1>5, <1>6 DEF Inside, WholeInv, Layout, FrameAt
<1>8. Inside(i)
  BY <1>1, <1>2, <1>4, <1>5 DEF Inside
<1>9. /\ isBegin /\ dataLen = IF last - s <= BufLen THEN last - s ELSE BufLen
      /\ \A j \in 1..dataLen : protoRxBuf[j] = wire[s + j]
  BY <1>5, <1>6, <1>8 DEF WholeInv, BufferInv
<1>10. ASSUME NEW j \in 1..dataLen PROVE wire'[s + j] = wire[s + j]
  <2>1. dataLen <= last - s
    <3>1. dataLen = IF last - s <= BufLen THEN last - s ELSE BufLen
      BY <1>9
    <3>2. BufLen \in Nat /\ s \in Nat /\ last \in Nat
      BY <1>3, <1>7, LinkAssumption
    <3>3. QED
      BY <3>1, <3>2
  <2>2. s + j \in 1..Len(wire)
    BY <1>3, <1>7, <2>1
  <2>3. QED
    BY <1>2, <2>2
<1>11. QED
  BY <1>7, <1>9, <1>10

LEMMA RestartKeepsBuffer ==
  ASSUME WholeInv, Restart
  PROVE  BufferInv'
<1>1. last' = last /\ run' = 0 /\ UNCHANGED host
  BY DEF Restart, ParserReset, Reset
<1>2. last \in Nat
  BY DEF WholeInv, IInv, Types
<1>3. ASSUME NEW i \in DOMAIN packets PROVE ~Inside(i)'
  <2>1. FrameStart(i) \in Nat /\ FrameStart(i)' = FrameStart(i)
    BY <1>1 DEF WholeInv, Layout, FrameAt, FrameStart, host
  <2>2. QED
    BY <1>1, <1>2, <2>1 DEF Inside
<1>4. QED
  BY <1>1, <1>3 DEF BufferInv, host

\* A byte inside a frame that has come without a gap follows the byte before.
LEMMA NoGapBefore ==
  ASSUME WholeInv, ParseByte, NEW i \in DOMAIN packets,
         FrameStart(i) < last', last' <= frameEnd[i], run' >= last' + 1 - FrameStart(i)
  PROVE  last' = last + 1 /\ Inside(i)
<1>1. /\ FrameStart(i) \in Nat /\ last \in Nat /\ run \in Nat /\ frameEnd[i] \in Nat
      /\ last' \in Nat
  <2>1. FrameStart(i) \in Nat /\ frameEnd[i] \in Nat
    BY FrameBounds DEF WholeInv, IInv
  <2>2. last' \in Nat
    BY ByteSent DEF WholeInv, IInv
  <2>3. QED
    BY <2>1, <2>2 DEF WholeInv, IInv, Types
<1>2. run' = IF run > 0 /\ last' = last + 1 THEN run + 1 ELSE 1
  BY DEF ParseByte, TakeByte
<1>3. last' = last + 1 /\ run' = run + 1
  BY <1>1, <1>2
<1>4. QED
  BY <1>1, <1>3 DEF Inside

LEMMA ParseKeepsBuffer ==
  ASSUME WholeInv, ParseByte
  PROVE  BufferInv'
<1>1. UNCHANGED <<packets, wire, frameEnd>> /\ PROTO_ParseByte(wire[last'])
  BY DEF ParseByte, TakeByte, host
<1>2. \A i \in DOMAIN packets : FrameStart(i)' = FrameStart(i)
  BY <1>1 DEF FrameStart
<1>3. SUFFICES ASSUME NEW i \in DOMAIN packets, FrameStart(i) <= last', last' < frameEnd[i],
                      run' >= last' + 1 - FrameStart(i)
               PROVE  /\ isBegin'
                      /\ dataLen' = IF last' - FrameStart(i) <= BufLen
                                      THEN last' - FrameStart(i) ELSE BufLen
                      /\ \A j \in 1..dataLen' : protoRxBuf'[j] = wire[FrameStart(i) + j]
  BY <1>1, <1>2 DEF BufferInv, Inside
<1>4. PICK s, l, e : s = FrameStart(i) /\ l = last' /\ e = frameEnd[i]
  OBVIOUS
<1>5. /\ s \in Nat \ {0} /\ l \in Nat /\ e \in Nat /\ BufLen \in Nat /\ l \in s..e /\ l # e
      /\ dataLen \in 0..BufLen
  <2>1. s \in Nat \ {0} /\ e \in Nat
    BY <1>4, FrameBounds DEF WholeInv, IInv
  <2>2. l \in Nat
    BY <1>4, ByteSent DEF WholeInv, IInv
  <2>3. l \in s..e /\ l # e
    BY <1>3, <1>4, <2>1, <2>2
  <2>4. QED
    BY <2>1, <2>2, <2>3, LinkAssumption DEF WholeInv, IInv, Types
<1>6. (wire[l] = START <=> l = s) /\ wire[l] # END
  BY <1>4, <1>5, MarkerCells DEF WholeInv, IInv
<1>7. CASE l = s
  <2>1. ParseStart(START)
    BY <1>1, <1>4, <1>6, <1>7, CellTypes DEF PROTO_ParseByte, ParseStart, ParseEnd, ParseData
  <2>2. isBegin' = TRUE /\ dataLen' = 0
    BY <2>1 DEF ParseStart
  <2>3. QED
    BY <1>4, <1>5, <1>7, <2>2
<1>8. CASE l # s
  <2>1. last' = last + 1 /\ Inside(i)
    BY <1>3, <1>4, <1>5, <1>8, NoGapBefore
  <2>2. /\ isBegin /\ dataLen = IF last - s <= BufLen THEN last - s ELSE BufLen
        /\ \A j \in 1..dataLen : protoRxBuf[j] = wire[s + j]
    BY <1>4, <2>1 DEF WholeInv, BufferInv
  <2>3. l = last + 1 /\ last \in Nat /\ s <= last
    BY <1>4, <1>5, <1>8, <2>1 DEF WholeInv, IInv, Types
  <2>4. ParseData(wire[l])
    BY <1>1, <1>4, <1>6, <1>8 DEF PROTO_ParseByte, ParseStart, ParseEnd
  <2>5. CASE dataLen < BufLen
    <3>1. dataLen = last - s
      BY <1>5, <2>2, <2>3, <2>5
    <3>2. /\ dataLen' = dataLen + 1 /\ isBegin' = isBegin
          /\ protoRxBuf' = [protoRxBuf EXCEPT ![dataLen + 1] = wire[l]]
      BY <2>2, <2>4, <2>5 DEF ParseData
    <3>3. DOMAIN protoRxBuf = 1..BufLen /\ dataLen + 1 \in 1..BufLen /\ s + (dataLen + 1) = l
      BY <1>5, <2>3, <2>5, <3>1 DEF WholeInv, IInv, Types
    <3>4. ASSUME NEW j \in 1..(dataLen + 1) PROVE protoRxBuf'[j] = wire[s + j]
      <4>1. CASE j = dataLen + 1
        BY <3>2, <3>3, <4>1
      <4>2. CASE j # dataLen + 1
        <5>1. j \in 1..dataLen /\ j \in 1..BufLen
          BY <1>5, <4>2
        <5>2. QED
          BY <2>2, <3>2, <3>3, <4>2, <5>1
      <4>3. QED
        BY <4>1, <4>2
    <3>5. dataLen' = IF l - s <= BufLen THEN l - s ELSE BufLen
      BY <1>5, <2>3, <2>5, <3>1, <3>2
    <3>6. QED
      BY <1>4, <2>2, <3>2, <3>4, <3>5
  <2>6. CASE ~(dataLen < BufLen)
    <3>1. UNCHANGED <<isBegin, dataLen, protoRxBuf>> /\ dataLen = BufLen
      BY <1>5, <2>4, <2>6 DEF ParseData
    <3>2. dataLen' = IF l - s <= BufLen THEN l - s ELSE BufLen
      BY <1>5, <2>2, <2>3, <3>1
    <3>3. QED
      BY <1>4, <2>2, <3>1, <3>2
  <2>7. QED
    BY <2>5, <2>6
<1>9. QED
  BY <1>7, <1>8

LEMMA WholeInvInductive == Spec => []WholeInv
<1>1. Init => Layout /\ BufferInv
  <2> SUFFICES ASSUME Init PROVE Layout /\ BufferInv
    OBVIOUS
  <2>1. packets = <<>> /\ wire = <<>> /\ frameEnd = <<>>
    BY DEF Init
  <2>2. DOMAIN packets = {} /\ Len(packets) = 0 /\ Len(wire) = 0 /\ Len(frameEnd) = 0
    BY <2>1, EmptySeq
  <2>3. QED
    BY <2>1, <2>2 DEF Layout, BufferInv
<1>2. IInv /\ (Layout /\ BufferInv) /\ [Next]_vars => (Layout /\ BufferInv)'
  <2> SUFFICES ASSUME WholeInv, [Next]_vars PROVE Layout' /\ BufferInv'
    BY DEF WholeInv
  <2>1. CASE HostCommand
    BY <2>1, LayoutGrows, HostCommandKeepsBuffer DEF WholeInv, IInv
  <2>2. CASE HostByte \/ LineLoss \/ CMD_Init \/ UNCHANGED vars
    <3>1. UNCHANGED <<host, parser, last, run>>
      BY <2>2 DEF HostByte, Send, LineLoss, Lose, CMD_Init, PowerUp, vars, lineVars, linkVars, parser
    <3>2. QED
      BY <3>1, LayoutKept, BufferUntouched DEF WholeInv
  <2>3. CASE ParseByte
    BY <2>3, LayoutKept, ParseKeepsBuffer DEF WholeInv, ParseByte, TakeByte
  <2>4. CASE Restart
    BY <2>4, LayoutKept, RestartKeepsBuffer DEF WholeInv, Restart, ParserReset
  <2>5. QED
    BY <2>1, <2>2, <2>3, <2>4 DEF Next
<1>3. WholeInv <=> IInv /\ (Layout /\ BufferInv)
  BY DEF WholeInv
<1>4. QED
  BY <1>1, <1>2, <1>3, IInvInductive, PTL DEF Spec

\* At the END of a frame that has come as a whole.
LEMMA WholeStep ==
  ASSUME WholeInv, ParseByte, NEW i \in DOMAIN packets, Closes(last', i), Whole(i, run')
  PROVE  executed' = IF packets[i].cmd \in Commands /\ Fits(i)
                       THEN Append(executed, packets[i]) ELSE executed
<1>1. PICK b, n, s, l : /\ b = Body(packets[i]) /\ n = Len(b) /\ s = FrameStart(i) /\ l = last'
  OBVIOUS
<1>2. /\ packets[i] \in Packet /\ n \in Nat /\ n >= 3 /\ s \in Nat \ {0}
      /\ l = s + n + 2 /\ frameEnd[i] = s + n + 2 /\ FrameLen(i) = n + 3
  BY <1>1, FrameOnWire DEF WholeInv, IInv, Closes
<1>3. /\ wire[s + n + 1] = Crc(b) /\ wire[s + n + 2] = END
      /\ \A j \in 1..n : wire[s + j] = Num(b[j])
  BY <1>1, FrameOnWire DEF WholeInv, IInv
<1>4. run' >= n + 3
  BY <1>2 DEF Whole
<1>5. last \in Nat /\ run' \in Nat
  BY <1>2, ByteSent DEF WholeInv, IInv, Types, ParseByte, TakeByte
<1>6. last' = last + 1 /\ Inside(i)
  <2>1. s < l /\ l <= frameEnd[i] /\ run' >= l + 1 - s
    BY <1>2, <1>4, <1>5
  <2>2. QED
    BY <1>1, <2>1, NoGapBefore
<1>7. last - s = n + 1 /\ BufLen \in Nat
  <2>1. s \in Nat /\ n \in Nat /\ last \in Nat /\ last + 1 = s + n + 2
    BY <1>1, <1>2, <1>5, <1>6
  <2>2. QED
    BY <2>1, LinkAssumption
<1>8. /\ isBegin /\ dataLen = IF n + 1 <= BufLen THEN n + 1 ELSE BufLen
      /\ \A j \in 1..dataLen : protoRxBuf[j] = wire[s + j]
  BY <1>1, <1>6, <1>7 DEF WholeInv, BufferInv
<1>9. protoCompletedCb
  <2>1. PROTO_ParseByte(END)
    BY <1>1, <1>2, <1>3 DEF ParseByte, TakeByte
  <2>2. ParseEnd(END)
    BY <2>1, CellTypes DEF PROTO_ParseByte, ParseStart, ParseData
  <2>3. QED
    BY <1>8, <2>2 DEF ParseEnd
<1>10. protoRxBuf \in [1..BufLen -> Cells]
  BY BufferCells DEF WholeInv, IInv
<1>11. Fits(i) <=> n + 1 <= BufLen
  BY <1>2, <1>7 DEF Fits
<1>12. CASE n + 1 <= BufLen
  <2>1. dataLen = n + 1
    BY <1>8, <1>12
  <2>2. ASSUME NEW j \in 1..n PROVE protoRxBuf[j] = Num(b[j])
    <3>1. j \in 1..dataLen
      BY <1>2, <2>1
    <3>2. QED
      BY <1>3, <1>8, <3>1
  <2>3. protoRxBuf[n + 1] = Crc(b)
    <3>1. n + 1 \in 1..dataLen /\ s + (n + 1) = s + n + 1
      BY <1>2, <2>1
    <3>2. QED
      BY <1>3, <1>8, <3>1
  <2>4. CrcMatches /\ Received = packets[i]
    <3>1. Len(Body(packets[i])) + 1 <= BufLen
      BY <1>1, <1>12
    <3>2. \A j \in 1..Len(Body(packets[i])) : protoRxBuf[j] = Num(Body(packets[i])[j])
      BY <1>1, <2>2
    <3>3. protoRxBuf[Len(Body(packets[i])) + 1] = Crc(Body(packets[i]))
      BY <1>1, <2>3
    <3>4. QED
      BY <1>2, <1>10, <3>1, <3>2, <3>3, FrameDecoded
  <2>5. CMD_Exec(packets[i])
    BY <1>9, <2>4 DEF protoCompletedCb
  <2>6. QED
    BY <1>11, <1>12, <2>5 DEF CMD_Exec, Unexecuted
<1>13. CASE ~(n + 1 <= BufLen)
  <2>1. dataLen = BufLen /\ BufLen <= n
    BY <1>2, <1>7, <1>8, <1>13
  <2>2. ASSUME NEW k \in Nat \ {0}, NEW c, CellAt(k) = Crc(c) PROVE FALSE
    <3>1. CASE k <= BufLen
      <4>1. k \in 1..dataLen /\ k \in 1..n
        BY <1>2, <1>7, <2>1, <3>1
      <4>2. CellAt(k) = Num(b[k])
        BY <1>3, <1>8, <3>1, <4>1 DEF CellAt
      <4>3. QED
        BY <2>2, <4>2, CellTypes
    <3>2. CASE ~(k <= BufLen)
      BY <2>2, <3>2, CellTypes DEF CellAt
    <3>3. QED
      BY <3>1, <3>2
  <2>3. ~CrcMatches
    BY <1>10, <2>2, ReceivedType DEF CrcMatches
  <2>4. QED
    BY <1>9, <1>11, <1>13, <2>3 DEF protoCompletedCb, Unexecuted
<1>14. QED
  BY <1>12, <1>13

\* Resynchronisation: after any loss and any reset, with packets of every
\* size, a frame that arrives whole is executed as the host meant it, or is
\* dropped because it is too long for protoRxBuf (rxProto, protoCompletedCb,
\* CMD_Exec).
THEOREM WholeExecuted == Spec => WholeFrameExecuted
<1>1. WholeInv /\ [Next]_vars =>
        [\A i \in DOMAIN packets :
           (last' # last /\ Closes(last', i) /\ Whole(i, run')) =>
             executed' = IF packets[i].cmd \in Commands /\ Fits(i)
                           THEN Append(executed, packets[i]) ELSE executed]_vars
  <2> SUFFICES ASSUME WholeInv, Next, NEW i \in DOMAIN packets,
                      last' # last, Closes(last', i), Whole(i, run')
               PROVE  executed' = IF packets[i].cmd \in Commands /\ Fits(i)
                                    THEN Append(executed, packets[i]) ELSE executed
    OBVIOUS
  <2>1. ParseByte
    BY DEF Next, HostCommand, HostByte, Send, LineLoss, Lose, CMD_Init, PowerUp,
       Restart, ParserReset, Reset, lineVars
  <2>2. QED
    BY <2>1, WholeStep
<1>2. QED
  BY <1>1, WholeInvInductive, PTL DEF Spec, WholeFrameExecuted

-----------------------------------------------------------------------------
(* Damaged frames, for a host that keeps to the window. *)

LEMMA LineKeepsNoGap ==
  ASSUME IInv, NoGap, Window <= Capacity,
         HostCommand \/ HostByte \/ LineLoss \/ CMD_Init \/ Restart \/ UNCHANGED vars
  PROVE  NoGap'
<1>1. PICK q, n, S : q = pending /\ n = Len(pending) /\ S = 1..sent
  OBVIOUS
<1>2. /\ sent \in Nat /\ last \in Nat /\ run \in Nat /\ q \in Seq(S) /\ n \in Nat /\ n = Len(q)
      /\ Window \in Nat /\ Capacity \in Nat
  BY <1>1, LinkAssumption, CapacityAssumption DEF IInv, Types
<1>3. /\ n <= Window /\ \A k \in 1..n : q[k] = sent - n + k
      /\ run > 0 => up /\ last = sent - n
  BY <1>1 DEF NoGap
<1>4. CASE HostCommand \/ UNCHANGED vars
  <2>1. UNCHANGED <<sent, pending, last, up, run>>
    BY <1>4 DEF HostCommand, vars, lineVars, linkVars
  <2>2. QED
    BY <2>1 DEF NoGap
<1>5. CASE HostByte
  <2>1. /\ sent' = sent + 1 /\ pending' = Append(q, sent + 1) /\ n < Window
        /\ UNCHANGED <<last, up, run>>
    BY <1>1, <1>5 DEF HostByte, Send, linkVars
  <2>2. /\ Len(pending') = n + 1 /\ pending'[n + 1] = sent + 1
        /\ \A k \in 1..n : pending'[k] = q[k]
    BY <1>2, <2>1
  <2>3. ASSUME NEW k \in 1..(n + 1) PROVE pending'[k] = sent + 1 - (n + 1) + k
    BY <1>2, <1>3, <2>2
  <2>4. n + 1 <= Window /\ sent + 1 - (n + 1) = sent - n
    BY <1>2, <2>1
  <2>5. QED
    <3>1. Len(pending') <= Window
      BY <2>2, <2>4
    <3>2. sent' - Len(pending') = sent - n /\ sent + 1 - (n + 1) = sent - n
      <4>1. sent' = sent + 1 /\ Len(pending') = n + 1 /\ sent \in Nat /\ n \in Nat
        BY <1>2, <2>1, <2>2
      <4>2. QED
        BY <4>1
    <3>3. \A k \in 1..Len(pending') : pending'[k] = sent' - Len(pending') + k
      BY <2>2, <2>3, <3>2, Zenon
    <3>4. run' > 0 => up' /\ last' = sent' - Len(pending')
      BY <1>3, <2>1, <3>2, Zenon
    <3>5. QED
      BY <3>1, <3>3, <3>4 DEF NoGap
<1>6. CASE LineLoss
  <2>1. UNCHANGED <<sent, last, up, run>>
    BY <1>6 DEF LineLoss, Lose, linkVars
  <2>2. PICK i \in 1..n : /\ i > Capacity \/ (~up /\ i = 1)
                          /\ pending' = RemoveAt(q, i)
    BY <1>1, <1>6 DEF LineLoss, Lose
  <2>3. ~up /\ i = 1 /\ n # 0
    BY <1>2, <1>3, <2>2
  <2>4. pending' = SubSeq(q, 1, 0) \o SubSeq(q, 2, n)
    BY <1>2, <2>2, <2>3 DEF RemoveAt
  <2>5. SubSeq(q, 1, 0) = <<>>
    BY <1>2, SubSeqEmpty
  <2>6. /\ SubSeq(q, 2, n) \in Seq(S) /\ Len(SubSeq(q, 2, n)) = n - 1
        /\ \A k \in 1..(n - 1) : SubSeq(q, 2, n)[k] = q[k + 1]
    BY <1>2, <2>3
  <2>7. pending' = SubSeq(q, 2, n)
    BY <2>4, <2>5, <2>6, ConcatEmptySeq
  <2>8. ASSUME NEW k \in 1..(n - 1) PROVE pending'[k] = sent - (n - 1) + k
    <3>1. k + 1 \in 1..n /\ pending'[k] = q[k + 1]
      BY <1>2, <2>6, <2>7
    <3>2. q[k + 1] = sent - n + (k + 1)
      BY <1>3, <3>1
    <3>3. QED
      BY <1>2, <3>1, <3>2
  <2>9. run = 0
    BY <1>2, <1>3, <2>3
  <2>10. Len(pending') = n - 1 /\ n - 1 <= Window
    BY <1>2, <1>3, <2>6, <2>7
  <2>11. QED
    BY <2>1, <2>8, <2>9, <2>10 DEF NoGap
<1>7. CASE CMD_Init
  <2>1. ~up /\ UNCHANGED <<sent, pending, last, run>>
    BY <1>7 DEF CMD_Init, PowerUp, linkVars
  <2>2. run = 0
    BY <1>2, <1>3, <2>1
  <2>3. QED
    BY <1>1, <1>2, <1>3, <2>1, <2>2 DEF NoGap
<1>8. CASE Restart
  <2>1. pending' = <<>> /\ run' = 0
    BY <1>8 DEF Restart, ParserReset, Reset
  <2>2. Len(pending') = 0
    BY <2>1, EmptySeq
  <2>3. QED
    BY <1>2, <2>1, <2>2 DEF NoGap
<1>9. QED
  BY <1>4, <1>5, <1>6, <1>7, <1>8

\* The next byte follows the last one, unless it is the first since a reset.
LEMMA DeliversNext ==
  ASSUME IInv, NoGap, ParseByte
  PROVE  NoGap' /\ run' > 0 /\ (run > 0 => last' = last + 1 /\ run' = run + 1)
<1>1. PICK q, n, S : q = pending /\ n = Len(pending) /\ S = 1..sent
  OBVIOUS
<1>2. /\ sent \in Nat /\ last \in Nat /\ run \in Nat /\ q \in Seq(S) /\ n \in Nat /\ n = Len(q)
      /\ Window \in Nat
  BY <1>1, LinkAssumption DEF IInv, Types
<1>3. /\ n <= Window /\ \A k \in 1..n : q[k] = sent - n + k
      /\ run > 0 => up /\ last = sent - n
  BY <1>1 DEF NoGap
<1>4. /\ up' /\ q # <<>> /\ last' = Head(q) /\ pending' = Tail(q) /\ sent' = sent
      /\ run' = IF run > 0 /\ last' = last + 1 THEN run + 1 ELSE 1
  BY <1>1 DEF ParseByte, TakeByte, Deliver
<1>5. /\ n # 0 /\ last' = q[1] /\ Len(pending') = n - 1
      /\ \A k \in 1..(n - 1) : pending'[k] = q[k + 1]
  BY <1>2, <1>4
<1>6. last' = sent - n + 1 /\ sent - n + 1 = sent - (n - 1)
  <2>1. 1 \in 1..n
    BY <1>2, <1>5
  <2>2. QED
    BY <1>2, <1>3, <1>5, <2>1
<1>7. ASSUME NEW k \in 1..(n - 1) PROVE pending'[k] = sent - (n - 1) + k
  <2>1. k + 1 \in 1..n /\ pending'[k] = q[k + 1]
    BY <1>2, <1>5
  <2>2. q[k + 1] = sent - n + (k + 1)
    BY <1>3, <2>1
  <2>3. QED
    BY <1>2, <2>1, <2>2
<1>8. run' > 0 /\ (run > 0 => last' = last + 1 /\ run' = run + 1)
  BY <1>2, <1>3, <1>4, <1>6
<1>9. n - 1 <= Window
  BY <1>2, <1>3
<1>10. NoGap'
  BY <1>4, <1>5, <1>6, <1>7, <1>9 DEF NoGap
<1>11. QED
  BY <1>8, <1>10

\* Behind the END of a frame comes the START of the next one.
LEMMA StartFollows ==
  ASSUME Types, Layout, NEW i \in DOMAIN packets, frameEnd[i] + 1 \in 1..Len(wire)
  PROVE  wire[frameEnd[i] + 1] = START
<1>1. PICK m : m = Len(packets)
  OBVIOUS
<1>2. m \in Nat /\ DOMAIN packets = 1..m /\ Len(wire) \in Nat /\ frameEnd[i] \in Nat
  BY <1>1, FrameBounds DEF Types
<1>3. i # m
  <2>1. packets # <<>>
    OBVIOUS
  <2>2. Len(wire) = frameEnd[m]
    BY <1>1, <2>1 DEF Layout
  <2>3. QED
    BY <1>2, <2>2
<1>4. i + 1 \in 1..m /\ i + 1 # 1 /\ (i + 1) - 1 = i
  BY <1>2, <1>3
<1>5. FrameStart(i + 1) = frameEnd[i] + 1
  BY <1>4 DEF FrameStart
<1>6. wire[FrameStart(i + 1)] = START
  BY <1>2, <1>4, FrameOnWire
<1>7. QED
  BY <1>5, <1>6

\* The frame of a byte on the line.
LEMMA FrameOf ==
  ASSUME WholeInv, ParseByte
  PROVE  \E i \in DOMAIN packets :
           /\ FrameStart(i) \in Nat \ {0} /\ frameEnd[i] \in Nat /\ FrameStart(i) < frameEnd[i]
           /\ FrameStart(i) <= last' /\ last' <= frameEnd[i]
           /\ wire[last'] = START <=> last' = FrameStart(i)
           /\ wire[last'] = END <=> last' = frameEnd[i]
<1>1. last' \in 1..Len(wire)
  BY ByteSent DEF WholeInv, IInv
<1>2. PICK i \in DOMAIN packets : last' \in FrameStart(i)..frameEnd[i]
  BY <1>1 DEF WholeInv, Layout
<1>3. FrameStart(i) \in Nat \ {0} /\ frameEnd[i] \in Nat /\ FrameStart(i) < frameEnd[i]
  BY FrameBounds DEF WholeInv, IInv
<1>4. /\ wire[last'] = START <=> last' = FrameStart(i)
      /\ wire[last'] = END <=> last' = frameEnd[i]
  BY <1>2, MarkerCells DEF WholeInv, IInv
<1>5. QED
  BY <1>2, <1>3, <1>4

\* What the parser takes while a frame is open belongs to that frame.
LEMMA OpenFrame ==
  ASSUME WindowInv, ParseByte, NEW i \in DOMAIN packets, Inside(i)
  PROVE  /\ FrameStart(i) < last' /\ last' <= frameEnd[i] /\ run' >= last' + 1 - FrameStart(i)
         /\ wire[last'] # START
         /\ wire[last'] = END <=> last' = frameEnd[i]
<1>1. /\ FrameStart(i) \in Nat \ {0} /\ frameEnd[i] \in Nat /\ last \in Nat /\ run \in Nat
  BY FrameBounds DEF WindowInv, WholeInv, IInv, Types
<1>2. run > 0
  BY <1>1 DEF Inside
<1>3. last' = last + 1 /\ run' = run + 1
  BY <1>2, DeliversNext DEF WindowInv, WholeInv
<1>4. /\ FrameStart(i) < last' /\ last' <= frameEnd[i] /\ run' >= last' + 1 - FrameStart(i)
  BY <1>1, <1>3 DEF Inside
<1>5. last' \in FrameStart(i)..frameEnd[i] /\ last' # FrameStart(i)
  BY <1>1, <1>3, <1>4
<1>6. QED
  BY <1>4, <1>5, MarkerCells DEF WindowInv, WholeInv, IInv

\* Outside a frame the parser sees a START, or the buffer is still empty.
LEMMA ClosedFrame ==
  ASSUME WindowInv, ParseByte, ~isBegin, wire[last'] # START
  PROVE  protoRxBuf = ZeroBuf
<1>1. CASE run = 0
  BY <1>1 DEF WindowInv, OpenInv
<1>2. CASE run # 0 /\ protoRxBuf # ZeroBuf
  <2>1. PICK i \in DOMAIN packets : last = frameEnd[i]
    BY <1>2 DEF WindowInv, OpenInv
  <2>2. run > 0
    BY <1>2 DEF WindowInv, WholeInv, IInv, Types
  <2>3. last' = frameEnd[i] + 1 /\ last' \in 1..Len(wire)
    BY <2>1, <2>2, DeliversNext, ByteSent DEF WindowInv, WholeInv, IInv
  <2>4. QED
    BY <2>3, StartFollows DEF WindowInv, WholeInv, IInv
<1>3. QED
  BY <1>1, <1>2

LEMMA ParseKeepsOpen ==
  ASSUME WindowInv, ParseByte
  PROVE  OpenInv'
<1>1. UNCHANGED <<packets, wire, frameEnd>> /\ PROTO_ParseByte(wire[last'])
  BY DEF ParseByte, TakeByte, host
<1>2. \A i \in DOMAIN packets : FrameStart(i)' = FrameStart(i)
  BY <1>1 DEF FrameStart
<1>3. run' > 0 /\ run' # 0
  BY DeliversNext DEF WindowInv, WholeInv
<1>4. PICK i \in DOMAIN packets :
        /\ FrameStart(i) \in Nat \ {0} /\ frameEnd[i] \in Nat /\ FrameStart(i) < frameEnd[i]
        /\ FrameStart(i) <= last' /\ last' <= frameEnd[i]
        /\ wire[last'] = START <=> last' = FrameStart(i)
        /\ wire[last'] = END <=> last' = frameEnd[i]
  BY FrameOf DEF WindowInv
<1>5. CASE ParseStart(wire[last'])
  <2>1. isBegin' = TRUE /\ last' = FrameStart(i)
    BY <1>4, <1>5 DEF ParseStart
  <2>2. run' >= last' + 1 - FrameStart(i)
    <3>1. run' \in Nat
      BY DEF WindowInv, WholeInv, IInv, Types, ParseByte, TakeByte
    <3>2. QED
      BY <1>3, <1>4, <2>1, <3>1
  <2>3. Inside(i)'
    BY <1>1, <1>2, <1>4, <2>1, <2>2 DEF Inside
  <2>4. QED
    BY <1>1, <1>3, <2>1, <2>3 DEF OpenInv
<1>6. CASE ParseEnd(wire[last'])
  <2>1. isBegin' = FALSE /\ last' = frameEnd[i]
    BY <1>4, <1>6 DEF ParseEnd
  <2>2. QED
    BY <1>1, <1>3, <2>1 DEF OpenInv
<1>7. CASE ParseData(wire[last'])
  <2>1. wire[last'] # START /\ wire[last'] # END /\ isBegin' = isBegin
    BY <1>7 DEF ParseData
  <2>2. CASE isBegin
    <3>1. PICK k \in DOMAIN packets : Inside(k)
      BY <2>2 DEF WindowInv, OpenInv
    <3>2. /\ FrameStart(k) < last' /\ last' <= frameEnd[k] /\ last' # frameEnd[k]
          /\ run' >= last' + 1 - FrameStart(k)
      BY <2>1, <3>1, OpenFrame
    <3>3. FrameStart(k) \in Nat /\ last' \in Nat /\ frameEnd[k] \in Nat
      BY FrameBounds, ByteSent DEF WindowInv, WholeInv, IInv
    <3>4. Inside(k)'
      BY <1>1, <1>2, <3>2, <3>3 DEF Inside
    <3>5. QED
      BY <1>1, <1>3, <2>1, <2>2, <3>4 DEF OpenInv
  <2>3. CASE ~isBegin
    <3>1. protoRxBuf' = protoRxBuf
      BY <1>7, <2>3 DEF ParseData
    <3>2. protoRxBuf = ZeroBuf
      BY <2>1, <2>3, ClosedFrame
    <3>3. isBegin' # TRUE /\ ~isBegin'
      BY <2>1, <2>3
    <3>4. ZeroBuf' = ZeroBuf
      BY DEF ZeroBuf
    <3>5. QED
      BY <1>1, <1>3, <3>1, <3>2, <3>3, <3>4 DEF OpenInv
  <2>4. QED
    BY <2>2, <2>3
<1>8. QED
  BY <1>1, <1>5, <1>6, <1>7 DEF PROTO_ParseByte

LEMMA OthersKeepOpen ==
  ASSUME WindowInv,
         HostCommand \/ HostByte \/ LineLoss \/ CMD_Init \/ Restart \/ UNCHANGED vars
  PROVE  OpenInv'
<1>1. CASE HostCommand
  <2>1. UNCHANGED <<isBegin, protoRxBuf, last, run>>
    BY <1>1 DEF HostCommand, lineVars, parser
  <2>2. \A i \in DOMAIN packets : /\ frameEnd'[i] = frameEnd[i]
                                  /\ FrameStart(i)' = FrameStart(i)
    BY <1>1, LayoutGrows DEF WindowInv, WholeInv, IInv
  <2>3. \A i \in DOMAIN packets : i \in DOMAIN packets'
    BY <1>1, LayoutGrows DEF WindowInv, WholeInv, IInv
  <2>4. \A i \in DOMAIN packets : Inside(i) => Inside(i)'
    BY <2>1, <2>2 DEF Inside
  <2>5. ZeroBuf' = ZeroBuf
    BY DEF ZeroBuf
  <2>6. QED
    BY <2>1, <2>2, <2>3, <2>4, <2>5 DEF WindowInv, OpenInv
<1>2. CASE HostByte \/ LineLoss \/ CMD_Init \/ UNCHANGED vars
  <2>1. UNCHANGED <<packets, frameEnd, isBegin, protoRxBuf, last, run>>
    BY <1>2 DEF HostByte, Send, LineLoss, Lose, CMD_Init, PowerUp, vars, lineVars, linkVars, host
  <2>2. QED
    BY <2>1 DEF WindowInv, OpenInv, Inside, FrameStart, ZeroBuf
<1>3. CASE Restart
  BY <1>3 DEF Restart, ParserReset, OpenInv, ZeroBuf
<1>4. QED
  BY <1>1, <1>2, <1>3

\* An empty buffer has no checksum.
LEMMA ZeroNeverMatches ==
  ASSUME Types, protoRxBuf = ZeroBuf
  PROVE  ~CrcMatches
<1>1. ASSUME NEW k \in Nat \ {0} PROVE CellAt(k) = Num(0)
  BY LinkAssumption DEF CellAt, ZeroBuf
<1>2. DataPtr[Argc] \in Nat \ {0}
  BY BufferCells, ReceivedType
<1>3. CellAt(DataPtr[Argc]) = Num(0)
  BY <1>1, <1>2
<1>4. QED
  BY <1>3, CellTypes DEF CrcMatches

\* Nothing is executed but at the END of a frame that has come as a whole.
LEMMA DamagedStep ==
  ASSUME WindowInv, ParseByte, executed' # executed
  PROVE  \E i \in DOMAIN packets : Closes(last', i) /\ Whole(i, run')
<1>1. ParseEnd(wire[last']) /\ CrcMatches /\ wire[last'] = END
  BY DEF ParseByte, TakeByte, PROTO_ParseByte, ParseStart, ParseEnd, ParseData, protoCompletedCb, Unexecuted
<1>2. isBegin
  <2>1. wire[last'] # START
    BY <1>1, CellTypes
  <2>2. QED
    BY <1>1, <2>1, ClosedFrame, ZeroNeverMatches DEF WindowInv, WholeInv, IInv
<1>3. PICK i \in DOMAIN packets : Inside(i)
  BY <1>2 DEF WindowInv, OpenInv
<1>4. last' = frameEnd[i] /\ run' >= last' + 1 - FrameStart(i)
  BY <1>1, <1>3, OpenFrame
<1>5. QED
  BY <1>4 DEF Closes, Whole, FrameLen

\* With a window that rxBuf holds nothing is lost but by a reset, so whatever
\* cuts a frame in two, the chip executes a command only at the END of its
\* frame and only when every byte of it has come (protoCompletedCb, CMD_Init).
THEOREM DamagedIgnored ==
  ASSUME Window <= Capacity
  PROVE  Spec => DamagedFrameIgnored
<1>1. Init => NoGap /\ OpenInv
  <2> SUFFICES ASSUME Init PROVE NoGap /\ OpenInv
    OBVIOUS
  <2>1. Len(pending) = 0 /\ Window \in Nat
    BY EmptySeq, LinkAssumption DEF Init, LineInit
  <2>2. QED
    BY <2>1 DEF Init, LineInit, NoGap, OpenInv
<1>2. WholeInv /\ (NoGap /\ OpenInv) /\ [Next]_vars => (NoGap /\ OpenInv)'
  <2> SUFFICES ASSUME WindowInv, [Next]_vars PROVE NoGap' /\ OpenInv'
    BY DEF WindowInv
  <2>1. CASE ParseByte
    BY <2>1, DeliversNext, ParseKeepsOpen DEF WindowInv, WholeInv
  <2>2. CASE HostCommand \/ HostByte \/ LineLoss \/ CMD_Init \/ Restart \/ UNCHANGED vars
    BY <2>2, LineKeepsNoGap, OthersKeepOpen DEF WindowInv, WholeInv
  <2>3. QED
    BY <2>1, <2>2 DEF Next
<1>3. WholeInv /\ (NoGap /\ OpenInv) /\ [Next]_vars =>
        [executed' # executed =>
           \E i \in DOMAIN packets : Closes(last', i) /\ Whole(i, run')]_vars
  <2> SUFFICES ASSUME WindowInv, Next, executed' # executed
               PROVE  \E i \in DOMAIN packets : Closes(last', i) /\ Whole(i, run')
    BY DEF WindowInv
  <2>1. ParseByte
    BY DEF Next, HostCommand, HostByte, LineLoss, CMD_Init, Restart, ParserReset, linkVars
  <2>2. QED
    BY <2>1, DamagedStep
<1>4. QED
  BY <1>1, <1>2, <1>3, WholeInvInductive, PTL DEF Spec, DamagedFrameIgnored
=============================================================================
