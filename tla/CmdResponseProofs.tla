------------------------- MODULE CmdResponseProofs -------------------------
(***************************************************************************)
(* Proofs about the response writer: the arithmetic of CMD_ResponseBody    *)
(* for every length and every range of its 16-bit counters, and what the   *)
(* host reads, for responses and log lines of every content and length.    *)
(***************************************************************************)
EXTENDS CmdResponse, SequenceLemmas

\* The padding of an argument: below the top four values of its range, the
\* length CMD_ResponseBody sends is the next multiple of 4, and the zeros it
\* appends are exactly what the data lack to it.
THEOREM PadLenCorrect ==
  ASSUME NEW len \in Nat, len <= LenRange - 4
  PROVE  /\ PadLen(len) % 4 = 0
         /\ PadLen(len) - len \in 0..3
         /\ Zeros(len) = PadLen(len) - len
<1>1. PICK n \in 1..16384 : LenRange = 4 * n
  BY ResponseBoundsAssumption, SMTT(30)
<1>2. PICK q \in Nat, m \in 0..3 : len = 4 * q + m
  <2>1. len = 4 * (len \div 4) + (len % 4) /\ len % 4 \in 0..3 /\ len \div 4 \in Nat
    OBVIOUS
  <2>2. QED
    BY <2>1
<1>3. len % 4 = m
  BY <1>2
<1>4. CASE m = 0
  <2>1. PadLen(len) = (len + 0) % LenRange
    BY <1>3, <1>4 DEF PadLen
  <2>2. PadLen(len) = len
    BY <1>1, <2>1
  <2>3. QED
    BY <1>3, <1>4, <2>2 DEF Zeros
<1>5. CASE m # 0
  <2>1. (4 - m) % 4 = 4 - m
    BY <1>5
  <2>2. PadLen(len) = (4 * (q + 1)) % LenRange
    BY <1>2, <1>3, <2>1 DEF PadLen
  <2>3. 4 * (q + 1) < LenRange
    BY <1>1, <1>2, <1>5
  <2>4. PadLen(len) = 4 * (q + 1)
    BY <1>1, <2>2, <2>3
  <2>5. QED
    BY <1>2, <1>5, <2>4 DEF Zeros
<1>6. QED
  BY <1>4, <1>5

\* At the top of the range the 16-bit counter wraps to 0: the length sent is
\* 0 and the data follow it unannounced.  CMD_ResponseBody relies on its
\* callers' bodies being shorter.
THEOREM PadLenWraps ==
  ASSUME NEW len \in Nat, len > LenRange - 4, len < LenRange
  PROVE  PadLen(len) = 0
<1>1. PICK n \in 1..16384 : LenRange = 4 * n
  BY ResponseBoundsAssumption, SMTT(30)
<1>2. PICK m \in 1..3 : len = 4 * (n - 1) + m
  <2>1. len - 4 * (n - 1) \in 1..3
    BY <1>1
  <2>2. QED
    BY <2>1
<1>3. len % 4 = m
  BY <1>2
<1>4. (4 - m) % 4 = 4 - m
  OBVIOUS
<1>5. len + (4 - m) = LenRange
  BY <1>1, <1>2
<1>6. LenRange % LenRange = 0
  BY <1>1
<1>7. QED
  BY <1>3, <1>4, <1>5, <1>6 DEF PadLen

-----------------------------------------------------------------------------
(* The host as a function of what it reads. *)

HostStates ==
  [in : BOOLEAN, esc : BOOLEAN, buf : Seq(Byte), got : Seq(Seq(Byte))]

Host == [in |-> inFrame, esc |-> escaped, buf |-> hostBuf, got |-> frames]

HostStep(s, x) ==
  LET b == x.byte
  IN IF b = SLIP_START THEN [in |-> TRUE, esc |-> FALSE, buf |-> <<>>, got |-> s.got]
     ELSE IF b = SLIP_END
       THEN [in |-> FALSE, esc |-> s.esc, buf |-> s.buf,
             got |-> IF s.in /\ ~x.log THEN Append(s.got, s.buf) ELSE s.got]
     ELSE IF b = SLIP_REPL THEN [in |-> s.in, esc |-> TRUE, buf |-> s.buf, got |-> s.got]
     ELSE [in |-> s.in, esc |-> s.esc /\ ~s.in,
           buf |-> IF s.in THEN Append(s.buf, IF s.esc THEN SLIP_ESC(b) ELSE b) ELSE s.buf,
           got |-> s.got]

\* h[k] is the state of the host after k bytes of stream.
Readings(h, s, stream) ==
  /\ DOMAIN h = 0..Len(stream)
  /\ h[0] = s
  /\ \A k \in 1..Len(stream) : h[k] = HostStep(h[k - 1], stream[k])

\* From state s the host gets to state t by reading stream.
Reads(s, stream, t) == \E h : Readings(h, s, stream) /\ h[Len(stream)] = t

LEMMA EscType ==
  /\ \A b \in Byte : SLIP_ESC(b) \in Byte
  /\ \A b \in {SLIP_START, SLIP_END, SLIP_REPL} :
       SLIP_ESC(b) \notin {SLIP_START, SLIP_END, SLIP_REPL} /\ SLIP_ESC(SLIP_ESC(b)) = b
<1>1. ASSUME NEW b \in Byte PROVE SLIP_ESC(b) \in Byte
  <2>1. PICK q, m : q = b \div 32 /\ m = b % 32
    OBVIOUS
  <2>2. b \in 0..255 /\ q \in 0..7 /\ m \in 0..31 /\ b = 32 * q + m
    BY <2>1 DEF Byte
  <2>3. CASE q % 2 = 0
    <3>1. q # 7
      BY <2>3
    <3>2. b + 32 \in 0..255
      BY <2>2, <3>1
    <3>3. QED
      BY <2>1, <2>3, <3>2 DEF SLIP_ESC, Byte
  <2>4. CASE q % 2 # 0
    <3>1. q # 0
      BY <2>4
    <3>2. b - 32 \in 0..255
      BY <2>2, <3>1
    <3>3. QED
      BY <2>1, <2>4, <3>2 DEF SLIP_ESC, Byte
  <2>5. QED
    BY <2>3, <2>4
<1>2. /\ SLIP_ESC(126) = 94 /\ SLIP_ESC(127) = 95 /\ SLIP_ESC(125) = 93
      /\ SLIP_ESC(94) = 126 /\ SLIP_ESC(95) = 127 /\ SLIP_ESC(93) = 125
  BY DEF SLIP_ESC
<1>3. QED
  BY <1>1, <1>2 DEF SLIP_START, SLIP_END, SLIP_REPL

LEMMA StepType ==
  ASSUME NEW s \in HostStates, NEW x \in Item
  PROVE  /\ HostStep(s, x) \in HostStates
         /\ Len(s.got) <= Len(HostStep(s, x).got)
         /\ \A i \in 1..Len(s.got) : HostStep(s, x).got[i] = s.got[i]
<1>1. PICK b : b = x.byte
  OBVIOUS
<1>2. b \in Byte /\ x.log \in BOOLEAN
  BY <1>1 DEF Item
<1>3. /\ s.in \in BOOLEAN /\ s.esc \in BOOLEAN /\ s.buf \in Seq(Byte)
      /\ s.got \in Seq(Seq(Byte)) /\ Len(s.got) \in Nat
  BY DEF HostStates
<1>4. CASE b = SLIP_START
  <2>1. HostStep(s, x) = [in |-> TRUE, esc |-> FALSE, buf |-> <<>>, got |-> s.got]
    BY <1>1, <1>4 DEF HostStep
  <2>2. QED
    BY <1>3, <2>1, EmptySeq DEF HostStates
<1>5. CASE b # SLIP_START /\ b = SLIP_END
  <2>1. PICK g : g = IF s.in /\ ~x.log THEN Append(s.got, s.buf) ELSE s.got
    OBVIOUS
  <2>2. /\ g \in Seq(Seq(Byte)) /\ Len(s.got) <= Len(g)
        /\ \A i \in 1..Len(s.got) : g[i] = s.got[i]
    <3>1. CASE s.in /\ ~x.log
      BY <1>3, <2>1, <3>1
    <3>2. CASE ~(s.in /\ ~x.log)
      BY <1>3, <2>1, <3>2
    <3>3. QED
      BY <3>1, <3>2
  <2>3. HostStep(s, x) = [in |-> FALSE, esc |-> s.esc, buf |-> s.buf, got |-> g]
    BY <1>1, <1>5, <2>1 DEF HostStep
  <2>4. QED
    BY <1>3, <2>2, <2>3 DEF HostStates
<1>6. CASE b \notin {SLIP_START, SLIP_END} /\ b = SLIP_REPL
  <2>1. HostStep(s, x) = [in |-> s.in, esc |-> TRUE, buf |-> s.buf, got |-> s.got]
    BY <1>1, <1>6 DEF HostStep
  <2>2. QED
    BY <1>3, <2>1 DEF HostStates
<1>7. CASE b \notin {SLIP_START, SLIP_END, SLIP_REPL}
  <2>1. PICK n : n = IF s.in THEN Append(s.buf, IF s.esc THEN SLIP_ESC(b) ELSE b) ELSE s.buf
    OBVIOUS
  <2>2. n \in Seq(Byte)
    <3>1. (IF s.esc THEN SLIP_ESC(b) ELSE b) \in Byte
      BY <1>2, EscType
    <3>2. QED
      BY <1>3, <2>1, <3>1
  <2>3. HostStep(s, x) = [in |-> s.in, esc |-> s.esc /\ ~s.in, buf |-> n, got |-> s.got]
    BY <1>1, <1>7, <2>1 DEF HostStep
  <2>4. QED
    BY <1>3, <2>2, <2>3 DEF HostStates
<1>8. QED
  BY <1>4, <1>5, <1>6, <1>7

LEMMA ReadsNothing ==
  ASSUME NEW s
  PROVE  Reads(s, <<>>, s)
<1> DEFINE h == [k \in 0..0 |-> s]
<1>1. Len(<<>>) = 0
  BY EmptySeq
<1>2. DOMAIN h = 0..0 /\ h[0] = s
  OBVIOUS
<1> HIDE DEF h
<1>3. Readings(h, s, <<>>)
  BY <1>1, <1>2 DEF Readings
<1>4. QED
  BY <1>1, <1>2, <1>3 DEF Reads

\* One byte.
LEMMA ReadsByte ==
  ASSUME NEW s, NEW b
  PROVE  Reads(s, <<b>>, HostStep(s, b))
<1> DEFINE h == [k \in 0..1 |-> IF k = 0 THEN s ELSE HostStep(s, b)]
<1>1. Len(<<b>>) = 1 /\ <<b>>[1] = b
  OBVIOUS
<1>2. DOMAIN h = 0..1 /\ h[0] = s /\ h[1] = HostStep(s, b)
  OBVIOUS
<1> HIDE DEF h
<1>3. Readings(h, s, <<b>>)
  <2>1. \A k \in 1..1 : h[k] = HostStep(h[k - 1], <<b>>[k])
    BY <1>1, <1>2
  <2>2. QED
    BY <1>1, <1>2, <2>1 DEF Readings
<1>4. QED
  BY <1>1, <1>2, <1>3 DEF Reads

\* One stream after the other.
LEMMA ReadsBoth ==
  ASSUME NEW S, NEW x \in Seq(S), NEW y \in Seq(S),
         NEW s, NEW t, NEW u, Reads(s, x, t), Reads(t, y, u)
  PROVE  Reads(s, x \o y, u)
<1>1. PICK f, g, m, n, z : /\ Readings(f, s, x) /\ f[Len(x)] = t
                           /\ Readings(g, t, y) /\ g[Len(y)] = u
                           /\ m = Len(x) /\ n = Len(y) /\ z = x \o y
  BY DEF Reads
<1>2. /\ m \in Nat /\ n \in Nat /\ Len(z) = m + n
      /\ \A k \in 1..m : z[k] = x[k]
      /\ \A k \in 1..n : z[m + k] = y[k]
  BY <1>1
<1>3. /\ DOMAIN f = 0..m /\ f[0] = s /\ f[m] = t
      /\ \A k \in 1..m : f[k] = HostStep(f[k - 1], x[k])
  BY <1>1 DEF Readings
<1>4. /\ DOMAIN g = 0..n /\ g[0] = t /\ g[n] = u
      /\ \A k \in 1..n : g[k] = HostStep(g[k - 1], y[k])
  BY <1>1 DEF Readings
<1> DEFINE h == [k \in 0..(m + n) |-> IF k <= m THEN f[k] ELSE g[k - m]]
<1>5. /\ DOMAIN h = 0..(m + n)
      /\ \A k \in 0..m : h[k] = f[k]
      /\ \A k \in 0..n : h[m + k] = g[k]
  <2>1. \A k \in 0..m : h[k] = f[k]
    BY <1>2
  <2>2. \A c \in 0..(m + n) : ~(c <= m) => h[c] = g[c - m]
    OBVIOUS
  <2>3. ASSUME NEW k \in 0..n PROVE h[m + k] = g[k]
    <3>1. CASE k = 0
      BY <1>2, <1>3, <1>4, <3>1
    <3>2. CASE k # 0
      <4>1. PICK c : c = m + k
        OBVIOUS
      <4>2. c \in 0..(m + n) /\ ~(c <= m) /\ c - m = k
        BY <1>2, <3>2, <4>1
      <4>3. h[c] = g[c - m]
        BY <2>2, <4>2
      <4>4. QED
        BY <4>1, <4>2, <4>3
    <3>3. QED
      BY <3>1, <3>2
  <2>4. QED
    BY <2>1, <2>3
<1> HIDE DEF h
<1>6. ASSUME NEW k \in 1..(m + n) PROVE h[k] = HostStep(h[k - 1], z[k])
  <2>1. CASE k <= m
    <3>1. k \in 1..m /\ k - 1 \in 0..m /\ k \in 0..m
      BY <1>2, <2>1
    <3>2. h[k] = f[k] /\ h[k - 1] = f[k - 1] /\ z[k] = x[k]
      BY <1>2, <1>5, <3>1
    <3>3. f[k] = HostStep(f[k - 1], x[k])
      BY <1>3, <3>1
    <3>4. QED
      BY <3>2, <3>3
  <2>2. CASE ~(k <= m)
    <3>1. PICK j : j = k - m
      OBVIOUS
    <3>2. j \in 1..n /\ j \in 0..n /\ j - 1 \in 0..n /\ k = m + j /\ k - 1 = m + (j - 1)
      BY <1>2, <2>2, <3>1
    <3>3. h[k] = g[j] /\ h[k - 1] = g[j - 1] /\ z[k] = y[j]
      BY <1>2, <1>5, <3>2
    <3>4. g[j] = HostStep(g[j - 1], y[j])
      BY <1>4, <3>2
    <3>5. QED
      BY <3>3, <3>4
  <2>3. QED
    BY <2>1, <2>2
<1>7. h[0] = s /\ h[m + n] = u
  <2>1. 0 \in 0..m /\ n \in 0..n
    BY <1>2
  <2>2. QED
    BY <1>3, <1>4, <1>5, <2>1
<1>8. Readings(h, s, z) /\ h[Len(z)] = u
  BY <1>2, <1>5, <1>6, <1>7 DEF Readings
<1>9. QED
  BY <1>1, <1>8 DEF Reads

\* The first byte, and then the others.
LEMMA ReadsFirst ==
  ASSUME NEW S, NEW x \in Seq(S), x # <<>>, NEW s, NEW t, Reads(s, x, t)
  PROVE  Reads(HostStep(s, Head(x)), Tail(x), t)
<1>1. PICK h, n, y : Readings(h, s, x) /\ h[Len(x)] = t /\ n = Len(x) /\ y = Tail(x)
  BY DEF Reads
<1>2. /\ n \in Nat \ {0} /\ Len(y) = n - 1 /\ Head(x) = x[1]
      /\ \A k \in 1..(n - 1) : y[k] = x[k + 1]
  BY <1>1, EmptySeq
<1>3. /\ DOMAIN h = 0..n /\ h[0] = s /\ h[n] = t
      /\ \A k \in 1..n : h[k] = HostStep(h[k - 1], x[k])
  BY <1>1 DEF Readings
<1> DEFINE g == [k \in 0..(n - 1) |-> h[k + 1]]
<1>4. DOMAIN g = 0..(n - 1) /\ \A k \in 0..(n - 1) : g[k] = h[k + 1]
  OBVIOUS
<1> HIDE DEF g
<1>5. g[0] = HostStep(s, Head(x)) /\ g[n - 1] = t
  <2>1. 0 \in 0..(n - 1) /\ n - 1 \in 0..(n - 1) /\ n - 1 + 1 = n /\ 0 + 1 = 1 /\ 1 \in 1..n
        /\ 1 - 1 = 0
    BY <1>2
  <2>2. g[0] = h[1] /\ g[n - 1] = h[n]
    BY <1>4, <2>1
  <2>3. h[1] = HostStep(h[0], x[1])
    BY <1>3, <2>1
  <2>4. QED
    BY <1>2, <1>3, <2>2, <2>3
<1>6. ASSUME NEW k \in 1..(n - 1) PROVE g[k] = HostStep(g[k - 1], y[k])
  <2>1. k \in 0..(n - 1) /\ k - 1 \in 0..(n - 1) /\ k - 1 + 1 = k /\ k + 1 \in 1..n /\ k + 1 - 1 = k
    BY <1>2
  <2>2. g[k] = h[k + 1] /\ g[k - 1] = h[k] /\ y[k] = x[k + 1]
    BY <1>2, <1>4, <2>1
  <2>3. h[k + 1] = HostStep(h[k + 1 - 1], x[k + 1])
    BY <1>3, <2>1
  <2>4. QED
    BY <2>1, <2>2, <2>3, Zenon
<1>7. Readings(g, HostStep(s, Head(x)), y) /\ g[Len(y)] = t
  BY <1>2, <1>4, <1>5, <1>6 DEF Readings
<1>8. QED
  BY <1>1, <1>7 DEF Reads

\* Frames once received stay.
LEMMA ReadsGrows ==
  ASSUME NEW s \in HostStates, NEW x \in Seq(Item), NEW t, Reads(s, x, t)
  PROVE  /\ t \in HostStates /\ Len(s.got) <= Len(t.got)
         /\ \A i \in 1..Len(s.got) : t.got[i] = s.got[i]
<1>1. PICK h, n : Readings(h, s, x) /\ h[Len(x)] = t /\ n = Len(x)
  BY DEF Reads
<1>2. n \in Nat /\ \A k \in 1..n : x[k] \in Item
  BY <1>1
<1>3. /\ h[0] = s /\ h[n] = t
      /\ \A k \in 1..n : h[k] = HostStep(h[k - 1], x[k])
  BY <1>1 DEF Readings
<1> DEFINE Grown(u) == /\ u \in HostStates /\ Len(s.got) <= Len(u.got)
                       /\ \A i \in 1..Len(s.got) : u.got[i] = s.got[i]
           K == {k \in Nat : k \in 0..n => Grown(h[k])}
<1>4. Len(s.got) \in Nat
  BY DEF HostStates
<1>5. 0 \in K
  BY <1>3, <1>4
<1>6. ASSUME NEW k \in Nat, k \in K PROVE k + 1 \in K
  <2> SUFFICES ASSUME k + 1 \in 0..n PROVE Grown(h[k + 1])
    OBVIOUS
  <2>1. Grown(h[k]) /\ k + 1 \in 1..n /\ k + 1 - 1 = k
    BY <1>2, <1>6
  <2>2. PICK u, v : u = h[k] /\ v = h[k + 1]
    OBVIOUS
  <2>3. v = HostStep(u, x[k + 1]) /\ x[k + 1] \in Item
    BY <1>2, <1>3, <2>1, <2>2
  <2>4. /\ v \in HostStates /\ Len(u.got) <= Len(v.got)
        /\ \A i \in 1..Len(u.got) : v.got[i] = u.got[i]
    <3>1. u \in HostStates
      BY <2>1, <2>2
    <3>2. PICK b : b = x[k + 1]
      OBVIOUS
    <3>3. v = HostStep(u, b) /\ b \in Item
      BY <2>3, <3>2
    <3>4. QED
      BY <3>1, <3>3, StepType, Zenon
  <2>5. Len(u.got) \in Nat /\ Len(v.got) \in Nat
    BY <2>1, <2>2, <2>4 DEF HostStates
  <2>6. Grown(v)
    <3>1. Len(s.got) <= Len(u.got) /\ \A i \in 1..Len(s.got) : u.got[i] = s.got[i]
      BY <2>1, <2>2
    <3>2. Len(s.got) <= Len(v.got)
      BY <1>4, <2>4, <2>5, <3>1
    <3>3. \A i \in 1..Len(s.got) : i \in 1..Len(u.got)
      BY <1>4, <2>5, <3>1
    <3>4. \A i \in 1..Len(s.got) : v.got[i] = s.got[i]
      BY <2>4, <3>1, <3>3, Zenon
    <3>5. QED
      BY <2>4, <3>2, <3>4
  <2>7. QED
    BY <2>2, <2>6
<1>7. Nat \subseteq K
  <2> HIDE DEF K
  <2>1. QED
    BY <1>5, <1>6, NumberInduction
<1>8. QED
  BY <1>2, <1>3, <1>7

-----------------------------------------------------------------------------
(* What the host makes of a response. *)

\* The host reads a writer's bytes, or what the log prints.
Plain(b) == [byte |-> b, log |-> FALSE]
Sends(s, bytes, t) == Reads(s, Tagged(bytes, FALSE), t)

LEMMA TaggedType ==
  ASSUME NEW x \in Seq(Byte), NEW log \in BOOLEAN, NEW w, w = Tagged(x, log)
  PROVE  /\ w \in Seq(Item) /\ Len(w) = Len(x)
         /\ \A i \in 1..Len(x) : w[i] = [byte |-> x[i], log |-> log]
<1>1. PICK n : n = Len(x)
  OBVIOUS
<1>2. n \in Nat /\ DOMAIN x = 1..n /\ \A i \in 1..n : x[i] \in Byte
  BY <1>1, LenProperties, ElementOfSeq
<1>3. w = [i \in 1..n |-> [byte |-> x[i], log |-> log]]
  BY <1>2 DEF Tagged
<1>4. \A i \in 1..n : [byte |-> x[i], log |-> log] \in Item
  BY <1>2 DEF Item
<1>5. QED
  BY <1>1, <1>2, <1>3, <1>4

LEMMA TaggedEmpty ==
  ASSUME NEW log
  PROVE  Tagged(<<>>, log) = <<>>
BY DEF Tagged

LEMMA TaggedByte ==
  ASSUME NEW b \in Byte, NEW log
  PROVE  Tagged(<<b>>, log) = <<[byte |-> b, log |-> log]>>
BY DEF Tagged

LEMMA TaggedConcat ==
  ASSUME NEW x \in Seq(Byte), NEW y \in Seq(Byte), NEW log \in BOOLEAN
  PROVE  Tagged(x \o y, log) = Tagged(x, log) \o Tagged(y, log)
<1>1. PICK m, n, z, u, v, w, a : /\ m = Len(x) /\ n = Len(y) /\ z = x \o y
                                 /\ u = Tagged(x, log) /\ v = Tagged(y, log)
                                 /\ w = Tagged(z, log) /\ a = u \o v
  OBVIOUS
<1>2. /\ m \in Nat /\ n \in Nat /\ z \in Seq(Byte) /\ Len(z) = m + n
      /\ \A i \in 1..m : z[i] = x[i]
      /\ \A i \in 1..n : z[m + i] = y[i]
  BY <1>1, ConcatAt DEF Joins
<1>3. /\ u \in Seq(Item) /\ Len(u) = m
      /\ \A i \in 1..m : u[i] = [byte |-> x[i], log |-> log]
  BY <1>1, TaggedType
<1>4. /\ v \in Seq(Item) /\ Len(v) = n
      /\ \A i \in 1..n : v[i] = [byte |-> y[i], log |-> log]
  BY <1>1, TaggedType
<1>5. /\ w \in Seq(Item) /\ Len(w) = m + n
      /\ \A i \in 1..(m + n) : w[i] = [byte |-> z[i], log |-> log]
  <2>1. /\ w \in Seq(Item) /\ Len(w) = Len(z)
        /\ \A i \in 1..Len(z) : w[i] = [byte |-> z[i], log |-> log]
    BY <1>1, <1>2, TaggedType, Zenon
  <2>2. QED
    BY <1>2, <2>1
<1>6. /\ a \in Seq(Item) /\ Len(a) = m + n
      /\ \A i \in 1..m : a[i] = u[i]
      /\ \A i \in 1..n : a[m + i] = v[i]
  <2>1. Joins(a, u, m, v, n)
    BY <1>1, <1>3, <1>4 DEF Joins
  <2>2. QED
    BY <1>3, <1>4, <2>1, ConcatAt
<1>7. ASSUME NEW i \in 1..(m + n) PROVE w[i] = a[i]
  <2>1. CASE i <= m
    <3>1. i \in 1..m
      BY <1>2, <2>1
    <3>2. QED
      <4>1. w[i] = [byte |-> z[i], log |-> log]
        BY <1>5
      <4>2. a[i] = u[i] /\ u[i] = [byte |-> x[i], log |-> log] /\ z[i] = x[i]
        BY <1>2, <1>3, <1>6, <3>1
      <4>3. QED
        BY <4>1, <4>2, Zenon
  <2>2. CASE ~(i <= m)
    <3>1. PICK k : k = i - m
      OBVIOUS
    <3>2. k \in 1..n /\ i = m + k
      BY <1>2, <2>2, <3>1
    <3>3. z[i] = y[k] /\ a[i] = v[k]
      BY <1>2, <1>6, <3>2
    <3>4. QED
      BY <1>4, <1>5, <3>2, <3>3
  <2>3. QED
    BY <2>1, <2>2
<1>8. w = a
  BY <1>5, <1>6, <1>7, SeqEqual
<1>9. QED
  BY <1>1, <1>8

LEMMA SendsNothing ==
  ASSUME NEW s
  PROVE  Sends(s, <<>>, s)
BY TaggedEmpty, ReadsNothing DEF Sends

LEMMA SendsByte ==
  ASSUME NEW s, NEW b \in Byte
  PROVE  Sends(s, <<b>>, HostStep(s, Plain(b)))
<1>1. Tagged(<<b>>, FALSE) = <<Plain(b)>>
  BY TaggedByte DEF Plain
<1>2. Reads(s, <<Plain(b)>>, HostStep(s, Plain(b)))
  BY ReadsByte
<1>3. QED
  BY <1>1, <1>2 DEF Sends

LEMMA SendsBoth ==
  ASSUME NEW x \in Seq(Byte), NEW y \in Seq(Byte),
         NEW s, NEW t, NEW u, Sends(s, x, t), Sends(t, y, u)
  PROVE  Sends(s, x \o y, u)
<1>1. PICK p, q : p = Tagged(x, FALSE) /\ q = Tagged(y, FALSE)
  OBVIOUS
<1>2. p \in Seq(Item) /\ q \in Seq(Item)
  BY <1>1, TaggedType
<1>3. Reads(s, p, t) /\ Reads(t, q, u)
  BY <1>1 DEF Sends
<1>4. Reads(s, p \o q, u)
  BY <1>2, <1>3, ReadsBoth
<1>5. Tagged(x \o y, FALSE) = p \o q
  BY <1>1, TaggedConcat
<1>6. QED
  BY <1>4, <1>5 DEF Sends

\* A frame is open, buf has come and no escape is pending.
Open(buf, got) == [in |-> TRUE, esc |-> FALSE, buf |-> buf, got |-> got]

LEMMA WriteReads ==
  ASSUME NEW x \in Byte, NEW buf, NEW got
  PROVE  /\ CMD_ProtoWrite(x) \in Seq(Byte)
         /\ Sends(Open(buf, got), CMD_ProtoWrite(x), Open(Append(buf, x), got))
<1>1. CASE x \in {SLIP_START, SLIP_END, SLIP_REPL}
  <2>1. PICK y, u : y = SLIP_ESC(x) /\ u = [in |-> TRUE, esc |-> TRUE, buf |-> buf, got |-> got]
    OBVIOUS
  <2>2. /\ y \in Byte /\ y \notin {SLIP_START, SLIP_END, SLIP_REPL} /\ SLIP_ESC(y) = x
        /\ CMD_ProtoWrite(x) = <<SLIP_REPL, y>>
    BY <1>1, <2>1, EscType DEF CMD_ProtoWrite
  <2>3. SLIP_REPL \in Byte /\ SLIP_REPL # SLIP_START /\ SLIP_REPL # SLIP_END
    BY DEF Byte, SLIP_REPL, SLIP_START, SLIP_END
  <2>4. HostStep(Open(buf, got), Plain(SLIP_REPL)) = u
    BY <2>1, <2>3 DEF HostStep, Open, Plain
  <2>5. HostStep(u, Plain(y)) = Open(Append(buf, x), got)
    BY <2>1, <2>2 DEF HostStep, Open, Plain
  <2>6. /\ Sends(Open(buf, got), <<SLIP_REPL>>, u)
        /\ Sends(u, <<y>>, Open(Append(buf, x), got))
    BY <2>2, <2>3, <2>4, <2>5, SendsByte
  <2>7. /\ <<SLIP_REPL>> \in Seq(Byte) /\ <<y>> \in Seq(Byte)
        /\ <<SLIP_REPL>> \o <<y>> = <<SLIP_REPL, y>> /\ <<SLIP_REPL, y>> \in Seq(Byte)
    <3>1. PICK a, b, l : a = SLIP_REPL /\ b = y /\ l = <<a>>
      OBVIOUS
    <3>2. a \in Byte /\ b \in Byte
      BY <2>2, <2>3, <3>1
    <3>3. l \in Seq(Byte) /\ <<b>> \in Seq(Byte)
      BY <3>1, <3>2
    <3>4. PICK w, v : w = Append(l, b) /\ v = <<a, b>>
      OBVIOUS
    <3>5. v \in Seq(Byte) /\ Len(v) = 2 /\ v[1] = a /\ v[2] = b
      BY <3>2, <3>4
    <3>6. Len(l) = 1 /\ l[1] = a
      BY <3>1
    <3>7. w \in Seq(Byte) /\ Len(w) = 2 /\ w[1] = a /\ w[2] = b
      <4>1. /\ Append(l, b) \in Seq(Byte) /\ Len(Append(l, b)) = Len(l) + 1
            /\ \A i \in 1..Len(l) : Append(l, b)[i] = l[i]
            /\ Append(l, b)[Len(l) + 1] = b
        BY <3>2, <3>3, AppendProperties
      <4>2. Len(l) + 1 = 2 /\ 1 \in 1..Len(l)
        BY <3>6
      <4>3. QED
        BY <3>4, <3>6, <4>1, <4>2, Zenon
    <3>8. w = v
      <4>1. \A i \in 1..2 : w[i] = v[i]
        BY <3>5, <3>7
      <4>2. QED
        BY <3>5, <3>7, <4>1, SeqEqual
    <3>9. Append(l, b) = l \o <<b>>
      BY <3>2, <3>3, AppendIsConcat
    <3>10. QED
      BY <3>1, <3>3, <3>4, <3>5, <3>8, <3>9, Zenon
  <2>8. Sends(Open(buf, got), <<SLIP_REPL>> \o <<y>>, Open(Append(buf, x), got))
    BY <2>6, <2>7, SendsBoth
  <2>9. QED
    BY <2>2, <2>7, <2>8, Zenon
<1>2. CASE x \notin {SLIP_START, SLIP_END, SLIP_REPL}
  <2>1. CMD_ProtoWrite(x) = <<x>>
    BY <1>2 DEF CMD_ProtoWrite
  <2>2. HostStep(Open(buf, got), Plain(x)) = Open(Append(buf, x), got)
    BY <1>2 DEF HostStep, Open, Plain
  <2>3. Sends(Open(buf, got), <<x>>, Open(Append(buf, x), got))
    BY <2>2, SendsByte
  <2>4. QED
    BY <2>1, <2>3
<1>3. QED
  BY <1>1, <1>2

Written == [x \in Byte |-> CMD_ProtoWrite(x)]

LEMMA WriteBufMapped ==
  /\ Maps(Written, Byte, Seq(Byte))
  /\ \A d \in Seq(Byte) : CMD_ProtoWriteBuf(d) = FlattenSeq(Mapped(Written, d))
<1>1. Maps(Written, Byte, Seq(Byte))
  BY WriteReads DEF Written, Maps
<1>2. ASSUME NEW d \in Seq(Byte)
      PROVE  CMD_ProtoWriteBuf(d) = FlattenSeq(Mapped(Written, d))
  <2>1. \A i \in DOMAIN d : Written[d[i]] = CMD_ProtoWrite(d[i])
    BY DEF Written
  <2>2. QED
    BY <2>1 DEF CMD_ProtoWriteBuf, Mapped
<1>3. QED
  BY <1>1, <1>2

\* What CMD_ProtoWriteBuf escapes the host reads as it was.
LEMMA BufReads ==
  ASSUME NEW data \in Seq(Byte), NEW buf \in Seq(Byte), NEW got
  PROVE  /\ CMD_ProtoWriteBuf(data) \in Seq(Byte)
         /\ Sends(Open(buf, got), CMD_ProtoWriteBuf(data), Open(buf \o data, got))
<1> DEFINE T == {d \in Seq(Byte) :
                   /\ CMD_ProtoWriteBuf(d) \in Seq(Byte)
                   /\ Sends(Open(buf, got), CMD_ProtoWriteBuf(d), Open(buf \o d, got))}
<1>1. \A d \in Seq(Byte) : CMD_ProtoWriteBuf(d) = FlattenSeq(Mapped(Written, d))
  BY WriteBufMapped
<1>2. <<>> \in T
  <2>1. <<>> \in Seq(Byte)
    BY EmptySeq
  <2>2. CMD_ProtoWriteBuf(<<>>) = <<>> /\ buf \o <<>> = buf
    BY <1>1, <2>1, MappedEmpty, FlattenEmpty, ConcatEmptySeq
  <2>3. Sends(Open(buf, got), <<>>, Open(buf, got))
    BY SendsNothing
  <2>4. QED
    BY <2>1, <2>2, <2>3
<1>3. ASSUME NEW d \in Seq(Byte), NEW x \in Byte, d \in T PROVE Append(d, x) \in T
  <2>1. PICK p, q, c, w : /\ p = CMD_ProtoWriteBuf(d) /\ q = CMD_ProtoWriteBuf(Append(d, x))
                          /\ c = buf \o d /\ w = CMD_ProtoWrite(x)
    OBVIOUS
  <2>2. w \in Seq(Byte) /\ Sends(Open(c, got), w, Open(Append(c, x), got))
    BY <2>1, WriteReads
  <2>3. q = p \o w
    <3>1. Append(d, x) \in Seq(Byte)
      BY AppendProperties
    <3>2. PICK g, v : g = Mapped(Written, d) /\ v = Mapped(Written, Append(d, x))
      OBVIOUS
    <3>3. g \in Seq(Seq(Byte))
      BY <3>2, WriteBufMapped, MappedType
    <3>4. v = Append(g, Written[x])
      BY <3>2, WriteBufMapped, MappedAppend
    <3>5. Written[x] = w
      BY <2>1 DEF Written
    <3>6. p = FlattenSeq(g) /\ q = FlattenSeq(v)
      BY <1>1, <2>1, <3>1, <3>2
    <3>7. QED
      BY <2>2, <3>3, <3>4, <3>5, <3>6, FlattenAppend
  <2>4. p \in Seq(Byte) /\ Sends(Open(buf, got), p, Open(c, got))
    BY <1>3, <2>1
  <2>5. Sends(Open(buf, got), p \o w, Open(Append(c, x), got))
    BY <2>2, <2>4, SendsBoth
  <2>6. Append(c, x) = buf \o Append(d, x)
    <3>1. c \in Seq(Byte) /\ <<x>> \in Seq(Byte)
      BY <2>1
    <3>2. Append(c, x) = c \o <<x>> /\ Append(d, x) = d \o <<x>>
      BY <3>1, AppendIsConcat
    <3>3. QED
      BY <2>1, <3>1, <3>2, ConcatAssociative
  <2>7. q \in Seq(Byte)
    BY <2>2, <2>3, <2>4
  <2>8. Append(d, x) \in Seq(Byte)
    BY AppendProperties
  <2>9. Sends(Open(buf, got), q, Open(buf \o Append(d, x), got))
    BY <2>3, <2>5, <2>6, Zenon
  <2>10. QED
    BY <2>1, <2>7, <2>8, <2>9
<1>4. Seq(Byte) \subseteq T
  <2> HIDE DEF T
  <2>1. QED
    BY <1>2, <1>3, SequenceInduction
<1>5. QED
  BY <1>4

\* The 16-bit numbers, and one from its two bytes.
Words == {n \in Nat : n < 65536}
Word(lo, hi) == lo + 256 * hi

LEMMA LittleEndianType ==
  ASSUME NEW n \in Words
  PROVE  /\ LittleEndian(n) \in Seq(Byte) /\ Len(LittleEndian(n)) = 2
         /\ Word(LittleEndian(n)[1], LittleEndian(n)[2]) = n
<1>1. PICK q, m : q = n \div 256 /\ m = n % 256
  OBVIOUS
<1>2. n \in Nat /\ n < 65536
  BY SMT DEF Words
<1>3. q \in 0..255 /\ m \in 0..255 /\ m + 256 * q = n
  BY <1>1, <1>2, SMT
<1>4. LittleEndian(n) = <<m, q>> /\ m \in Byte /\ q \in Byte
  BY <1>1, <1>3, SMT DEF LittleEndian, Byte
<1>5. <<m, q>> \in Seq(Byte) /\ Len(<<m, q>>) = 2 /\ <<m, q>>[1] = m /\ <<m, q>>[2] = q
  BY <1>4
<1>6. Word(m, q) = n
  BY <1>3, SMT DEF Word
<1>7. QED
  BY <1>4, <1>5, <1>6, Zenon

LEMMA RangeType == LenRange \in Nat \ {0} /\ \A m \in Nat : m < LenRange => m \in Words
<1>1. PICK k \in 1..16384 : LenRange = 4 * k
  BY ResponseBoundsAssumption, SMTT(30)
<1>2. LenRange \in Nat \ {0} /\ LenRange <= 65536
  BY <1>1, SMT
<1>3. ASSUME NEW m \in Nat, m < LenRange PROVE m < 65536
  BY <1>2, <1>3, SMT
<1>4. QED
  BY <1>2, <1>3, SMT DEF Words

LEMMA PadLenType ==
  ASSUME NEW n \in Nat
  PROVE  PadLen(n) \in Nat /\ PadLen(n) \in Words
<1>1. PICK k : k = n + ((4 - (n % 4)) % 4)
  OBVIOUS
<1>2. (4 - (n % 4)) % 4 \in 0..3
  OBVIOUS
<1>3. k \in Nat
  BY <1>1, <1>2
<1>4. PadLen(n) = k % LenRange
  BY <1>1 DEF PadLen
<1>5. PICK l : l = LenRange
  OBVIOUS
<1>6. l \in Nat \ {0}
  BY <1>5, RangeType
<1>7. k % l \in Nat /\ k % l < l
  BY <1>3, <1>6
<1>8. QED
  BY <1>4, <1>5, <1>7, RangeType

\* Bodies that the range of their length has room for.
Short == {d \in Seq(Byte) : Len(d) <= LenRange - 4}

\* What CMD_ResponseBody sends of one.
ZeroBytes(n) == [i \in 1..n |-> 0]
Padded(d) == LittleEndian(PadLen(Len(d))) \o d \o ZeroBytes(Zeros(Len(d)))

LEMMA PaddedType ==
  ASSUME NEW d \in Short, NEW n \in Nat, NEW m \in Nat, NEW p,
         n = Len(d), m = PadLen(n), p = Padded(d)
  PROVE  /\ m \in n..(n + 3) /\ m % 4 = 0
         /\ p \in Seq(Byte) /\ Len(p) = 2 + m
         /\ Word(p[1], p[2]) = m
         /\ \A i \in 1..m : p[2 + i] = IF i <= n THEN d[i] ELSE 0
<1>1. PICK z, l, y : z = Zeros(n) /\ l = LittleEndian(m) /\ y = ZeroBytes(z)
  OBVIOUS
<1>2. n <= LenRange - 4 /\ d \in Seq(Byte)
  BY DEF Short
<1>3. m % 4 = 0 /\ m - n \in 0..3 /\ z = m - n
  BY <1>1, <1>2, PadLenCorrect
<1>4. m - n \in 0..3 /\ z = m - n
  BY <1>3
<1>5. m \in n..(n + 3)
  BY <1>4
<1>6. z \in Nat /\ n + z = m
  <2>1. m - n \in Nat /\ n + (m - n) = m
    BY <1>5
  <2>2. QED
    BY <1>4, <2>1, Zenon
<1>7. l \in Seq(Byte) /\ Len(l) = 2 /\ Word(l[1], l[2]) = m
  BY <1>1, PadLenType, LittleEndianType, Zenon
<1>8. y \in Seq(Byte) /\ Len(y) = z /\ \A i \in 1..z : y[i] = 0
  <2>1. z \in Nat /\ 0 \in Byte /\ y = [i \in 1..z |-> 0]
    BY <1>1, <1>6, SMT DEF ZeroBytes, Byte
  <2>2. QED
    BY <2>1
<1>9. PICK x, q : x = l \o d /\ q = x \o y
  OBVIOUS
<1>10. /\ x \in Seq(Byte) /\ Len(x) = 2 + n /\ \A i \in 1..2 : x[i] = l[i]
       /\ \A i \in 1..n : x[2 + i] = d[i]
  <2>1. Joins(x, l, 2, d, n)
    BY <1>7, <1>9 DEF Joins
  <2>2. l \in Seq(Byte)
    BY <1>7
  <2>3. QED
    BY <1>2, <2>1, <2>2, ConcatAt
<1>11. /\ q \in Seq(Byte) /\ Len(q) = 2 + m
       /\ \A i \in 1..(2 + n) : q[i] = x[i]
       /\ \A i \in 1..z : q[2 + n + i] = 0
  <2>1. PICK e : e = 2 + n
    OBVIOUS
  <2>2. x \in Seq(Byte) /\ y \in Seq(Byte) /\ Joins(q, x, e, y, z)
    BY <1>8, <1>9, <1>10, <2>1 DEF Joins
  <2>3. /\ q \in Seq(Byte) /\ Len(q) = e + z
        /\ \A i \in 1..e : q[i] = x[i]
        /\ \A j \in 1..z : q[e + j] = y[j]
    BY <2>2, ConcatAt
  <2>4. e + z = 2 + m
    BY <1>6, <2>1
  <2>5. \A i \in 1..z : q[e + i] = 0
    <3>1. \A i \in 1..z : y[i] = 0
      BY <1>8
    <3>2. \A i \in 1..z : q[e + i] = y[i]
      BY <2>3
    <3>3. QED
      BY <3>1, <3>2, Zenon
  <2>6. QED
    BY <2>1, <2>3, <2>4, <2>5, Zenon
<1>12. Word(q[1], q[2]) = m
  <2>1. q[1] = x[1] /\ q[2] = x[2]
    BY <1>2, <1>11
  <2>2. QED
    BY <1>7, <1>10, <2>1
<1>13. ASSUME NEW i \in 1..m PROVE q[2 + i] = IF i <= n THEN d[i] ELSE 0
  <2>1. CASE i <= n
    <3>1. 2 + i \in 1..(2 + n) /\ i \in 1..n
      BY <1>2, <1>6, <2>1
    <3>2. QED
      BY <1>10, <1>11, <2>1, <3>1
  <2>2. CASE ~(i <= n)
    <3>1. PICK j : j = i - n
      OBVIOUS
    <3>2. j \in 1..z /\ 2 + i = 2 + n + j
      BY <1>2, <1>6, <2>2, <3>1
    <3>3. q[2 + n + j] = 0
      BY <1>11, <3>2
    <3>4. QED
      BY <2>2, <3>2, <3>3
  <2>3. QED
    BY <2>1, <2>2
<1>14. p = q
  BY <1>1, <1>9 DEF Padded
<1>15. QED
  BY <1>3, <1>5, <1>11, <1>12, <1>13, <1>14, Zenon

\* The arguments of a response, as written and as meant.
Body == [d \in Short |-> CMD_ResponseBody(d)]
Argument == [d \in Short |-> Padded(d)]
Arguments(bodies) == FlattenSeq(Mapped(Argument, bodies))

LEMMA BodyReads ==
  /\ Maps(Body, Short, Seq(Byte)) /\ Maps(Argument, Short, Seq(Byte))
  /\ \A d \in Short : Argument[d] \in Seq(Byte) /\ Body[d] = CMD_ProtoWriteBuf(Argument[d])
<1>1. ASSUME NEW d \in Short PROVE Padded(d) \in Seq(Byte)
  <2>1. PICK n, m, p : n = Len(d) /\ m = PadLen(n) /\ p = Padded(d)
    OBVIOUS
  <2>2. n \in Nat
    BY <2>1 DEF Short
  <2>3. m \in Nat
    BY <2>1, <2>2, PadLenType
  <2>4. p \in Seq(Byte)
    BY <2>1, <2>2, <2>3, PaddedType
  <2>5. QED
    BY <2>1, <2>4
<1>2. \A d \in Short : CMD_ResponseBody(d) = CMD_ProtoWriteBuf(Padded(d))
  BY DEF CMD_ResponseBody, Padded, ZeroBytes
<1>3. ASSUME NEW d \in Short PROVE CMD_ProtoWriteBuf(Padded(d)) \in Seq(Byte)
  <2>1. Padded(d) \in Seq(Byte) /\ <<>> \in Seq(Byte)
    BY <1>1, EmptySeq
  <2>2. QED
    BY <2>1, BufReads
<1>4. QED
  BY <1>1, <1>2, <1>3, Zenon DEF Maps, Body, Argument

LEMMA BodiesRead ==
  ASSUME NEW bodies \in Seq(Short), NEW buf \in Seq(Byte), NEW got
  PROVE  /\ FlattenSeq(Mapped(Body, bodies)) \in Seq(Byte)
         /\ Arguments(bodies) \in Seq(Byte)
         /\ Sends(Open(buf, got), FlattenSeq(Mapped(Body, bodies)),
                  Open(buf \o Arguments(bodies), got))
<1> DEFINE T == {bs \in Seq(Short) :
                   /\ FlattenSeq(Mapped(Body, bs)) \in Seq(Byte)
                   /\ Arguments(bs) \in Seq(Byte)
                   /\ Sends(Open(buf, got), FlattenSeq(Mapped(Body, bs)),
                            Open(buf \o Arguments(bs), got))}
<1>1. <<>> \in T
  <2>1. <<>> \in Seq(Short) /\ <<>> \in Seq(Byte) /\ buf \o <<>> = buf
    BY EmptySeq, ConcatEmptySeq
  <2>2. FlattenSeq(Mapped(Body, <<>>)) = <<>> /\ Arguments(<<>>) = <<>>
    BY MappedEmpty, FlattenEmpty DEF Arguments
  <2>3. Sends(Open(buf, got), <<>>, Open(buf, got))
    BY SendsNothing
  <2>4. QED
    BY <2>1, <2>2, <2>3
<1>2. ASSUME NEW bs \in Seq(Short), NEW d \in Short, bs \in T PROVE Append(bs, d) \in T
  <2>1. PICK e, f, g, x, y : /\ e = Append(bs, d)
                             /\ f = Mapped(Body, bs) /\ g = Mapped(Argument, bs)
                             /\ x = Body[d] /\ y = Argument[d]
    OBVIOUS
  <2>2. /\ e \in Seq(Short) /\ f \in Seq(Seq(Byte)) /\ g \in Seq(Seq(Byte))
        /\ x \in Seq(Byte) /\ y \in Seq(Byte) /\ x = CMD_ProtoWriteBuf(y)
    <3>1. e \in Seq(Short)
      BY <2>1, AppendProperties
    <3>2. f \in Seq(Seq(Byte)) /\ g \in Seq(Seq(Byte))
      BY <2>1, BodyReads, MappedType
    <3>3. x \in Seq(Byte) /\ y \in Seq(Byte) /\ x = CMD_ProtoWriteBuf(y)
      BY <2>1, BodyReads DEF Maps
    <3>4. QED
      BY <3>1, <3>2, <3>3
  <2>3. Mapped(Body, e) = Append(f, x) /\ Mapped(Argument, e) = Append(g, y)
    BY <2>1, BodyReads, MappedAppend
  <2>4. PICK p, q : p = FlattenSeq(f) /\ q = FlattenSeq(g)
    OBVIOUS
  <2>5. FlattenSeq(Mapped(Body, e)) = p \o x /\ Arguments(e) = q \o y
    BY <2>2, <2>3, <2>4, FlattenAppend DEF Arguments
  <2>6. p \in Seq(Byte) /\ q \in Seq(Byte) /\ Sends(Open(buf, got), p, Open(buf \o q, got))
    BY <1>2, <2>1, <2>4 DEF Arguments
  <2>7. buf \o q \in Seq(Byte) /\ p \o x \in Seq(Byte) /\ q \o y \in Seq(Byte)
    BY <2>2, <2>6, ConcatProperties
  <2>8. Sends(Open(buf \o q, got), x, Open((buf \o q) \o y, got))
    BY <2>2, <2>7, BufReads
  <2>9. Sends(Open(buf, got), p \o x, Open((buf \o q) \o y, got))
    BY <2>2, <2>6, <2>8, SendsBoth
  <2>10. (buf \o q) \o y = buf \o (q \o y)
    <3>1. q \in Seq(Byte) /\ y \in Seq(Byte)
      BY <2>2, <2>6
    <3>2. QED
      BY <3>1, ConcatAssociative
  <2>11. Sends(Open(buf, got), p \o x, Open(buf \o (q \o y), got))
    BY <2>9, <2>10, Zenon
  <2>12. e \in T
    BY <2>2, <2>5, <2>7, <2>11, Zenon
  <2>13. QED
    BY <2>1, <2>12
<1>3. Seq(Short) \subseteq T
  <2> HIDE DEF T
  <2>1. QED
    BY <1>1, <1>2, SequenceInduction
<1>4. QED
  BY <1>3

\* The frame a response is meant to be.
Header(r) == r.cmd \o r.callback \o r.ret \o LittleEndian(Len(r.bodies))
Raw(r) == (Header(r) \o Arguments(r.bodies)) \o r.crc

LEMMA ResponseType ==
  ASSUME NEW r \in Responses
  PROVE  /\ r.cmd \in Seq(Byte) /\ Len(r.cmd) = 2
         /\ r.callback \in Seq(Byte) /\ Len(r.callback) = 4
         /\ r.ret \in Seq(Byte) /\ Len(r.ret) = 4
         /\ r.crc \in Seq(Byte) /\ Len(r.crc) = 2
         /\ r.bodies \in Seq(Short) /\ Len(r.bodies) \in Words
         /\ Header(r) \in Seq(Byte)
<1>1. /\ r.cmd \in Seq(Byte) /\ Len(r.cmd) = 2
      /\ r.callback \in Seq(Byte) /\ Len(r.callback) = 4
      /\ r.ret \in Seq(Byte) /\ Len(r.ret) = 4
      /\ r.crc \in Seq(Byte) /\ Len(r.crc) = 2
  BY ResponsesAssumption
<1>2. PICK b : b = r.bodies
  OBVIOUS
<1>3. /\ b \in Seq(Seq(Byte)) /\ Len(b) < 65536
      /\ \A i \in DOMAIN b : Len(b[i]) <= LenRange - 4
  BY <1>2, ResponsesAssumption
<1>4. Len(b) \in Words
  BY <1>3, SMT DEF Words
<1>5. b \in Seq(Short)
  <2>1. PICK n : n = Len(b)
    OBVIOUS
  <2>2. n \in Nat /\ DOMAIN b = 1..n /\ b = [i \in 1..n |-> b[i]]
        /\ \A i \in 1..n : b[i] \in Seq(Byte)
    BY <1>3, <2>1
  <2>3. \A i \in 1..n : b[i] \in Short
    BY <1>3, <2>2 DEF Short
  <2>4. QED
    BY <2>2, <2>3
<1>6. PICK l : l = LittleEndian(Len(b))
  OBVIOUS
<1>7. l \in Seq(Byte)
  BY <1>4, <1>6, LittleEndianType
<1>8. Header(r) \in Seq(Byte)
  BY <1>1, <1>2, <1>6, <1>7, ConcatProperties DEF Header
<1>9. QED
  BY <1>1, <1>2, <1>4, <1>5, <1>8

\* From any state the host receives a response as it is meant.
LEMMA ResponseReads ==
  ASSUME NEW r \in Responses, NEW s \in HostStates
  PROVE  /\ Response(r) \in Seq(Byte)
         /\ \E t \in HostStates : Sends(s, Response(r), t) /\ t.got = Append(s.got, Raw(r))
<1>1. PICK h, b, c, g, w, x, y : /\ h = Header(r) /\ b = Arguments(r.bodies) /\ c = r.crc
                                 /\ g = s.got /\ w = CMD_ProtoWriteBuf(h)
                                 /\ x = FlattenSeq(Mapped(Body, r.bodies))
                                 /\ y = CMD_ProtoWriteBuf(c)
  OBVIOUS
<1>2. h \in Seq(Byte) /\ c \in Seq(Byte) /\ r.bodies \in Seq(Short) /\ <<>> \in Seq(Byte)
  BY <1>1, ResponseType, EmptySeq
<1>3. w \in Seq(Byte) /\ Sends(Open(<<>>, g), w, Open(h, g))
  <2>1. <<>> \o h = h
    BY <1>2, ConcatEmptySeq
  <2>2. CMD_ProtoWriteBuf(h) \in Seq(Byte)
        /\ Sends(Open(<<>>, g), CMD_ProtoWriteBuf(h), Open(<<>> \o h, g))
    BY <1>2, BufReads
  <2>3. QED
    BY <1>1, <2>1, <2>2, Zenon
<1>4. x \in Seq(Byte) /\ b \in Seq(Byte) /\ Sends(Open(h, g), x, Open(h \o b, g))
  BY <1>1, <1>2, BodiesRead
<1>5. h \o b \in Seq(Byte)
  BY <1>2, <1>4, ConcatProperties
<1>6. y \in Seq(Byte) /\ Sends(Open(h \o b, g), y, Open((h \o b) \o c, g))
  BY <1>1, <1>2, <1>5, BufReads
<1>7. PICK a, z : a = <<SLIP_START>> /\ z = <<SLIP_END>>
  OBVIOUS
<1>8. a \in Seq(Byte) /\ z \in Seq(Byte) /\ SLIP_START \in Byte /\ SLIP_END \in Byte
  BY <1>7 DEF Byte, SLIP_START, SLIP_END
<1>9. Sends(s, a, Open(<<>>, g))
  <2>1. HostStep(s, Plain(SLIP_START)) = Open(<<>>, g)
    BY <1>1 DEF HostStep, Open, Plain
  <2>2. QED
    BY <1>7, <1>8, <2>1, SendsByte
<1>10. PICK f, t : f = (h \o b) \o c /\ t = HostStep(Open(f, g), Plain(SLIP_END))
  OBVIOUS
<1>11. Sends(Open(f, g), z, t)
  BY <1>7, <1>8, <1>10, SendsByte
<1>12. f \in Seq(Byte) /\ t \in HostStates /\ t.got = Append(g, f)
  <2>1. f \in Seq(Byte)
    BY <1>2, <1>5, <1>10, ConcatProperties
  <2>2. g \in Seq(Seq(Byte))
    BY <1>1 DEF HostStates
  <2>3. Open(f, g) \in HostStates
    BY <2>1, <2>2 DEF HostStates, Open
  <2>4. t.got = Append(g, f)
    <3>1. SLIP_END # SLIP_START
      BY DEF SLIP_START, SLIP_END
    <3>2. QED
      BY <1>10, <3>1 DEF HostStep, Open, Plain
  <2>5. QED
    <3>1. Plain(SLIP_END) \in Item
      BY <1>8 DEF Plain, Item
    <3>2. QED
      BY <1>10, <2>1, <2>3, <2>4, <3>1, StepType
<1>13. Response(r) = ((a \o w) \o x) \o (y \o z)
  <2>1. \A i \in DOMAIN r.bodies : Body[r.bodies[i]] = CMD_ResponseBody(r.bodies[i])
    BY <1>2 DEF Body
  <2>2. x = FlattenSeq([i \in DOMAIN r.bodies |-> CMD_ResponseBody(r.bodies[i])])
    BY <1>1, <2>1 DEF Mapped
  <2>3. CMD_ResponseStart(r.cmd, r.callback, r.ret, Len(r.bodies)) = a \o w
    BY <1>1, <1>7 DEF CMD_ResponseStart, Header
  <2>4. CMD_ResponseEnd(r.crc) = y \o z
    BY <1>1, <1>7 DEF CMD_ResponseEnd
  <2>5. QED
    BY <2>2, <2>3, <2>4, Zenon DEF Response
<1>14. /\ a \o w \in Seq(Byte) /\ (a \o w) \o x \in Seq(Byte) /\ y \o z \in Seq(Byte)
       /\ ((a \o w) \o x) \o (y \o z) \in Seq(Byte)
  BY <1>3, <1>4, <1>6, <1>8, ConcatProperties
<1>15. Sends(s, a \o w, Open(h, g))
  BY <1>3, <1>8, <1>9, SendsBoth
<1>16. Sends(s, (a \o w) \o x, Open(h \o b, g))
  BY <1>4, <1>14, <1>15, SendsBoth
<1>17. Sends(Open(h \o b, g), y \o z, t)
  <2>1. Sends(Open(h \o b, g), y, Open(f, g))
    BY <1>6, <1>10
  <2>2. QED
    BY <1>6, <1>8, <1>11, <2>1, SendsBoth
<1>18. Sends(s, ((a \o w) \o x) \o (y \o z), t)
  BY <1>14, <1>16, <1>17, SendsBoth
<1>19. Raw(r) = f
  BY <1>1, <1>10 DEF Raw
<1>20. QED
  BY <1>1, <1>12, <1>13, <1>14, <1>18, <1>19, Zenon

\* What the log prints, markers or not, adds nothing to what the host has
\* received from the writers.
LEMMA TextReads ==
  ASSUME NEW text \in Seq(Byte), NEW s \in HostStates
  PROVE  \E t \in HostStates : Reads(s, Tagged(text, TRUE), t) /\ t.got = s.got
<1> DEFINE T == {x \in Seq(Byte) :
                   \E t \in HostStates : Reads(s, Tagged(x, TRUE), t) /\ t.got = s.got}
<1>1. <<>> \in T
  BY EmptySeq, TaggedEmpty, ReadsNothing
<1>2. ASSUME NEW x \in Seq(Byte), NEW b \in Byte, x \in T PROVE Append(x, b) \in T
  <2>1. PICK t \in HostStates : Reads(s, Tagged(x, TRUE), t) /\ t.got = s.got
    BY <1>2
  <2>2. PICK c, u, p : /\ c = [byte |-> b, log |-> TRUE] /\ u = HostStep(t, c)
                       /\ p = Tagged(x, TRUE)
    OBVIOUS
  <2>3. c \in Item /\ c.log = TRUE
    BY <2>2 DEF Item
  <2>4. u \in HostStates
    BY <2>2, <2>3, StepType
  <2>5. u.got = t.got
    BY <2>2, <2>3 DEF HostStep
  <2>6. Reads(t, <<c>>, u)
    BY <2>2, ReadsByte
  <2>7. Append(x, b) = x \o <<b>> /\ <<b>> \in Seq(Byte) /\ Append(x, b) \in Seq(Byte)
    BY AppendIsConcat, AppendProperties
  <2>8. Tagged(Append(x, b), TRUE) = p \o <<c>>
    <3>1. Tagged(<<b>>, TRUE) = <<c>>
      BY <2>2, TaggedByte
    <3>2. Tagged(x \o <<b>>, TRUE) = Tagged(x, TRUE) \o Tagged(<<b>>, TRUE)
      BY <2>7, TaggedConcat
    <3>3. QED
      BY <2>2, <2>7, <3>1, <3>2, Zenon
  <2>9. Reads(s, p \o <<c>>, u)
    <3>1. p \in Seq(Item) /\ <<c>> \in Seq(Item)
      <4>1. p \in Seq(Item)
        BY <2>2, TaggedType
      <4>2. QED
        BY <2>3, <4>1
    <3>2. Reads(s, p, t)
      BY <2>1, <2>2
    <3>3. QED
      BY <2>6, <3>1, <3>2, ReadsBoth
  <2>10. Reads(s, Tagged(Append(x, b), TRUE), u) /\ u.got = s.got
    BY <2>1, <2>5, <2>8, <2>9, Zenon
  <2>11. QED
    BY <2>4, <2>7, <2>10
<1>3. Seq(Byte) \subseteq T
  <2> HIDE DEF T
  <2>1. QED
    BY <1>1, <1>2, SequenceInduction
<1>4. QED
  BY <1>3

-----------------------------------------------------------------------------
(* What a frame that is meant so conveys. *)

LEMMA NumberType ==
  ASSUME NEW f \in Seq(Byte), NEW i \in Nat \ {0}
  PROVE  /\ Number(f, i) \in Nat
         /\ i + 1 <= Len(f) => Number(f, i) = Word(f[i], f[i + 1])
<1>1. CASE i + 1 > Len(f)
  <2>1. Number(f, i) = 0
    BY <1>1 DEF Number
  <2>2. Len(f) \in Nat
    OBVIOUS
  <2>3. QED
    BY <1>1, <2>1, <2>2
<1>2. CASE ~(i + 1 > Len(f))
  <2>1. i \in 1..Len(f) /\ i + 1 \in 1..Len(f)
    BY <1>2
  <2>2. f[i] \in Byte /\ f[i + 1] \in Byte
    BY <2>1
  <2>3. Number(f, i) = f[i] + 256 * f[i + 1]
    BY <1>2, SMT DEF Number
  <2>4. f[i] \in Nat /\ f[i + 1] \in Nat
    <3>1. \A b \in Byte : b \in Nat
      BY DEF Byte
    <3>2. QED
      BY <2>2, <3>1, Zenon
  <2>5. Number(f, i) \in Nat
    <3>1. \A u, v \in Nat : u + 256 * v \in Nat
      BY SMT
    <3>2. QED
      BY <2>3, <2>4, <3>1
  <2>6. QED
    BY <2>3, <2>5, Zenon DEF Word
<1>3. QED
  BY <1>1, <1>2

LEMMA ArgStartIterates ==
  ASSUME NEW f \in Seq(Byte)
  PROVE  /\ ArgStart(f)[0] = 13
         /\ \A k \in Nat : ArgStart(f)[k + 1] = ArgStart(f)[k] + 2 + Number(f, ArgStart(f)[k])
<1> DEFINE F == [n \in Nat |-> n + 2 + Number(f, n)]
<1> DEFINE IsStart(d) == d = [k \in Nat |-> IF k = 0 THEN 13
                                ELSE d[k - 1] + 2 + Number(f, d[k - 1])]
<1>1. \A n \in Nat \ {0} : F[n] = n + 2 + Number(f, n) /\ F[n] \in Nat \ {0}
  BY NumberType
<1>2. PICK g : Iterates(g, F, 13)
  BY IterationExists
<1>3. \A k \in Nat : g[k] \in Nat \ {0}
  <2> DEFINE K == {k \in Nat : g[k] \in Nat \ {0}}
  <2> HIDE DEF F
  <2>1. 0 \in K
    BY <1>2 DEF Iterates
  <2>2. ASSUME NEW k \in Nat, k \in K PROVE k + 1 \in K
    <3>1. g[k + 1] = F[g[(k + 1) - 1]] /\ (k + 1) - 1 = k
      BY <1>2 DEF Iterates
    <3>2. g[k + 1] = F[g[k]]
      BY <3>1, Zenon
    <3>3. F[g[k]] \in Nat \ {0}
      BY <1>1, <2>2
    <3>4. QED
      BY <3>2, <3>3
  <2>3. Nat \subseteq K
    <3> HIDE DEF K
    <3>1. QED
      BY <2>1, <2>2, NumberInduction
  <2>4. QED
    BY <2>3
<1>4. IsStart(g)
  <2>1. ASSUME NEW k \in Nat, k # 0
        PROVE  F[g[k - 1]] = g[k - 1] + 2 + Number(f, g[k - 1])
    <3>1. PICK j : j = k - 1
      OBVIOUS
    <3>2. j \in Nat
      BY <2>1, <3>1
    <3>3. g[j] \in Nat \ {0}
      BY <1>3, <3>2
    <3>4. F[g[j]] = g[j] + 2 + Number(f, g[j])
      BY <1>1, <3>3
    <3>5. QED
      BY <3>1, <3>4, Zenon
  <2> HIDE DEF F
  <2>2. QED
    BY <1>2, <2>1 DEF Iterates
<1>5. IsStart(ArgStart(f))
  BY <1>4 DEF ArgStart
<1>6. QED
  <2>1. \A d : IsStart(d) => /\ d[0] = 13
                             /\ \A k \in Nat : d[k + 1] = d[k] + 2 + Number(f, d[k])
    <3> SUFFICES ASSUME NEW d, IsStart(d), NEW k \in Nat
                 PROVE  d[0] = 13 /\ d[k + 1] = d[k] + 2 + Number(f, d[k])
      OBVIOUS
    <3>1. k + 1 \in Nat /\ k + 1 # 0 /\ (k + 1) - 1 = k
      OBVIOUS
    <3>2. \A i \in Nat : d[i] = IF i = 0 THEN 13 ELSE d[i - 1] + 2 + Number(f, d[i - 1])
      BY Zenon
    <3>3. QED
      BY <3>1, <3>2
  <2>2. QED
    BY <1>5, <2>1

\* The parts of a frame: ten bytes of fields, argc, the arguments, checksum.
MeantBy(r, f, g, n) == f = Raw(r) /\ g = Arguments(r.bodies) /\ n = Len(g)

Follows(f, m, g, n) == \A i \in 1..n : f[m + i] = g[i]

LEMMA RawParts ==
  ASSUME NEW r \in Responses, NEW f, NEW g, NEW n, MeantBy(r, f, g, n)
  PROVE  /\ f \in Seq(Byte) /\ g \in Seq(Byte) /\ n \in Nat /\ Len(f) = 14 + n
         /\ SubSeq(f, 1, 10) = r.cmd \o r.callback \o r.ret
         /\ Word(f[11], f[12]) = Len(r.bodies)
         /\ Follows(f, 12, g, n)
         /\ SubSeq(f, 13 + n, 14 + n) = r.crc
<1>0. f = Raw(r) /\ g = Arguments(r.bodies) /\ n = Len(g)
  BY DEF MeantBy
<1>1. PICK b, c, d, e, q, l, h, x : /\ b = r.cmd /\ c = r.callback /\ d = b \o c
                                    /\ e = r.ret /\ q = d \o e
                                    /\ l = LittleEndian(Len(r.bodies)) /\ h = q \o l
                                    /\ x = h \o g
  OBVIOUS
<1>2. /\ b \in Seq(Byte) /\ 2 = Len(b) /\ c \in Seq(Byte) /\ 4 = Len(c)
      /\ e \in Seq(Byte) /\ 4 = Len(e) /\ r.crc \in Seq(Byte) /\ 2 = Len(r.crc)
  BY <1>1, ResponseType
<1>3. l \in Seq(Byte) /\ 2 = Len(l) /\ Word(l[1], l[2]) = Len(r.bodies)
  BY <1>1, ResponseType, LittleEndianType
<1>4. d \in Seq(Byte) /\ 6 = Len(d)
  <2>1. b \o c \in Seq(Byte) /\ Len(b \o c) = Len(b) + Len(c)
    BY <1>2, ConcatProperties
  <2>2. Len(b) = 2 /\ Len(c) = 4
    BY <1>2
  <2>3. Len(b) + Len(c) = 6
    BY <2>2
  <2>4. QED
    BY <1>1, <2>1, <2>3, Zenon
<1>5. q \in Seq(Byte) /\ 10 = Len(q)
  <2>1. d \o e \in Seq(Byte) /\ Len(d \o e) = Len(d) + Len(e)
    BY <1>2, <1>4, ConcatProperties
  <2>2. Len(d) = 6 /\ Len(e) = 4
    BY <1>2, <1>4
  <2>3. Len(d) + Len(e) = 10
    BY <2>2
  <2>4. QED
    BY <1>1, <2>1, <2>3, Zenon
<1>6. /\ h \in Seq(Byte) /\ 12 = Len(h)
      /\ \A i \in 1..10 : h[i] = q[i]
      /\ \A j \in 1..2 : h[10 + j] = l[j]
  <2>1. PICK u, v : u = 10 /\ v = 2
    OBVIOUS
  <2>2. Joins(h, q, u, l, v) /\ q \in Seq(Byte) /\ l \in Seq(Byte)
    BY <1>1, <1>3, <1>5, <2>1 DEF Joins
  <2>3. /\ h \in Seq(Byte) /\ Len(h) = u + v
        /\ \A i \in 1..u : h[i] = q[i]
        /\ \A j \in 1..v : h[u + j] = l[j]
    BY <2>2, ConcatAt
  <2>4. QED
    BY <2>1, <2>3
<1>7. g \in Seq(Byte)
  <2>1. r.bodies \in Seq(Short) /\ <<>> \in Seq(Byte)
    BY ResponseType, EmptySeq
  <2>2. QED
    BY <1>0, <2>1, BodiesRead
<1>8. /\ n \in Nat /\ x \in Seq(Byte) /\ Len(x) = 12 + n
      /\ \A i \in 1..12 : x[i] = h[i]
      /\ \A j \in 1..n : x[12 + j] = g[j]
  <2>1. PICK u : u = 12
    OBVIOUS
  <2>2. Joins(x, h, u, g, n) /\ h \in Seq(Byte)
    BY <1>0, <1>1, <1>6, <2>1 DEF Joins
  <2>3. /\ n \in Nat /\ x \in Seq(Byte) /\ Len(x) = u + n
        /\ \A i \in 1..u : x[i] = h[i]
        /\ \A j \in 1..n : x[u + j] = g[j]
    BY <1>7, <2>2, ConcatAt
  <2>4. QED
    BY <2>1, <2>3
<1>9. f = x \o r.crc
  BY <1>0, <1>1 DEF Raw, Header
<1>10. PICK m : m = 12 + n
  OBVIOUS
<1>11. /\ f \in Seq(Byte) /\ Len(f) = m + 2
       /\ \A i \in 1..m : f[i] = x[i]
       /\ \A j \in 1..2 : f[m + j] = r.crc[j]
  <2>1. PICK u, y : u = 2 /\ y = r.crc
    OBVIOUS
  <2>2. Joins(f, x, m, y, u) /\ x \in Seq(Byte) /\ y \in Seq(Byte)
    BY <1>2, <1>8, <1>9, <1>10, <2>1 DEF Joins
  <2>3. /\ f \in Seq(Byte) /\ Len(f) = m + u
        /\ \A i \in 1..m : f[i] = x[i]
        /\ \A j \in 1..u : f[m + j] = y[j]
    BY <2>2, ConcatAt
  <2>4. QED
    BY <2>1, <2>3
<1>12. m \in Nat /\ m + 2 = 14 + n /\ m + 1 = 13 + n /\ 12 <= m
  BY <1>8, <1>10
<1>13. \A i \in 1..12 : f[i] = h[i]
  <2>1. \A i \in 1..12 : i \in 1..m
    BY <1>12
  <2>2. QED
    BY <1>8, <1>11, <2>1
<1>14. SubSeq(f, 1, 10) = q
  <2>1. \A i \in 1..10 : f[0 + i] = q[i]
    <3>1. \A i \in 1..10 : i \in 1..12 /\ 0 + i = i
      OBVIOUS
    <3>2. QED
      BY <1>6, <1>13, <3>1
  <2>2. 0 + 10 <= Len(f) /\ 0 \in Nat /\ 0 + 10 = 10 /\ 0 + 1 = 1
    BY <1>11, <1>12
  <2>3. SubSeq(f, 0 + 1, 0 + 10) = q
    BY <1>5, <1>11, <2>1, <2>2, SubSeqAt
  <2>4. QED
    BY <2>2, <2>3
<1>15. f[11] = l[1] /\ f[12] = l[2]
  <2>1. h[10 + 1] = l[1] /\ h[10 + 2] = l[2] /\ 10 + 1 = 11 /\ 10 + 2 = 12
    BY <1>6
  <2>2. f[11] = h[11] /\ f[12] = h[12]
    BY <1>13
  <2>3. QED
    BY <2>1, <2>2
<1>16. Follows(f, 12, g, n)
  <2>1. \A i \in 1..n : 12 + i \in 1..m
    BY <1>8, <1>10
  <2>2. QED
    BY <1>8, <1>11, <2>1 DEF Follows
<1>17. SubSeq(f, m + 1, m + 2) = r.crc
  <2>1. m + 2 <= Len(f)
    BY <1>11, <1>12
  <2>2. PICK c2 : c2 = r.crc
    OBVIOUS
  <2>3. c2 \in Seq(Byte) /\ 2 = Len(c2) /\ f \in Seq(Byte) /\ m \in Nat
        /\ \A j \in 1..2 : f[m + j] = c2[j]
    BY <1>2, <1>11, <1>12, <2>2
  <2>4. SubSeq(f, m + 1, m + 2) = c2
    BY <2>1, <2>3, SubSeqAt
  <2>5. QED
    BY <2>2, <2>4
<1>18. SubSeq(f, 13 + n, 14 + n) = r.crc
  BY <1>12, <1>17, Zenon
<1>19. Word(f[11], f[12]) = Len(r.bodies)
  BY <1>3, <1>15, Zenon
<1>20. q = r.cmd \o r.callback \o r.ret
  BY <1>1
<1>21. QED
  BY <1>7, <1>8, <1>11, <1>12, <1>14, <1>16, <1>18, <1>19, <1>20, Zenon

\* The walk over the arguments finds the length of each and what it was.
LEMMA ArgumentsFound ==
  ASSUME NEW r \in Responses, NEW f, NEW g, NEW n, MeantBy(r, f, g, n),
         NEW a, a = Len(r.bodies)
  PROVE  /\ ArgStart(f)[a] = 13 + n
         /\ \A k \in 1..a : IsPadded(HostArg(f, k), r.bodies[k])
<1>1. PICK bs, e : /\ g = Arguments(r.bodies) /\ n = Len(g) /\ bs = r.bodies
                   /\ e = Mapped(Argument, bs)
  BY DEF MeantBy
<1>2. /\ f \in Seq(Byte) /\ n \in Nat /\ Len(f) = 14 + n
      /\ \A i \in 1..n : f[12 + i] = g[i]
  <2>1. f \in Seq(Byte) /\ n \in Nat /\ Len(f) = 14 + n
    BY RawParts
  <2>2. Follows(f, 12, g, n)
    BY RawParts
  <2>3. QED
    BY <2>1, <2>2 DEF Follows
<1>3. bs \in Seq(Short) /\ a = Len(bs) /\ a \in Nat /\ \A k \in 1..a : bs[k] \in Short
  <2>1. bs \in Seq(Short) /\ a = Len(bs)
    BY <1>1, ResponseType
  <2>2. QED
    BY <2>1, LenProperties, ElementOfSeq
<1>4. e \in Seq(Seq(Byte)) /\ Len(e) = a /\ \A k \in 1..a : e[k] = Argument[bs[k]]
  BY <1>1, <1>3, BodyReads, MappedType
<1>5. \A k \in 1..a : e[k] = Padded(bs[k])
  BY <1>3, <1>4 DEF Argument
<1>6. g = FlattenSeq(e)
  BY <1>1 DEF Arguments
<1>7. PICK off : Offsets(off, e)
  BY <1>4, OffsetsExist
<1>8. /\ off[0] = 0 /\ off[a] = n /\ \A k \in 0..a : off[k] \in Nat
      /\ \A k \in 1..a : /\ off[k] = off[k - 1] + Len(e[k]) /\ off[k] <= n
                         /\ \A j \in 1..Len(e[k]) : g[off[k - 1] + j] = e[k][j]
  <2>1. /\ off[0] = 0 /\ off[Len(e)] = Len(FlattenSeq(e))
        /\ \A k \in 0..Len(e) : off[k] \in Nat
        /\ \A k \in 1..Len(e) :
             /\ off[k] = off[k - 1] + Len(e[k]) /\ off[k] <= Len(FlattenSeq(e))
             /\ \A j \in 1..Len(e[k]) : FlattenSeq(e)[off[k - 1] + j] = e[k][j]
    BY <1>7 DEF Offsets
  <2>2. Len(e) = a /\ FlattenSeq(e) = g /\ Len(g) = n
    BY <1>1, <1>4, <1>6
  <2>3. QED
    BY <2>1, <2>2, Zenon
<1> DEFINE Size(k) == PadLen(Len(bs[k]))
\* The bytes of an argument in the frame.
<1>9. ASSUME NEW k \in 1..a
      PROVE  /\ Size(k) \in Nat /\ Len(e[k]) = 2 + Size(k)
             /\ off[k - 1] \in Nat /\ off[k] = off[k - 1] + (2 + Size(k)) /\ off[k] <= n
             /\ \A j \in 1..(2 + Size(k)) : f[12 + (off[k - 1] + j)] = e[k][j]
  <2>1. PICK d, l, m, p, o : /\ d = bs[k] /\ l = Len(d) /\ m = PadLen(l) /\ p = e[k]
                             /\ o = off[k - 1]
    OBVIOUS
  <2>2. d \in Short /\ p = Padded(d)
    BY <1>3, <1>5, <2>1
  <2>3. l \in Nat
    BY <2>1, <2>2 DEF Short
  <2>4. m \in Nat
    BY <2>1, <2>3, PadLenType
  <2>5. Len(p) = 2 + m
    <3>1. d \in Short /\ l \in Nat /\ m \in Nat /\ l = Len(d) /\ m = PadLen(l) /\ p = Padded(d)
      BY <2>1, <2>2, <2>3, <2>4
    <3>2. QED
      BY <3>1, PaddedType
  <2>6. o \in Nat
    <3>1. k - 1 \in 0..a
      BY <1>3
    <3>2. QED
      BY <1>8, <2>1, <3>1
  <2>7. /\ off[k] = o + Len(p) /\ off[k] <= n
        /\ \A j \in 1..Len(p) : g[o + j] = p[j]
    BY <1>8, <2>1
  <2>8. ASSUME NEW j \in 1..(2 + m) PROVE f[12 + (o + j)] = p[j]
    <3>1. o + (2 + m) <= n
      BY <2>5, <2>7
    <3>2. o + j \in 1..n
      BY <1>2, <2>4, <2>6, <3>1
    <3>3. f[12 + (o + j)] = g[o + j]
      BY <1>2, <3>2
    <3>4. g[o + j] = p[j]
      BY <2>5, <2>7
    <3>5. QED
      BY <3>3, <3>4
  <2>9. off[k] = o + (2 + m) /\ off[k] <= n
    BY <2>5, <2>7
  <2>10. Size(k) = m
    BY <2>1
  <2>11. QED
    BY <2>1, <2>4, <2>5, <2>6, <2>8, <2>9, <2>10, Zenon
<1>10. ASSUME NEW k \in 1..a PROVE Number(f, 13 + off[k - 1]) = Size(k)
  <2>1. PICK d, l, m, p, o : /\ d = bs[k] /\ l = Len(d) /\ m = PadLen(l) /\ p = e[k]
                             /\ o = off[k - 1]
    OBVIOUS
  <2>2. /\ m \in Nat /\ o \in Nat /\ o + (2 + m) <= n
        /\ \A j \in 1..(2 + m) : f[12 + (o + j)] = p[j]
    BY <1>9, <2>1
  <2>3. 1 \in 1..(2 + m) /\ 2 \in 1..(2 + m)
    BY <2>2
  <2>4. f[12 + (o + 1)] = p[1] /\ f[12 + (o + 2)] = p[2]
    BY <2>2, <2>3
  <2>5. PICK i : i = 13 + o
    OBVIOUS
  <2>6. /\ i \in Nat \ {0} /\ 12 + (o + 1) = i /\ 12 + (o + 2) = i + 1
        /\ i + 1 <= Len(f)
    BY <1>2, <2>2, <2>5
  <2>7. Number(f, i) = Word(f[i], f[i + 1])
    BY <1>2, <2>6, NumberType
  <2>8. f[i] = p[1] /\ f[i + 1] = p[2]
    BY <2>4, <2>6
  <2>9. Word(p[1], p[2]) = m
    <3>1. d \in Short /\ p = Padded(d)
      BY <1>3, <1>5, <2>1
    <3>2. l \in Nat
      BY <2>1, <3>1 DEF Short
    <3>3. QED
      BY <2>1, <2>2, <3>1, <3>2, PaddedType
  <2>10. QED
    BY <2>1, <2>5, <2>7, <2>8, <2>9, Zenon
<1> HIDE DEF Size
\* The walk goes from one argument to the next.
<1>11. \A k \in 0..a : ArgStart(f)[k] = 13 + off[k]
  <2> DEFINE K == {k \in Nat : k \in 0..a => ArgStart(f)[k] = 13 + off[k]}
  <2>1. 0 \in K
    <3>1. ArgStart(f)[0] = 13
      BY <1>2, ArgStartIterates
    <3>2. off[0] = 0 /\ 13 + 0 = 13
      BY <1>8
    <3>3. QED
      BY <3>1, <3>2
  <2>2. ASSUME NEW k \in Nat, k \in K PROVE k + 1 \in K
    <3> SUFFICES ASSUME k + 1 \in 0..a PROVE ArgStart(f)[k + 1] = 13 + off[k + 1]
      OBVIOUS
    <3>1. k + 1 \in 1..a /\ (k + 1) - 1 = k /\ ArgStart(f)[k] = 13 + off[k]
      BY <1>3, <2>2
    <3>2. ArgStart(f)[k + 1] = ArgStart(f)[k] + 2 + Number(f, ArgStart(f)[k])
      BY <1>2, ArgStartIterates
    <3>3. PICK j : j = k + 1
      OBVIOUS
    <3>4. j \in 1..a /\ j - 1 = k
      BY <3>1, <3>3
    <3>5. /\ Size(j) \in Nat /\ off[j - 1] \in Nat
          /\ off[j] = off[j - 1] + (2 + Size(j))
          /\ Number(f, 13 + off[j - 1]) = Size(j)
      BY <1>9, <1>10, <3>4
    <3>6. /\ Size(j) \in Nat /\ off[k] \in Nat
          /\ off[j] = off[k] + (2 + Size(j))
          /\ Number(f, 13 + off[k]) = Size(j)
      BY <3>4, <3>5, Zenon
    <3>7. ArgStart(f)[j] = 13 + off[k] + 2 + Size(j)
      BY <3>1, <3>2, <3>3, <3>6, Zenon
    <3>8. 13 + off[k] + 2 + Size(j) = 13 + (off[k] + (2 + Size(j)))
      <4>1. PICK b, z : b = off[k] /\ z = Size(j)
        OBVIOUS
      <4>2. b \in Nat /\ z \in Nat
        BY <3>6, <4>1
      <4>3. 13 + b + 2 + z = 13 + (b + (2 + z))
        BY <4>2
      <4>4. QED
        BY <4>1, <4>3, Zenon
    <3>9. QED
      BY <3>3, <3>6, <3>7, <3>8, Zenon
  <2>3. Nat \subseteq K
    <3> HIDE DEF K
    <3>1. QED
      BY <2>1, <2>2, NumberInduction
  <2>4. QED
    BY <2>3
\* An argument is the bytes behind its length.
<1>12. ASSUME NEW k \in 1..a PROVE IsPadded(HostArg(f, k), bs[k])
  <2>1. PICK d, l, m, p, o : /\ d = bs[k] /\ l = Len(d) /\ m = PadLen(l) /\ p = e[k]
                             /\ o = off[k - 1]
    OBVIOUS
  <2>2. /\ m \in Nat /\ o \in Nat /\ off[k] = o + (2 + m) /\ o + (2 + m) <= n
        /\ \A j \in 1..(2 + m) : f[12 + (o + j)] = p[j]
    BY <1>9, <2>1 DEF Size
  <2>3. d \in Short /\ p = Padded(d)
    BY <1>3, <1>5, <2>1
  <2>4. l \in Nat
    BY <2>1, <2>3 DEF Short
  <2>5. /\ m \in l..(l + 3) /\ m % 4 = 0
        /\ \A i \in 1..m : p[2 + i] = IF i <= l THEN d[i] ELSE 0
    <3>1. d \in Short /\ l \in Nat /\ m \in Nat /\ l = Len(d) /\ m = PadLen(l) /\ p = Padded(d)
      BY <2>1, <2>2, <2>3, <2>4
    <3>2. QED
      BY <3>1, PaddedType
  <2>6. ArgStart(f)[k - 1] = 13 + o /\ ArgStart(f)[k] = 13 + (o + (2 + m))
    <3>1. k - 1 \in 0..a /\ k \in 0..a
      BY <1>3
    <3>2. QED
      BY <1>11, <2>1, <2>2, <3>1
  <2>7. PICK u, v, h : u = (13 + o) + 2 /\ v = 13 + (o + (2 + m)) - 1 /\ h = SubSeq(f, u, v)
    OBVIOUS
  <2>8. HostArg(f, k) = h
    <3>1. PICK b, t : b = ArgStart(f)[k - 1] /\ t = ArgStart(f)[k]
      OBVIOUS
    <3>2. HostArg(f, k) = SubSeq(f, b + 2, t - 1)
      BY <3>1 DEF HostArg
    <3>3. b = 13 + o /\ t = 13 + (o + (2 + m))
      BY <2>6, <3>1
    <3>4. b + 2 = u /\ t - 1 = v
      <4>1. u = (13 + o) + 2 /\ v = 13 + (o + (2 + m)) - 1
        BY <2>7
      <4>2. m \in Nat /\ o \in Nat
        BY <2>2
      <4>3. QED
        BY <3>3, <4>1, <4>2
    <3>5. QED
      BY <2>7, <3>2, <3>4, Zenon
  <2>9. /\ u \in Nat \ {0} /\ v \in Int /\ v - u + 1 = m /\ v <= Len(f)
        /\ (IF u <= v THEN v - u + 1 ELSE 0) = m
    BY <1>2, <2>2, <2>7
  <2>10. \A i \in u..v : f[i] \in Byte
    <3>1. \A i \in u..v : i \in 1..Len(f)
      BY <1>2, <2>9
    <3>2. QED
      BY <1>2, <3>1, ElementOfSeq
  <2>11. Len(h) = m /\ \A i \in 1..m : h[i] = f[u + i - 1]
    <3>1. u \in Int
      BY <2>9
    <3>2. /\ Len(SubSeq(f, u, v)) = IF u <= v THEN v - u + 1 ELSE 0
          /\ \A i \in 1..(v - u + 1) : SubSeq(f, u, v)[i] = f[u + i - 1]
      BY <2>9, <2>10, <3>1, SubSeqProperties
    <3>3. QED
      BY <2>7, <2>9, <3>2, Zenon
  <2>12. ASSUME NEW i \in 1..m PROVE h[i] = IF i <= l THEN d[i] ELSE 0
    <3>1. u + i - 1 = 12 + (o + (2 + i)) /\ 2 + i \in 1..(2 + m)
      BY <2>2, <2>7
    <3>2. f[12 + (o + (2 + i))] = p[2 + i]
      BY <2>2, <3>1
    <3>3. h[i] = p[2 + i]
      BY <2>11, <3>1, <3>2
    <3>4. QED
      BY <2>5, <3>3
  <2>13. m - l \in 0..3
    BY <2>4, <2>5
  <2>14. IsPadded(h, d)
    BY <2>1, <2>5, <2>11, <2>12, <2>13, Zenon DEF IsPadded
  <2>15. QED
    BY <2>1, <2>8, <2>14
<1>13. ArgStart(f)[a] = 13 + n
  BY <1>3, <1>8, <1>11
<1>14. QED
  BY <1>1, <1>12, <1>13

LEMMA RawConveys ==
  ASSUME NEW r \in Responses
  PROVE  Conveys(Raw(r), r)
<1>1. PICK f, g, n, a : f = Raw(r) /\ g = Arguments(r.bodies) /\ n = Len(g) /\ a = Len(r.bodies)
  OBVIOUS
<1>2. /\ f \in Seq(Byte) /\ n \in Nat /\ Len(f) = 14 + n
      /\ SubSeq(f, 1, 10) = r.cmd \o r.callback \o r.ret
      /\ Word(f[11], f[12]) = a
      /\ SubSeq(f, 13 + n, 14 + n) = r.crc
  <2>1. MeantBy(r, f, g, n)
    BY <1>1 DEF MeantBy
  <2>2. QED
    BY <1>1, <2>1, RawParts
<1>3. ArgStart(f)[a] = 13 + n /\ \A k \in 1..a : IsPadded(HostArg(f, k), r.bodies[k])
  <2>1. MeantBy(r, f, g, n)
    BY <1>1 DEF MeantBy
  <2>2. QED
    BY <1>1, <2>1, ArgumentsFound
<1>4. Number(f, 11) = a
  <2>1. 11 + 1 <= Len(f) /\ 11 \in Nat \ {0} /\ 11 + 1 = 12
    BY <1>2
  <2>2. Number(f, 11) = Word(f[11], f[11 + 1])
    BY <1>2, <2>1, NumberType
  <2>3. QED
    BY <1>2, <2>1, <2>2
<1>5. DOMAIN r.bodies = 1..a
  BY <1>1, ResponseType, LenProperties
<1>6. SubSeq(f, ArgStart(f)[a], Len(f)) = r.crc
  BY <1>2, <1>3
<1>7. QED
  BY <1>1, <1>2, <1>3, <1>4, <1>5, <1>6, Zenon DEF Conveys

-----------------------------------------------------------------------------
(* The invariant: what the host has made of the stream so far, with what   *)
(* is still to come, is a frame for each response written.                 *)

Delivered(t, ws) ==
  Len(t.got) = Len(ws) /\ \A i \in 1..Len(ws) : t.got[i] = Raw(ws[i])

Coming == \E t : Reads(Host, txFifo \o todo, t) /\ Delivered(t, written)

IInv == TypeOK /\ Coming

LEMMA HostType ==
  /\ TypeOK => Host \in HostStates
  /\ Host \in HostStates =>
       {inFrame, escaped} \subseteq BOOLEAN /\ hostBuf \in Seq(Byte) /\ frames \in Seq(Seq(Byte))
BY DEF TypeOK, Host, HostStates

LEMMA ParseStep ==
  ASSUME TypeOK, NEW x \in Item, NEW b, b = x.byte, HostParse(b, x.log)
  PROVE  Host' = HostStep(Host, x)
<1>1. SLIP_START # SLIP_END /\ SLIP_START # SLIP_REPL /\ SLIP_END # SLIP_REPL
  BY DEF SLIP_START, SLIP_END, SLIP_REPL
<1>2. inFrame \in BOOLEAN /\ escaped \in BOOLEAN
  BY DEF TypeOK
<1>3. CASE b = SLIP_START
  BY <1>1, <1>3 DEF HostParse, HostStep, Host
<1>4. CASE b = SLIP_END
  BY <1>1, <1>4 DEF HostParse, HostStep, Host
<1>5. CASE b = SLIP_REPL
  BY <1>1, <1>5 DEF HostParse, HostStep, Host
<1>6. CASE b \notin {SLIP_START, SLIP_END, SLIP_REPL}
  <2>1. /\ hostBuf' = IF ~inFrame THEN hostBuf
                      ELSE Append(hostBuf, IF escaped THEN SLIP_ESC(b) ELSE b)
        /\ escaped' = (escaped /\ ~inFrame)
        /\ inFrame' = inFrame /\ frames' = frames
    BY <1>6 DEF HostParse
  <2>2. HostStep(Host, x) =
          [in |-> inFrame, esc |-> escaped /\ ~inFrame,
           buf |-> IF inFrame THEN Append(hostBuf, IF escaped THEN SLIP_ESC(b) ELSE b)
                   ELSE hostBuf,
           got |-> frames]
    BY <1>6 DEF HostStep, Host
  <2>3. hostBuf' = IF inFrame THEN Append(hostBuf, IF escaped THEN SLIP_ESC(b) ELSE b)
                   ELSE hostBuf
    BY <2>1
  <2>4. QED
    BY <2>1, <2>2, <2>3 DEF Host
<1>7. QED
  BY <1>3, <1>4, <1>5, <1>6

LEMMA InitCorrect == Init => IInv
<1> SUFFICES ASSUME Init PROVE IInv
  OBVIOUS
<1>1. TypeOK
  <2>1. TxFifoLimit \in Nat /\ MaxResponses \in Nat /\ MaxTexts \in Nat
    BY ResponseBoundsAssumption
  <2>2. /\ <<>> \in Seq(Responses) /\ <<>> \in Seq(Byte) /\ <<>> \in Seq(Seq(Byte))
        /\ <<>> \in Seq(Item) /\ Len(<<>>) = 0
    BY EmptySeq
  <2>3. {FALSE} \subseteq BOOLEAN /\ 0 \in 0..MaxTexts /\ 0 <= TxFifoLimit /\ 0 <= MaxResponses
    BY <2>1
  <2>4. /\ written = <<>> /\ todo = <<>> /\ txFifo = <<>> /\ inFrame = FALSE /\ escaped = FALSE
        /\ hostBuf = <<>> /\ frames = <<>> /\ texts = 0
    BY DEF Init
  <2>5. {inFrame, escaped} \subseteq BOOLEAN
    BY <2>4
  <2>6. QED
    BY <2>2, <2>3, <2>4, <2>5, Zenon DEF TypeOK
<1>2. txFifo \o todo = <<>>
  BY EmptySeq, ConcatEmptySeq DEF Init
<1>3. Reads(Host, txFifo \o todo, Host)
  BY <1>2, ReadsNothing
<1>4. Delivered(Host, written)
  BY EmptySeq DEF Init, Delivered, Host
<1>5. QED
  BY <1>1, <1>3, <1>4 DEF IInv, Coming

LEMMA StepCorrect == IInv /\ [Next]_vars => IInv'
<1> SUFFICES ASSUME IInv, [Next]_vars PROVE IInv'
  OBVIOUS
<1>1. TypeOK /\ Host \in HostStates /\ txFifo \in Seq(Item) /\ todo \in Seq(Item)
      /\ written \in Seq(Responses)
  BY HostType DEF IInv, TypeOK
<1>2. PICK t : Reads(Host, txFifo \o todo, t) /\ Delivered(t, written)
  BY DEF IInv, Coming
<1>3. txFifo \o todo \in Seq(Item)
  BY <1>1, ConcatProperties
<1>4. t \in HostStates
  BY <1>1, <1>2, <1>3, ReadsGrows
<1>5. CASE CMD_Response
  <2>1. PICK r \in Responses : /\ written' = Append(written, r)
                               /\ todo' = Tagged(Response(r), FALSE)
    BY <1>5 DEF CMD_Response
  <2>2. /\ todo = <<>> /\ Len(written) < MaxResponses
        /\ txFifo' = txFifo /\ hostVars' = hostVars /\ texts' = texts
    BY <1>5 DEF CMD_Response
  <2>3. Host' = Host
    BY <2>2 DEF hostVars, Host
  <2>4. Response(r) \in Seq(Byte) /\ todo' \in Seq(Item)
        /\ \E u \in HostStates : Sends(t, Response(r), u) /\ u.got = Append(t.got, Raw(r))
    BY <1>4, <2>1, ResponseReads, TaggedType
  <2>5. PICK u : Reads(t, todo', u) /\ u.got = Append(t.got, Raw(r))
    BY <2>1, <2>4 DEF Sends
  <2>6. txFifo \o todo = txFifo
    BY <1>1, <2>2, ConcatEmptySeq
  <2>7. Reads(Host, txFifo \o todo', u)
    BY <1>1, <1>2, <2>4, <2>5, <2>6, ReadsBoth
  <2>8. Delivered(u, Append(written, r))
    <3>1. PICK g, h, n, x : /\ g = t.got /\ h = u.got /\ n = Len(written) /\ x = Append(written, r)
      OBVIOUS
    <3>2. g \in Seq(Seq(Byte)) /\ Len(g) = n /\ \A i \in 1..n : g[i] = Raw(written[i])
      BY <1>2, <1>4, <3>1 DEF Delivered, HostStates
    <3>3. n \in Nat /\ Len(x) = n + 1 /\ x[n + 1] = r /\ \A i \in 1..n : x[i] = written[i]
      BY <1>1, <3>1
    <3>4. Len(h) = n + 1 /\ h[n + 1] = Raw(r) /\ \A i \in 1..n : h[i] = g[i]
      <4>1. h = Append(g, Raw(r))
        BY <2>5, <3>1
      <4>2. QED
        BY <3>2, <3>3, <4>1
    <3>5. ASSUME NEW i \in 1..(n + 1) PROVE h[i] = Raw(x[i])
      <4>1. CASE i = n + 1
        BY <3>3, <3>4, <4>1
      <4>2. CASE i # n + 1
        <5>1. i \in 1..n
          BY <3>3, <4>2
        <5>2. QED
          BY <3>2, <3>3, <3>4, <5>1
      <4>3. QED
        BY <4>1, <4>2
    <3>6. QED
      BY <3>1, <3>3, <3>4, <3>5 DEF Delivered
  <2>9. Coming'
    BY <2>1, <2>2, <2>3, <2>7, <2>8 DEF Coming
  <2>10. TypeOK'
    <3>1. written' \in Seq(Responses) /\ Len(written') <= MaxResponses
      BY <1>1, <2>1, <2>2, ResponseBoundsAssumption
    <3>2. todo' \in Seq(Item)
      BY <2>1, <2>4
    <3>3. QED
      BY <1>1, <2>2, <3>1, <3>2 DEF TypeOK, hostVars
  <2>11. QED
    BY <2>9, <2>10 DEF IInv
<1>6. CASE INFO
  <2>1. PICK text \in Texts : todo' = Tagged(text, TRUE)
    BY <1>6 DEF INFO
  <2>2. /\ todo = <<>> /\ texts < MaxTexts /\ texts' = texts + 1
        /\ written' = written /\ txFifo' = txFifo /\ hostVars' = hostVars
    BY <1>6 DEF INFO
  <2>3. Host' = Host
    BY <2>2 DEF hostVars, Host
  <2>4. text \in Seq(Byte) /\ todo' \in Seq(Item)
    BY <2>1, TextsAssumption, TaggedType
  <2>5. PICK u \in HostStates : Reads(t, todo', u) /\ u.got = t.got
    BY <1>4, <2>1, <2>4, TextReads
  <2>6. txFifo \o todo = txFifo
    BY <1>1, <2>2, ConcatEmptySeq
  <2>7. Reads(Host, txFifo \o todo', u)
    BY <1>1, <1>2, <2>4, <2>5, <2>6, ReadsBoth
  <2>8. Delivered(u, written)
    BY <1>2, <2>5 DEF Delivered
  <2>9. Coming'
    BY <2>2, <2>3, <2>7, <2>8 DEF Coming
  <2>10. TypeOK'
    <3>1. texts' \in 0..MaxTexts
      BY <1>1, <2>2, ResponseBoundsAssumption DEF TypeOK
    <3>2. QED
      BY <1>1, <2>2, <2>4, <3>1 DEF TypeOK, hostVars
  <2>11. QED
    BY <2>9, <2>10 DEF IInv
<1>7. CASE uart0_write
  <2>1. /\ todo # <<>> /\ Len(txFifo) < TxFifoLimit
        /\ txFifo' = Append(txFifo, Head(todo)) /\ todo' = Tail(todo)
        /\ written' = written /\ hostVars' = hostVars /\ texts' = texts
    BY <1>7 DEF uart0_write
  <2>2. Host' = Host
    BY <2>1 DEF hostVars, Host
  <2>3. Head(todo) \in Item /\ Tail(todo) \in Seq(Item) /\ todo = <<Head(todo)>> \o Tail(todo)
    <3>1. Head(todo) \in Item /\ Tail(todo) \in Seq(Item)
      BY <1>1, <2>1, HeadTailProperties
    <3>2. QED
      BY <1>1, <2>1, <3>1
  <2>4. txFifo' \o todo' = txFifo \o todo
    <3>1. PICK h, y : h = Head(todo) /\ y = Tail(todo)
      OBVIOUS
    <3>2. h \in Item /\ y \in Seq(Item) /\ <<h>> \in Seq(Item) /\ todo = <<h>> \o y
      BY <2>3, <3>1
    <3>3. Append(txFifo, h) = txFifo \o <<h>>
      BY <1>1, <3>2, AppendIsConcat
    <3>4. (txFifo \o <<h>>) \o y = txFifo \o (<<h>> \o y)
      BY <1>1, <3>2, ConcatAssociative
    <3>5. QED
      BY <2>1, <3>1, <3>2, <3>3, <3>4, Zenon
  <2>5. Coming'
    BY <1>2, <2>1, <2>2, <2>4 DEF Coming
  <2>6. TypeOK'
    <3>1. txFifo' \in Seq(Item) /\ Len(txFifo') <= TxFifoLimit
      <4>1. TxFifoLimit \in Nat
        BY ResponseBoundsAssumption
      <4>2. Append(txFifo, Head(todo)) \in Seq(Item)
            /\ Len(Append(txFifo, Head(todo))) = Len(txFifo) + 1
        BY <1>1, <2>3, AppendProperties
      <4>3. Len(txFifo) \in Nat
        BY <1>1, LenProperties
      <4>4. QED
        BY <2>1, <4>1, <4>2, <4>3
    <3>2. QED
      BY <1>1, <2>1, <2>3, <3>1 DEF TypeOK, hostVars
  <2>7. QED
    BY <2>5, <2>6 DEF IInv
<1>8. CASE HostByte
  <2>1. /\ txFifo # <<>> /\ HostParse(Head(txFifo).byte, Head(txFifo).log) /\ txFifo' = Tail(txFifo)
        /\ written' = written /\ todo' = todo /\ texts' = texts
    BY <1>8 DEF HostByte
  <2>2. Head(txFifo) \in Item /\ Tail(txFifo) \in Seq(Item)
    BY <1>1, <2>1, HeadTailProperties
  <2>3. Host' = HostStep(Host, Head(txFifo))
    BY <1>1, <2>1, <2>2, ParseStep
  <2>4. /\ txFifo \o todo # <<>> /\ Head(txFifo \o todo) = Head(txFifo)
        /\ Tail(txFifo \o todo) = Tail(txFifo) \o todo
    <3>1. PICK x, y, z, w : /\ x = txFifo /\ y = todo /\ z = x \o y /\ w = Tail(x)
      OBVIOUS
    <3>2. x \in Seq(Item) /\ y \in Seq(Item) /\ x # <<>>
      BY <1>1, <2>1, <3>1
    <3>3. z # <<>> /\ Head(z) = Head(x)
      BY <3>1, <3>2
    <3>4. Tail(z) = w \o y
      BY <3>1, <3>2
    <3>5. QED
      BY <3>1, <3>3, <3>4, Zenon
  <2>5. Reads(HostStep(Host, Head(txFifo)), Tail(txFifo) \o todo, t)
    BY <1>2, <1>3, <2>4, ReadsFirst
  <2>6. Coming'
    BY <1>2, <2>1, <2>3, <2>5 DEF Coming
  <2>7. TypeOK'
    <3>1. Host' \in HostStates
      BY <1>1, <2>2, <2>3, StepType
    <3>2. {inFrame, escaped}' \subseteq BOOLEAN /\ hostBuf' \in Seq(Byte)
          /\ frames' \in Seq(Seq(Byte))
      BY <3>1 DEF Host, HostStates
    <3>3. Len(txFifo') <= TxFifoLimit
      <4>1. TxFifoLimit \in Nat
        BY ResponseBoundsAssumption
      <4>2. Len(Tail(txFifo)) = Len(txFifo) - 1 /\ Len(txFifo) \in Nat
        BY <1>1, <2>1, HeadTailProperties, LenProperties
      <4>3. Len(txFifo) <= TxFifoLimit
        BY <1>1 DEF TypeOK
      <4>4. QED
        BY <2>1, <4>1, <4>2, <4>3
    <3>4. QED
      BY <1>1, <2>1, <2>2, <3>2, <3>3 DEF TypeOK
  <2>8. QED
    BY <2>6, <2>7 DEF IInv
<1>9. CASE UNCHANGED vars
  BY <1>9 DEF vars, IInv, TypeOK, Coming, Host
<1>10. QED
  BY <1>5, <1>6, <1>7, <1>8, <1>9 DEF Next

\* Types: the FIFO never holds more than its limit, and what is written, under
\* way and received are bytes.
THEOREM TypeCorrect == Spec => []TypeOK
<1>1. IInv => TypeOK
  BY DEF IInv
<1>2. QED
  BY <1>1, InitCorrect, StepCorrect, PTL DEF Spec

\* What the host has received up to a writer's END are exactly the responses
\* written, complete and in order, whatever bytes their fields, arguments and
\* checksums are made of and whatever bytes, markers included, the log prints
\* in between.
THEOREM ReadsResponses == Spec => []HostReadsResponses
<1>1. IInv => HostReadsResponses
  <2> SUFFICES ASSUME IInv PROVE HostReadsResponses
    OBVIOUS
  <2>1. Host \in HostStates /\ txFifo \o todo \in Seq(Item) /\ written \in Seq(Responses)
    BY HostType, ConcatProperties DEF IInv, TypeOK
  <2>2. PICK t : Reads(Host, txFifo \o todo, t) /\ Delivered(t, written)
    BY DEF IInv, Coming
  <2>3. /\ t \in HostStates /\ Len(Host.got) <= Len(t.got)
        /\ \A i \in 1..Len(Host.got) : t.got[i] = Host.got[i]
    BY <2>1, <2>2, ReadsGrows
  <2>4. Host.got = frames /\ frames \in Seq(Seq(Byte))
    BY <2>1, HostType DEF Host
  <2>5. Len(frames) \in Nat /\ Len(written) \in Nat /\ DOMAIN frames = 1..Len(frames)
    BY <2>1, <2>4, LenProperties
  <2>6. Len(t.got) = Len(written) /\ \A i \in 1..Len(written) : t.got[i] = Raw(written[i])
    BY <2>2 DEF Delivered
  <2>7. Len(frames) <= Len(written)
    BY <2>3, <2>4, <2>6
  <2>8. ASSUME NEW i \in DOMAIN frames PROVE Conveys(frames[i], written[i])
    <3>1. i \in 1..Len(frames) /\ i \in 1..Len(written)
      BY <2>5, <2>7
    <3>2. frames[i] = Raw(written[i])
      BY <2>3, <2>4, <2>6, <3>1
    <3>3. written[i] \in Responses
      BY <2>1, <3>1, ElementOfSeq
    <3>4. QED
      BY <3>2, <3>3, RawConveys
  <2>9. QED
    BY <2>7, <2>8 DEF HostReadsResponses
<1>2. QED
  BY <1>1, InitCorrect, StepCorrect, PTL DEF Spec
=============================================================================
