----------------------------- MODULE RestProofs -----------------------------
(***************************************************************************)
(* Proofs about the REST client: the loop of tcpclient_recv for segments   *)
(* of every length, then the client for every number of clients, requests, *)
(* setups and faults, and for all answers and callbacks.                   *)
(***************************************************************************)
EXTENDS RestClient, RestParse, SequenceLemmas

Char == 0..255

-----------------------------------------------------------------------------
(* One turn of the loop. *)

\* The text ends with a line that has nothing but CR in it.
EndsBlank(t) ==
  \E m \in 1..Len(t) : t[m] = NL /\ \A i \in (m + 1)..Len(t) : t[i] = CR

\* What one more character does to blank lines and blank ends.
LEMMA AppendBlank ==
  ASSUME NEW t \in Seq(Char), NEW c \in Char
  PROVE  /\ \A k \in 1..Len(t) : BlankLineAt(Append(t, c), k) <=> BlankLineAt(t, k)
         /\ BlankLineAt(Append(t, c), Len(t) + 1) <=> c = NL /\ EndsBlank(t)
         /\ EndsBlank(Append(t, c)) <=> c = NL \/ (c = CR /\ EndsBlank(t))
<1> DEFINE u == Append(t, c)
<1>1. /\ Len(t) \in Nat /\ Len(u) = Len(t) + 1
      /\ u[Len(t) + 1] = c
      /\ \A i \in 1..Len(t) : u[i] = t[i]
  OBVIOUS
<1> HIDE DEF u
<1>2. ASSUME NEW k \in 1..Len(t) PROVE BlankLineAt(u, k) <=> BlankLineAt(t, k)
  BY <1>1 DEF BlankLineAt
<1>3. BlankLineAt(u, Len(t) + 1) <=> c = NL /\ EndsBlank(t)
  BY <1>1 DEF BlankLineAt, EndsBlank
<1>4. EndsBlank(u) <=> c = NL \/ (c = CR /\ EndsBlank(t))
  <2>1. ASSUME c = NL PROVE EndsBlank(u)
    BY <1>1, <2>1 DEF EndsBlank
  <2>2. ASSUME c = CR, EndsBlank(t) PROVE EndsBlank(u)
    BY <1>1, <2>2 DEF EndsBlank
  <2>3. ASSUME EndsBlank(u), c # NL PROVE c = CR /\ EndsBlank(t)
    <3>1. PICK m \in 1..Len(u) : u[m] = NL /\ \A i \in (m + 1)..Len(u) : u[i] = CR
      BY <2>3 DEF EndsBlank
    <3>2. m \in 1..Len(t)
      BY <1>1, <2>3, <3>1
    <3>3. QED
      BY <1>1, <3>1, <3>2 DEF EndsBlank
  <2>4. QED
    BY <2>1, <2>2, <2>3
<1>5. QED
  BY <1>2, <1>3, <1>4 DEF u

\* The locals after t was read.
Locals == [j : Nat, currentLineIsBlank : BOOLEAN, httpBody : BOOLEAN,
           inStatus : BOOLEAN, statusCode : Seq(Char), event : BOOLEAN]

\* BodyAfterBlankLine, and what currentLineIsBlank means in the head.
HeadRead(t, s) ==
  /\ s.httpBody <=> \E k \in 1..Len(t) : BlankLineAt(t, k)
  /\ s.event <=> \E k \in 1..(Len(t) - 1) : BlankLineAt(t, k)
  /\ \A k \in 1..(Len(t) - 2) : ~BlankLineAt(t, k)
  /\ ~s.httpBody => (s.currentLineIsBlank <=> EndsBlank(t))

\* The space at n is followed by m digits: three, or all there is.
DigitsAfter(t, n, m) ==
  /\ n + m <= Len(t) /\ (m = 3 \/ n + m = Len(t))
  /\ \A i \in 1..m : t[n + i] \in Digits

\* statusCode has the digits after the version.
StatusRead(t, s) ==
  /\ s.inStatus <=> \E i \in 1..Len(t) : t[i] = SP
  /\ ~s.inStatus => s.statusCode = <<>>
  /\ \A n \in 1..Len(t), m \in 0..3 :
       Version(t, n) /\ t[n] = SP /\ DigitsAfter(t, n, m) =>
         /\ Len(s.statusCode) = m
         /\ \A i \in 1..m : s.statusCode[i] = t[n + i]

LoopInv(t, s) ==
  /\ s \in Locals /\ s.j = Len(t) /\ Len(s.statusCode) <= 3
  /\ HeadRead(t, s)
  /\ StatusRead(t, s)

LEMMA LoopStarts == LoopInv(<<>>, ScanStart)
BY DEF LoopInv, Locals, ScanStart, HeadRead, StatusRead, EndsBlank

LEMMA TurnKeepsTypes ==
  ASSUME NEW s \in Locals, NEW c \in Char, Len(s.statusCode) <= 3
  PROVE  /\ ScanByte(s, c) \in Locals
         /\ Len(ScanByte(s, c).statusCode) <= 3
         /\ ScanByte(s, c).j = s.j + 1
         /\ ScanByte(s, c).httpBody = (s.httpBody \/ (c = NL /\ s.currentLineIsBlank))
         /\ ScanByte(s, c).event = s.httpBody
         /\ ScanByte(s, c).inStatus = (s.inStatus \/ c = SP)
         /\ ScanByte(s, c).statusCode = StatusCode(s, c)
         /\ ~s.httpBody => ScanByte(s, c).currentLineIsBlank
                             = (c = NL \/ (c = CR /\ s.currentLineIsBlank))
<1>1. /\ s.j \in Nat
      /\ {s.currentLineIsBlank, s.httpBody, s.inStatus} \subseteq BOOLEAN
      /\ s.statusCode \in Seq(Char)
  BY DEF Locals
<1>2. StatusCode(s, c) \in Seq(Char) /\ Len(StatusCode(s, c)) <= 3
  BY <1>1 DEF StatusCode
<1>3. LineIsBlank(s, c) \in BOOLEAN /\ InStatus(s, c) \in BOOLEAN
  BY <1>1 DEF LineIsBlank, InStatus
<1>4. (IF s.httpBody THEN s.currentLineIsBlank ELSE LineIsBlank(s, c)) \in BOOLEAN
  BY <1>1, <1>3
<1>5. (s.httpBody \/ (c = NL /\ s.currentLineIsBlank)) \in BOOLEAN
  OBVIOUS
<1>6. ScanByte(s, c) \in Locals
  BY <1>1, <1>2, <1>3, <1>4, <1>5 DEF ScanByte, Locals
<1>7. QED
  BY <1>2, <1>6 DEF ScanByte, InStatus, LineIsBlank

LEMMA TurnKeepsHead ==
  ASSUME NEW t \in Seq(Char), NEW s, LoopInv(t, s), ~s.event, NEW c \in Char
  PROVE  HeadRead(Append(t, c), ScanByte(s, c))
<1>1. PICK u, r, n : u = Append(t, c) /\ r = ScanByte(s, c) /\ n = Len(t)
  OBVIOUS
<1>2. s \in Locals /\ Len(s.statusCode) <= 3 /\ HeadRead(t, s)
  BY DEF LoopInv
<1>3. n \in Nat /\ Len(t) = n /\ Len(u) = n + 1
  BY <1>1
<1>4. /\ \A k \in 1..n : BlankLineAt(u, k) <=> BlankLineAt(t, k)
      /\ BlankLineAt(u, n + 1) <=> c = NL /\ EndsBlank(t)
      /\ EndsBlank(u) <=> c = NL \/ (c = CR /\ EndsBlank(t))
  BY <1>1, AppendBlank
<1>5. /\ r.httpBody = (s.httpBody \/ (c = NL /\ s.currentLineIsBlank))
      /\ r.event = s.httpBody
      /\ ~s.httpBody =>
           r.currentLineIsBlank = (c = NL \/ (c = CR /\ s.currentLineIsBlank))
  BY <1>1, <1>2, TurnKeepsTypes
<1>6. /\ s.httpBody <=> \E k \in 1..n : BlankLineAt(t, k)
      /\ \A k \in 1..(n - 1) : ~BlankLineAt(t, k)
      /\ ~s.httpBody => (s.currentLineIsBlank <=> EndsBlank(t))
      /\ s.httpBody \in BOOLEAN /\ s.currentLineIsBlank \in BOOLEAN
  BY <1>2, <1>3 DEF HeadRead, Locals
<1>7. r.httpBody <=> \E k \in 1..(n + 1) : BlankLineAt(u, k)
  <2>1. 1..(n + 1) = 1..n \cup {n + 1}
    BY <1>3
  <2>2. QED
    BY <1>4, <1>5, <1>6, <2>1
<1>8. r.event <=> \E k \in 1..n : BlankLineAt(u, k)
  BY <1>4, <1>5, <1>6
<1>9. \A k \in 1..(n - 1) : ~BlankLineAt(u, k)
  <2>1. \A k \in 1..(n - 1) : k \in 1..n
    BY <1>3
  <2>2. QED
    BY <1>4, <1>6, <2>1
<1>10. ~r.httpBody => (r.currentLineIsBlank <=> EndsBlank(u))
  BY <1>4, <1>5, <1>6
<1>11. Len(u) - 1 = n /\ Len(u) - 2 = n - 1
  BY <1>3
<1>12. HeadRead(u, r)
  BY <1>3, <1>7, <1>8, <1>9, <1>10, <1>11 DEF HeadRead
<1>13. QED
  BY <1>1, <1>12

LEMMA TurnKeepsStatus ==
  ASSUME NEW t \in Seq(Char), NEW s, LoopInv(t, s), NEW c \in Char
  PROVE  StatusRead(Append(t, c), ScanByte(s, c))
<1>1. PICK u, r, n : u = Append(t, c) /\ r = ScanByte(s, c) /\ n = Len(t)
  OBVIOUS
<1>2. s \in Locals /\ Len(s.statusCode) <= 3 /\ StatusRead(t, s)
  BY DEF LoopInv
<1>3. /\ n \in Nat /\ Len(t) = n /\ Len(u) = n + 1 /\ u[n + 1] = c
      /\ \A i \in 1..n : u[i] = t[i]
  BY <1>1
<1>4. r.inStatus = (s.inStatus \/ c = SP) /\ r.statusCode = StatusCode(s, c)
  BY <1>1, <1>2, TurnKeepsTypes
<1>5. PICK old, new : old = s.statusCode /\ new = r.statusCode
  OBVIOUS
<1>6. /\ old \in Seq(Char) /\ Len(old) <= 3 /\ s.inStatus \in BOOLEAN
      /\ new = IF (s.inStatus \/ c = SP) /\ Len(old) < 3 /\ c # SP
                 THEN Append(old, c) ELSE old
  BY <1>2, <1>4, <1>5 DEF Locals, StatusCode, InStatus
<1>7. s.inStatus <=> \E i \in 1..n : t[i] = SP
  BY <1>2, <1>3 DEF StatusRead
<1>8. ~s.inStatus => old = <<>>
  BY <1>2, <1>5 DEF StatusRead
<1>9. r.inStatus <=> \E i \in 1..(n + 1) : u[i] = SP
  <2>1. 1..(n + 1) = 1..n \cup {n + 1}
    BY <1>3
  <2>2. QED
    BY <1>3, <1>4, <1>7, <2>1
<1>10. ~r.inStatus => new = <<>>
  BY <1>4, <1>6, <1>8
<1>11. ASSUME NEW k \in 1..(n + 1), NEW m \in 0..3,
              Version(u, k), u[k] = SP, DigitsAfter(u, k, m)
       PROVE  Len(new) = m /\ \A i \in 1..m : new[i] = u[k + i]
  <2>1. /\ k + m <= n + 1 /\ (m = 3 \/ k + m = n + 1)
        /\ \A i \in 1..m : u[k + i] \in Digits
    BY <1>3, <1>11 DEF DigitsAfter
  <2>2. k > 1 /\ \A i \in 1..(k - 1) : u[i] \notin {SP, NL, CR}
    BY <1>11 DEF Version
  <2>3. CASE k = n + 1
    <3>1. m = 0 /\ c = SP
      BY <1>3, <1>11, <2>1, <2>3
    <3>2. \A i \in 1..n : t[i] # SP
      BY <1>3, <2>2, <2>3
    <3>3. new = old /\ old = <<>>
      BY <1>6, <1>7, <1>8, <3>1, <3>2
    <3>4. QED
      BY <3>1, <3>3
  <2>4. CASE k # n + 1
    <3>1. k \in 1..n
      BY <1>3, <2>4
    <3>2. t[k] = SP /\ Version(t, k)
      <4>1. \A i \in 1..(k - 1) : i \in 1..n /\ u[i] = t[i]
        BY <1>3, <3>1
      <4>2. QED
        BY <1>3, <1>11, <2>2, <3>1, <4>1 DEF Version
    <3>3. s.inStatus
      BY <1>7, <3>1, <3>2
    <3>4. ASSUME NEW l \in 0..3, DigitsAfter(t, k, l)
          PROVE  Len(old) = l /\ \A i \in 1..l : old[i] = t[k + i]
      BY <1>2, <1>3, <1>5, <3>1, <3>2, <3>4 DEF StatusRead
    <3>5. CASE m = 3 /\ k + 3 <= n
      <4>1. \A i \in 1..3 : k + i \in 1..n /\ u[k + i] = t[k + i]
        BY <1>3, <3>1, <3>5
      <4>2. DigitsAfter(t, k, 3)
        BY <1>3, <2>1, <3>5, <4>1 DEF DigitsAfter
      <4>3. Len(old) = 3 /\ \A i \in 1..3 : old[i] = t[k + i]
        BY <3>4, <4>2
      <4>4. new = old
        BY <1>6, <4>3
      <4>5. QED
        BY <3>5, <4>1, <4>3, <4>4
    <3>6. CASE ~(m = 3 /\ k + 3 <= n)
      <4>1. k + m = n + 1 /\ m # 0 /\ m - 1 \in 0..3 /\ k + (m - 1) = n
        BY <1>3, <2>1, <2>4, <3>1, <3>6
      <4>2. \A i \in 1..(m - 1) : i \in 1..m /\ k + i \in 1..n /\ u[k + i] = t[k + i]
        BY <1>3, <3>1, <4>1
      <4>3. DigitsAfter(t, k, m - 1)
        BY <1>3, <2>1, <4>1, <4>2 DEF DigitsAfter
      <4>4. Len(old) = m - 1 /\ \A i \in 1..(m - 1) : old[i] = t[k + i]
        BY <3>4, <4>1, <4>3
      <4>5. u[k + m] = c /\ c \in Digits
        BY <1>3, <2>1, <4>1
      <4>6. c # SP
        BY <4>5 DEF Digits, SP
      <4>7. new = Append(old, c)
        BY <1>6, <3>3, <4>1, <4>4, <4>6
      <4>8. Len(new) = m /\ new[m] = c /\ \A i \in 1..(m - 1) : new[i] = old[i]
        BY <1>6, <4>1, <4>4, <4>7
      <4>9. ASSUME NEW i \in 1..m PROVE new[i] = u[k + i]
        <5>1. CASE i = m
          BY <4>5, <4>8, <5>1
        <5>2. CASE i # m
          <6>1. i \in 1..(m - 1)
            BY <5>2
          <6>2. QED
            BY <4>2, <4>4, <4>8, <6>1
        <5>3. QED
          BY <5>1, <5>2
      <4>10. QED
        BY <4>8, <4>9
    <3>7. QED
      BY <3>5, <3>6
  <2>5. QED
    BY <2>3, <2>4
<1>12. StatusRead(u, r)
  BY <1>3, <1>5, <1>9, <1>10, <1>11 DEF StatusRead
<1>13. QED
  BY <1>1, <1>12

LEMMA TurnKeeps ==
  ASSUME NEW t \in Seq(Char), NEW s, LoopInv(t, s), ~s.event, NEW c \in Char
  PROVE  LoopInv(Append(t, c), ScanByte(s, c))
<1>1. s \in Locals /\ Len(s.statusCode) <= 3 /\ s.j = Len(t)
  BY DEF LoopInv
<1>2. /\ ScanByte(s, c) \in Locals /\ Len(ScanByte(s, c).statusCode) <= 3
      /\ ScanByte(s, c).j = s.j + 1
  BY <1>1, TurnKeepsTypes
<1>3. Len(Append(t, c)) = Len(t) + 1
  OBVIOUS
<1>4. QED
  BY <1>1, <1>2, <1>3, TurnKeepsHead, TurnKeepsStatus DEF LoopInv

-----------------------------------------------------------------------------
(* atoi of the status. *)

AtoiState == [n : Int, begun : BOOLEAN, end : BOOLEAN]
AtoiStart == [n |-> 0, begun |-> FALSE, end |-> FALSE]
AtoiStep(a, c) ==
  IF ~a.end /\ c \in Digits
    THEN [n |-> 10 * a.n + (c - 48), begun |-> TRUE, end |-> FALSE]
    ELSE [a EXCEPT !.end = @ \/ a.begun \/ c \notin {NL, CR, SP}]

AtoiFolds(f, t, n) ==
  f = [s \in SUBSET (1..n) |->
         IF s = {} THEN AtoiStart ELSE AtoiStep(f[s \ {Max(s)}], t[Max(s)])]

LEMMA AtoiUnfolds ==
  ASSUME NEW t, NEW n, DOMAIN t = 1..n
  PROVE  atoi(t) = (CHOOSE f : AtoiFolds(f, t, n))[1..n].n
BY DEF atoi, FoldLeft, MapThenFoldSet, AtoiFolds, AtoiStart, AtoiStep

LEMMA AtoiFoldExists ==
  ASSUME NEW t \in Seq(Int)
  PROVE  \E f : AtoiFolds(f, t, Len(t))
<1> DEFINE F == [p \in AtoiState \X Int |-> AtoiStep(p[1], p[2])]
<1>1. Maps(F, AtoiState \X Int, AtoiState)
  <2>1. ASSUME NEW a \in AtoiState, NEW c \in Int PROVE AtoiStep(a, c) \in AtoiState
    <3>1. a.n \in Int /\ a.begun \in BOOLEAN /\ a.end \in BOOLEAN
      BY DEF AtoiState
    <3>2. 10 * a.n + (c - 48) \in Int
      BY <3>1
    <3>3. [n |-> 10 * a.n + (c - 48), begun |-> TRUE, end |-> FALSE] \in AtoiState
      BY <3>2 DEF AtoiState
    <3>4. [a EXCEPT !.end = @ \/ a.begun \/ c \notin {NL, CR, SP}] \in AtoiState
      BY <3>1 DEF AtoiState
    <3>5. QED
      BY <3>3, <3>4 DEF AtoiStep
  <2>2. ASSUME NEW p \in AtoiState \X Int PROVE F[p] \in AtoiState
    BY <2>1
  <2>3. QED
    BY <2>2 DEF Maps
<1>2. AtoiStart \in AtoiState
  BY DEF AtoiStart, AtoiState
<1>3. ASSUME NEW a \in AtoiState, NEW c \in Int PROVE F[<<a, c>>] = AtoiStep(a, c)
  OBVIOUS
<1> HIDE DEF F
<1>4. PICK f : Folds(f, F, AtoiStart, t, Len(t)) /\ f \in [SUBSET (1..Len(t)) -> AtoiState]
  BY <1>1, <1>2, FoldExists
<1>5. ASSUME NEW s \in SUBSET (1..Len(t)), s # {}
      PROVE  F[<<f[s \ {Max(s)}], t[Max(s)]>>] = AtoiStep(f[s \ {Max(s)}], t[Max(s)])
  <2>1. Max(s) \in 1..Len(t)
    BY <1>5, MaxPosition, LenProperties
  <2>2. t[Max(s)] \in Int /\ f[s \ {Max(s)}] \in AtoiState
    BY <1>4, <2>1, ElementOfSeq
  <2>3. QED
    BY <1>3, <2>2
<1>6. AtoiFolds(f, t, Len(t))
  BY <1>4, <1>5 DEF Folds, AtoiFolds
<1>7. QED
  BY <1>6

LEMMA AtoiOfDigits ==
  ASSUME NEW t \in Seq(Int), Len(t) = 3, \A i \in 1..3 : t[i] \in Digits
  PROVE  atoi(t) = 100 * (t[1] - 48) + 10 * (t[2] - 48) + (t[3] - 48)
<1>1. PICK f : AtoiFolds(f, t, 3) /\ atoi(t) = f[1..3].n
  <2>1. DOMAIN t = 1..3 /\ \E f : AtoiFolds(f, t, 3)
    <3>1. \E f : AtoiFolds(f, t, Len(t))
      BY AtoiFoldExists
    <3>2. DOMAIN t = 1..Len(t)
      OBVIOUS
    <3>3. QED
      BY <3>1, <3>2
  <2>2. AtoiFolds(CHOOSE f : AtoiFolds(f, t, 3), t, 3)
    BY <2>1
  <2>3. QED
    BY <2>1, <2>2, AtoiUnfolds
<1>2. f[1..0] = AtoiStart
  <2>1. 1..0 = {} /\ 1..0 \in SUBSET (1..3)
    OBVIOUS
  <2>2. QED
    BY <1>1, <2>1 DEF AtoiFolds
<1>3. ASSUME NEW k \in 1..3 PROVE f[1..k] = AtoiStep(f[1..(k - 1)], t[k])
  <2>1. k \in Nat /\ k # 0 /\ 1..k \in SUBSET (1..3)
    OBVIOUS
  <2>2. Max(1..k) = k /\ (1..k) \ {k} = 1..(k - 1) /\ 1..k # {}
    BY <2>1, LastOfPositions
  <2>3. f[1..k] = IF 1..k = {} THEN AtoiStart
                              ELSE AtoiStep(f[(1..k) \ {Max(1..k)}], t[Max(1..k)])
    BY <1>1, <2>1 DEF AtoiFolds
  <2>4. QED
    BY <2>2, <2>3
<1>4. t[1] \in Digits /\ t[2] \in Digits /\ t[3] \in Digits
  OBVIOUS
<1>5. t[1] \in Int /\ t[2] \in Int /\ t[3] \in Int
  BY <1>4 DEF Digits
<1>6. f[1..1] = [n |-> t[1] - 48, begun |-> TRUE, end |-> FALSE]
  <2>1. f[1..1] = AtoiStep(AtoiStart, t[1])
    <3>1. 1 \in 1..3 /\ 1 - 1 = 0
      OBVIOUS
    <3>2. QED
      BY <1>2, <1>3, <3>1
  <2>2. AtoiStart.n = 0 /\ AtoiStart.end = FALSE
    BY DEF AtoiStart
  <2>3. f[1..1] = [n |-> 10 * 0 + (t[1] - 48), begun |-> TRUE, end |-> FALSE]
    BY <1>4, <2>1, <2>2 DEF AtoiStep
  <2>4. 10 * 0 + (t[1] - 48) = t[1] - 48
    BY <1>5
  <2>5. QED
    BY <2>3, <2>4
<1>7. f[1..2] = [n |-> 10 * (t[1] - 48) + (t[2] - 48), begun |-> TRUE, end |-> FALSE]
  <2>1. f[1..2] = AtoiStep(f[1..1], t[2])
    BY <1>3
  <2>2. QED
    BY <1>4, <1>6, <2>1 DEF AtoiStep
<1>8. f[1..3] = [n |-> 10 * (10 * (t[1] - 48) + (t[2] - 48)) + (t[3] - 48),
                 begun |-> TRUE, end |-> FALSE]
  <2>1. f[1..3] = AtoiStep(f[1..2], t[3])
    BY <1>3
  <2>2. QED
    BY <1>4, <1>7, <2>1 DEF AtoiStep
<1>9. QED
  BY <1>1, <1>5, <1>8

\* So the code is the number in the status line.
LEMMA CodeRead ==
  ASSUME NEW t \in Seq(Char), NEW s, LoopInv(t, s),
         NEW n \in 1..Len(t), StatusLine(t, n)
  PROVE  Code(s) = Number(t, n)
<1>1. PICK v : v = s.statusCode
  OBVIOUS
<1>2. /\ n + 4 \in 1..Len(t) /\ Version(t, n) /\ t[n] = SP
      /\ \A i \in (n + 1)..(n + 3) : t[i] \in Digits
  BY DEF StatusLine
<1>3. DigitsAfter(t, n, 3)
  <2>1. Len(t) \in Nat /\ n + 3 <= Len(t)
    BY <1>2
  <2>2. \A i \in 1..3 : n + i \in (n + 1)..(n + 3)
    OBVIOUS
  <2>3. QED
    BY <1>2, <2>1, <2>2 DEF DigitsAfter
<1>4. Len(v) = 3 /\ \A i \in 1..3 : v[i] = t[n + i]
  BY <1>1, <1>2, <1>3 DEF LoopInv, StatusRead
<1>5. v \in Seq(Int)
  <2>1. v \in Seq(Char)
    BY <1>1 DEF LoopInv, Locals
  <2>2. \A c \in Char : c \in Int
    BY DEF Char
  <2>3. Len(v) \in Nat /\ \A i \in 1..Len(v) : v[i] \in Int
    BY <2>1, <2>2
  <2>4. v = [i \in 1..Len(v) |-> v[i]]
    BY <2>1
  <2>5. QED
    BY <2>3, <2>4
<1>6. \A i \in 1..3 : v[i] \in Digits
  BY <1>3, <1>4 DEF DigitsAfter
<1>7. atoi(v) = 100 * (v[1] - 48) + 10 * (v[2] - 48) + (v[3] - 48)
  BY <1>4, <1>5, <1>6, AtoiOfDigits
<1>8. Code(s) = atoi(v)
  BY <1>1, <1>4 DEF Code
<1>9. QED
  BY <1>4, <1>7, <1>8 DEF Number

-----------------------------------------------------------------------------
(* The whole loop. *)

\* Nothing is read after the break.
ScanTurn(s, c) == IF s.event THEN s ELSE ScanByte(s, c)

ScanFolds(f, t, n) ==
  f = [s \in SUBSET (1..n) |->
         IF s = {} THEN ScanStart ELSE ScanTurn(f[s \ {Max(s)}], t[Max(s)])]

LEMMA ScanUnfolds ==
  ASSUME NEW t, NEW n, DOMAIN t = 1..n
  PROVE  Scan(t) = (CHOOSE f : ScanFolds(f, t, n))[1..n]
BY DEF Scan, FoldLeft, MapThenFoldSet, ScanFolds, ScanTurn

LEMMA ScanFoldExists ==
  ASSUME NEW t \in Seq(Char)
  PROVE  \E f : ScanFolds(f, t, Len(t))
<1> DEFINE A == {s \in Locals : Len(s.statusCode) <= 3}
           F == [p \in A \X Char |-> ScanTurn(p[1], p[2])]
<1>1. Maps(F, A \X Char, A)
  <2>1. ASSUME NEW s \in A, NEW c \in Char PROVE ScanTurn(s, c) \in A
    BY TurnKeepsTypes DEF ScanTurn
  <2>2. ASSUME NEW p \in A \X Char PROVE F[p] \in A
    <3>1. p[1] \in A /\ p[2] \in Char
      OBVIOUS
    <3> HIDE DEF A
    <3>2. QED
      BY <2>1, <3>1
  <2> HIDE DEF A
  <2>3. QED
    BY <2>2 DEF Maps
<1>2. ScanStart \in A
  BY DEF ScanStart, Locals
<1> HIDE DEF A
<1>3. ASSUME NEW s \in A, NEW c \in Char PROVE F[<<s, c>>] = ScanTurn(s, c)
  OBVIOUS
<1> HIDE DEF F
<1>4. PICK f : Folds(f, F, ScanStart, t, Len(t)) /\ f \in [SUBSET (1..Len(t)) -> A]
  BY <1>1, <1>2, FoldExists
<1>5. ASSUME NEW s \in SUBSET (1..Len(t)), s # {}
      PROVE  F[<<f[s \ {Max(s)}], t[Max(s)]>>] = ScanTurn(f[s \ {Max(s)}], t[Max(s)])
  <2>1. Max(s) \in 1..Len(t)
    BY <1>5, MaxPosition, LenProperties
  <2>2. t[Max(s)] \in Char /\ f[s \ {Max(s)}] \in A
    BY <1>4, <2>1, ElementOfSeq
  <2>3. QED
    BY <1>3, <2>2
<1>6. ScanFolds(f, t, Len(t))
  BY <1>4, <1>5 DEF Folds, ScanFolds
<1>7. QED
  BY <1>6

\* s is what the loop makes of t: it has read all of t, or left at an event.
ScanOf(t, s) ==
  \E p \in 0..Len(t) : /\ LoopInv(SubSeq(t, 1, p), s)
                       /\ s.event \/ p = Len(t)

\* The first characters of a text, and one more.
LEMMA OneMore ==
  ASSUME NEW t \in Seq(Char), NEW k \in Nat, k + 1 <= Len(t)
  PROVE  /\ SubSeq(t, 1, k) \in Seq(Char)
         /\ SubSeq(t, 1, k + 1) = Append(SubSeq(t, 1, k), t[k + 1])
         /\ t[k + 1] \in Char
<1>1. PICK u, v, w : /\ u = SubSeq(t, 1, k) /\ v = SubSeq(t, 1, k + 1)
                     /\ w = Append(u, t[k + 1])
  OBVIOUS
<1>2. t[k + 1] \in Char /\ Len(t) \in Nat
  BY ElementOfSeq, LenProperties
<1>3. /\ u \in Seq(Char) /\ Len(u) = k /\ \A i \in 1..k : u[i] = t[i]
      /\ v \in Seq(Char) /\ Len(v) = k + 1 /\ \A i \in 1..(k + 1) : v[i] = t[i]
  BY <1>1, <1>2
<1>4. w \in Seq(Char) /\ Len(w) = k + 1 /\ \A i \in 1..(k + 1) : w[i] = t[i]
  BY <1>1, <1>2, <1>3
<1>5. v = w
  BY <1>3, <1>4, SeqEqual
<1>6. QED
  BY <1>1, <1>2, <1>3, <1>5

LEMMA ScanReads ==
  ASSUME NEW t \in Seq(Char)
  PROVE  ScanOf(t, Scan(t))
<1>1. PICK n : n = Len(t)
  OBVIOUS
<1>2. n \in Nat /\ DOMAIN t = 1..n
  BY <1>1
<1>3. PICK f : ScanFolds(f, t, n) /\ Scan(t) = f[1..n]
  <2>1. \E f : ScanFolds(f, t, n)
    BY <1>1, ScanFoldExists
  <2>2. ScanFolds(CHOOSE f : ScanFolds(f, t, n), t, n)
    BY <2>1
  <2>3. QED
    BY <1>2, <2>2, ScanUnfolds
<1> DEFINE Reads(k) == \E p \in 0..k : /\ LoopInv(SubSeq(t, 1, p), f[1..k])
                                       /\ f[1..k].event \/ p = k
           K == {k \in Nat : k <= n => Reads(k)}
<1>4. 0 \in K
  <2>1. 1..0 = {} /\ 1..0 \in SUBSET (1..n)
    OBVIOUS
  <2>2. f[1..0] = ScanStart
    BY <1>3, <2>1 DEF ScanFolds
  <2>3. SubSeq(t, 1, 0) = <<>>
    OBVIOUS
  <2>4. LoopInv(SubSeq(t, 1, 0), f[1..0])
    BY <2>2, <2>3, LoopStarts
  <2>5. QED
    BY <2>4
<1>5. ASSUME NEW k \in Nat, k \in K PROVE k + 1 \in K
  <2> SUFFICES ASSUME k + 1 <= n PROVE Reads(k + 1)
    OBVIOUS
  <2>1. k <= n
    BY <1>2
  <2>2. PICK p \in 0..k : LoopInv(SubSeq(t, 1, p), f[1..k]) /\ (f[1..k].event \/ p = k)
    BY <1>5, <2>1
  <2>3. f[1..(k + 1)] = ScanTurn(f[1..k], t[k + 1])
    <3>1. k + 1 \in Nat /\ k + 1 # 0 /\ 1..(k + 1) \in SUBSET (1..n) /\ (k + 1) - 1 = k
      BY <1>2
    <3>2. /\ Max(1..(k + 1)) = k + 1 /\ (1..(k + 1)) \ {k + 1} = 1..k
          /\ 1..(k + 1) # {}
      BY <3>1, LastOfPositions
    <3>3. f[1..(k + 1)] =
            IF 1..(k + 1) = {} THEN ScanStart
            ELSE ScanTurn(f[(1..(k + 1)) \ {Max(1..(k + 1))}], t[Max(1..(k + 1))])
      BY <1>3, <3>1 DEF ScanFolds
    <3>4. QED
      BY <3>2, <3>3
  <2>4. CASE f[1..k].event
    <3>1. f[1..(k + 1)] = f[1..k]
      BY <2>3, <2>4 DEF ScanTurn
    <3>2. p \in 0..(k + 1)
      OBVIOUS
    <3>3. QED
      BY <2>2, <2>4, <3>1, <3>2
  <2>5. CASE ~f[1..k].event
    <3>1. f[1..(k + 1)] = ScanByte(f[1..k], t[k + 1]) /\ LoopInv(SubSeq(t, 1, k), f[1..k])
      BY <2>2, <2>3, <2>5 DEF ScanTurn
    <3>2. /\ SubSeq(t, 1, k) \in Seq(Char) /\ t[k + 1] \in Char
          /\ SubSeq(t, 1, k + 1) = Append(SubSeq(t, 1, k), t[k + 1])
      BY <1>1, OneMore
    <3>3. LoopInv(SubSeq(t, 1, k + 1), f[1..(k + 1)])
      BY <2>5, <3>1, <3>2, TurnKeeps
    <3>4. k + 1 \in 0..(k + 1)
      OBVIOUS
    <3>5. QED
      BY <3>3, <3>4
  <2>6. QED
    BY <2>4, <2>5
<1>6. Nat \subseteq K
  <2> HIDE DEF K
  <2>1. QED
    BY <1>4, <1>5, NumberInduction
<1>7. Reads(n)
  <2> HIDE DEF Reads
  <2>1. QED
    BY <1>2, <1>6
<1>8. QED
  BY <1>1, <1>3, <1>7 DEF ScanOf

\* t and u begin with the same n characters.
Agree(t, u, n) == \A i \in 1..n : t[i] = u[i]

LEMMA BlankAgrees ==
  ASSUME NEW t, NEW u, NEW n \in Nat, Agree(t, u, n), NEW k \in 1..n
  PROVE  BlankLineAt(t, k) <=> BlankLineAt(u, k)
<1>1. \A i \in 1..k : t[i] = u[i]
  BY DEF Agree
<1>2. QED
  BY <1>1 DEF BlankLineAt

LEMMA StatusAgrees ==
  ASSUME NEW t \in Seq(Char), NEW u \in Seq(Char), Agree(t, u, Len(t)), Len(t) <= Len(u),
         NEW n \in 1..Len(t), StatusLine(t, n)
  PROVE  StatusLine(u, n) /\ Number(u, n) = Number(t, n)
<1>1. /\ Len(t) \in Nat /\ Len(u) \in Nat /\ DOMAIN t = 1..Len(t) /\ DOMAIN u = 1..Len(u)
      /\ n + 4 \in 1..Len(t)
  BY DEF StatusLine
<1>2. \A i \in 1..(n + 4) : u[i] = t[i]
  BY <1>1 DEF Agree
<1>3. n + 4 \in DOMAIN u
  BY <1>1
<1>4. \A i \in (n + 1)..(n + 3) : u[i] \in Digits
  <2>1. \A i \in (n + 1)..(n + 3) : i \in 1..(n + 4)
    OBVIOUS
  <2>2. QED
    BY <1>2, <2>1 DEF StatusLine
<1>5. Version(u, n) /\ u[n] = SP /\ u[n + 4] \in {SP, NL, CR}
  BY <1>2 DEF StatusLine, Version
<1>6. /\ n + 1 \in 1..(n + 4) /\ n + 2 \in 1..(n + 4) /\ n + 3 \in 1..(n + 4)
  OBVIOUS
<1>7. Number(u, n) = Number(t, n)
  BY <1>2, <1>6 DEF Number
<1>8. QED
  BY <1>3, <1>4, <1>5, <1>7 DEF StatusLine

\* t is the first n elements of x.
Begins(t, x, n) == t = SubSeq(x, 1, n)

\* A segment that is the beginning of an answer makes an event only when it has
\* the whole head and a byte of the body; the event has the status of the head
\* and what there is of the body.
LEMMA AnswerRead ==
  ASSUME NEW head \in Seq(Char), NEW body \in Seq(Char), NEW status, HttpHead(head, status),
         NEW cut \in 1..Len(head \o body), NEW t, Begins(t, head \o body, cut),
         Scan(t).event
  PROVE  /\ cut - Len(head) \in 1..Len(body)
         /\ Code(Scan(t)) = status
         /\ Body(Scan(t), t) = SubSeq(body, 1, cut - Len(head))
<1>1. PICK x, s, h, b : /\ x = head \o body /\ s = Scan(t)
                        /\ h = Len(head) /\ b = Len(body)
  OBVIOUS
<1>2. /\ h \in Nat /\ b \in Nat /\ x \in Seq(Char) /\ Len(x) = h + b
      /\ \A i \in 1..h : x[i] = head[i]
      /\ \A i \in 1..b : x[h + i] = body[i]
  BY <1>1
<1>3. cut \in 1..(h + b)
  BY <1>1, <1>2
<1>4. t \in Seq(Char) /\ Len(t) = cut /\ \A i \in 1..cut : t[i] = x[i]
  BY <1>1, <1>2, <1>3 DEF Begins
<1>5. PICK p \in 0..Len(t) : LoopInv(SubSeq(t, 1, p), s)
  <2>1. ScanOf(t, s)
    BY <1>1, <1>4, ScanReads
  <2>2. QED
    BY <2>1 DEF ScanOf
<1>6. PICK u : u = SubSeq(t, 1, p)
  OBVIOUS
<1>7. u \in Seq(Char) /\ Len(u) = p /\ p \in Nat /\ p <= cut /\ \A i \in 1..p : u[i] = t[i]
  BY <1>4, <1>5, <1>6
<1>8. LoopInv(u, s)
  BY <1>5, <1>6
<1>9. /\ s.j = p
      /\ \E k \in 1..(p - 1) : BlankLineAt(u, k)
      /\ \A k \in 1..(p - 2) : ~BlankLineAt(u, k)
  BY <1>1, <1>7, <1>8 DEF LoopInv, HeadRead
<1>10. \A k \in 1..h : BlankLineAt(head, k) <=> k = h
  <2>1. \A k \in DOMAIN head : BlankLineAt(head, k) <=> k = Len(head)
    BY DEF HttpHead
  <2>2. DOMAIN head = 1..h
    BY <1>1
  <2>3. QED
    BY <1>1, <2>1, <2>2, Zenon
<1>11. p > h
  <2> SUFFICES ASSUME p <= h PROVE FALSE
    BY <1>2, <1>7
  <2>1. Agree(u, head, p)
    <3>1. \A i \in 1..p : i \in 1..cut /\ i \in 1..h
      BY <1>2, <1>3, <1>7
    <3>2. QED
      BY <1>2, <1>4, <1>7, <3>1 DEF Agree
  <2>2. PICK k \in 1..(p - 1) : BlankLineAt(u, k)
    BY <1>9
  <2>3. k \in 1..p /\ k \in 1..h /\ k # h
    BY <1>2, <1>7, <2>2
  <2>4. BlankLineAt(head, k)
    BY <1>7, <2>1, <2>2, <2>3, BlankAgrees
  <2>5. QED
    BY <1>10, <2>3, <2>4
<1>12. Agree(head, u, h)
  <2>1. \A i \in 1..h : i \in 1..cut /\ i \in 1..p
    BY <1>2, <1>3, <1>7, <1>11
  <2>2. QED
    BY <1>2, <1>4, <1>7, <2>1 DEF Agree
<1>13. PICK n \in 1..h : StatusLine(head, n) /\ status = Number(head, n)
  BY <1>1, <1>2 DEF HttpHead
<1>14. p = h + 1
  <2>1. h \in 1..h
    BY <1>2, <1>13
  <2>2. BlankLineAt(u, h)
    BY <1>2, <1>10, <1>12, <2>1, BlankAgrees
  <2>3. ~(h \in 1..(p - 2))
    BY <1>9, <2>2
  <2>4. QED
    BY <1>2, <1>7, <1>11, <2>1, <2>3
<1>15. Code(s) = status
  <2>1. Len(head) <= Len(u) /\ Agree(head, u, Len(head)) /\ n \in 1..Len(head)
    BY <1>1, <1>2, <1>7, <1>11, <1>12, <1>13
  <2>2. StatusLine(u, n) /\ Number(u, n) = Number(head, n)
    BY <1>7, <1>13, <2>1, StatusAgrees
  <2>3. n \in 1..Len(u)
    BY <1>1, <1>2, <1>7, <2>1
  <2>4. Code(s) = Number(u, n)
    BY <1>7, <1>8, <2>2, <2>3, CodeRead
  <2>5. QED
    BY <1>13, <2>2, <2>4
<1>16. cut - h \in 1..b
  BY <1>2, <1>3, <1>7, <1>14
<1>17. PICK v, w : v = SubSeq(t, h + 1, cut) /\ w = SubSeq(body, 1, cut - h)
  OBVIOUS
<1>18. v \in Seq(Char) /\ Len(v) = cut - h /\ \A i \in 1..(cut - h) : v[i] = t[h + i]
  <2>1. h + 1 \in 1..cut
    BY <1>2, <1>3, <1>16
  <2>2. QED
    BY <1>2, <1>3, <1>4, <1>17, <2>1
<1>19. w \in Seq(Char) /\ Len(w) = cut - h /\ \A i \in 1..(cut - h) : w[i] = body[i]
  <2>1. PICK l : l = cut - h
    OBVIOUS
  <2>2. l \in 1..b /\ w = SubSeq(body, 1, l)
    BY <1>16, <1>17, <2>1
  <2>3. Len(body) = b
    BY <1>1
  <2>4. w \in Seq(Char) /\ Len(w) = l /\ \A i \in 1..l : w[i] = body[i]
    <3>1. \A i \in 1..l : body[i] \in Char
      <4>1. \A i \in 1..b : body[i] \in Char
        BY <2>3, ElementOfSeq
      <4>2. \A i \in 1..l : i \in 1..b
        BY <1>2, <2>2
      <4>3. QED
        BY <4>1, <4>2
    <3>2. 1 \in Int /\ l \in Int /\ 1 <= l
      BY <2>2
    <3>3. w \in Seq(Char) /\ Len(w) = l - 1 + 1 /\ \A i \in 1..(l - 1 + 1) : w[i] = body[1 + i - 1]
      BY <2>2, <3>1, <3>2, SubSeqProperties
    <3>4. l - 1 + 1 = l /\ \A i \in 1..l : 1 + i - 1 = i
      BY <3>2
    <3>5. QED
      BY <3>3, <3>4
  <2>5. QED
    BY <2>1, <2>4
<1>20. \A i \in 1..(cut - h) : h + i \in 1..cut /\ i \in 1..b
  BY <1>2, <1>3, <1>16
<1>21. v = w
  <2>1. ASSUME NEW i \in 1..(cut - h) PROVE v[i] = w[i]
    <3>1. h + i \in 1..cut /\ i \in 1..b
      BY <1>20
    <3>2. t[h + i] = x[h + i] /\ x[h + i] = body[i]
      BY <1>2, <1>4, <3>1
    <3>3. QED
      BY <1>18, <1>19, <3>2
  <2>2. QED
    BY <1>18, <1>19, <2>1, SeqEqual
<1>22. Body(s, t) = v
  BY <1>4, <1>9, <1>14, <1>17 DEF Body
<1>23. QED
  BY <1>1, <1>15, <1>16, <1>17, <1>21, <1>22

-----------------------------------------------------------------------------
(* Every text, byte by byte. *)

ScanInv == text \in Seq(Chars) /\ LoopInv(text, scan)

LEMMA TextType ==
  ASSUME NEW t \in Seq(Chars)
  PROVE  t \in Seq(Char)
<1>1. \A c \in Chars : c \in Char
  BY CharsAssumption DEF Char
<1>2. Len(t) \in Nat /\ \A i \in 1..Len(t) : t[i] \in Char
  BY <1>1
<1>3. t = [i \in 1..Len(t) |-> t[i]]
  OBVIOUS
<1>4. QED
  BY <1>2, <1>3

LEMMA ScanInvInductive == ParseSpec => []ScanInv
<1>1. ParseInit => ScanInv
  <2> SUFFICES ASSUME ParseInit PROVE ScanInv
    OBVIOUS
  <2>1. text = <<>> /\ scan = ScanStart /\ <<>> \in Seq(Chars)
    BY DEF ParseInit
  <2>2. QED
    BY <2>1, LoopStarts DEF ScanInv
<1>2. ScanInv /\ [ReadByte]_parseVars => ScanInv'
  <2> SUFFICES ASSUME ScanInv, [ReadByte]_parseVars PROVE ScanInv'
    OBVIOUS
  <2>1. CASE UNCHANGED parseVars
    <3>1. text' = text /\ scan' = scan
      BY <2>1 DEF parseVars
    <3>2. text' \in Seq(Chars) /\ LoopInv(text', scan')
      BY <3>1 DEF ScanInv
    <3>3. QED
      BY <3>2 DEF ScanInv
  <2>2. CASE ReadByte
    <3>1. PICK c \in Chars : text' = Append(text, c) /\ scan' = ScanByte(scan, c)
      BY <2>2 DEF ReadByte
    <3>2. text \in Seq(Chars) /\ LoopInv(text, scan) /\ ~scan.event
      BY <2>2 DEF ReadByte, ScanInv
    <3>3. text' \in Seq(Chars) /\ LoopInv(text', scan')
      <4>1. text \in Seq(Char) /\ c \in Char
        BY <3>2, TextType, CharsAssumption DEF Char
      <4>2. QED
        BY <3>1, <3>2, <4>1, TurnKeeps
    <3>4. QED
      BY <3>3 DEF ScanInv
  <2>3. QED
    BY <2>1, <2>2
<1>3. QED
  BY <1>1, <1>2, PTL DEF ParseSpec

\* statusCode never outgrows its array, whatever the segment is made of.
THEOREM LocalsCorrect == ParseSpec => []LocalsOK
<1>1. ScanInv => LocalsOK
  BY DEF ScanInv, LoopInv, Locals, LocalsOK
<1>2. QED
  BY <1>1, ScanInvInductive, PTL

\* For segments of every length and all characters: the event is written at
\* the byte behind the first blank line and nowhere else.
THEOREM BodyFound == ParseSpec => []BodyAfterBlankLine
<1>1. ScanInv => BodyAfterBlankLine
  BY DEF ScanInv, LoopInv, HeadRead, BodyAfterBlankLine
<1>2. QED
  BY <1>1, ScanInvInductive, PTL

\* The code of the event is the number in the status line, whatever spaces and
\* digits come after it in segments of any length (tcpclient_recv).
THEOREM CodeRight == ParseSpec => []CodeIsStatus
<1>1. ScanInv => CodeIsStatus
  <2> SUFFICES ASSUME ScanInv, NEW n \in DOMAIN text, StatusLine(text, n)
               PROVE  Code(scan) = Number(text, n)
    BY DEF CodeIsStatus
  <2>1. text \in Seq(Char) /\ LoopInv(text, scan) /\ n \in 1..Len(text)
    BY TextType DEF ScanInv
  <2>2. QED
    BY <2>1, CodeRead
<1>2. QED
  BY <1>1, ScanInvInductive, PTL

-----------------------------------------------------------------------------
(* The client. *)

Headers == [HeaderTypes -> Values]
ClientRecord == [resp_cb : Callbacks, host : Hosts, ip : BOOLEAN, headers : Headers,
                 data : [id : Nat, headers : Headers]]
Request == [client : Clients, callback : Callbacks, headers : Headers]
Segment == [text : Segments, part : {"whole", "first", "rest"}, id : Nat,
            answer : Responses]
Sent == [client : Clients, id : Nat, headers : Headers]
\* The segments that make an event.
Reporting == {t \in Segments : Scanned[t].event}
Event == [callback : Callbacks, code : {Code(Scanned[t]) : t \in Reporting},
          body : {Body(Scanned[t], t) : t \in Reporting}, id : Nat, segment : Segment]

\* The domains of the variables.
Types ==
  /\ client \in [Clients -> ClientRecord \cup {NoClient}]
  /\ wants \in [Clients -> Request \cup {NoClient}]
  /\ lookups \in [Clients -> Nat]
  /\ conn \in [Clients -> Connection]
  /\ inbox \in [Clients -> Seq(Segment)]
  /\ requests \in Seq(Request) /\ Len(requests) <= MaxRequests
  /\ sent \in Seq(Sent) /\ events \in Seq(Event)
  /\ dropped \subseteq DOMAIN requests
  /\ setups \in 0..MaxSetups /\ faults \in 0..MaxFaults

\* A request that the callback of c belongs to.
ForClient(c, id) ==
  id \in DOMAIN requests /\ requests[id].callback = client[c].resp_cb

\* The request in the buffer of c is the newest one the host has made of c,
\* composed as the host meant it.
BufferInv(c) ==
  /\ Newest(c) \in 0..Len(requests)
  /\ Newest(c) # 0 =>
       /\ ForClient(c, Newest(c))
       /\ client[c].data.headers = requests[Newest(c)].headers
       /\ \A id \in DOMAIN requests : requests[id].client = c => id <= Newest(c)

\* The requests that reached a server from c.
Mine(c) == {i \in DOMAIN sent : sent[i].client = c}

\* What is under way for c is a request of c.
UnderWayInv(c) ==
  /\ lookups[c] <= Len(requests)
  /\ lookups[c] > 0 \/ conn[c] = "connecting" => Newest(c) # 0
  /\ Busy(c) => Mine(c) # {} /\ ForClient(c, Serving(c))
  /\ \A k \in DOMAIN inbox[c] : ForClient(c, inbox[c][k].id)

ClientInv(c) ==
  /\ client[c] = NoClient =>
       wants[c] = NoClient /\ conn[c] = "none" /\ lookups[c] = 0 /\ inbox[c] = <<>>
  /\ client[c] # NoClient =>
       /\ wants[c] = [client |-> c, callback |-> client[c].resp_cb,
                      headers |-> client[c].headers]
       /\ BufferInv(c)
       /\ UnderWayInv(c)

IInv ==
  /\ Types
  /\ \A c \in Clients : ClientInv(c)
  /\ SentAsMeant
  /\ EventToRequester

\* Under a host that waits: a client with a request under way has it nowhere
\* else, and requests have different numbers.
SerialInv ==
  /\ \A c \in Clients :
       /\ lookups[c] > 0 => lookups[c] = 1 /\ conn[c] = "none"
       /\ lookups[c] > 0 \/ conn[c] = "connecting" => ~IsSent(Newest(c))
       /\ \A d \in Clients :
            client[c] # NoClient /\ client[d] # NoClient /\ Newest(c) = Newest(d) =>
              c = d \/ Newest(c) = 0
  /\ SentOnce

-----------------------------------------------------------------------------
(* What the actions rest on. *)

\* A set of positions that is not empty has a last one.
LEMMA LastPosition ==
  ASSUME NEW n \in Nat, NEW M \in SUBSET (1..n), M # {}
  PROVE  \E m \in M : \A k \in M : k <= m
<1> DEFINE Below == {n - i : i \in M}
<1>1. Below \subseteq Nat /\ Below # {}
  <2>1. \A i \in M : i \in 1..n
    OBVIOUS
  <2>2. \A i \in M : n - i \in Nat
    BY <2>1
  <2>3. QED
    BY <2>2
<1>2. PICK l \in Below : \A m \in Below : l <= m
  <2> HIDE DEF Below
  <2>1. QED
    BY <1>1, LeastNumber
<1>3. PICK m \in M : l = n - m
  BY <1>2
<1>4. ASSUME NEW k \in M PROVE k <= m
  <2>1. l <= n - k
    BY <1>2
  <2>2. QED
    BY <1>3, <2>1
<1>5. QED
  BY <1>4

\* The list of requests may have grown, but not by a request of c.
OthersRequest(c) ==
  /\ Len(requests) <= Len(requests')
  /\ \A id \in DOMAIN requests : id \in DOMAIN requests' /\ requests'[id] = requests[id]
  /\ \A id \in DOMAIN requests' : requests'[id].client = c => id \in DOMAIN requests

\* The same of what the servers received.
OthersSend(c) == Mine(c)' = Mine(c) /\ \A i \in Mine(c) : sent'[i] = sent[i]

\* An action on another client leaves the invariant of c alone.
LEMMA ClientKept ==
  ASSUME Types, NEW c \in Clients, ClientInv(c),
         client'[c] = client[c], wants'[c] = wants[c], lookups'[c] = lookups[c],
         conn'[c] = conn[c], inbox'[c] = inbox[c],
         requests' \in Seq(Request), OthersRequest(c), OthersSend(c)
  PROVE  ClientInv(c)'
<1>1. CASE client[c] = NoClient
  BY <1>1 DEF ClientInv
<1>2. CASE client[c] # NoClient
  <2>1. \A id : ForClient(c, id) => ForClient(c, id)'
    BY DEF ForClient, OthersRequest
  <2>2. Newest(c)' = Newest(c)
    BY DEF Newest
  <2>3. Len(requests) \in Nat /\ Len(requests') \in Nat
    BY DEF Types
  <2>4. BufferInv(c)'
    <3>1. BufferInv(c)
      BY <1>2 DEF ClientInv
    <3>2. Newest(c)' \in 0..Len(requests')
      BY <2>2, <2>3, <3>1 DEF BufferInv, OthersRequest
    <3>3. ASSUME Newest(c) # 0
          PROVE  /\ ForClient(c, Newest(c))'
                 /\ client'[c].data.headers = requests'[Newest(c)].headers
                 /\ \A id \in DOMAIN requests' : requests'[id].client = c => id <= Newest(c)
      BY <2>1, <2>2, <3>1, <3>3 DEF BufferInv, OthersRequest, ForClient
    <3>4. QED
      BY <2>2, <3>2, <3>3 DEF BufferInv
  <2>5. UnderWayInv(c)'
    <3>1. UnderWayInv(c)
      BY <1>2 DEF ClientInv
    <3>2. Serving(c)' = Serving(c) \/ ~Busy(c)
      <4>1. SUFFICES ASSUME Busy(c) PROVE Serving(c)' = Serving(c)
        OBVIOUS
      <4>2. Mine(c) # {}
        BY <3>1, <4>1 DEF UnderWayInv
      <4>3. \E m \in Mine(c) : \A k \in Mine(c) : k <= m
        <5>1. Len(sent) \in Nat /\ Mine(c) \in SUBSET (1..Len(sent))
          BY DEF Types, Mine
        <5>2. QED
          BY <4>2, <5>1, LastPosition
      <4> DEFINE last == CHOOSE i \in Mine(c) : \A k \in Mine(c) : k <= i
      <4>4. last \in Mine(c)
        BY <4>3
      <4>5. Serving(c) = sent[last].id /\ Serving(c)' = sent'[last].id
        BY DEF Serving, Mine, OthersSend
      <4>6. QED
        BY <4>4, <4>5 DEF OthersSend
    <3>3. lookups'[c] <= Len(requests')
      BY <2>3, <3>1 DEF UnderWayInv, OthersRequest, Types
    <3>4. Busy(c)' = Busy(c)
      BY DEF Busy
    <3>5. QED
      BY <2>1, <2>2, <3>1, <3>2, <3>3, <3>4 DEF UnderWayInv, OthersSend
  <2>6. QED
    BY <1>2, <2>4, <2>5 DEF ClientInv
<1>3. QED
  BY <1>1, <1>2

LEMMA NothingNew ==
  ASSUME Types, NEW c
  PROVE  /\ requests' = requests => OthersRequest(c)
         /\ sent' = sent => OthersSend(c)
BY DEF OthersRequest, OthersSend, Mine, Types

\* SentAsMeant and EventToRequester depend on three variables.
LEMMA NothingArrives ==
  ASSUME SentAsMeant, EventToRequester, requests' = requests,
         sent' = sent, events' = events
  PROVE  SentAsMeant' /\ EventToRequester'
BY DEF SentAsMeant, EventToRequester

\* An action on one client.
LEMMA OthersKept ==
  ASSUME IInv, NEW c \in Clients,
         \A d \in Clients \ {c} :
           /\ client'[d] = client[d] /\ wants'[d] = wants[d] /\ lookups'[d] = lookups[d]
           /\ conn'[d] = conn[d] /\ inbox'[d] = inbox[d]
           /\ OthersRequest(d) /\ OthersSend(d),
         requests' \in Seq(Request), ClientInv(c)'
  PROVE  \A d \in Clients : ClientInv(d)'
BY ClientKept DEF IInv

-----------------------------------------------------------------------------
(* The commands. *)

LEMMA NewHeadersType == NewHeaders \in Headers
BY ClientsAssumption DEF NewHeaders, Headers

LEMMA SetupKeeps ==
  ASSUME IInv, NEW c \in Clients, NEW callback \in Callbacks, NEW host \in Hosts,
         REST_Setup(c, callback, host)
  PROVE  IInv'
<1> DEFINE new == NewClient(callback, host)
<1>1. new \in ClientRecord /\ new # NoClient
  <2>1. new \in ClientRecord
    BY NewHeadersType DEF NewClient, ClientRecord
  <2>2. NoClient \notin ClientRecord
    BY NoClientAssumption DEF ClientRecord, Headers
  <2>3. QED
    BY <2>1, <2>2
<1>2. /\ client'[c] = new
      /\ wants'[c] = [client |-> c, callback |-> new.resp_cb, headers |-> new.headers]
      /\ new.data.id = 0
      /\ \A d \in Clients \ {c} : client'[d] = client[d] /\ wants'[d] = wants[d]
      /\ UNCHANGED <<lookups, conn, inbox, requests, sent, events, dropped>>
  BY DEF REST_Setup, IInv, Types, NewClient, net
<1>3. conn[c] = "none" /\ lookups[c] = 0 /\ inbox[c] = <<>>
  BY DEF REST_Setup, IInv, ClientInv
<1>4. Types'
  <2>1. wants'[c] \in Request
    BY <1>1, <1>2 DEF ClientRecord, Request
  <2>2. /\ client' = [client EXCEPT ![c] = new]
        /\ \E w : wants' = [wants EXCEPT ![c] = w]
    BY DEF REST_Setup
  <2>3. client' \in [Clients -> ClientRecord \cup {NoClient}]
    BY <1>1, <2>2 DEF IInv, Types
  <2>4. wants' \in [Clients -> Request \cup {NoClient}]
    BY <1>2, <2>1, <2>2 DEF IInv, Types
  <2>5. setups' \in 0..MaxSetups /\ faults' = faults
    BY RestBoundsAssumption DEF REST_Setup, IInv, Types
  <2>6. QED
    BY <1>2, <2>3, <2>4, <2>5 DEF IInv, Types
<1>5. ClientInv(c)'
  <2>1. BufferInv(c)'
    BY <1>2, <1>4 DEF BufferInv, Newest, Types
  <2>2. UnderWayInv(c)'
    BY <1>2, <1>3, <1>4 DEF UnderWayInv, Busy, Types
  <2>3. QED
    BY <1>1, <1>2, <2>1, <2>2 DEF ClientInv
<1>6. \A d \in Clients : ClientInv(d)'
  <2>1. \A d \in Clients : OthersRequest(d) /\ OthersSend(d)
    BY <1>2, NothingNew DEF IInv
  <2>2. QED
    BY <1>2, <1>4, <1>5, <2>1, OthersKept DEF Types
<1>7. QED
  BY <1>2, <1>4, <1>6, NothingArrives DEF IInv

LEMMA GoDownKeeps ==
  ASSUME IInv, GoDown, setups' \in 0..MaxSetups, faults' \in 0..MaxFaults
  PROVE  IInv'
<1>1. Types'
  BY EmptySeq DEF GoDown, IInv, Types, Drop, Connection
<1>2. ASSUME NEW c \in Clients PROVE ClientInv(c)'
  BY DEF GoDown, ClientInv
<1>3. QED
  BY <1>1, <1>2, NothingArrives DEF IInv, GoDown

LEMMA SetHeaderKeeps ==
  ASSUME IInv, NEW c \in Clients, NEW index \in 0..3, NEW value \in Values,
         REST_SetHeader(c, index, value)
  PROVE  IInv'
<1> DEFINE headers == HeadersWith(c, index, value)
<1>1. /\ client[c] \in ClientRecord /\ client[c] # NoClient
      /\ wants[c] = [client |-> c, callback |-> client[c].resp_cb,
                     headers |-> client[c].headers]
      /\ BufferInv(c) /\ UnderWayInv(c)
  BY DEF REST_SetHeader, IInv, Types, ClientInv
<1>2. headers \in Headers
  BY <1>1 DEF HeadersWith, Headers, ClientRecord
<1>3. /\ client'[c] \in ClientRecord
      /\ client'[c].headers = headers
      /\ client'[c].resp_cb = client[c].resp_cb /\ client'[c].data = client[c].data
      /\ client' \in [Clients -> ClientRecord \cup {NoClient}]
      /\ \A d \in Clients \ {c} : client'[d] = client[d]
  <2>1. client' = [client EXCEPT ![c] = [client[c] EXCEPT !.headers = headers]]
    BY DEF REST_SetHeader
  <2>2. [client[c] EXCEPT !.headers = headers] \in ClientRecord
    BY <1>1, <1>2 DEF ClientRecord
  <2>3. QED
    BY <1>1, <2>1, <2>2 DEF IInv, Types, ClientRecord
<1>4. /\ wants'[c] = [client |-> c, callback |-> client[c].resp_cb, headers |-> headers]
      /\ wants' \in [Clients -> Request \cup {NoClient}]
      /\ \A d \in Clients \ {c} : wants'[d] = wants[d]
  <2>1. wants[c] \in Request
    BY <1>1 DEF ClientRecord, Request
  <2>2. CASE index \in HeaderTypes
    <3>1. wants' = [wants EXCEPT ![c] = [wants[c] EXCEPT !.headers =
                                           [wants[c].headers EXCEPT ![index] = value]]]
      BY <2>2 DEF REST_SetHeader
    <3>2. [client[c].headers EXCEPT ![index] = value] = headers
      BY <1>1, <2>2 DEF HeadersWith, ClientRecord, Headers
    <3>3. [wants[c] EXCEPT !.headers = headers] =
            [client |-> c, callback |-> client[c].resp_cb, headers |-> headers]
      BY <1>1
    <3>4. wants' = [wants EXCEPT ![c] =
                      [client |-> c, callback |-> client[c].resp_cb, headers |-> headers]]
      <4>1. wants[c].headers = client[c].headers
        BY <1>1
      <4>2. [wants[c].headers EXCEPT ![index] = value] = headers
        BY <3>2, <4>1
      <4>3. wants' = [wants EXCEPT ![c] = [wants[c] EXCEPT !.headers = headers]]
        BY <3>1, <4>2, Zenon
      <4>4. QED
        BY <3>3, <4>3, Zenon
    <3>5. [client |-> c, callback |-> client[c].resp_cb, headers |-> headers] \in Request
      BY <1>1, <1>2 DEF Request, ClientRecord
    <3>6. QED
      BY <3>4, <3>5 DEF IInv, Types
  <2>3. CASE index \notin HeaderTypes
    <3>1. headers = client[c].headers
      BY <1>1, <2>3 DEF HeadersWith, ClientRecord, Headers
    <3>2. QED
      BY <1>1, <2>3, <3>1 DEF REST_SetHeader, IInv, Types
  <2>4. QED
    BY <2>2, <2>3
<1>5. UNCHANGED <<lookups, conn, inbox, requests, sent, events, dropped>>
  BY DEF REST_SetHeader, net
<1>6. Types'
  BY <1>3, <1>4, <1>5, RestBoundsAssumption DEF REST_SetHeader, IInv, Types
<1>7. ClientInv(c)'
  <2>1. Newest(c)' = Newest(c) /\ \A id : ForClient(c, id)' <=> ForClient(c, id)
    BY <1>3, <1>5 DEF Newest, ForClient
  <2>2. BufferInv(c)'
    BY <1>1, <1>3, <1>5, <2>1 DEF BufferInv
  <2>3. UnderWayInv(c)'
    <3>1. Serving(c)' = Serving(c) /\ Mine(c)' = Mine(c) /\ Busy(c)' = Busy(c)
      BY <1>5 DEF Serving, Mine, Busy
    <3>2. QED
      BY <1>1, <1>5, <2>1, <3>1 DEF UnderWayInv
  <2>4. QED
    BY <1>3, <1>4, <2>2, <2>3, NoClientAssumption DEF ClientInv, ClientRecord, Headers
<1>8. \A d \in Clients : ClientInv(d)'
  <2>1. \A d \in Clients : OthersRequest(d) /\ OthersSend(d)
    BY <1>5, NothingNew DEF IInv
  <2>2. QED
    BY <1>3, <1>4, <1>5, <1>6, <1>7, <2>1, OthersKept DEF Types
<1>9. QED
  BY <1>5, <1>6, <1>8, NothingArrives DEF IInv

\* What a request does to the client and its connection, to whichever host.
LEMMA RequestEffect ==
  ASSUME IInv, NEW c \in Clients, NEW remembers \in BOOLEAN, REST_Request(c, remembers)
  PROVE  LET id == Len(requests) + 1
         IN /\ client[c] \in ClientRecord
            /\ client' \in [Clients -> ClientRecord \cup {NoClient}]
            /\ client'[c] \in ClientRecord
            /\ client'[c].resp_cb = client[c].resp_cb
            /\ client'[c].headers = client[c].headers
            /\ client'[c].data = [id |-> id, headers |-> client[c].headers]
            /\ \A d \in Clients \ {c} :
                 client'[d] = client[d] /\ lookups'[d] = lookups[d] /\ conn'[d] = conn[d]
            /\ lookups' \in [Clients -> Nat] /\ lookups'[c] <= lookups[c] + 1
            /\ conn' \in [Clients -> Connection] /\ conn'[c] \in {conn[c], "connecting"}
            /\ dropped' \subseteq dropped \cup ({Newest(c), id} \ {0})
<1> DEFINE id == Len(requests) + 1
           data == [id |-> id, headers |-> client[c].headers]
<1>1. /\ client[c] \in ClientRecord /\ id \in Nat \ {0}
      /\ client \in [Clients -> ClientRecord \cup {NoClient}]
  BY DEF REST_Request, IInv, Types
<1>2. CASE RequestToAddress(c, id)
  <2>1. client' = [client EXCEPT ![c] = [client[c] EXCEPT !.data = data]]
    BY <1>2 DEF RequestToAddress, Composed
  <2>2. [client[c] EXCEPT !.data = data] \in ClientRecord
    BY <1>1 DEF ClientRecord
  <2>3. /\ conn' = [conn EXCEPT ![c] = IF @ = "none" THEN "connecting" ELSE @]
        /\ lookups' = lookups
    BY <1>2 DEF RequestToAddress, espconn_connect
  <2>4. dropped' \subseteq dropped \cup ({Newest(c), id} \ {0})
    BY <1>1, <1>2 DEF RequestToAddress, Drop, Unsent, IInv, Types
  <2>5. QED
    BY <1>1, <2>1, <2>2, <2>3, <2>4 DEF IInv, Types, ClientRecord, Connection
<1>3. CASE RequestToName(c, id, remembers)
  <2>1. client' = [client EXCEPT ![c] = [client[c] EXCEPT !.data = data,
                                           !.ip = client[c].ip \/ remembers]]
    BY <1>3 DEF RequestToName, Composed
  <2>2. [client[c] EXCEPT !.data = data, !.ip = client[c].ip \/ remembers] \in ClientRecord
    BY <1>1 DEF ClientRecord
  <2>3. /\ lookups' = [lookups EXCEPT ![c] = IF remembers THEN @ ELSE @ + 1]
        /\ conn' = conn
    BY <1>3 DEF RequestToName
  <2>4. dropped' \subseteq dropped \cup ({Newest(c), id} \ {0})
    BY <1>1, <1>3 DEF RequestToName, Drop, Unsent, IInv, Types
  <2>5. QED
    BY <1>1, <2>1, <2>2, <2>3, <2>4 DEF IInv, Types, ClientRecord, Connection
<1>4. QED
  BY <1>2, <1>3 DEF REST_Request

LEMMA RequestKeeps ==
  ASSUME IInv, NEW c \in Clients, NEW remembers \in BOOLEAN, REST_Request(c, remembers)
  PROVE  IInv'
<1> DEFINE id == Len(requests) + 1
           r == [client |-> c, callback |-> client[c].resp_cb, headers |-> client[c].headers]
<1>1. /\ client[c] # NoClient /\ client[c] \in ClientRecord
      /\ wants[c] = r /\ UnderWayInv(c) /\ Newest(c) \in 0..Len(requests)
      /\ UNCHANGED <<inbox, wants, sent, events, setups, faults>>
  BY DEF REST_Request, IInv, Types, ClientInv, BufferInv, bounds
<1>2. r \in Request
  BY <1>1 DEF ClientRecord, Request
<1>3. /\ requests' = Append(requests, r) /\ id <= MaxRequests
      /\ requests \in Seq(Request) /\ requests' \in Seq(Request)
      /\ Len(requests) \in Nat /\ DOMAIN requests = 1..Len(requests)
      /\ Len(requests') = id /\ DOMAIN requests' = 1..id
      /\ requests'[id] = r
      /\ \A i \in DOMAIN requests : requests'[i] = requests[i]
  BY <1>1, <1>2 DEF REST_Request, IInv, Types
<1>4. /\ client' \in [Clients -> ClientRecord \cup {NoClient}]
      /\ client'[c] \in ClientRecord /\ client'[c].resp_cb = client[c].resp_cb
      /\ client'[c].headers = client[c].headers
      /\ client'[c].data = [id |-> id, headers |-> client[c].headers]
      /\ \A d \in Clients \ {c} :
           client'[d] = client[d] /\ lookups'[d] = lookups[d] /\ conn'[d] = conn[d]
      /\ lookups' \in [Clients -> Nat] /\ lookups'[c] <= lookups[c] + 1
      /\ conn' \in [Clients -> Connection] /\ conn'[c] \in {conn[c], "connecting"}
      /\ dropped' \subseteq dropped \cup ({Newest(c), id} \ {0})
  BY RequestEffect
<1>5. Types'
  <2>1. dropped' \subseteq DOMAIN requests'
    <3>1. {Newest(c), id} \ {0} \subseteq 1..id
      BY <1>1, <1>3
    <3>2. dropped \subseteq 1..id
      BY <1>3 DEF IInv, Types
    <3>3. QED
      BY <1>3, <1>4, <3>1, <3>2
  <2>2. QED
    BY <1>1, <1>3, <1>4, <2>1 DEF IInv, Types
<1>6. ClientInv(c)'
  <2>1. Newest(c)' = id
    BY <1>4 DEF Newest
  <2>2. ForClient(c, Newest(c))'
    <3>1. id \in 1..id
      BY <1>3
    <3>2. requests'[id].callback = client'[c].resp_cb
      BY <1>3, <1>4
    <3>3. QED
      BY <1>3, <2>1, <3>1, <3>2 DEF ForClient
  <2>3. BufferInv(c)'
    <3>1. client'[c].data.headers = requests'[id].headers
      BY <1>3, <1>4
    <3>2. \A i \in DOMAIN requests' : i <= id
      BY <1>3
    <3>3. Newest(c)' \in 0..Len(requests')
      BY <1>3, <2>1
    <3>4. QED
      BY <2>1, <2>2, <3>1, <3>2, <3>3 DEF BufferInv
  <2>4. UnderWayInv(c)'
    <3>1. Mine(c)' = Mine(c) /\ Serving(c)' = Serving(c)
      BY <1>1 DEF Mine, Serving
    <3>2. \A i : ForClient(c, i) => ForClient(c, i)'
      BY <1>3, <1>4 DEF ForClient
    <3>3. Busy(c)' => Busy(c)
      BY <1>4 DEF Busy
    <3>4. lookups'[c] <= Len(requests') /\ Newest(c)' # 0
      BY <1>1, <1>3, <1>4, <2>1 DEF UnderWayInv, IInv, Types
    <3>5. QED
      BY <1>1, <3>1, <3>2, <3>3, <3>4 DEF UnderWayInv
  <2>5. NoClient \notin ClientRecord
    BY NoClientAssumption DEF ClientRecord, Headers
  <2>6. QED
    BY <1>1, <1>4, <2>3, <2>4, <2>5 DEF ClientInv
<1>7. \A d \in Clients : ClientInv(d)'
  <2>1. \A d \in Clients \ {c} : OthersRequest(d)
    BY <1>3 DEF OthersRequest
  <2>2. \A d \in Clients : OthersSend(d)
    BY <1>1, NothingNew DEF IInv
  <2>3. QED
    BY <1>1, <1>3, <1>4, <1>6, <2>1, <2>2, OthersKept
<1>8. SentAsMeant' /\ EventToRequester'
  BY <1>1, <1>3 DEF IInv, SentAsMeant, EventToRequester
<1>9. QED
  BY <1>5, <1>7, <1>8 DEF IInv

-----------------------------------------------------------------------------
(* The callbacks.  They change what is under way, and only for one client. *)

LEMMA CallbackKeeps ==
  ASSUME IInv, NEW c \in Clients, client[c] # NoClient,
         UNCHANGED <<client, wants, requests>>,
         \A d \in Clients \ {c} :
           /\ lookups'[d] = lookups[d] /\ conn'[d] = conn[d] /\ inbox'[d] = inbox[d]
           /\ OthersSend(d),
         UnderWayInv(c)'
  PROVE  \A d \in Clients : ClientInv(d)'
<1>1. /\ BufferInv(c) /\ requests' \in Seq(Request)
      /\ wants[c] = [client |-> c, callback |-> client[c].resp_cb,
                     headers |-> client[c].headers]
  BY DEF IInv, ClientInv, Types
<1>2. BufferInv(c)'
  BY <1>1 DEF BufferInv, Newest, ForClient
<1>3. ClientInv(c)'
  BY <1>1, <1>2 DEF ClientInv
<1>4. \A d \in Clients : OthersRequest(d)
  BY NothingNew DEF IInv
<1>5. QED
  BY <1>1, <1>3, <1>4, OthersKept

\* A client with something under way is there.
LEMMA UnderWayIsClient ==
  ASSUME IInv, NEW c \in Clients,
         lookups[c] > 0 \/ conn[c] # "none" \/ inbox[c] # <<>>
  PROVE  /\ client[c] # NoClient /\ client[c] \in ClientRecord
         /\ BufferInv(c) /\ UnderWayInv(c)
BY DEF IInv, Types, ClientInv

LEMMA UnsentIsRequest ==
  ASSUME IInv, NEW c \in Clients, BufferInv(c)
  PROVE  Unsent(c) \subseteq DOMAIN requests
BY DEF Unsent, BufferInv, ForClient

LEMMA LookupFailsKeeps ==
  ASSUME IInv, NEW c \in Clients, LookupFails(c)
  PROVE  IInv'
<1>1. /\ client[c] # NoClient /\ BufferInv(c) /\ UnderWayInv(c)
  BY UnderWayIsClient DEF LookupFails
<1>2. /\ UNCHANGED <<client, conn, inbox, requests, wants, sent, events, setups>>
      /\ lookups' = [lookups EXCEPT ![c] = lookups[c] - 1]
      /\ lookups[c] \in Nat /\ lookups[c] > 0
  BY DEF LookupFails, IInv, Types
<1>3. Types'
  <2>1. faults' \in 0..MaxFaults
    BY RestBoundsAssumption DEF LookupFails, IInv, Types
  <2>2. dropped' \subseteq DOMAIN requests
    BY <1>1, UnsentIsRequest DEF LookupFails, Drop, IInv, Types
  <2>3. QED
    BY <1>2, <2>1, <2>2 DEF IInv, Types
<1>4. UnderWayInv(c)'
  <2>1. lookups'[c] = lookups[c] - 1
    BY <1>2 DEF IInv, Types
  <2>2. /\ Mine(c)' = Mine(c) /\ Serving(c)' = Serving(c) /\ Busy(c)' = Busy(c)
        /\ Newest(c)' = Newest(c) /\ \A i : ForClient(c, i)' = ForClient(c, i)
    BY <1>2 DEF Mine, Serving, Busy, Newest, ForClient
  <2>3. QED
    BY <1>1, <1>2, <2>1, <2>2 DEF UnderWayInv, IInv, Types
<1>5. \A d \in Clients : OthersSend(d)
  BY <1>2, NothingNew DEF IInv
<1>6. \A d \in Clients : ClientInv(d)'
  BY <1>1, <1>2, <1>4, <1>5, CallbackKeeps DEF IInv, Types
<1>7. QED
  BY <1>2, <1>3, <1>6, NothingArrives DEF IInv

LEMMA LookupFindsKeeps ==
  ASSUME IInv, NEW c \in Clients, LookupFinds(c)
  PROVE  IInv'
<1>1. /\ client[c] # NoClient /\ BufferInv(c) /\ UnderWayInv(c)
  BY UnderWayIsClient DEF LookupFinds
<1>2. /\ UNCHANGED <<client, inbox, requests, wants, sent, events, setups, faults>>
      /\ lookups' = [lookups EXCEPT ![c] = lookups[c] - 1]
      /\ lookups[c] \in Nat /\ lookups[c] > 0
  BY DEF LookupFinds, IInv, Types, bounds
<1>3. /\ conn' \in [Clients -> Connection] /\ conn'[c] \in {conn[c], "connecting"}
      /\ \A d \in Clients \ {c} : conn'[d] = conn[d]
  BY DEF LookupFinds, espconn_connect, IInv, Types, Connection
<1>4. Types'
  <2>1. dropped' \subseteq DOMAIN requests
    BY <1>1, UnsentIsRequest DEF LookupFinds, Drop, IInv, Types
  <2>2. lookups' \in [Clients -> Nat]
    BY <1>2 DEF IInv, Types
  <2>3. QED
    BY <1>2, <1>3, <2>1, <2>2 DEF IInv, Types
<1>5. UnderWayInv(c)'
  <2>1. lookups'[c] = lookups[c] - 1
    BY <1>2 DEF IInv, Types
  <2>2. /\ Mine(c)' = Mine(c) /\ Serving(c)' = Serving(c)
        /\ Newest(c)' = Newest(c) /\ \A i : ForClient(c, i)' = ForClient(c, i)
    BY <1>2 DEF Mine, Serving, Newest, ForClient
  <2>3. Busy(c)' => Busy(c)
    BY <1>3 DEF Busy
  <2>4. QED
    BY <1>1, <1>2, <2>1, <2>2, <2>3 DEF UnderWayInv, IInv, Types
<1>6. \A d \in Clients : OthersSend(d)
  BY <1>2, NothingNew DEF IInv
<1>7. \A d \in Clients : ClientInv(d)'
  BY <1>1, <1>2, <1>3, <1>5, <1>6, CallbackKeeps DEF IInv, Types
<1>8. QED
  BY <1>2, <1>4, <1>7, NothingArrives DEF IInv

\* Whatever is done to the inbox and to a connection that stays in use, or is
\* given up, the connection serves the same request.
LEMMA ConnectionKept ==
  ASSUME IInv, NEW c \in Clients, UnderWayInv(c),
         UNCHANGED <<client, lookups, requests, sent>>,
         conn'[c] \in {"sent", "answered", "closing"} => Busy(c),
         conn'[c] # "connecting",
         \A k \in DOMAIN inbox'[c] : ForClient(c, inbox'[c][k].id)
  PROVE  UnderWayInv(c)'
<1>1. /\ Mine(c)' = Mine(c) /\ Serving(c)' = Serving(c) /\ Newest(c)' = Newest(c)
      /\ \A i : ForClient(c, i)' = ForClient(c, i)
  BY DEF Mine, Serving, Newest, ForClient
<1>2. QED
  BY <1>1 DEF UnderWayInv, Busy

LEMMA ConnectKeeps ==
  ASSUME IInv, NEW c \in Clients, tcpclient_connect_cb(c)
  PROVE  IInv'
<1> DEFINE x == [client |-> c, id |-> Newest(c), headers |-> client[c].data.headers]
           n == Len(sent) + 1
<1>1. /\ client[c] # NoClient /\ client[c] \in ClientRecord
      /\ BufferInv(c) /\ UnderWayInv(c)
  BY UnderWayIsClient DEF tcpclient_connect_cb
<1>2. /\ UNCHANGED <<client, lookups, inbox, requests, wants, events, dropped, setups, faults>>
      /\ conn[c] = "connecting"
      /\ conn' = [conn EXCEPT ![c] = "sent"]
      /\ sent' = Append(sent, x)
  BY DEF tcpclient_connect_cb, bounds
<1>3. /\ Newest(c) # 0 /\ ForClient(c, Newest(c))
      /\ x.headers = requests[Newest(c)].headers
  BY <1>1, <1>2 DEF UnderWayInv, BufferInv
<1>4. x \in Sent
  BY <1>1 DEF Sent, ClientRecord, Newest
<1>5. /\ sent \in Seq(Sent) /\ sent' \in Seq(Sent) /\ Len(sent) \in Nat
      /\ DOMAIN sent = 1..Len(sent) /\ DOMAIN sent' = 1..n /\ sent'[n] = x
      /\ \A i \in DOMAIN sent : sent'[i] = sent[i]
  BY <1>2, <1>4 DEF IInv, Types
<1>6. Types'
  BY <1>2, <1>5 DEF IInv, Types, Connection
<1>7. UnderWayInv(c)'
  <2>1. n \in Mine(c)' /\ \A k \in Mine(c)' : k <= n
    BY <1>5 DEF Mine
  <2>2. (CHOOSE i \in Mine(c)' : \A k \in Mine(c)' : k <= i) = n
    <3>1. ASSUME NEW i \in Mine(c)', \A k \in Mine(c)' : k <= i PROVE i = n
      <4>1. i \in 1..n /\ n <= i
        BY <1>5, <2>1, <3>1 DEF Mine
      <4>2. QED
        BY <1>5, <4>1
    <3>2. QED
      BY <2>1, <3>1
  <2>3. Serving(c)' = sent'[CHOOSE i \in Mine(c)' : \A k \in Mine(c)' : k <= i].id
    BY DEF Serving, Mine
  <2>4. Serving(c)' = Newest(c)
    <3>1. Serving(c)' = sent'[n].id
      BY <2>2, <2>3, Zenon
    <3>2. QED
      BY <1>5, <3>1
  <2>5. \A i : ForClient(c, i)' = ForClient(c, i)
    BY <1>2 DEF ForClient
  <2>6. Newest(c)' = Newest(c)
    BY <1>2 DEF Newest
  <2>7. QED
    BY <1>1, <1>2, <1>3, <2>1, <2>4, <2>5, <2>6 DEF UnderWayInv
<1>8. \A d \in Clients \ {c} : OthersSend(d)
  <2> SUFFICES ASSUME NEW d \in Clients \ {c} PROVE OthersSend(d)
    OBVIOUS
  <2>1. ASSUME NEW i \in 1..n PROVE i \in Mine(d)' <=> i \in Mine(d)
    BY <1>5 DEF Mine
  <2>2. Mine(d) \subseteq 1..n /\ Mine(d)' \subseteq 1..n
    BY <1>5 DEF Mine
  <2>3. QED
    BY <1>5, <2>1, <2>2 DEF OthersSend, Mine
<1>9. \A d \in Clients : ClientInv(d)'
  <2>1. \A d \in Clients \ {c} : conn'[d] = conn[d]
    BY <1>2 DEF IInv, Types
  <2>2. QED
    BY <1>1, <1>2, <1>7, <1>8, <2>1, CallbackKeeps
<1>10. SentAsMeant' /\ EventToRequester'
  <2>1. SentAsMeant'
    <3>1. ASSUME NEW i \in DOMAIN sent'
          PROVE  sent'[i].id \in DOMAIN requests /\ sent'[i].headers = requests[sent'[i].id].headers
      <4>1. CASE i = n
        BY <1>3, <1>5, <4>1 DEF ForClient
      <4>2. CASE i # n
        BY <1>5, <4>2 DEF IInv, SentAsMeant
      <4>3. QED
        BY <4>1, <4>2
    <3>2. QED
      BY <1>2, <3>1 DEF SentAsMeant
  <2>2. QED
    BY <1>2, <2>1 DEF IInv, EventToRequester
<1>11. QED
  BY <1>6, <1>9, <1>10 DEF IInv

LEMMA ReconKeeps ==
  ASSUME IInv, NEW c \in Clients, tcpclient_recon_cb(c)
  PROVE  IInv'
<1>1. /\ client[c] # NoClient /\ BufferInv(c) /\ UnderWayInv(c)
  BY UnderWayIsClient DEF tcpclient_recon_cb
<1>2. /\ UNCHANGED <<client, lookups, requests, wants, sent, events, setups>>
      /\ conn' = [conn EXCEPT ![c] = "none"]
      /\ inbox' = [inbox EXCEPT ![c] = <<>>]
      /\ conn'[c] = "none" /\ inbox'[c] = <<>>
      /\ \A d \in Clients \ {c} : conn'[d] = conn[d] /\ inbox'[d] = inbox[d]
  BY DEF tcpclient_recon_cb, ConnAfterLoss, IInv, Types
<1>3. Types'
  <2>1. faults' \in 0..MaxFaults
    BY RestBoundsAssumption DEF tcpclient_recon_cb, IInv, Types
  <2>2. dropped' \subseteq DOMAIN requests
    <3>1. CASE conn[c] = "connecting"
      BY <1>1, <3>1 DEF tcpclient_recon_cb, Drop, UnderWayInv, BufferInv, ForClient, IInv, Types
    <3>2. CASE conn[c] # "connecting"
      BY <1>1, <3>2 DEF tcpclient_recon_cb, Drop, Busy, UnderWayInv, ForClient, IInv, Types
    <3>3. QED
      BY <3>1, <3>2
  <2>3. QED
    BY <1>2, <2>1, <2>2 DEF IInv, Types, Connection
<1>4. UnderWayInv(c)'
  BY <1>1, <1>2, ConnectionKept
<1>5. \A d \in Clients : OthersSend(d)
  BY <1>2, NothingNew DEF IInv
<1>6. \A d \in Clients : ClientInv(d)'
  BY <1>1, <1>2, <1>4, <1>5, CallbackKeeps
<1>7. QED
  BY <1>2, <1>3, <1>6, NothingArrives DEF IInv

LEMMA DisconKeeps ==
  ASSUME IInv, NEW c \in Clients, tcpclient_discon_cb(c)
  PROVE  IInv'
<1>1. /\ client[c] # NoClient /\ UnderWayInv(c)
  BY UnderWayIsClient DEF tcpclient_discon_cb
<1>2. /\ UNCHANGED <<client, lookups, requests, wants, sent, events, dropped, setups, faults>>
      /\ conn' = [conn EXCEPT ![c] = "none"]
      /\ inbox' = [inbox EXCEPT ![c] = <<>>]
      /\ conn'[c] = "none" /\ inbox'[c] = <<>>
      /\ \A d \in Clients \ {c} : conn'[d] = conn[d] /\ inbox'[d] = inbox[d]
  BY DEF tcpclient_discon_cb, bounds, IInv, Types
<1>3. Types'
  BY <1>2 DEF IInv, Types, Connection
<1>4. UnderWayInv(c)'
  BY <1>1, <1>2, ConnectionKept
<1>5. \A d \in Clients : OthersSend(d)
  BY <1>2, NothingNew DEF IInv
<1>6. \A d \in Clients : ClientInv(d)'
  BY <1>1, <1>2, <1>4, <1>5, CallbackKeeps
<1>7. QED
  BY <1>2, <1>3, <1>6, NothingArrives DEF IInv

LEMMA AnswersKeeps ==
  ASSUME IInv, NEW c \in Clients, ServerAnswers(c)
  PROVE  IInv'
<1>1. /\ client[c] # NoClient /\ UnderWayInv(c) /\ ForClient(c, Serving(c))
  BY UnderWayIsClient DEF ServerAnswers, UnderWayInv, Busy
<1>2. /\ UNCHANGED <<client, lookups, requests, wants, sent, events, setups, faults>>
      /\ conn[c] = "sent"
      /\ conn' = [conn EXCEPT ![c] = "answered"]
      /\ conn'[c] = "answered"
      /\ \A d \in Clients \ {c} : conn'[d] = conn[d]
  BY DEF ServerAnswers, bounds, IInv, Types
<1> DEFINE Piece(r, part, t) ==
             [text |-> t, part |-> part, id |-> Serving(c), answer |-> r]
<1>3. PICK r, cut :
        /\ r \in Responses /\ cut \in CutsOf(r)
        /\ inbox' = [inbox EXCEPT ![c] =
             IF Rest(r, cut) = <<>> THEN <<Piece(r, "whole", First(r, cut))>>
             ELSE <<Piece(r, "first", First(r, cut)), Piece(r, "rest", Rest(r, cut))>>]
        /\ Drop(IF cut > Len(r.head) THEN {} ELSE {Serving(c)})
  BY DEF ServerAnswers
<1>4. /\ inbox'[c] \in Seq(Segment)
      /\ \A k \in DOMAIN inbox'[c] : inbox'[c][k].id = Serving(c)
  <2>1. First(r, cut) \in Segments /\ Rest(r, cut) \in Segments
    BY <1>3 DEF Segments
  <2>2. Serving(c) \in Nat
    BY <1>1 DEF ForClient, IInv, Types
  <2>3. \A t \in Segments, part \in {"whole", "first", "rest"} :
          Piece(r, part, t) \in Segment /\ Piece(r, part, t).id = Serving(c)
    BY <1>3, <2>2 DEF Segment
  <2> HIDE DEF Piece
  <2>4. inbox'[c] = IF Rest(r, cut) = <<>> THEN <<Piece(r, "whole", First(r, cut))>>
             ELSE <<Piece(r, "first", First(r, cut)), Piece(r, "rest", Rest(r, cut))>>
    BY <1>3 DEF IInv, Types
  <2>5. QED
    BY <2>1, <2>3, <2>4
<1>5. Types'
  <2>1. dropped' \subseteq DOMAIN requests
    BY <1>1, <1>3 DEF Drop, ForClient, IInv, Types
  <2>2. inbox' \in [Clients -> Seq(Segment)]
    BY <1>3, <1>4 DEF IInv, Types
  <2>3. QED
    BY <1>2, <2>1, <2>2 DEF IInv, Types, Connection
<1>6. UnderWayInv(c)'
  BY <1>1, <1>2, <1>4, ConnectionKept DEF Busy
<1>7. \A d \in Clients : OthersSend(d)
  BY <1>2, NothingNew DEF IInv
<1>8. \A d \in Clients \ {c} : inbox'[d] = inbox[d]
  BY <1>3 DEF IInv, Types
<1>9. \A d \in Clients : ClientInv(d)'
  BY <1>1, <1>2, <1>6, <1>7, <1>8, CallbackKeeps
<1>10. QED
  BY <1>2, <1>5, <1>9, NothingArrives DEF IInv

LEMMA RecvKeeps ==
  ASSUME IInv, NEW c \in Clients, tcpclient_recv(c)
  PROVE  IInv'
<1> DEFINE segment == Head(inbox[c])
           s == Scanned[segment.text]
           event == [callback |-> client[c].resp_cb, code |-> Code(s),
                     body |-> Body(s, segment.text), id |-> segment.id,
                     segment |-> segment]
<1>1. /\ client[c] # NoClient /\ client[c] \in ClientRecord /\ UnderWayInv(c)
  BY UnderWayIsClient DEF tcpclient_recv
<1>2. /\ UNCHANGED <<client, lookups, requests, wants, sent, dropped, setups, faults>>
      /\ inbox[c] \in Seq(Segment) /\ inbox[c] # <<>> /\ Busy(c)
      /\ inbox' = [inbox EXCEPT ![c] = Tail(inbox[c])]
      /\ events' = IF s.event THEN Append(events, event) ELSE events
      /\ conn' = [conn EXCEPT ![c] = "closing"]
  BY DEF tcpclient_recv, Disconnects, Busy, bounds, IInv, Types
<1>3. segment \in Segment /\ ForClient(c, segment.id)
  BY <1>1, <1>2 DEF UnderWayInv
<1>4. s.event => event \in Event
  <2>1. segment.text \in Segments
    BY <1>3 DEF Segment
  <2>2. s.event => segment.text \in Reporting
    BY <2>1 DEF Reporting
  <2>3. client[c].resp_cb \in Callbacks /\ segment.id \in Nat
    BY <1>1, <1>3 DEF ClientRecord, Segment
  <2>4. QED
    BY <1>3, <2>2, <2>3 DEF Event
<1>5. Types'
  <2>1. inbox' \in [Clients -> Seq(Segment)]
    BY <1>2 DEF IInv, Types
  <2>2. events' \in Seq(Event)
    BY <1>2, <1>4 DEF IInv, Types
  <2>3. QED
    BY <1>2, <2>1, <2>2 DEF IInv, Types, Connection
<1>6. UnderWayInv(c)'
  <2>1. conn'[c] = "closing" /\ inbox'[c] = Tail(inbox[c])
    BY <1>2 DEF IInv, Types
  <2>2. \A k \in DOMAIN inbox'[c] : ForClient(c, inbox'[c][k].id)
    <3>1. \A k \in DOMAIN Tail(inbox[c]) :
            k + 1 \in DOMAIN inbox[c] /\ Tail(inbox[c])[k] = inbox[c][k + 1]
      BY <1>2
    <3>2. QED
      BY <1>1, <2>1, <3>1 DEF UnderWayInv
  <2>3. QED
    BY <1>1, <1>2, <2>1, <2>2, ConnectionKept
<1>7. \A d \in Clients : OthersSend(d)
  BY <1>2, NothingNew DEF IInv
<1>8. \A d \in Clients \ {c} : conn'[d] = conn[d] /\ inbox'[d] = inbox[d]
  BY <1>2 DEF IInv, Types
<1>9. \A d \in Clients : ClientInv(d)'
  BY <1>1, <1>2, <1>6, <1>7, <1>8, CallbackKeeps
<1>10. SentAsMeant' /\ EventToRequester'
  <2>1. SentAsMeant'
    BY <1>2 DEF SentAsMeant, IInv
  <2>2. event.callback = client[c].resp_cb /\ event.id = segment.id
    OBVIOUS
  <2>3. CASE s.event
    <3> HIDE DEF event
    <3> DEFINE n == Len(events) + 1
    <3>1. /\ DOMAIN events' = 1..n /\ DOMAIN events = 1..Len(events)
          /\ events'[n] = event
          /\ \A i \in DOMAIN events : events'[i] = events[i]
      BY <1>2, <1>4, <2>3 DEF IInv, Types
    <3>2. ASSUME NEW i \in DOMAIN events'
          PROVE  /\ events'[i].id \in DOMAIN requests
                 /\ events'[i].callback = requests[events'[i].id].callback
      <4>1. CASE i = n
        BY <1>3, <2>2, <3>1, <4>1 DEF ForClient
      <4>2. CASE i # n
        <5>1. i \in DOMAIN events
          BY <3>1, <4>2
        <5>2. QED
          BY <3>1, <5>1 DEF EventToRequester, IInv
      <4>3. QED
        BY <4>1, <4>2
    <3>3. EventToRequester'
      BY <1>2, <3>2 DEF EventToRequester
    <3>4. QED
      BY <2>1, <3>3
  <2>4. CASE ~s.event
    BY <1>2, <2>1, <2>4 DEF EventToRequester, IInv
  <2>5. QED
    BY <2>3, <2>4
<1>11. QED
  BY <1>5, <1>9, <1>10 DEF IInv

-----------------------------------------------------------------------------
(* The inductive invariant. *)

LEMMA IInvInductive == Spec => []IInv
<1>1. Init => IInv
  <2> SUFFICES ASSUME Init PROVE IInv
    OBVIOUS
  <2>1. Types
    BY EmptySeq, RestBoundsAssumption DEF Init, Types, Connection
  <2>2. \A c \in Clients : ClientInv(c)
    BY DEF Init, ClientInv
  <2>3. SentAsMeant /\ EventToRequester
    BY DEF Init, SentAsMeant, EventToRequester
  <2>4. QED
    BY <2>1, <2>2, <2>3 DEF IInv
<1>2. IInv /\ [Next]_vars => IInv'
  <2> SUFFICES ASSUME IInv, [Next]_vars PROVE IInv'
    OBVIOUS
  <2>1. CASE Command
    <3>1. ASSUME NEW c \in Clients, NEW callback \in Callbacks, NEW host \in Hosts,
                 REST_Setup(c, callback, host)
          PROVE  IInv'
      BY <3>1, SetupKeeps
    <3>2. CASE REST_SetupNoMemory
      <4>1. setups' \in 0..MaxSetups /\ faults' \in 0..MaxFaults
        BY <3>2, RestBoundsAssumption DEF REST_SetupNoMemory, IInv, Types
      <4>2. QED
        BY <3>2, <4>1, GoDownKeeps DEF REST_SetupNoMemory
    <3>3. ASSUME NEW c \in Clients, NEW index \in 0..3, NEW value \in Values,
                 REST_SetHeader(c, index, value)
          PROVE  IInv'
      BY <3>3, SetHeaderKeeps
    <3>4. ASSUME NEW c \in Clients, NEW remembers \in BOOLEAN, REST_Request(c, remembers)
          PROVE  IInv'
      BY <3>4, RequestKeeps
    <3>5. QED
      BY <2>1, <3>1, <3>2, <3>3, <3>4 DEF Command
  <2>2. ASSUME NEW c \in Clients, Callback(c) PROVE IInv'
    BY <2>2, LookupFailsKeeps, LookupFindsKeeps, ConnectKeeps, ReconKeeps,
       AnswersKeeps, RecvKeeps, DisconKeeps DEF Callback, rest_dns_found
  <2>3. CASE Restart
    <3>1. setups' \in 0..MaxSetups /\ faults' \in 0..MaxFaults
      BY <2>3, RestBoundsAssumption DEF Restart, IInv, Types
    <3>2. QED
      BY <2>3, <3>1, GoDownKeeps DEF Restart
  <2>4. CASE UNCHANGED vars
    <3>1. Types'
      BY <2>4 DEF vars, net, bounds, IInv, Types
    <3>2. ASSUME NEW c \in Clients PROVE ClientInv(c)'
      <4>1. OthersRequest(c) /\ OthersSend(c)
        BY <2>4, NothingNew DEF IInv, vars
      <4>2. QED
        BY <2>4, <3>1, <4>1, ClientKept DEF vars, net, IInv, Types
    <3>3. QED
      BY <2>4, <3>1, <3>2, NothingArrives DEF vars, IInv
  <2>5. QED
    BY <2>1, <2>2, <2>3, <2>4 DEF Next
<1>3. QED
  BY <1>1, <1>2, PTL DEF Spec

\* Every variable stays in its domain; no lookup or connection is of a client
\* that is not there (rest.c:119-305).
THEOREM TypeCorrect == Spec => []TypeOK
<1>1. IInv => TypeOK
  <2> SUFFICES ASSUME IInv PROVE TypeOK
    OBVIOUS
  <2>1. ASSUME NEW c \in Clients
        PROVE  \/ client[c] = NoClient /\ wants[c] = NoClient
               \/ /\ client[c].resp_cb \in Callbacks /\ client[c].host \in Hosts
                  /\ client[c].ip \in BOOLEAN /\ client[c].headers \in [HeaderTypes -> Values]
                  /\ Newest(c) \in 0..Len(requests)
    BY DEF IInv, Types, ClientInv, BufferInv, ClientRecord, Headers
  <2>2. ASSUME NEW c \in Clients
        PROVE  /\ lookups[c] \in 0..MaxRequests
               /\ client[c] = NoClient => conn[c] = "none" /\ lookups[c] = 0
    BY RestBoundsAssumption DEF IInv, Types, ClientInv, UnderWayInv
  <2>3. QED
    BY <2>1, <2>2 DEF IInv, Types, TypeOK
<1>2. QED
  BY <1>1, IInvInductive, PTL

\* What a server receives is a request as the host meant it, whatever commands
\* came between it and its sending (REST_SetHeader, REST_Request,
\* tcpclient_connect_cb).
THEOREM RequestsAsMeant == Spec => []SentAsMeant
<1>1. IInv => SentAsMeant
  BY DEF IInv
<1>2. QED
  BY <1>1, IInvInductive, PTL

\* An event goes to the callback of the request that was answered
\* (tcpclient_recv).
THEOREM EventsReturn == Spec => []EventToRequester
<1>1. IInv => EventToRequester
  BY DEF IInv
<1>2. QED
  BY <1>1, IInvInductive, PTL

\* A piece of an answer: the beginning, all of it if it is whole, or the rest.
Genuine(g) ==
  /\ g.answer \in Responses
  /\ g.part # "rest" =>
       \E cut \in CutsOf(g.answer) :
         /\ g.text = First(g.answer, cut)
         /\ g.part = "whole" => cut = Len(g.answer.head \o g.answer.body)

FaithfulInv ==
  /\ \A c \in Clients : \A k \in DOMAIN inbox[c] : Genuine(inbox[c][k])
  /\ EventsFaithful

\* What EventsFaithful says of one event.
Faithful(e) ==
  /\ e.segment.part # "rest" =>
       /\ e.code = e.segment.answer.status
       /\ IsPrefix(e.body, e.segment.answer.body) /\ e.body # <<>>
  /\ e.segment.part = "whole" => e.body = e.segment.answer.body

AnswerLen(r, n) == n = Len(r.head \o r.body)

LEMMA CutWithin ==
  ASSUME NEW r, NEW cut \in CutsOf(r), NEW n \in Nat, AnswerLen(r, n)
  PROVE  cut \in Nat /\ cut <= n /\ (n # 0 => cut # 0)
<1>1. cut = n \/ (cut \in Cuts /\ cut < n)
  BY DEF CutsOf, AnswerLen
<1>2. \A i \in Cuts : i \in Nat /\ i # 0
  BY RestBoundsAssumption
<1>3. CASE cut = n
  BY <1>3
<1>4. CASE cut \in Cuts /\ cut < n
  BY <1>2, <1>4
<1>5. QED
  BY <1>1, <1>3, <1>4

LEMMA AnswersGenuine ==
  ASSUME IInv, FaithfulInv, NEW c \in Clients, ServerAnswers(c)
  PROVE  FaithfulInv'
<1> DEFINE Piece(r, part, t) ==
             [text |-> t, part |-> part, id |-> Serving(c), answer |-> r]
<1>1. PICK r, cut :
        /\ r \in Responses /\ cut \in CutsOf(r)
        /\ inbox' = [inbox EXCEPT ![c] =
             IF Rest(r, cut) = <<>> THEN <<Piece(r, "whole", First(r, cut))>>
             ELSE <<Piece(r, "first", First(r, cut)), Piece(r, "rest", Rest(r, cut))>>]
  BY DEF ServerAnswers
<1>2. Rest(r, cut) = <<>> => cut = Len(r.head \o r.body)
  <2>1. PICK x : x = r.head \o r.body
    OBVIOUS
  <2>2. x \in Seq(Char) /\ Len(x) \in Nat
    <3>1. r.head \in Seq(Char) /\ r.body \in Seq(Char)
      BY <1>1, ResponsesAssumption DEF Char
    <3>2. r.head \o r.body \in Seq(Char)
      BY <3>1, ConcatProperties
    <3>3. QED
      BY <2>1, <3>2, LenProperties
  <2>3. cut \in Nat /\ cut <= Len(x)
    <3>1. AnswerLen(r, Len(x)) /\ cut \in CutsOf(r)
      BY <1>1, <2>1 DEF AnswerLen
    <3>2. QED
      BY <2>2, <3>1, CutWithin
  <2>4. PICK y : y = Rest(r, cut)
    OBVIOUS
  <2>5. Len(y) = Len(x) - cut
    <3>1. y = SubSeq(x, cut + 1, Len(x))
      BY <2>1, <2>4 DEF Rest
    <3>2. PICK n : n = Len(x)
      OBVIOUS
    <3>3. n \in Nat /\ cut + 1 \in 1..(n + 1) /\ y = SubSeq(x, cut + 1, n)
      BY <2>2, <2>3, <3>1, <3>2
    <3>4. Len(y) = IF cut + 1 <= n THEN n - (cut + 1) + 1 ELSE 0
      BY <2>2, <3>2, <3>3, SubSeqProperties
    <3>5. QED
      BY <2>3, <3>2, <3>3, <3>4
  <2>6. y = <<>> => Len(y) = 0
    OBVIOUS
  <2>7. y = <<>> => cut = Len(x)
    BY <2>2, <2>3, <2>5, <2>6
  <2>8. QED
    BY <2>1, <2>4, <2>7
<1>3. /\ Rest(r, cut) = <<>> => Genuine(Piece(r, "whole", First(r, cut)))
      /\ Genuine(Piece(r, "first", First(r, cut)))
      /\ Genuine(Piece(r, "rest", Rest(r, cut)))
  BY <1>1, <1>2 DEF Genuine
<1> HIDE DEF Piece
<1>4. inbox'[c] = IF Rest(r, cut) = <<>> THEN <<Piece(r, "whole", First(r, cut))>>
             ELSE <<Piece(r, "first", First(r, cut)), Piece(r, "rest", Rest(r, cut))>>
  BY <1>1 DEF IInv, Types
<1>5. \A k \in DOMAIN inbox'[c] : Genuine(inbox'[c][k])
  BY <1>3, <1>4
<1>6. \A d \in Clients \ {c} : inbox'[d] = inbox[d]
  BY <1>1 DEF IInv, Types
<1>7. EventsFaithful'
  BY DEF ServerAnswers, FaithfulInv, EventsFaithful
<1>8. QED
  BY <1>5, <1>6, <1>7 DEF FaithfulInv

\* What the loop makes of the beginning of an answer.
LEMMA SegmentRead ==
  ASSUME NEW g, Genuine(g), Scan(g.text).event,
         NEW e, e.segment = g, e.code = Code(Scan(g.text)), e.body = Body(Scan(g.text), g.text)
  PROVE  Faithful(e)
<1> SUFFICES ASSUME g.part # "rest" PROVE Faithful(e)
  BY DEF Faithful
<1>1. PICK cut \in CutsOf(g.answer) :
         /\ g.text = First(g.answer, cut)
         /\ g.part = "whole" => cut = Len(g.answer.head \o g.answer.body)
  BY DEF Genuine
<1>2. PICK head, body, status, t : /\ head = g.answer.head /\ body = g.answer.body
                                   /\ status = g.answer.status /\ t = g.text
  OBVIOUS
<1>3. /\ head \in Seq(Char) /\ body \in Seq(Char) /\ HttpHead(head, status)
      /\ Len(head) \in Nat /\ Len(body) \in Nat /\ Len(head \o body) = Len(head) + Len(body)
  <2>1. head \in Seq(Char) /\ body \in Seq(Char) /\ HttpHead(head, status)
    BY <1>2, ResponsesAssumption DEF Genuine, Char
  <2>2. QED
    BY <2>1
<1>4. cut \in 1..Len(head \o body)
  <2>1. Len(head) # 0
    <3>1. \E n \in DOMAIN head : TRUE
      BY <1>3 DEF HttpHead
    <3>2. DOMAIN head = 1..Len(head)
      BY <1>3
    <3>3. QED
      BY <1>3, <3>1, <3>2
  <2>2. PICK l : l = Len(head \o body)
    OBVIOUS
  <2>3. l \in Nat /\ l # 0
    BY <1>3, <2>1, <2>2
  <2>4. AnswerLen(g.answer, l)
    BY <1>2, <2>2 DEF AnswerLen
  <2>5. cut \in Nat /\ cut <= l /\ cut # 0
    BY <2>3, <2>4, CutWithin
  <2>6. QED
    BY <2>2, <2>3, <2>5
<1>5. Begins(t, head \o body, cut) /\ Scan(t).event
  BY <1>1, <1>2 DEF First, Begins
<1>6. /\ cut - Len(head) \in 1..Len(body)
      /\ Code(Scan(t)) = status
      /\ Body(Scan(t), t) = SubSeq(body, 1, cut - Len(head))
  BY <1>3, <1>4, <1>5, AnswerRead
<1>7. PICK n : n = cut - Len(head)
  OBVIOUS
<1>8. n \in 1..Len(body) /\ e.body = SubSeq(body, 1, n) /\ e.code = status
  BY <1>2, <1>6, <1>7
<1>9. Len(e.body) = n /\ e.body \in Seq(Char) /\ \A i \in 1..n : e.body[i] = body[i]
  BY <1>3, <1>8
<1>10. IsPrefix(e.body, body) /\ e.body # <<>>
  <2>1. Len(e.body) <= Len(body) /\ e.body # <<>>
    <3>1. e.body = <<>> => Len(e.body) = 0
      OBVIOUS
    <3>2. Len(e.body) \in 1..Len(body)
      BY <1>8, <1>9
    <3>3. QED
      BY <1>3, <3>1, <3>2
  <2>2. QED
    BY <1>3, <1>8, <1>9, <2>1 DEF IsPrefix
<1>11. n = Len(body) => e.body = body
  BY <1>3, <1>8, <1>9, SeqEqual
<1>12. g.part = "whole" => n = Len(body)
  <2>1. g.part = "whole" => cut = Len(head) + Len(body)
    BY <1>1, <1>2, <1>3
  <2>2. QED
    BY <1>3, <1>7, <2>1
<1>13. QED
  BY <1>2, <1>8, <1>10, <1>11, <1>12 DEF Faithful

LEMMA RecvFaithful ==
  ASSUME IInv, FaithfulInv, NEW c \in Clients, tcpclient_recv(c)
  PROVE  FaithfulInv'
<1> DEFINE segment == inbox[c][1]
           s == Scanned[segment.text]
           event == [callback |-> client[c].resp_cb, code |-> Code(s),
                     body |-> Body(s, segment.text), id |-> segment.id,
                     segment |-> segment]
<1>1. /\ inbox[c] \in Seq(Segment) /\ inbox[c] # <<>>
      /\ inbox' = [inbox EXCEPT ![c] = Tail(inbox[c])]
      /\ events' = IF s.event THEN Append(events, event) ELSE events
      /\ events \in Seq(Event)
  BY DEF tcpclient_recv, IInv, Types, Head
<1>2. 1 \in DOMAIN inbox[c] /\ segment \in Segment /\ Genuine(segment)
  <2>1. 1 \in DOMAIN inbox[c]
    BY <1>1, EmptySeq
  <2>2. QED
    BY <1>1, <2>1 DEF FaithfulInv
<1>3. s = Scan(segment.text)
  <2>1. segment.text \in Segments
    BY <1>2 DEF Segment
  <2>2. QED
    BY <2>1 DEF Scanned
<1>4. s.event => Faithful(event)
  <2>1. /\ event.segment = segment /\ event.code = Code(s)
        /\ event.body = Body(s, segment.text)
    OBVIOUS
  <2> HIDE DEF event, segment
  <2>2. QED
    BY <1>2, <1>3, <2>1, SegmentRead
<1>5. \A i \in DOMAIN events : Faithful(events[i])
  BY DEF FaithfulInv, EventsFaithful, Faithful
<1>6. \A i \in DOMAIN events' : Faithful(events'[i])
  <2> HIDE DEF event, s
  <2>1. CASE s.event
    <3>1. events' = Append(events, event)
      BY <1>1, <2>1
    <3>2. /\ DOMAIN events' = 1..(Len(events) + 1) /\ DOMAIN events = 1..Len(events)
          /\ Len(events) \in Nat /\ events'[Len(events) + 1] = event
          /\ \A i \in 1..Len(events) : events'[i] = events[i]
      BY <1>1, <3>1
    <3>3. QED
      BY <1>4, <1>5, <2>1, <3>2
  <2>2. CASE ~s.event
    BY <1>1, <1>5, <2>2
  <2>3. QED
    BY <2>1, <2>2
<1>7. EventsFaithful'
  BY <1>6 DEF EventsFaithful, Faithful
<1>8. \A k \in DOMAIN inbox'[c] : Genuine(inbox'[c][k])
  <2>1. inbox'[c] = Tail(inbox[c])
    BY <1>1 DEF IInv, Types
  <2>2. \A k \in DOMAIN Tail(inbox[c]) :
          k + 1 \in DOMAIN inbox[c] /\ Tail(inbox[c])[k] = inbox[c][k + 1]
    BY <1>1
  <2>3. QED
    BY <2>1, <2>2 DEF FaithfulInv
<1>9. \A d \in Clients \ {c} : inbox'[d] = inbox[d]
  BY <1>1 DEF IInv, Types
<1>10. QED
  BY <1>7, <1>8, <1>9 DEF FaithfulInv

LEMMA FaithfulInvInductive == Spec => []FaithfulInv
<1>1. Init => FaithfulInv
  BY DEF Init, FaithfulInv, EventsFaithful
<1>2. IInv /\ FaithfulInv /\ [Next]_vars => FaithfulInv'
  <2> SUFFICES ASSUME IInv, FaithfulInv, [Next]_vars PROVE FaithfulInv'
    OBVIOUS
  <2>1. ASSUME UNCHANGED inbox \/ inbox' = [d \in Clients |-> <<>>]
                 \/ \E c \in Clients : inbox' = [inbox EXCEPT ![c] = <<>>],
               UNCHANGED events
        PROVE  FaithfulInv'
    <3>1. \A d \in Clients : inbox'[d] = inbox[d] \/ inbox'[d] = <<>>
      BY <2>1 DEF IInv, Types
    <3>2. EventsFaithful'
      BY <2>1 DEF FaithfulInv, EventsFaithful
    <3>3. QED
      BY <3>1, <3>2 DEF FaithfulInv
  <2>2. CASE Command \/ Restart \/ UNCHANGED vars
    BY <2>1, <2>2 DEF Command, Restart, vars, net, REST_Setup, REST_SetupNoMemory,
                      REST_SetHeader, REST_Request, GoDown
  <2>3. ASSUME NEW c \in Clients, Callback(c) PROVE FaithfulInv'
    <3>1. CASE ServerAnswers(c)
      BY <3>1, AnswersGenuine
    <3>2. CASE tcpclient_recv(c)
      BY <3>2, RecvFaithful
    <3>3. CASE rest_dns_found(c) \/ tcpclient_connect_cb(c) \/ tcpclient_recon_cb(c)
                 \/ tcpclient_discon_cb(c)
      BY <2>1, <3>3 DEF rest_dns_found, LookupFails, LookupFinds, tcpclient_connect_cb,
                        tcpclient_recon_cb, tcpclient_discon_cb
    <3>4. QED
      BY <2>3, <3>1, <3>2, <3>3 DEF Callback
  <2>4. QED
    BY <2>2, <2>3 DEF Next
<1>3. QED
  BY <1>1, <1>2, IInvInductive, PTL DEF Spec

\* For answers of every length, cut anywhere: an event made from the beginning
\* of an answer has the status of its head and a beginning of its body, all of
\* it if the answer came in one piece (tcpclient_recv).
THEOREM AnswersFaithful == Spec => []EventsFaithful
<1>1. FaithfulInv => EventsFaithful
  BY DEF FaithfulInv
<1>2. QED
  BY <1>1, FaithfulInvInductive, PTL

\* The connection sends the newest request the host has made of its client
\* (REST_Request, tcpclient_connect_cb).
THEOREM SendsNewest == Spec => NewestSent
<1> DEFINE Newer == sent' # sent =>
                      \A id \in DOMAIN requests :
                        requests[id].client = Last(sent').client => id <= Last(sent').id
<1>1. IInv /\ [Next]_vars => Newer
  <2> SUFFICES ASSUME IInv, [Next]_vars, sent' # sent PROVE Newer
    OBVIOUS
  <2>1. PICK c \in Clients : tcpclient_connect_cb(c)
    BY DEF Next, Command, Callback, rest_dns_found, vars, REST_Setup, REST_SetupNoMemory,
           REST_SetHeader, REST_Request, LookupFails, LookupFinds, tcpclient_recon_cb,
           ServerAnswers, tcpclient_recv, tcpclient_discon_cb, Restart, GoDown
  <2>2. /\ BufferInv(c) /\ Newest(c) # 0
    BY <2>1, UnderWayIsClient DEF tcpclient_connect_cb, UnderWayInv
  <2>3. Last(sent').client = c /\ Last(sent').id = Newest(c)
    BY <2>1 DEF tcpclient_connect_cb, Last, IInv, Types
  <2>4. QED
    BY <2>2, <2>3 DEF BufferInv
<1>2. QED
  BY <1>1, IInvInductive, PTL DEF Spec, NewestSent

-----------------------------------------------------------------------------
(* A host that waits. *)

\* A client with no request under way, and a number that no server has seen.
LEMMA SerialInvInductive ==
  ASSUME Serial
  PROVE  Spec => []SerialInv
<1>1. Init => SerialInv
  BY DEF Init, SerialInv, SentOnce
<1>2. IInv /\ SerialInv /\ [Next]_vars => SerialInv'
  <2> SUFFICES ASSUME IInv, SerialInv, [Next]_vars PROVE SerialInv'
    OBVIOUS
  <2>1. ASSUME NEW c \in Clients, NEW callback \in Callbacks, NEW host \in Hosts,
               REST_Setup(c, callback, host)
        PROVE  SerialInv'
    <3>1. /\ client[c] = NoClient /\ conn[c] = "none" /\ lookups[c] = 0
          /\ UNCHANGED <<lookups, conn, sent>>
          /\ client' = [client EXCEPT ![c] = NewClient(callback, host)]
      BY <2>1 DEF REST_Setup, net, IInv, ClientInv
    <3>2. Newest(c)' = 0 /\ \A d \in Clients \ {c} : client'[d] = client[d] /\ Newest(d)' = Newest(d)
      BY <3>1 DEF Newest, NewClient, IInv, Types
    <3>3. \A id : IsSent(id)' = IsSent(id)
      BY <3>1 DEF IsSent
    <3>4. QED
      BY <3>1, <3>2, <3>3 DEF SerialInv, SentOnce
  <2>2. CASE GoDown
    BY <2>2 DEF GoDown, SerialInv, SentOnce
  <2>3. ASSUME NEW c \in Clients, NEW index \in 0..3, NEW value \in Values,
               REST_SetHeader(c, index, value)
        PROVE  SerialInv'
    <3>1. /\ UNCHANGED <<lookups, conn, sent>> /\ client[c] # NoClient
          /\ client[c] \in ClientRecord
          /\ client' = [client EXCEPT ![c] = [client[c] EXCEPT
                                                !.headers = HeadersWith(c, index, value)]]
      BY <2>3 DEF REST_SetHeader, net, IInv, Types
    <3>2. /\ \A d \in Clients \ {c} : client'[d] = client[d] /\ Newest(d)' = Newest(d)
          /\ Newest(c)' = Newest(c)
      BY <3>1 DEF Newest, IInv, Types, ClientRecord
    <3>3. \A id : IsSent(id)' = IsSent(id)
      BY <3>1 DEF IsSent
    <3>4. QED
      BY <3>1, <3>2, <3>3 DEF SerialInv, SentOnce
  <2>4. ASSUME NEW c \in Clients, NEW remembers \in BOOLEAN, REST_Request(c, remembers)
        PROVE  SerialInv'
    <3> DEFINE id == Len(requests) + 1
    <3>1. /\ conn[c] = "none" /\ lookups[c] = 0 /\ client[c] # NoClient /\ sent' = sent
      BY <2>4 DEF REST_Request
    <3>2. /\ client'[c].data = [id |-> id, headers |-> client[c].headers]
          /\ \A d \in Clients \ {c} :
               client'[d] = client[d] /\ lookups'[d] = lookups[d] /\ conn'[d] = conn[d]
      BY <2>4, RequestEffect
    <3>3. /\ Newest(c)' = id
          /\ \A d \in Clients \ {c} : Newest(d)' = Newest(d)
      BY <3>2 DEF Newest
    <3>4. ~IsSent(id) /\ \A d \in Clients : client[d] # NoClient => Newest(d) \in 0..Len(requests)
      BY DEF IsSent, IInv, Types, SentAsMeant, ClientInv, BufferInv
    <3>5. id \in Nat /\ id > Len(requests) /\ Len(requests) \in Nat
      BY DEF IInv, Types
    <3>6. lookups'[c] > 0 => lookups'[c] = 1 /\ conn'[c] = "none"
      BY <2>4, <3>1 DEF REST_Request, RequestToAddress, RequestToName, IInv, Types
    <3>7. \A i : IsSent(i)' = IsSent(i)
      BY <3>1 DEF IsSent
    <3> HIDE DEF id
    <3>8. ASSUME NEW a \in Clients
          PROVE  /\ lookups'[a] > 0 => lookups'[a] = 1 /\ conn'[a] = "none"
                 /\ lookups'[a] > 0 \/ conn'[a] = "connecting" => ~IsSent(Newest(a))'
      BY <3>2, <3>3, <3>4, <3>6, <3>7 DEF SerialInv
    <3>9. ASSUME NEW a \in Clients, NEW d \in Clients,
                 client'[a] # NoClient, client'[d] # NoClient, Newest(a)' = Newest(d)'
          PROVE  a = d \/ Newest(a)' = 0
      BY <3>2, <3>3, <3>4, <3>5, <3>9 DEF SerialInv
    <3>10. SentOnce'
      BY <3>1 DEF SerialInv, SentOnce
    <3>11. QED
      BY <3>8, <3>9, <3>10 DEF SerialInv
  <2>5. ASSUME NEW c \in Clients, rest_dns_found(c) PROVE SerialInv'
    <3>1. /\ lookups[c] > 0 /\ lookups' = [lookups EXCEPT ![c] = lookups[c] - 1]
          /\ conn' = conn \/ espconn_connect(c)
          /\ UNCHANGED <<client, sent>>
      BY <2>5 DEF rest_dns_found, LookupFails, LookupFinds
    <3>2. /\ lookups'[c] = 0 /\ ~IsSent(Newest(c))
          /\ \A d \in Clients \ {c} : lookups'[d] = lookups[d] /\ conn'[d] = conn[d]
      BY <3>1 DEF SerialInv, espconn_connect, IInv, Types
    <3>3. \A d \in Clients : Newest(d)' = Newest(d) /\ \A id : IsSent(id)' = IsSent(id)
      BY <3>1 DEF Newest, IsSent
    <3>4. QED
      BY <3>1, <3>2, <3>3 DEF SerialInv, SentOnce
  <2>6. ASSUME NEW c \in Clients, tcpclient_connect_cb(c) PROVE SerialInv'
    <3> DEFINE x == [client |-> c, id |-> Newest(c), headers |-> client[c].data.headers]
    <3>1. /\ conn[c] = "connecting" /\ conn' = [conn EXCEPT ![c] = "sent"]
          /\ sent' = Append(sent, x)
          /\ UNCHANGED <<client, lookups>>
          /\ sent \in Seq(Sent)
      BY <2>6 DEF tcpclient_connect_cb, IInv, Types
    <3>2. /\ client[c] # NoClient /\ Newest(c) # 0 /\ ~IsSent(Newest(c)) /\ lookups[c] = 0
          /\ \A d \in Clients : lookups[d] > 0 \/ conn[d] = "connecting" =>
                                  client[d] # NoClient
      <4>1. lookups[c] \in Nat
        BY DEF IInv, Types
      <4>2. QED
        BY <3>1, <4>1, UnderWayIsClient DEF SerialInv, UnderWayInv
    <3>3. /\ \A d \in Clients : Newest(d)' = Newest(d)
          /\ \A id : IsSent(id)' <=> IsSent(id) \/ id = Newest(c)
      <4>1. /\ DOMAIN sent' = 1..(Len(sent) + 1) /\ DOMAIN sent = 1..Len(sent)
            /\ Len(sent) \in Nat
            /\ sent'[Len(sent) + 1] = x
            /\ \A i \in DOMAIN sent : sent'[i] = sent[i]
        BY <3>1
      <4>2. QED
        BY <3>1, <4>1 DEF Newest, IsSent
    <3>4. \A d \in Clients \ {c} : conn'[d] = conn[d]
      BY <3>1 DEF IInv, Types
    <3>5. conn'[c] = "sent"
      BY <3>1 DEF IInv, Types
    <3>6. ASSUME NEW d \in Clients
          PROVE  /\ lookups'[d] > 0 => lookups'[d] = 1 /\ conn'[d] = "none"
                 /\ lookups'[d] > 0 \/ conn'[d] = "connecting" => ~IsSent(Newest(d))'
      BY <3>1, <3>2, <3>3, <3>4, <3>5 DEF SerialInv
    <3>7. SentOnce'
      <4>1. SentOnce
        BY DEF SerialInv
      <4>2. \A i \in DOMAIN sent : sent[i].id # Newest(c)
        BY <3>2 DEF IsSent
      <4>3. /\ DOMAIN sent' = 1..(Len(sent) + 1) /\ DOMAIN sent = 1..Len(sent)
            /\ Len(sent) \in Nat
            /\ sent'[Len(sent) + 1].id = Newest(c)
            /\ \A i \in DOMAIN sent : sent'[i] = sent[i]
        BY <3>1
      <4>4. QED
        BY <4>1, <4>2, <4>3 DEF SentOnce
    <3>8. QED
      BY <3>1, <3>3, <3>6, <3>7 DEF SerialInv
  <2>7. ASSUME NEW c \in Clients,
               tcpclient_recon_cb(c) \/ ServerAnswers(c) \/ tcpclient_recv(c)
                 \/ tcpclient_discon_cb(c)
        PROVE  SerialInv'
    <3>1. /\ UNCHANGED <<client, lookups, sent>> /\ conn[c] # "none"
          /\ conn'[c] # "connecting" /\ \A d \in Clients \ {c} : conn'[d] = conn[d]
      BY <2>7 DEF tcpclient_recon_cb, ServerAnswers, tcpclient_recv, tcpclient_discon_cb,
                  Disconnects, ConnAfterLoss, IInv, Types
    <3>2. \A d \in Clients : Newest(d)' = Newest(d) /\ \A id : IsSent(id)' = IsSent(id)
      BY <3>1 DEF Newest, IsSent
    <3>3. QED
      BY <3>1, <3>2 DEF SerialInv, SentOnce
  <2>8. CASE UNCHANGED vars
    <3>1. UNCHANGED <<client, lookups, conn, sent>>
      BY <2>8 DEF vars, net
    <3>2. QED
      BY <3>1 DEF SerialInv, SentOnce, Newest, IsSent
  <2>9. QED
    BY <2>1, <2>2, <2>3, <2>4, <2>5, <2>6, <2>7, <2>8
       DEF Next, Command, Callback, REST_SetupNoMemory, Restart
<1>3. QED
  BY <1>1, <1>2, IInvInductive, PTL DEF Spec

\* With a host that waits, no request reaches a server twice, whatever fails
\* (tcpclient_connect_cb, tcpclient_recon_cb, rest_dns_found).
THEOREM NoRequestTwice ==
  ASSUME Serial
  PROVE  Spec => []SentOnce
<1>1. SerialInv => SentOnce
  BY DEF SerialInv
<1>2. QED
  BY <1>1, SerialInvInductive, PTL
=============================================================================
