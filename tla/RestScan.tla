------------------------------ MODULE RestScan ------------------------------
(***************************************************************************)
(* The loop of tcpclient_recv (modules/rest.c) over one TCP segment: it    *)
(* looks for the status after the first space and for the blank line that  *)
(* ends the head; the byte after it makes the loop write an event with the *)
(* rest of the segment and leave.  Characters are their ASCII codes.       *)
(***************************************************************************)
EXTENDS Integers, Sequences, SequencesExt

NL == 10
CR == 13
SP == 32
Digits == 48..57

\* The locals of the loop: j counts the bytes read, statusCode is the text of
\* which i is the length, and event says that the loop was left with an event.
ScanStart == [j |-> 0, currentLineIsBlank |-> FALSE, httpBody |-> FALSE,
              inStatus |-> FALSE, statusCode |-> <<>>, event |-> FALSE]

InStatus(s, c) == s.inStatus \/ c = SP

\* Faults: the space counts; nothing bounds i.
StatusCodeWithSpace(s, c) ==
  IF InStatus(s, c) /\ Len(s.statusCode) < 3
    THEN Append(s.statusCode, c) ELSE s.statusCode
StatusCodeUnbounded(s, c) ==
  IF InStatus(s, c) /\ c # SP THEN Append(s.statusCode, c) ELSE s.statusCode

\* Up to three characters after the first space, other spaces left out.
StatusCode(s, c) ==
  IF InStatus(s, c) /\ Len(s.statusCode) < 3 /\ c # SP
    THEN Append(s.statusCode, c) ELSE s.statusCode

\* Fault: a line with a carriage return is not blank.
LineIsBlankCrCounts(s, c) == c = NL

LineIsBlank(s, c) == c = NL \/ (c = CR /\ s.currentLineIsBlank)

\* One turn of the loop.
ScanByte(s, c) ==
  [j |-> s.j + 1,
   currentLineIsBlank |->
     IF s.httpBody THEN s.currentLineIsBlank ELSE LineIsBlank(s, c),
   httpBody   |-> s.httpBody \/ (c = NL /\ s.currentLineIsBlank),
   inStatus   |-> InStatus(s, c),
   statusCode |-> StatusCode(s, c),
   event      |-> s.httpBody]

\* The whole loop: nothing is read after the break.
Scan(text) ==
  FoldLeft(LAMBDA s, c : IF s.event THEN s ELSE ScanByte(s, c), ScanStart, text)

\* atoi: white space, then the digits up to the first other character.
atoi(text) ==
  FoldLeft(LAMBDA a, c :
             IF ~a.end /\ c \in Digits
               THEN [n |-> 10 * a.n + (c - 48), begun |-> TRUE, end |-> FALSE]
               ELSE [a EXCEPT !.end = @ \/ a.begun \/ c \notin {NL, CR, SP}],
           [n |-> 0, begun |-> FALSE, end |-> FALSE], text).n

\* Fewer than three characters leave code at 0.
Code(s) == IF Len(s.statusCode) = 3 THEN atoi(s.statusCode) ELSE 0

\* Fault: the byte just read is left out.
BodyAfter(s, text) == SubSeq(text, s.j + 1, Len(text))

\* The body is what is left of the segment, the byte just read included.
Body(s, text) == SubSeq(text, s.j, Len(text))

-----------------------------------------------------------------------------
(* What a reader of HTTP finds in a text. *)

\* A blank line ends at k: a line end after another with nothing but CR
\* between them.
BlankLineAt(t, k) ==
  /\ t[k] = NL
  /\ \E m \in 1..(k - 1) : t[m] = NL /\ \A i \in (m + 1)..(k - 1) : t[i] = CR

\* The status of a status line: a version without a space, a space, three
\* digits and the end of the line or another space.
Version(t, n) == n > 1 /\ \A i \in 1..(n - 1) : t[i] \notin {SP, NL, CR}
StatusLine(t, n) ==
  /\ n + 4 \in DOMAIN t
  /\ Version(t, n) /\ t[n] = SP
  /\ \A i \in (n + 1)..(n + 3) : t[i] \in Digits
  /\ t[n + 4] \in {SP, NL, CR}
Number(t, n) ==
  100 * (t[n + 1] - 48) + 10 * (t[n + 2] - 48) + (t[n + 3] - 48)

\* The head of an answer: a status line, and the first blank line at its end.
HttpHead(t, status) ==
  /\ \E n \in DOMAIN t : StatusLine(t, n) /\ status = Number(t, n)
  /\ \A k \in DOMAIN t : BlankLineAt(t, k) <=> k = Len(t)
=============================================================================
