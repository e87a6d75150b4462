----------------------------- MODULE RestParse -----------------------------
(***************************************************************************)
(* The loop of RestScan fed with every text, one byte a step, against what *)
(* a reader of HTTP expects of it.                                         *)
(***************************************************************************)
EXTENDS RestScan

CONSTANTS
  Chars,    \* the characters of a segment
  MaxLen    \* bound: its length

ASSUME CharsAssumption == Chars \subseteq 0..255 /\ MaxLen \in Nat

VARIABLES
  text,   \* pdata up to j
  scan    \* the locals

parseVars == <<text, scan>>

ParseInit == text = <<>> /\ scan = ScanStart

\* for(j=0; j<len; j++), until the break.
ReadByte ==
  /\ ~scan.event
  /\ Len(text) < MaxLen
  /\ \E c \in Chars : text' = Append(text, c) /\ scan' = ScanByte(scan, c)

ParseSpec == ParseInit /\ [][ReadByte]_parseVars

-----------------------------------------------------------------------------
(* Properties. *)

\* The locals stay in their domains; statusCode has room for three characters
\* and the terminating 0.
LocalsOK ==
  /\ text \in Seq(Chars) /\ scan.j = Len(text)
  /\ {scan.currentLineIsBlank, scan.httpBody, scan.inStatus, scan.event}
       \subseteq BOOLEAN
  /\ Len(scan.statusCode) <= 3

\* The body begins right after the first blank line, whatever characters the
\* head is made of: httpBody says that one was read, and the event is written
\* at the byte that follows it (tcpclient_recv).
BodyAfterBlankLine ==
  /\ scan.httpBody <=> \E k \in DOMAIN text : BlankLineAt(text, k)
  /\ scan.event <=> \E k \in 1..(Len(text) - 1) : BlankLineAt(text, k)
  /\ \A k \in 1..(Len(text) - 2) : ~BlankLineAt(text, k)

\* The code of the event is the number in the status line, whatever spaces and
\* digits the head and the body hold after it (tcpclient_recv).
CodeIsStatus ==
  \A n \in DOMAIN text : StatusLine(text, n) => Code(scan) = Number(text, n)
=============================================================================
