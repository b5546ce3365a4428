------------------------------- MODULE HexText -------------------------------
(***************************************************************************)
(* readHexData, and countHexData and setHexData, which scan alike: bytes   *)
(* from a text such as "30 0x1F 0A2h".  One step is one turn of the loop.  *)
(* dumpHexData writes such a text.                                         *)
(***************************************************************************)
EXTENDS Integers, Sequences, SequencesExt

CONSTANTS
  Texts,     \* the texts that are read, without their NUL
  Dumped,    \* the bytes that are dumped and read back
  Noted,     \* the digits of the bytes that are written in every notation
  HexSizeT   \* the number of values of a size_t

Digit == [c \in {"0", "1", "2", "3", "4", "5", "6", "7", "8", "9", "A", "B", "C",
                 "D", "E", "F", "a"} |->
  CASE c = "0" -> 0 [] c = "1" -> 1 [] c = "2" -> 2 [] c = "3" -> 3
    [] c = "4" -> 4 [] c = "5" -> 5 [] c = "6" -> 6 [] c = "7" -> 7
    [] c = "8" -> 8 [] c = "9" -> 9 [] c \in {"A", "a"} -> 10 [] c = "B" -> 11
    [] c = "C" -> 12 [] c = "D" -> 13 [] c = "E" -> 14 [] c = "F" -> 15]

Char == DOMAIN Digit \cup {" ", ",", "x", "h", "other"}

ASSUME HexAssumption ==
  /\ Texts \subseteq Seq(Char)
  /\ \A t \in Texts : Len(t) < HexSizeT       \* strlen returns it
  /\ Dumped \subseteq Seq(0 .. 255)
  /\ Noted \subseteq (DOMAIN Digit) \X (DOMAIN Digit)
  /\ HexSizeT \in Nat \ {0}
  /\ \A d \in Dumped : 3 * Len(d) < HexSizeT   \* a dump is an array, with spaces too

VARIABLES
  source,   \* the bytes that the text is a dump of
  text,     \* data
  i,        \* the index of the loop, from 0
  dt,       \* the bytes that were read
  reading   \* where the call is

hexvars == <<source, text, i, dt, reading>>

CharAt(j) == IF j < Len(text) THEN text[j + 1] ELSE "NUL"

(* i < slen - n, of size_t. *)
Before(n) == i < (Len(text) - n) % HexSizeT

-----------------------------------------------------------------------------
HexOf(d) == CHOOSE c \in DOMAIN Digit \ {"a"} : Digit[c] = d

(* Mutant of dumpHexData: a leading zero is not written. *)
dumpHexDataUnpadded(bytes, withSpace) ==
  FoldLeft(LAMBDA t, b : t \o (IF b < 16 THEN <<>> ELSE <<HexOf(b \div 16)>>) \o <<HexOf(b % 16)>>
                           \o IF withSpace THEN <<" ">> ELSE <<>>,
           <<>>, bytes)

(* dumpHexData; a single space after each byte, if that is asked. *)
dumpHexData(bytes, withSpace) ==
  FoldLeft(LAMBDA t, b : t \o <<HexOf(b \div 16), HexOf(b % 16)>>
                           \o IF withSpace THEN <<" ">> ELSE <<>>,
           <<>>, bytes)

Begin(t) ==
  /\ text' = t
  /\ i' = 0
  /\ dt' = <<>>

(* A dump is read back, or a text of another origin is read. *)
ReadDump ==
  /\ reading = "idle"
  /\ reading' = "readingDump"
  /\ source' \in Dumped
  /\ \E withSpace \in BOOLEAN : Begin(dumpHexData(source', withSpace))

ReadText ==
  /\ reading = "idle"
  /\ reading' = "reading"
  /\ \E t \in Texts : Begin(t)
  /\ UNCHANGED source

Scanning == reading \in {"reading", "readingDump"}

(* How far a turn goes. *)
Go(n) == i' = i + n /\ UNCHANGED <<source, text, dt, reading>>

Refused == reading' = "refused" /\ UNCHANGED <<source, text, i, dt>>

IsSeparator == CharAt(i) \in {" ", ","}

(* 0..h: the zero before the digits is skipped.  In a text of one or two   *)
(* characters slen - 3 is huge, and what lies behind the NUL decides.      *)
ZeroBefore == Before(3) /\ CharAt(i) = "0"
ZeroMark == {ZeroBefore /\ CharAt(i + 3) = "h"}
              \cup IF ZeroBefore /\ i + 3 > Len(text) THEN BOOLEAN ELSE {}

IsPrefix0x == Before(2) /\ CharAt(i) = "0" /\ CharAt(i + 1) = "x"

(* Mutant of Read: the h after a byte is not skipped. *)
ReadKeepingMark ==
  LET second == CharAt(i + 1) \in DOMAIN Digit IN
  /\ dt' = Append(dt, IF second THEN Digit[CharAt(i)] * 16 + Digit[CharAt(i + 1)]
                      ELSE Digit[CharAt(i)])
  /\ i' = i + 2
  /\ UNCHANGED <<source, text, reading>>

(* One or two digits, and a mark after them; of one digit, the mark after  *)
(* the space that follows it.                                              *)
Read ==
  LET second == CharAt(i + 1) \in DOMAIN Digit IN
  /\ dt' = Append(dt, IF second THEN Digit[CharAt(i)] * 16 + Digit[CharAt(i + 1)]
                      ELSE Digit[CharAt(i)])
  /\ i' = IF i + 2 < Len(text) /\ CharAt(i + 2) = "h" THEN i + 3 ELSE i + 2
  /\ UNCHANGED <<source, text, reading>>

ReadDigits ==
  \/ CharAt(i + 1) \in DOMAIN Digit \cup {" ", "NUL"} /\ Read
  \/ CharAt(i + 1) \notin DOMAIN Digit \cup {" ", "NUL"} /\ Refused

Scan ==
  /\ Scanning
  /\ i < Len(text)
  /\ \/ IsSeparator /\ Go(1)
     \/ ~IsSeparator /\ CharAt(i) \notin DOMAIN Digit /\ Refused
     \/ /\ CharAt(i) \in DOMAIN Digit
        /\ \E marked \in ZeroMark :
             \/ marked /\ Go(1)
             \/ ~marked /\ IsPrefix0x /\ Go(2)
             \/ ~marked /\ ~IsPrefix0x /\ ReadDigits

HexDone ==
  /\ Scanning
  /\ i >= Len(text)
  /\ reading' = IF reading = "readingDump" THEN "dumpRead" ELSE "textRead"
  /\ UNCHANGED <<source, text, i, dt>>

HexInit ==
  /\ source = <<>>
  /\ text = <<>>
  /\ i = 0
  /\ dt = <<>>
  /\ reading = "idle"

HexNext == ReadDump \/ ReadText \/ Scan \/ HexDone

HexSpec == HexInit /\ [][HexNext]_hexvars

-----------------------------------------------------------------------------
(* The state is of these types; two characters at least make a byte, but   *)
(* for the last one.                                                       *)
HexTypeOK ==
  /\ source \in Seq(0 .. 255) /\ text \in Seq(Char)
  /\ i \in 0 .. Len(text) + 1
  /\ dt \in Seq(0 .. 255) /\ 2 * Len(dt) <= i
  /\ reading \in {"idle", "reading", "readingDump", "refused", "textRead", "dumpRead"}

(* A dump is read back to the bytes it is of, with spaces or without; only *)
(* the dump "00" may be read as no byte at all.                            *)
HexRoundTrip ==
  /\ reading = "dumpRead" => dt = source \/ (text = <<"0", "0">> /\ dt = <<>>)
  /\ reading = "refused" => source = <<>>

(* The byte of the digits b, its forms, and texts of two such bytes. *)
ByteOf(b) == Digit[b[1]] * 16 + Digit[b[2]]
Forms(b) == {b, <<"0", "x">> \o b, b \o <<"h">>, <<"0">> \o b \o <<"h">>}
Notations(b, c) == {w[1] \o <<w[2]>> \o w[3] : w \in Forms(b) \X {" ", ","} \X Forms(c)}

(* The notations agree: two bytes, each written in any of the forms 1A,    *)
(* 0x1A, 1Ah and 01Ah, one after the other, are read as those bytes.       *)
HexNotations ==
  reading \in {"textRead", "refused"} =>
    \A b, c \in Noted :
      text \in Notations(b, c) => reading = "textRead" /\ dt = <<ByteOf(b), ByteOf(c)>>

=============================================================================
