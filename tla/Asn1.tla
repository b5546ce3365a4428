--------------------------------- MODULE Asn1 ---------------------------------
(***************************************************************************)
(* CASNParser and CASNTag: parsing an array of bytes into a tree of tags,  *)
(* parsing the content of a tag again, and encoding the tree.  One step    *)
(* is one turn of the loop in Parse; its recursion is a stack of levels.   *)
(***************************************************************************)
EXTENDS Integers, Sequences, SequencesExt

CONSTANTS
  Inputs,     \* the arrays that Parse is called with
  Tags,       \* the tags that getASN1Tag is called with, as integers
  SizeBytes,  \* the number of bytes of a size_t: 8
  SizeT,      \* the number of its values: 256^8
  MaxArray    \* the size of the largest array that new allocates

Byte == 0 .. 255

(* The powers of 256. *)
Pow256[n \in Nat] == IF n = 0 THEN 1 ELSE 256 * Pow256[n - 1]

(* An array has at most half of the address space, and a size of at most   *)
(* four bytes: ASN1LLength throws for a larger one.                        *)
ASSUME SizeAssumption ==
  /\ SizeBytes \in Nat \ {0} /\ SizeT = Pow256[SizeBytes]
  /\ MaxArray \in Nat /\ 2 * MaxArray <= SizeT
  /\ MaxArray \div 256 < Pow256[3]

ASSUME InputsAssumption ==
  \A data \in Inputs : data \in Seq(Byte) /\ Len(data) <= MaxArray

ASN1TLength(tag) == Cardinality({i \in 0 .. 3 : tag \div Pow256[i] # 0})

(* putASN1Tag: the bytes of a 32-bit integer, from the first that is not   *)
(* zero on.                                                                *)
putASN1Tag(tag) ==
  [i \in 1 .. ASN1TLength(tag) |-> (tag \div Pow256[ASN1TLength(tag) - i]) % 256]

(* The bytes of one tag: after the first, if it says that more follow, the *)
(* first one below 128 is the last.                                        *)
IsTag(tag) ==
  IF tag[1] % 32 # 31 THEN Len(tag) = 1
  ELSE /\ Len(tag) > 1 /\ tag[Len(tag)] < 128
       /\ \A j \in 2 .. Len(tag) - 1 : tag[j] >= 128

(* getASN1Tag is called with a tag, as 0x31, none of whose bytes is a      *)
(* zero, which putASN1Tag would leave out.                                 *)
ASSUME TagsAssumption ==
  \A tag \in Tags :
    /\ tag \in Nat \ {0} /\ tag \div Pow256[3] < 256
    /\ 0 \notin Range(putASN1Tag(tag)) /\ IsTag(putASN1Tag(tag))

VARIABLES
  input,     \* data, the array that is parsed
  levels,    \* the calls of Parse under way, the innermost last
  elements,  \* the tags, each before those inside it
  target,    \* the tag whose content Reparse parses, 0 in Parse
  phase,     \* where the parser is
  encoded,   \* what Encode wrote
  written    \* the tags that Encode wrote (a history variable)

asnvars == <<input, levels, elements, target, phase, encoded, written>>

(* A call of Parse: bytes are those from the start of its data to the end  *)
(* of the array, of which the first size are its data.                     *)
Level(parent, bytes, size, startseq) ==
  [parent |-> parent, bytes |-> bytes, size |-> size, l |-> 0,
   startseq |-> startseq]

Levels ==
  [parent : Nat, bytes : Seq(Byte), size : Nat, l : Nat, startseq : Nat]

CASNTag ==
  [tag : Seq(Byte) \ {<<>>}, parent : Nat, content : Seq(Byte), forced : BOOLEAN,
   startPos : Nat, endPos : Nat]

Parsing == phase \in {"parsing", "reparsing", "rereading"}
IsSequence(e) == e.forced \/ (e.tag[1] \div 32) % 2 = 1

-----------------------------------------------------------------------------
(* The header at the position l of a level. *)

(* Where the last byte of the tag is; size, if it does not end before. *)
TagEnd(v) ==
  LET ends == {i \in v.l + 1 .. v.size - 1 : v.bytes[i + 1] < 128} IN
  IF v.bytes[v.l + 1] % 32 # 31 THEN v.l
  ELSE IF ends = {} THEN v.size ELSE Min(ends)

(* Whether the length is among the bytes of the array.  That it is among   *)
(* those of the level is not asked before it is read.                      *)
Digits(v, at) == IF v.bytes[at + 2] < 128 THEN 0 ELSE v.bytes[at + 2] - 128
LengthInArray(v, at) ==
  /\ at + 2 <= Len(v.bytes)
  /\ at + 2 + Digits(v, at) <= Len(v.bytes)

LengthLen(v, at) == 1 + Digits(v, at)

(* The length.  Its indefinite form stands for what is left of the level,  *)
(* and one of too many digits loses the first of them.                     *)
DataLen(v, at) ==
  LET b == v.bytes[at + 2] IN
  IF b < 128 THEN b
  ELSE IF b = 128 THEN (v.size - at - 2) % SizeT
  ELSE FoldLeft(LAMBDA len, digit : (len * 256 + digit) % SizeT, 0,
                SubSeq(v.bytes, at + 3, at + 2 + Digits(v, at)))

(* Mutant of Bounded: the header is not counted. *)
BoundedContent(v, at) == (at + DataLen(v, at)) % SizeT <= v.size

(* The bound check: a sum of size_t. *)
Bounded(v, at) == (at + DataLen(v, at) + LengthLen(v, at) + 1) % SizeT <= v.size

End(v, at) == at + 1 + LengthLen(v, at) + DataLen(v, at)
Content(v, at) == SubSeq(v.bytes, at + LengthLen(v, at) + 2, End(v, at))

(* Mutant of NewElement: the position of a multi-byte tag's first byte. *)
NewElementAtTag(v, at) ==
  [tag |-> SubSeq(v.bytes, v.l + 1, at + 1), parent |-> v.parent,
   content |-> <<>>, forced |-> FALSE,
   startPos |-> v.startseq + v.l,
   endPos |-> v.startseq + v.l + 1 + LengthLen(v, at) + DataLen(v, at)]

NewElement(v, at) ==
  [tag |-> SubSeq(v.bytes, v.l + 1, at + 1), parent |-> v.parent,
   content |-> <<>>, forced |-> FALSE,
   startPos |-> v.startseq + at, endPos |-> v.startseq + End(v, at)]

-----------------------------------------------------------------------------
(* The turns of the loop. *)

Throw ==
  /\ phase' = "error"
  /\ UNCHANGED <<input, levels, elements, target, encoded, written>>

(* The parser is given, or reads, more than the array has: where the model *)
(* ends.                                                                   *)
Stray ==
  /\ phase' = "undefined"
  /\ UNCHANGED <<input, levels, elements, target, encoded, written>>

AfterParse ==
  CASE phase = "parsing" -> "parsed"
    [] phase = "reparsing" -> "reparsed"
    [] phase = "rereading" -> "reread"

(* Parse returns; Reparse then gives the tags it found to its own tag.     *)
ReturnFromParse ==
  /\ levels' = Front(levels)
  /\ phase' = IF Len(levels) = 1 THEN AfterParse ELSE phase
  /\ elements' =
       IF /\ Len(levels) = 1
             /\ target # 0
             /\ ~IsSequence(elements[target])
             /\ \E e \in Range(elements) : e.parent = target
          THEN [elements EXCEPT ![target].forced = TRUE, ![target].content = <<>>]
          ELSE elements
  /\ UNCHANGED <<input, target, encoded, written>>

LevelEnds ==
  /\ Parsing
  /\ Last(levels).l >= Last(levels).size
  /\ ReturnFromParse

(* The length is read from beyond the array, and may be anything.  Only an *)
(* end of contents or a sum that wraps around is not refused then.         *)
ReadBeyondArray(v, at) ==
  /\ ~LengthInArray(v, at)
  /\ \/ Throw
     \/ v.bytes[v.l + 1] = 0 /\ ReturnFromParse
     \/ Stray

(* Mutant of IsEndOfContents: any tag of 0 is taken for one. *)
IsEndOfContentsAnyLength(v, at) == v.bytes[v.l + 1] = 0

IsEndOfContents(v, at) == v.bytes[v.l + 1] = 0 /\ DataLen(v, at) = 0

(* Mutant of EndOfContents: the loop goes on where it is. *)
EndOfContentsIgnored(v, at) ==
  /\ LengthInArray(v, at)
  /\ IsEndOfContents(v, at)
  /\ UNCHANGED asnvars

(* Parse returns, and leaves what follows in the level. *)
EndOfContents(v, at) ==
  /\ LengthInArray(v, at)
  /\ IsEndOfContents(v, at)
  /\ ReturnFromParse

(* Mutant of Inside: a child's positions count from its parent. *)
InsideFromParent(v, at) ==
  Level(Len(elements) + 1,
        SubSeq(v.bytes, at + LengthLen(v, at) + 2, Len(v.bytes)),
        DataLen(v, at), at + LengthLen(v, at) + 1)

(* The level of a tag's content. *)
Inside(v, at) ==
  Level(Len(elements) + 1,
        SubSeq(v.bytes, at + LengthLen(v, at) + 2, Len(v.bytes)),
        DataLen(v, at), v.startseq + at + LengthLen(v, at) + 1)

(* A tag.  Where the bound check passed because its sum wrapped around, a  *)
(* value cannot be allocated, and a sequence is parsed beyond the array.   *)
Element(v, at) ==
  LET e == NewElement(v, at)
      next == [levels EXCEPT ![Len(levels)].l = End(v, at)]
  IN
  /\ LengthInArray(v, at)
  /\ ~IsEndOfContents(v, at)
  /\ \/ ~Bounded(v, at) /\ Throw
     \/ Bounded(v, at) /\ End(v, at) > v.size /\ ~IsSequence(e) /\ Throw
     \/ Bounded(v, at) /\ End(v, at) > v.size /\ IsSequence(e) /\ Stray
     \/ /\ Bounded(v, at) /\ End(v, at) <= v.size
        /\ IF IsSequence(e)
           THEN /\ elements' = Append(elements, e)
                /\ levels' = Append(next, Inside(v, at))
           ELSE /\ elements' = Append(elements, [e EXCEPT !.content = Content(v, at)])
                /\ levels' = next
        /\ UNCHANGED <<input, target, phase, encoded, written>>

Turn ==
  LET v == Last(levels) IN
  /\ Parsing
  /\ v.l < v.size
  /\ \/ TagEnd(v) = v.size /\ Throw
     \/ TagEnd(v) < v.size /\ ReadBeyondArray(v, TagEnd(v))
     \/ TagEnd(v) < v.size /\ EndOfContents(v, TagEnd(v))
     \/ TagEnd(v) < v.size /\ Element(v, TagEnd(v))

-----------------------------------------------------------------------------
(* The calls. *)

Parse ==
  /\ phase = "idle"
  /\ phase' = "parsing"
  /\ \E data \in Inputs :
       /\ input' = data
       /\ levels' = <<Level(0, data, Len(data), 0)>>
  /\ UNCHANGED <<elements, target, encoded, written>>

(* The first byte of a bit string counts the bits it does not use. *)
Reparse(i) ==
  LET bitString == elements[i].tag = <<3>>
      content == IF bitString THEN Tail(elements[i].content) ELSE elements[i].content
  IN
  /\ phase = "parsed"
  /\ \/ bitString /\ elements[i].content = <<>> /\ Throw
     \/ /\ ~(bitString /\ elements[i].content = <<>>)
        /\ phase' = "reparsing"
        /\ target' = i
        /\ levels' = <<Level(i, content, Len(content), 0)>>
        /\ UNCHANGED <<input, elements, encoded, written>>

(* Mutant of PutLength: 128 is taken for a length of one byte. *)
PutLengthSigned(len) ==
  LET digits == IF len < Pow256[1] THEN 1 ELSE IF len < Pow256[2] THEN 2
                ELSE IF len < Pow256[3] THEN 3 ELSE 4
  IN IF len <= 128 THEN <<len>>
     ELSE <<128 + digits>> \o [i \in 1 .. digits |-> (len \div Pow256[digits - i]) % 256]

(* putASN1Length, into the ASN1LLength bytes there are for it. *)
PutLength(len) ==
  LET digits == IF len < Pow256[1] THEN 1 ELSE IF len < Pow256[2] THEN 2
                ELSE IF len < Pow256[3] THEN 3 ELSE 4
  IN IF len < 128 THEN <<len>>
     ELSE <<128 + digits>> \o [i \in 1 .. digits |-> (len \div Pow256[digits - i]) % 256]

Tlv(tag, content) == tag \o PutLength(Len(content)) \o content

Encoding(es) ==
  LET code[i \in 0 .. Len(es)] ==
        LET inside == FoldLeft(LAMBDA bytes, j :
                                 IF es[j].parent = i THEN bytes \o code[j] ELSE bytes,
                               <<>>, [j \in DOMAIN es |-> j])
        IN IF i = 0 THEN inside
           ELSE Tlv(es[i].tag, IF IsSequence(es[i]) THEN inside ELSE es[i].content)
  IN code[0]

(* The array that is written must be one that can be allocated.  A bit     *)
(* string that was parsed again has lost its first byte.                   *)
Encode ==
  /\ phase \in {"parsed", "reparsed"}
  /\ Len(Encoding(elements)) <= MaxArray
  /\ \/ /\ \E e \in Range(elements) : e.tag = <<3>> /\ e.forced
        /\ Throw
     \/ /\ \A e \in Range(elements) : ~(e.tag = <<3>> /\ e.forced)
        /\ phase' = "encoded"
        /\ encoded' = Encoding(elements)
        /\ written' = elements
        /\ UNCHANGED <<input, levels, elements, target>>

(* What was encoded becomes the content of one more tag. *)
getASN1Tag(tag) ==
  LET outer == [tag |-> putASN1Tag(tag), parent |-> 0, content |-> <<>>, forced |-> FALSE,
                startPos |-> 0, endPos |-> 0]
  IN
  /\ phase = "encoded"
  /\ Len(Tlv(outer.tag, encoded)) <= MaxArray
  /\ phase' = "wrapped"
  /\ encoded' = Tlv(outer.tag, encoded)
  /\ written' = IF IsSequence(outer)
                THEN <<outer>> \o [j \in DOMAIN written |-> [written[j] EXCEPT !.parent = @ + 1]]
                ELSE <<[outer EXCEPT !.content = encoded]>>
  /\ UNCHANGED <<input, levels, elements, target>>

(* What was encoded is parsed in its turn. *)
ParseEncoded ==
  /\ phase \in {"encoded", "wrapped"}
  /\ phase' = "rereading"
  /\ input' = encoded
  /\ levels' = <<Level(0, encoded, Len(encoded), 0)>>
  /\ elements' = <<>>
  /\ target' = 0
  /\ UNCHANGED <<encoded, written>>

AsnInit ==
  /\ input = <<>>
  /\ levels = <<>>
  /\ elements = <<>>
  /\ target = 0
  /\ phase = "idle"
  /\ encoded = <<>>
  /\ written = <<>>

AsnNext ==
  \/ Parse
  \/ LevelEnds
  \/ Turn
  \/ \E i \in DOMAIN elements : Reparse(i)
  \/ Encode
  \/ \E tag \in Tags : getASN1Tag(tag)
  \/ ParseEncoded

AsnSpec == AsnInit /\ [][AsnNext]_asnvars

-----------------------------------------------------------------------------
(* The state is of these types; a level keeps to its bytes, and a tag      *)
(* comes after the one that it is in.                                      *)
AsnTypeOK ==
  /\ input \in Seq(Byte)
  /\ levels \in Seq(Levels)
  /\ \A v \in Range(levels) :
       v.parent <= Len(elements) /\ v.l <= v.size /\ v.size <= Len(v.bytes)
  /\ elements \in Seq(CASNTag)
  /\ \A i \in DOMAIN elements : elements[i].parent < i
  /\ target \in 0 .. Len(elements)
  /\ phase \in {"idle", "parsing", "parsed", "reparsing", "reparsed", "encoded",
                "wrapped", "rereading", "reread", "error", "undefined"}
  /\ encoded \in Seq(Byte)

(* What Parse makes of a level lies in the level: a tag ends before its    *)
(* parent does, and before the tag after it begins.                        *)
AsnNested ==
  phase \in {"parsing", "parsed"} =>
    \A i \in DOMAIN elements :
      LET e == elements[i] IN
      /\ e.endPos <= Len(input)
      /\ e.parent # 0 => /\ elements[e.parent].startPos < e.startPos
                         /\ e.endPos <= elements[e.parent].endPos
      /\ \A j \in i + 1 .. Len(elements) :
           elements[j].parent = e.parent => e.endPos <= elements[j].startPos

(* The slice of the array from startPos to endPos, which verifySod hashes  *)
(* and decodes, is one tag in its turn, of a sequence too: the last byte   *)
(* of the tag, a length that stands for the rest of the slice, no more and *)
(* no less, and, of a tag that is not a sequence, the content.             *)
AsnSlices ==
  phase = "parsed" =>
    \A e \in Range(elements) :
      LET slice == SubSeq(input, e.startPos + 1, e.endPos)
          v == Level(0, slice, Len(slice), 0)
      IN /\ slice[1] = Last(e.tag)
         /\ LengthInArray(v, 0) /\ End(v, 0) = Len(slice)
         /\ ~IsSequence(e) => Content(v, 0) = e.content

(* The level whose tags are those inside the tag i, or those of the array  *)
(* itself if i is 0.                                                       *)
LevelOf(i) ==
  LET whole == Level(0, input, Len(input), 0)
      from == IF i = 0 THEN 0
              ELSE elements[i].startPos + 1 + LengthLen(whole, elements[i].startPos)
      to == IF i = 0 THEN Len(input) ELSE elements[i].endPos
  IN Level(i, SubSeq(input, from + 1, Len(input)), to - from, from)

(* Parse drops nothing in silence but what comes after an end of contents: *)
(* in the content of a sequence each tag begins where the content does, or *)
(* where a tag before it ends, and the last ends where the content does,   *)
(* or where a tag of 0 is, whose length is 0 or not in the array.          *)
AsnCovers ==
  phase = "parsed" =>
    \A i \in 0 .. Len(elements) :
      i = 0 \/ IsSequence(elements[i]) =>
        LET v == LevelOf(i)
            inside == {e \in Range(elements) : e.parent = i}
            ends == {v.startseq} \cup {e.endPos : e \in inside}
            stop == Max(ends) - v.startseq
        IN /\ \A e \in inside : e.startPos + 1 - Len(e.tag) \in ends
           /\ \/ stop = v.size
              \/ /\ v.bytes[stop + 1] = 0
                 /\ ~LengthInArray(v, stop) \/ DataLen(v, stop) = 0

(* The parser keeps to the array, unless the level ends within the header  *)
(* of a tag, or a length has as many digits as a size_t.                   *)
AsnStraysOnlyIfTruncated ==
  phase = "undefined" =>
    LET v == Last(levels)
        at == TagEnd(v)
    IN \/ at + 2 > v.size
       \/ at + 2 + Digits(v, at) > v.size
       \/ Digits(v, at) >= SizeBytes

(* Encoding loses nothing, and neither does putting what was encoded into  *)
(* another tag, which verifySod does before it takes the digest that was   *)
(* signed: it can be parsed, has the same encoding in its turn, and is the *)
(* same tree unless a tag was parsed again before.                         *)
AsnRoundTrip ==
  LET Tree(es) == [i \in DOMAIN es |-> [tag |-> es[i].tag, parent |-> es[i].parent,
                                        content |-> es[i].content]]
  IN /\ phase \in {"error", "undefined"} => written = <<>>
     /\ phase = "reread" =>
          /\ Encoding(elements) = encoded
          /\ (\E e \in Range(written) : e.forced) \/ Tree(elements) = Tree(written)

(* Parse returns or throws, for any array. *)
AsnTerminates == [](Parsing => <>~Parsing)

=============================================================================
