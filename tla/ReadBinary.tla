------------------------------ MODULE ReadBinary ------------------------------
(***************************************************************************)
(* Token::readBinaryContent, which reads the selected file of the card     *)
(* page by page.  A byte of the file is named by its offset; Other is a    *)
(* byte that is not one of the file's.                                     *)
(***************************************************************************)
EXTENDS Integers, Sequences

CONSTANTS
  Page,           \* PAGE_LENGTH: 128 in the code
  ByteRange,      \* the values of a byte: 256
  SfiOffset,      \* the first offset whose high byte asks for a file by its
                  \* short identifier, not for an offset in the selected file:
                  \* 32768
  OffsetRange,    \* the values of P1 and P2 together: 65536
  MaxLength,      \* bound on the length of the file
  MaxOffset,      \* bound on the offset from which the loop goes on
  Requests,       \* the values of contentLength asked for
  Other

All == -1  \* the contentLength that asks for the whole file

ASSUME PageAssumption ==
  /\ Page \in Nat \ {0}
  /\ ByteRange \in Nat \ {0}
  /\ SfiOffset \in Nat
  /\ OffsetRange \in Nat \ {0}
  /\ SfiOffset <= OffsetRange
  /\ MaxLength \in Nat
  /\ MaxOffset \in Nat
  /\ Requests \subseteq Nat \cup {All}

ASSUME OtherAssumption == Other \notin Nat

VARIABLES
  fileLength,     \* the length of the file that was selected
  start,          \* startingOffset
  contentLength,  \* contentLength
  selected,       \* whether it still is the selected file of the card
  offset,         \* offset
  buffer,         \* contentBuffer
  pc,             \* "reading" in the loop, "done" after it, "undefined" when
                  \* it has copied from outside of responseBuffer
  success,        \* success
  rereadFailed    \* whether the card failed the second READ BINARY after 6Cxx
                  \* (a history variable)

parameters == <<fileLength, start, contentLength>>
vars == <<fileLength, start, contentLength, selected, offset, buffer, pc,
          success, rereadFailed>>

(* The bytes of the file from offset first up to, not including, last. *)
Bytes(first, last) == [i \in 1 .. last - first |-> first + i - 1]

OtherBytes(n) == [i \in 1 .. n |-> Other]

-----------------------------------------------------------------------------
(* The card's side.  P1 and P2 have room for the low two bytes of the      *)
(* offset.  With the high bit of P1 set they name a file by its short      *)
(* identifier, the file being read or another one, and an offset of one    *)
(* byte.  Places has the offset in the file that the card is asked for, if *)
(* it is this file that is asked.                                          *)
Asked == offset % OffsetRange
ByIdentifier == Asked >= SfiOffset

Places ==
  IF ByIdentifier THEN {Asked % ByteRange}
  ELSE IF selected THEN {Asked} ELSE {}

Reading == pc = "reading"

Finish(bytes) ==
  /\ buffer' = buffer \o bytes
  /\ pc' = "done"
  /\ UNCHANGED <<parameters, selected, offset, success>>

(* Mutant of Continue: the next page starts on the last byte of this one. *)
ContinueOverlapping(bytes) ==
  /\ offset <= MaxOffset
  /\ buffer' = buffer \o bytes
  /\ offset' = offset + Page - 1
  /\ pc' = IF contentLength = All \/ offset' < contentLength THEN "reading" ELSE "done"
  /\ UNCHANGED <<parameters, success, rereadFailed>>

(* The page is appended and the loop goes on to the next page, whatever    *)
(* the page's length was, while its condition holds.                       *)
Continue(bytes) ==
  /\ offset <= MaxOffset
  /\ buffer' = buffer \o bytes
  /\ offset' = offset + Page
  /\ pc' = IF contentLength = All \/ offset' < contentLength THEN "reading" ELSE "done"
  /\ UNCHANGED <<parameters, success, rereadFailed>>

(* 9000 with a full page, or with what is left of the file. *)
ReadPage ==
  /\ Reading
  /\ \E p \in Places :
       /\ p < fileLength
       /\ Continue(Bytes(p, IF fileLength - p < Page THEN fileLength ELSE p + Page))
  /\ selected' = TRUE

(* 6282: the end of the file came before Le bytes. *)
ReadToEnd ==
  /\ Reading
  /\ \E p \in Places :
       /\ p < fileLength /\ fileLength - p < Page
       /\ Finish(Bytes(p, fileLength))
  /\ UNCHANGED rereadFailed

(* Mutant of ReadShorter: the read is not repeated with the right length. *)
ReadShorterOnce ==
  /\ Reading
  /\ \E p \in Places : p < fileLength /\ fileLength - p < Page
  /\ Finish(<<>>)
  /\ UNCHANGED rereadFailed

(* 6Cxx: the read is repeated with the length the card gave. *)
ReadShorter ==
  /\ Reading
  /\ \E p \in Places :
       /\ p < fileLength /\ fileLength - p < Page
       /\ Finish(Bytes(p, fileLength))
  /\ UNCHANGED rereadFailed

(* The read is repeated and fails, which nobody looks at.  Should the card *)
(* refuse it, nothing is appended, and should it be lost, the page that    *)
(* was there before, with the old status word in it.  A second 6Cyy leaves *)
(* yy as the length of a response that is Page + 2 bytes long.             *)
ReadShorterFails ==
  /\ Reading
  /\ ByIdentifier \/ \E p \in Places : p < fileLength /\ fileLength - p < Page
  /\ rereadFailed' = TRUE
  /\ \/ \E n \in {0, Page} : Finish(OtherBytes(n))
     \/ \E yy \in 2 .. ByteRange - 1 : yy - 2 <= Page + 2 /\ Finish(OtherBytes(yy - 2))
     \/ /\ \E yy \in 0 .. ByteRange - 1 : yy < 2 \/ yy - 2 > Page + 2
        /\ pc' = "undefined"
        /\ UNCHANGED <<parameters, selected, offset, buffer, success>>

(* Mutant of ReadBeyond: it is taken for an error, and all is read again. *)
ReadBeyondRetried ==
  /\ Reading
  /\ \E p \in Places : p >= fileLength
  /\ buffer' = <<>>
  /\ offset' = start
  /\ UNCHANGED <<parameters, selected, pc, success, rereadFailed>>

(* 6B00: the offset is not in the file. *)
ReadBeyond ==
  /\ Reading
  /\ \E p \in Places : p >= fileLength
  /\ Finish(<<>>)
  /\ UNCHANGED rereadFailed

(* Another file, whose bytes may come in pages of any length, answers for  *)
(* a short identifier; from then on it is the selected one.                *)
ReadOtherFile ==
  /\ Reading
  /\ ByIdentifier \/ ~selected
  /\ \/ \E n \in 1 .. Page : Continue(OtherBytes(n)) /\ selected' = FALSE
     \/ \E n \in 0 .. Page : Finish(OtherBytes(n)) /\ UNCHANGED rereadFailed

(* Mutant of ReadFails: the break is missing. *)
ReadFailsAndGoesOn ==
  /\ Reading
  /\ success' = FALSE
  /\ UNCHANGED <<parameters, selected, offset, buffer, pc, rereadFailed>>

(* Any other status word, or a transmission that fails: the fresh response *)
(* buffer then still holds zeros.                                          *)
ReadFails ==
  /\ Reading
  /\ success' = FALSE
  /\ pc' = "done"
  /\ UNCHANGED <<parameters, selected, offset, buffer, rereadFailed>>

-----------------------------------------------------------------------------
Init ==
  /\ fileLength \in 0 .. MaxLength
  /\ start \in 0 .. fileLength
  /\ contentLength \in Requests
  /\ selected = TRUE
  /\ offset = start
  /\ buffer = <<>>
  /\ pc = "reading"
  /\ success = TRUE
  /\ rereadFailed = FALSE

Next ==
  \/ ReadPage
  \/ ReadToEnd
  \/ ReadShorter
  \/ ReadShorterFails
  \/ ReadBeyond
  \/ ReadOtherFile
  \/ ReadFails

Spec == Init /\ [][Next]_vars

(* The loop runs on: the card answers or the transmission fails. *)
FairSpec == Spec /\ WF_vars(Next)

-----------------------------------------------------------------------------
TypeOK ==
  /\ fileLength \in 0 .. MaxLength
  /\ start \in 0 .. fileLength
  /\ contentLength \in Requests
  /\ selected \in BOOLEAN
  /\ offset \in Nat
  /\ buffer \in Seq(Nat \cup {Other})
  /\ pc \in {"reading", "done", "undefined"}
  /\ success \in BOOLEAN
  /\ rereadFailed \in BOOLEAN
  /\ success \/ pc = "done"

(* Every page of the file has an offset below SfiOffset. *)
Reachable == fileLength + Page <= SfiOffset

(* No byte of the file is lost, doubled or moved: each is as far from the  *)
(* start of the buffer as from where reading began, whatever mix of full   *)
(* and short pages, status words and failures the card answers with.  A    *)
(* file that goes beyond SfiOffset keeps this up to there; what comes      *)
(* after it may be another file, or this one from its start again.         *)
InOrder ==
  \A i \in 1 .. Len(buffer) :
    \/ buffer[i] \in Nat => buffer[i] = start + i - 1
    \/ ~Reachable /\ (start + i > SfiOffset \/ start + i > fileLength)

(* Reading the whole of a file within reach, from a card that does not     *)
(* fail a repeated read, is atomic and complete.  Other calls promise      *)
(* nothing here, and count as pending for ever: of a repeated read that    *)
(* fails, which the code does not notice (token.cpp:500), true is returned *)
(* without the end of the file.                                            *)
Plain == contentLength = All /\ Reachable /\ ~rereadFailed

Outcome ==
  IF pc = "reading" \/ ~Plain THEN "pending"
  ELSE IF success THEN "read" ELSE "failed"

Content == IF Outcome = "read" THEN buffer ELSE <<>>

WholeFile == INSTANCE FileRead WITH outcome <- Outcome, content <- Content

ReadsWholeFile == WholeFile!Spec

(* The loop ends: what is asked for, or else the file, has an end, and     *)
(* each page gets nearer to it.                                            *)
Terminates == contentLength # All \/ Reachable => <>(pc # "reading")

=============================================================================
