---------------------------- MODULE ReadBinaryProofs ----------------------------
(***************************************************************************)
(* Proofs about ReadBinary, for files and pages of every length: the types *)
(* and the order of the bytes read, and, where every offset fits its two   *)
(* bytes, that reading a file is atomic and complete.                      *)
(***************************************************************************)
EXTENDS ReadBinary, SequenceTheorems, TLAPS

-----------------------------------------------------------------------------
(* The bytes of a range are a sequence of numbers of the range's length. *)
LEMMA BytesType ==
  ASSUME NEW a \in Nat, NEW b \in Nat, a <= b
  PROVE  /\ Bytes(a, b) \in Seq(Nat)
         /\ Len(Bytes(a, b)) = b - a
         /\ \A i \in 1 .. b - a : Bytes(a, b)[i] = a + i - 1
<1>1. b - a \in Nat OBVIOUS
<1>2. Bytes(a, b) \in [1 .. b - a -> Nat] BY DEF Bytes
<1>3. Bytes(a, b) \in Seq(Nat) BY <1>1, <1>2
<1>4. Len(Bytes(a, b)) = b - a BY <1>1, <1>2, <1>3, LenProperties
<1>5. QED BY <1>3, <1>4 DEF Bytes

LEMMA OtherBytesType ==
  ASSUME NEW n \in Nat
  PROVE  /\ OtherBytes(n) \in Seq({Other})
         /\ Len(OtherBytes(n)) = n
         /\ \A i \in 1 .. n : OtherBytes(n)[i] = Other
<1>1. OtherBytes(n) \in [1 .. n -> {Other}] BY DEF OtherBytes
<1>2. OtherBytes(n) \in Seq({Other}) BY <1>1
<1>3. Len(OtherBytes(n)) = n BY <1>1, <1>2, LenProperties
<1>4. QED BY <1>2, <1>3 DEF OtherBytes

(* Adjacent ranges make one. *)
LEMMA BytesConcat ==
  ASSUME NEW a \in Nat, NEW b \in Nat, NEW c \in Nat, a <= b, b <= c
  PROVE  Bytes(a, b) \o Bytes(b, c) = Bytes(a, c)
<1> DEFINE s == Bytes(a, b)
           t == Bytes(b, c)
           u == Bytes(a, c)
<1>1. /\ s \in Seq(Nat) /\ Len(s) = b - a
      /\ \A i \in 1 .. b - a : s[i] = a + i - 1
  BY BytesType
<1>2. /\ t \in Seq(Nat) /\ Len(t) = c - b
      /\ \A i \in 1 .. c - b : t[i] = b + i - 1
  BY BytesType
<1>3. /\ u \in Seq(Nat) /\ Len(u) = c - a
      /\ \A i \in 1 .. c - a : u[i] = a + i - 1
  BY BytesType
<1> HIDE DEF s, t, u
<1>4. /\ s \o t \in Seq(Nat)
      /\ Len(s \o t) = Len(s) + Len(t)
      /\ \A i \in 1 .. Len(s) + Len(t) :
           (s \o t)[i] = IF i <= Len(s) THEN s[i] ELSE t[i - Len(s)]
  BY <1>1, <1>2, ConcatProperties
<1>5. Len(s \o t) = Len(u) BY <1>1, <1>2, <1>3, <1>4
<1>6. ASSUME NEW i \in 1 .. Len(s \o t) PROVE (s \o t)[i] = u[i]
  <2>1. CASE i <= b - a
    BY <1>1, <1>2, <1>3, <1>4, <1>6, <2>1
  <2>2. CASE ~(i <= b - a)
    <3>1. i - (b - a) \in 1 .. c - b BY <1>1, <1>2, <1>4, <2>2
    <3>2. (s \o t)[i] = t[i - (b - a)] BY <1>1, <1>2, <1>4, <2>2
    <3>3. QED BY <1>2, <1>3, <1>4, <1>1, <3>1, <3>2
  <2>3. QED BY <2>1, <2>2
<1>7. s \o t = u BY <1>3, <1>4, <1>5, <1>6, SeqEqual
<1>8. QED BY <1>7 DEF s, t, u

-----------------------------------------------------------------------------
Byte == Nat \cup {Other}

Ordered(s) ==
  \A i \in 1 .. Len(s) :
    \/ s[i] \in Nat => s[i] = start + i - 1
    \/ ~Reachable /\ (start + i > SfiOffset \/ start + i > fileLength)

(* The next page is one of the file at an offset that fits. *)
Near == offset < fileLength /\ offset < SfiOffset

(* What was read is as long as the way that was made while Near holds: so  *)
(* a byte of the next page lands in its place.  After that the bytes that  *)
(* have a place are there, and only an offset out of reach, where the loop *)
(* never comes in a file that is within it, gives more bytes of the file.  *)
PlaceInv ==
  /\ start <= offset
  /\ Reading /\ offset < SfiOffset => selected
  /\ Reading /\ Reachable => offset < fileLength + Page
  /\ Reading /\ Near => Len(buffer) = offset - start
  /\ Reading /\ ~Near =>
       start + Len(buffer) >= fileLength \/ start + Len(buffer) >= SfiOffset

IInv == TypeOK /\ Ordered(buffer) /\ PlaceInv

LEMMA Mod ==
  ASSUME NEW a \in Nat, NEW n \in Nat \ {0}
  PROVE  a % n \in Nat /\ (a < n => a % n = a)
OBVIOUS

LEMMA Typed ==
  ASSUME IInv
  PROVE  /\ fileLength \in Nat /\ offset \in Nat /\ Page \in Nat \ {0}
         /\ start \in Nat /\ start <= fileLength /\ SfiOffset \in Nat
         /\ start <= offset
         /\ buffer \in Seq(Byte) /\ Len(buffer) \in Nat
BY PageAssumption, LenProperties DEF IInv, TypeOK, PlaceInv, Byte

(* Where the card is asked. *)
LEMMA PlacesType ==
  ASSUME IInv
  PROVE  /\ Places \subseteq Nat
         /\ offset < SfiOffset => ~ByIdentifier
         /\ Reading /\ offset < SfiOffset => Places = {offset}
<1>1. Asked \in Nat /\ (offset < OffsetRange => Asked = offset)
  BY Typed, Mod, PageAssumption DEF Asked
<1>2. Asked % ByteRange \in Nat
  BY <1>1, Mod, PageAssumption
<1>3. offset < SfiOffset => Asked = offset
  BY <1>1, Typed, PageAssumption
<1>. QED  BY <1>1, <1>2, <1>3, Typed, PageAssumption
         DEF Places, ByIdentifier, IInv, PlaceInv

LEMMA AppendFile ==
  ASSUME IInv, Reading, Near, NEW last \in Nat, offset <= last
  PROVE  /\ buffer \o Bytes(offset, last) \in Seq(Byte)
         /\ Len(buffer \o Bytes(offset, last)) = last - start
         /\ Ordered(buffer \o Bytes(offset, last))
<1> DEFINE s == buffer
           t == Bytes(offset, last)
<1>1. /\ s \in Seq(Byte) /\ Len(s) = offset - start /\ Ordered(s)
      /\ offset \in Nat /\ start \in Nat /\ start <= offset
  BY Typed DEF IInv, PlaceInv
<1>2. /\ t \in Seq(Nat) /\ Len(t) = last - offset
      /\ \A i \in 1 .. last - offset : t[i] = offset + i - 1
  BY <1>1, BytesType
<1>3. t \in Seq(Byte) BY <1>2, SeqMonotonic DEF Byte
<1> HIDE DEF s, t
<1>4. /\ s \o t \in Seq(Byte)
      /\ Len(s \o t) = Len(s) + Len(t)
      /\ \A i \in 1 .. Len(s) + Len(t) :
           (s \o t)[i] = IF i <= Len(s) THEN s[i] ELSE t[i - Len(s)]
  BY <1>1, <1>3, ConcatProperties
<1>5. Len(s \o t) = last - start BY <1>1, <1>2, <1>4
<1>6. ASSUME NEW i \in 1 .. Len(s \o t)
      PROVE  \/ (s \o t)[i] \in Nat => (s \o t)[i] = start + i - 1
             \/ ~Reachable /\ (start + i > SfiOffset \/ start + i > fileLength)
  <2>1. CASE i <= Len(s)
    <3>1. i \in 1 .. Len(s) /\ (s \o t)[i] = s[i]
      BY <1>1, <1>2, <1>4, <1>6, <2>1
    <3>2. QED BY <1>1, <3>1 DEF Ordered
  <2>2. CASE ~(i <= Len(s))
    <3>1. i - Len(s) \in 1 .. last - offset BY <1>1, <1>2, <1>4, <2>2
    <3>2. (s \o t)[i] = t[i - Len(s)] BY <1>1, <1>2, <1>4, <2>2
    <3>3. (s \o t)[i] = start + i - 1 BY <1>1, <1>2, <3>1, <3>2
    <3>4. QED BY <3>3
  <2>3. QED BY <2>1, <2>2
<1>7. QED BY <1>4, <1>5, <1>6 DEF s, t, Ordered

(* Bytes that are not of the file, or come when those with a place are     *)
(* there, are in no one's place.                                           *)
LEMMA AppendFree ==
  ASSUME IInv, NEW t \in Seq(Byte),
         \/ \A i \in 1 .. Len(t) : t[i] = Other
         \/ Reading /\ ~Near /\ ~Reachable
  PROVE  /\ buffer \o t \in Seq(Byte)
         /\ Len(buffer \o t) = Len(buffer) + Len(t)
         /\ Ordered(buffer \o t)
<1> DEFINE s == buffer
<1>1. s \in Seq(Byte) /\ Ordered(s) /\ Len(s) \in Nat /\ Len(t) \in Nat
  BY Typed, LenProperties DEF IInv
<1>2. Reading /\ ~Near => start + Len(s) >= fileLength \/ start + Len(s) >= SfiOffset
  BY DEF IInv, PlaceInv
<1>n. start \in Nat /\ fileLength \in Nat /\ SfiOffset \in Nat BY Typed
<1> HIDE DEF s
<1>4. /\ s \o t \in Seq(Byte)
      /\ Len(s \o t) = Len(s) + Len(t)
      /\ \A i \in 1 .. Len(s) + Len(t) :
           (s \o t)[i] = IF i <= Len(s) THEN s[i] ELSE t[i - Len(s)]
  BY <1>1, ConcatProperties
<1>5. ASSUME NEW i \in 1 .. Len(s \o t)
      PROVE  \/ (s \o t)[i] \in Nat => (s \o t)[i] = start + i - 1
             \/ ~Reachable /\ (start + i > SfiOffset \/ start + i > fileLength)
  <2>1. CASE i <= Len(s)
    <3>1. i \in 1 .. Len(s) /\ (s \o t)[i] = s[i]
      BY <1>1, <1>4, <1>5, <2>1
    <3>2. QED BY <1>1, <3>1 DEF Ordered
  <2>2. CASE ~(i <= Len(s))
    <3>1. i - Len(s) \in 1 .. Len(t) BY <1>1, <1>4, <2>2
    <3>2. (s \o t)[i] = t[i - Len(s)] BY <1>1, <1>4, <2>2
    <3>3. CASE \A j \in 1 .. Len(t) : t[j] = Other
      BY <3>1, <3>2, <3>3, OtherAssumption
    <3>4. CASE Reading /\ ~Near /\ ~Reachable
      <4>1. start + i > start + Len(s) BY <1>1, <1>n, <1>4, <2>2
      <4>2. start + i > SfiOffset \/ start + i > fileLength
        BY <1>1, <1>2, <1>n, <1>4, <3>4, <4>1
      <4>3. QED BY <3>4, <4>2
    <3>5. QED BY <3>3, <3>4
  <2>3. QED BY <2>1, <2>2
<1>6. QED BY <1>4, <1>5 DEF s, Ordered

LEMMA AppendOther ==
  ASSUME IInv, NEW n \in Nat
  PROVE  /\ buffer \o OtherBytes(n) \in Seq(Byte)
         /\ Len(buffer \o OtherBytes(n)) = Len(buffer) + n
         /\ Ordered(buffer \o OtherBytes(n))
<1>1. /\ OtherBytes(n) \in Seq(Byte) /\ Len(OtherBytes(n)) = n
      /\ \A i \in 1 .. n : OtherBytes(n)[i] = Other
  BY OtherBytesType, SeqMonotonic DEF Byte
<1>2. QED BY <1>1, AppendFree

LEMMA AppendNothing ==
  ASSUME IInv
  PROVE  buffer \o <<>> = buffer
BY ConcatEmptySeq DEF IInv, TypeOK

(* What the file gives at the place the card is asked for. *)
LEMMA AppendPlace ==
  ASSUME IInv, Reading, NEW p \in Places, p < fileLength,
         NEW last \in Nat, p <= last
  PROVE  /\ buffer \o Bytes(p, last) \in Seq(Byte)
         /\ Ordered(buffer \o Bytes(p, last))
         /\ Near => p = offset /\ Len(buffer \o Bytes(p, last)) = last - start
         /\ ~Near => /\ ~Reachable
                     /\ Len(buffer \o Bytes(p, last)) >= Len(buffer)
<1>1. p \in Nat BY PlacesType
<1>2. CASE Near
  <2>1. p = offset BY <1>2, PlacesType DEF Near
  <2>2. QED BY <1>2, <2>1, AppendFile
<1>3. CASE ~Near
  <2>1. ~Reachable
    <3>1. SUFFICES ASSUME Reachable PROVE FALSE OBVIOUS
    <3>2. offset < SfiOffset
      BY <3>1, Typed DEF IInv, PlaceInv, Reachable
    <3>3. p = offset BY <3>2, PlacesType
    <3>4. QED BY <1>3, <3>2, <3>3 DEF Near
  <2>2. Bytes(p, last) \in Seq(Byte) /\ Len(Bytes(p, last)) \in Nat
    BY <1>1, BytesType, SeqMonotonic, LenProperties DEF Byte
  <2>3. QED BY <1>3, <2>1, <2>2, AppendFree, Typed
<1>4. QED BY <1>2, <1>3

(* What is appended where the loop stops may be anything that is in order. *)
LEMMA FinishStep ==
  ASSUME IInv, Reading, NEW bytes, Finish(bytes), rereadFailed' \in BOOLEAN,
         buffer \o bytes \in Seq(Byte), Ordered(buffer \o bytes)
  PROVE  IInv'
<1>1. /\ UNCHANGED <<parameters, selected, offset, success>> /\ pc' = "done"
      /\ buffer' = buffer \o bytes
  BY DEF Finish
<1>2. TypeOK' BY <1>1 DEF IInv, TypeOK, Byte, parameters
<1>3. Ordered(buffer)' BY <1>1 DEF Ordered, parameters, Reachable
<1>4. PlaceInv' BY <1>1 DEF IInv, PlaceInv, parameters, Reading
<1>5. QED BY <1>2, <1>3, <1>4 DEF IInv

LEMMA ContinueStep ==
  ASSUME IInv, Reading, NEW bytes, Continue(bytes), selected' \in BOOLEAN,
         buffer \o bytes \in Seq(Byte), Ordered(buffer \o bytes),
         offset + Page < SfiOffset => selected',
         Reachable => offset < fileLength,
         IF offset + Page < fileLength /\ offset + Page < SfiOffset
           THEN Len(buffer \o bytes) = offset + Page - start
           ELSE \/ start + Len(buffer \o bytes) >= fileLength
                \/ start + Len(buffer \o bytes) >= SfiOffset
  PROVE  IInv'
<1>1. /\ UNCHANGED <<parameters, success, rereadFailed>> /\ pc' \in {"reading", "done"}
      /\ buffer' = buffer \o bytes /\ offset' = offset + Page
  BY DEF Continue
<1>2. success BY DEF IInv, TypeOK, Reading
<1>3. TypeOK' BY <1>1, <1>2, PageAssumption DEF IInv, TypeOK, Byte, parameters
<1>4. Ordered(buffer)' BY <1>1 DEF Ordered, parameters, Reachable
<1>5. PlaceInv'
  BY <1>1, Typed DEF PlaceInv, parameters, Near, Reachable
<1>6. QED BY <1>3, <1>4, <1>5 DEF IInv

LEMMA OrderStep ==
  ASSUME IInv, [Next]_vars
  PROVE  IInv'
<1>0. CASE UNCHANGED vars
  BY <1>0 DEF vars, IInv, TypeOK, Ordered, PlaceInv, Reading, Near, Reachable
<1>1. CASE ReadPage
  <2>1. PICK p \in Places :
          /\ p < fileLength
          /\ Continue(Bytes(p, IF fileLength - p < Page THEN fileLength ELSE p + Page))
    BY <1>1 DEF ReadPage
  <2> DEFINE last == IF fileLength - p < Page THEN fileLength ELSE p + Page
             bytes == Bytes(p, last)
  <2>2. Reading /\ selected' /\ Continue(bytes) BY <1>1, <2>1 DEF ReadPage
  <2>3. p \in Nat /\ last \in Nat /\ p <= last BY <2>1, PlacesType, Typed
  <2>4. /\ buffer \o bytes \in Seq(Byte) /\ Ordered(buffer \o bytes)
        /\ Near => p = offset /\ Len(buffer \o bytes) = last - start
        /\ ~Near => ~Reachable /\ Len(buffer \o bytes) >= Len(buffer)
    BY <2>1, <2>2, <2>3, AppendPlace
  <2>l. Len(buffer \o bytes) \in Nat BY <2>4, LenProperties
  <2>s. selected' \in BOOLEAN BY <1>1 DEF ReadPage
  <2>5. CASE Near
    <3>0. p = offset BY <2>4, <2>5
    <3>1. /\ offset + Page < fileLength => last = offset + Page
          /\ ~(offset + Page < fileLength) => last = fileLength
      BY <3>0, Typed
    <3>2. Len(buffer \o bytes) = last - start /\ offset < fileLength
      BY <2>4, <2>5 DEF Near
    <3> HIDE DEF last, bytes
    <3>3. IF offset + Page < fileLength /\ offset + Page < SfiOffset
            THEN Len(buffer \o bytes) = offset + Page - start
            ELSE \/ start + Len(buffer \o bytes) >= fileLength
                 \/ start + Len(buffer \o bytes) >= SfiOffset
      BY <3>1, <3>2, Typed
    <3>4. QED BY <2>2, <2>4, <2>s, <3>2, <3>3, ContinueStep
  <2>6. CASE ~Near
    <3> HIDE DEF last, bytes
    <3>1. ~(offset + Page < fileLength /\ offset + Page < SfiOffset)
      BY <2>6, Typed DEF Near
    <3>2. \/ start + Len(buffer \o bytes) >= fileLength
          \/ start + Len(buffer \o bytes) >= SfiOffset
      BY <2>2, <2>4, <2>6, <2>l, Typed DEF IInv, PlaceInv
    <3>3. QED BY <2>2, <2>4, <2>6, <2>s, <3>1, <3>2, ContinueStep
  <2>7. QED BY <2>5, <2>6
<1>2. ASSUME NEW p \in Places, Reading, p < fileLength, Finish(Bytes(p, fileLength)),
             UNCHANGED rereadFailed
      PROVE  IInv'
  <2>1. p \in Nat /\ p <= fileLength /\ fileLength \in Nat BY <1>2, PlacesType, Typed
  <2>2. /\ buffer \o Bytes(p, fileLength) \in Seq(Byte)
        /\ Ordered(buffer \o Bytes(p, fileLength))
    BY <1>2, <2>1, AppendPlace
  <2>3. rereadFailed' \in BOOLEAN BY <1>2 DEF IInv, TypeOK
  <2>4. QED BY <1>2, <2>2, <2>3, FinishStep
<1>o. ASSUME Reading, NEW n \in Nat, Finish(OtherBytes(n)), rereadFailed' \in BOOLEAN
      PROVE  IInv'
  BY <1>o, AppendOther, FinishStep
<1>3. CASE ReadToEnd
  BY <1>2, <1>3 DEF ReadToEnd
<1>4. CASE ReadShorter
  BY <1>2, <1>4 DEF ReadShorter
<1>5. CASE ReadShorterFails
  <2>1. Reading /\ rereadFailed' \in BOOLEAN BY <1>5 DEF ReadShorterFails
  <2>2. ASSUME NEW n \in {0, Page}, Finish(OtherBytes(n)) PROVE IInv'
    BY <1>o, <2>1, <2>2, PageAssumption
  <2>3. ASSUME NEW yy \in 2 .. ByteRange - 1, Finish(OtherBytes(yy - 2)) PROVE IInv'
    <3>1. yy - 2 \in Nat BY PageAssumption
    <3>2. QED BY <1>o, <2>1, <2>3, <3>1
  <2>4. CASE /\ pc' = "undefined"
             /\ UNCHANGED <<parameters, selected, offset, buffer, success>>
    <3>1. success BY <2>1 DEF IInv, TypeOK, Reading
    <3>2. QED
      BY <2>1, <2>4, <3>1
         DEF IInv, TypeOK, Ordered, PlaceInv, Reading, Near, Reachable, parameters
  <2>5. QED BY <1>5, <2>2, <2>3, <2>4 DEF ReadShorterFails
<1>6. CASE ReadBeyond
  <2>1. buffer \o <<>> \in Seq(Byte) /\ Ordered(buffer \o <<>>)
    BY AppendNothing DEF IInv, TypeOK, Byte
  <2>2. rereadFailed' \in BOOLEAN BY <1>6 DEF ReadBeyond, IInv, TypeOK
  <2>3. QED BY <1>6, <2>1, <2>2, FinishStep DEF ReadBeyond
<1>7. CASE ReadOtherFile
  <2>1. Reading BY <1>7 DEF ReadOtherFile
  <2>2. ~(offset < SfiOffset)
    BY <1>7, <2>1, PlacesType DEF ReadOtherFile, IInv, PlaceInv
  <2>3. ~Near /\ ~Reachable
    BY <2>1, <2>2, Typed DEF Near, IInv, PlaceInv, Reachable
  <2>4. ASSUME NEW n \in 1 .. Page, Continue(OtherBytes(n)), selected' = FALSE
        PROVE  IInv'
    <3> DEFINE bytes == OtherBytes(n)
    <3>1. n \in Nat BY PageAssumption
    <3>2. /\ buffer \o bytes \in Seq(Byte) /\ Ordered(buffer \o bytes)
          /\ Len(buffer \o bytes) = Len(buffer) + n
      BY <3>1, AppendOther
    <3>s. Continue(bytes) /\ selected' \in BOOLEAN BY <2>4
    <3> HIDE DEF bytes
    <3>3. ~(offset + Page < SfiOffset) BY <2>2, Typed
    <3>4. \/ start + Len(buffer \o bytes) >= fileLength
          \/ start + Len(buffer \o bytes) >= SfiOffset
      BY <2>1, <2>3, <3>1, <3>2, Typed DEF IInv, PlaceInv
    <3>5. QED BY <2>1, <2>3, <3>s, <3>2, <3>3, <3>4, ContinueStep
  <2>5. ASSUME NEW n \in 0 .. Page, Finish(OtherBytes(n)), UNCHANGED rereadFailed
        PROVE  IInv'
    <3>1. n \in Nat /\ rereadFailed' \in BOOLEAN
      BY <2>5, PageAssumption DEF IInv, TypeOK
    <3>2. QED BY <1>o, <2>1, <2>5, <3>1
  <2>6. QED BY <1>7, <2>4, <2>5 DEF ReadOtherFile
<1>8. CASE ReadFails
  <2>1. /\ UNCHANGED <<parameters, selected, offset, buffer, rereadFailed>>
        /\ pc' = "done" /\ success' = FALSE
    BY <1>8 DEF ReadFails
  <2>2. QED
    BY <2>1 DEF IInv, TypeOK, Ordered, PlaceInv, Reading, Near, Reachable, parameters
<1>9. QED
  BY <1>0, <1>1, <1>3, <1>4, <1>5, <1>6, <1>7, <1>8 DEF Next

LEMMA OrderInit == Init => IInv
<1>1. Init => TypeOK
  <2> SUFFICES ASSUME Init PROVE TypeOK OBVIOUS
  <2>1. offset \in Nat /\ buffer \in Seq(Nat \cup {Other})
    BY PageAssumption, EmptySeq DEF Init
  <2>2. QED BY <2>1, Zenon DEF Init, TypeOK
<1>2. Init => Ordered(buffer)
  BY PageAssumption, EmptySeq DEF Init, Ordered
<1>3. Init => PlaceInv
  <2>1. Len(<<>>) = 0 BY EmptySeq
  <2>2. QED BY <2>1, PageAssumption DEF Init, PlaceInv, Near, Reachable
<1>4. QED BY <1>1, <1>2, <1>3 DEF IInv

THEOREM OrderInvariance == Spec => []IInv
<1>1. QED BY OrderInit, OrderStep, PTL DEF Spec

(* Every variable of readBinaryContent keeps to its type, and the loop is  *)
(* left when it has failed.                                                *)
THEOREM TypeCorrect == Spec => []TypeOK
<1>1. IInv => TypeOK BY DEF IInv
<1>2. QED BY <1>1, OrderInvariance, PTL

(* Whatever the length of the file and of a page, whatever is asked for    *)
(* and however the card answers, the bytes of the file are in their place, *)
(* up to the first offset that P1 takes for the identifier of a file.      *)
THEOREM BytesInOrder == Spec => []InOrder
<1>1. IInv => InOrder BY DEF IInv, Ordered, InOrder
<1>2. QED BY <1>1, OrderInvariance, PTL

-----------------------------------------------------------------------------
(* While the file is being read the buffer holds the part of it between    *)
(* the start and the offset, and the offset is one that can be asked for.  *)
WholeInv ==
  Plain /\ Reading =>
    /\ contentLength = All
    /\ offset < fileLength + Page
    /\ buffer = Bytes(start, IF offset < fileLength THEN offset ELSE fileLength)

LEMMA WholeInit == Init => WholeInv
<1> SUFFICES ASSUME Init, Plain PROVE WholeInv
  BY DEF WholeInv
<1>1. /\ contentLength = All /\ offset = start /\ buffer = <<>>
      /\ start \in Nat /\ fileLength \in Nat /\ start <= fileLength
      /\ Page \in Nat \ {0}
  BY PageAssumption DEF Init, Plain
<1>2. Bytes(start, start) = <<>>
  <2>1. Bytes(start, start) \in Seq(Nat) /\ Len(Bytes(start, start)) = 0
    BY <1>1, BytesType
  <2>2. QED BY <2>1, EmptySeq
<1>3. (IF offset < fileLength THEN offset ELSE fileLength) = start
  BY <1>1
<1>4. offset < fileLength + Page BY <1>1
<1>5. QED BY <1>1, <1>2, <1>3, <1>4 DEF WholeInv

LEMMA WholeStep ==
  ASSUME IInv, WholeInv, [Next]_vars
  PROVE  WholeInv' /\ [WholeFile!ReadNext]_(WholeFile!readvars)
<1> DEFINE Goal == WholeInv' /\ [WholeFile!ReadNext]_(WholeFile!readvars)
<1>r. UNCHANGED parameters
  BY DEF vars, parameters, Next, ReadPage, ReadToEnd, ReadShorter, ReadShorterFails,
         ReadBeyond, ReadOtherFile, ReadFails, Continue, Finish
<1>h. ReadShorterFails \/ UNCHANGED rereadFailed
  BY DEF vars, Next, ReadPage, ReadToEnd, ReadShorter, ReadBeyond, ReadOtherFile,
         ReadFails, Continue
<1>i. ReadShorterFails => Reading /\ rereadFailed' = TRUE
  BY DEF ReadShorterFails
<1>n. CASE ~Plain \/ ReadShorterFails
  <2>1. ~(Plain')
    BY <1>n, <1>r, <1>h, <1>i DEF Plain, Reachable, parameters
  <2>2. Outcome = "pending" /\ Outcome' = "pending" /\ WholeInv'
    BY <1>n, <1>i, <2>1 DEF Outcome, WholeInv, Reading
  <2>3. QED BY <1>r, <2>2 DEF Content, parameters, WholeFile!readvars
<1>q. SUFFICES ASSUME Plain, ~ReadShorterFails PROVE Goal
  BY <1>n
<1>p. Plain' = Plain
  BY <1>r, <1>h, <1>q DEF parameters, Plain, Reachable
<1>0. CASE UNCHANGED vars
  BY <1>0 DEF vars, WholeInv, Reading, Outcome, Content, Plain, Reachable,
               WholeFile!readvars
<1>t. /\ fileLength \in Nat /\ offset \in Nat /\ Page \in Nat \ {0}
      /\ start \in Nat /\ SfiOffset \in Nat /\ start <= fileLength /\ start <= offset
  BY Typed
<1>a. Reading => offset < SfiOffset /\ Places = {offset} /\ ~ByIdentifier /\ selected
  BY <1>q, <1>t, PlacesType DEF Plain, Reachable, WholeInv, IInv, PlaceInv
<1>s. Reading => success BY DEF IInv, TypeOK, Reading
(* A page that is not the last: nothing is seen of it. *)
<1>1. CASE ReadPage
  <2> DEFINE last == IF fileLength - offset < Page THEN fileLength ELSE offset + Page
  <2>0. Reading BY <1>1 DEF ReadPage
  <2>1. Continue(Bytes(offset, last)) /\ offset < fileLength
    BY <1>1, <1>a, <2>0 DEF ReadPage
  <2>t. last \in Nat /\ offset <= last
    BY <1>t, <2>1
  <2>2. buffer' = Bytes(start, last)
    <3>1. buffer = Bytes(start, offset) BY <1>q, <2>0, <2>1 DEF WholeInv
    <3>3. Bytes(start, offset) \o Bytes(offset, last) = Bytes(start, last)
      BY <1>t, <2>t, BytesConcat
    <3>4. QED BY <2>1, <3>1, <3>3 DEF Continue
  <2>3. /\ pc' = "reading" /\ offset' = offset + Page
        /\ UNCHANGED <<fileLength, start, contentLength, success>>
    BY <1>q, <2>0, <2>1 DEF Continue, WholeInv, parameters
  <2>4. last = IF offset' < fileLength THEN offset' ELSE fileLength
    BY <1>t, <2>3
  <2>5. WholeInv'
    BY <1>q, <1>t, <2>0, <2>1, <2>2, <2>3, <2>4 DEF WholeInv, Reading
  <2>6. UNCHANGED WholeFile!readvars
    BY <2>0, <2>3 DEF WholeFile!readvars, Outcome, Content, Reading
  <2>7. QED BY <2>5, <2>6
(* The last page, or the answer that there is none. *)
<1>2. ASSUME Reading, NEW bytes, Finish(bytes),
             buffer \o bytes = Bytes(start, fileLength)
      PROVE  Goal
  <2>1. /\ UNCHANGED <<fileLength, start, success>> /\ pc' = "done" /\ pc = "reading"
        /\ buffer' = Bytes(start, fileLength) /\ success
    BY <1>2, <1>s DEF Finish, parameters, Reading
  <2>2. WholeInv' BY <2>1 DEF WholeInv, Reading
  <2>3. Outcome = "pending" /\ Outcome' = "read" /\ Content' = buffer'
    BY <1>q, <1>p, <2>1 DEF Outcome, Content
  <2>4. WholeFile!ReadNext
    BY <2>1, <2>3 DEF WholeFile!ReadNext, WholeFile!Succeed, WholeFile!Bytes, Bytes
  <2>5. QED BY <2>2, <2>4
<1>3. ASSUME Reading, NEW p \in Places, p < fileLength, Finish(Bytes(p, fileLength))
      PROVE  Goal
  <2>1. p = offset /\ offset < fileLength /\ offset <= fileLength
    BY <1>3, <1>a, <1>t
  <2>2. buffer = Bytes(start, offset) BY <1>q, <1>3, <2>1 DEF WholeInv
  <2>4. buffer \o Bytes(offset, fileLength) = Bytes(start, fileLength)
    BY <1>t, <2>1, <2>2, BytesConcat
  <2>5. QED BY <1>2, <1>3, <2>1, <2>4
<1>4. CASE ReadToEnd BY <1>3, <1>4 DEF ReadToEnd
<1>5. CASE ReadShorter BY <1>3, <1>5 DEF ReadShorter
<1>6. CASE ReadBeyond
  <2>0. Reading BY <1>6 DEF ReadBeyond
  <2>1. Finish(<<>>) /\ ~(offset < fileLength)
    BY <1>6, <1>a, <1>t, <2>0 DEF ReadBeyond
  <2>2. buffer = Bytes(start, fileLength) BY <1>q, <2>0, <2>1 DEF WholeInv
  <2>3. QED BY <1>2, <2>0, <2>1, <2>2, AppendNothing
<1>7. CASE ReadOtherFile BY <1>7, <1>a DEF ReadOtherFile
<1>8. CASE ReadFails
  <2>1. /\ UNCHANGED <<fileLength, start>> /\ pc' = "done" /\ pc = "reading"
        /\ success' = FALSE
    BY <1>8 DEF ReadFails, parameters, Reading
  <2>2. WholeInv' BY <2>1 DEF WholeInv, Reading
  <2>3. Outcome = "pending" /\ Outcome' = "failed" /\ UNCHANGED Content
    BY <1>q, <1>p, <2>1 DEF Outcome, Content
  <2>4. WholeFile!ReadNext
    BY <2>1, <2>3 DEF WholeFile!ReadNext, WholeFile!Fail
  <2>5. QED BY <2>2, <2>4
<1>9. QED
  BY <1>0, <1>1, <1>4, <1>5, <1>6, <1>7, <1>8, <1>q DEF Next

LEMMA WholeStart == Init => WholeFile!ReadInit
BY PageAssumption DEF Init, WholeFile!ReadInit, Outcome, Content

(* Reading the whole of a file page by page is reading it, or not, in one  *)
(* step, where every page can be addressed and no second read fails.       *)
THEOREM Atomicity == Spec => ReadsWholeFile
<1>1. Init => WholeInv /\ WholeFile!ReadInit
  BY WholeInit, WholeStart
<1>2. IInv /\ WholeInv /\ [Next]_vars =>
        WholeInv' /\ [WholeFile!ReadNext]_(WholeFile!readvars)
  BY WholeStep
<1>3. QED
  BY OrderInvariance, <1>1, <1>2, PTL DEF Spec, ReadsWholeFile, WholeFile!Spec

=============================================================================
