--------------------------- MODULE ReaderListProofs ---------------------------
(***************************************************************************)
(* Proofs about ReaderList, for any names and any size of the array.  The  *)
(* inductive invariant says that totals are the sums of the lengths, which *)
(* grow with the names, that at is where the next name begins, and what    *)
(* the cells hold when some of the names were copied.                      *)
(***************************************************************************)
EXTENDS ReaderList, TLAPS

Begun == listing \in {"copying", "listed", "undefined"}

Sums ==
  /\ totals[1] = 0
  /\ \A k \in 1 .. Len(totals) - 1 : totals[k + 1] = totals[k] + lengths[k]

Growing == \A j, k \in 1 .. Len(totals) : j <= k => totals[j] <= totals[k]

Pointers ==
  /\ Begun =>
       /\ Len(totals) = Len(lengths) + 1
       /\ at = Position(copied + 1)
       /\ asked = 0 => at + remainingLen = Position(Len(lengths) + 1) + 1
  /\ ~Begun => copied = 0 /\ at = 0 /\ remainingLen = 0
  /\ listing = "idle" => lengths = <<>> /\ totals = <<0>>
  /\ listing = "listed" => copied = Len(lengths)
  /\ listing = "undefined" => remainingLen < 0 /\ copied < Len(lengths)

(* The characters of the k-th name, and none of the first n names. *)
InName(c, k) == c \in Position(k) .. Position(k) + lengths[k] - 1
InNone(c, n) == \A k \in 1 .. n : ~InName(c, k)

Copied ==
  listing = "copying" /\ copied > 0 =>
    \A c \in DOMAIN cells :
      \/ \E k \in 1 .. copied : InName(c, k) /\ cells[c] = <<k, c - Position(k)>>
      \/ InNone(c, copied) /\ cells[c] = Nul

RlInv == RlTypeOK /\ Sums /\ Growing /\ Pointers /\ Copied /\ ListInPlace

(* The names of the list are in their order, apart from each other.        *)
LEMMA NamesApart ==
  ASSUME RlTypeOK, Sums, Growing, Len(totals) = Len(lengths) + 1
  PROVE  /\ \A k \in 1 .. Len(lengths) + 1 : Position(k) \in Nat
         /\ \A k \in 1 .. Len(lengths) :
              Position(k + 1) = Position(k) + lengths[k] + 1
         /\ \A j, k \in 1 .. Len(lengths) + 1 :
              /\ j <= k => Position(j) <= Position(k)
              /\ j < k => Position(j) + lengths[j] < Position(k)
<1>1. /\ totals \in Seq(Nat) /\ lengths \in Seq(Nat)
      /\ \A k \in 1 .. Len(lengths) + 1 : totals[k] \in Nat
      /\ \A k \in 1 .. Len(lengths) : lengths[k] \in Nat
  BY DEF RlTypeOK
<1>2. \A k \in 1 .. Len(lengths) + 1 : Position(k) \in Nat
  BY <1>1 DEF Position
<1>3. ASSUME NEW k \in 1 .. Len(lengths)
      PROVE  Position(k + 1) = Position(k) + lengths[k] + 1
  <2>1. totals[k + 1] = totals[k] + lengths[k]
    BY <1>1 DEF Sums
  <2>2. k \in Nat /\ totals[k] \in Nat /\ lengths[k] \in Nat
    BY <1>1
  <2>. QED  BY <2>1, <2>2 DEF Position
<1>4. \A j, k \in 1 .. Len(lengths) + 1 : j <= k => Position(j) <= Position(k)
  BY <1>1 DEF Position, Growing
<1>5. ASSUME NEW j \in 1 .. Len(lengths) + 1, NEW k \in 1 .. Len(lengths) + 1, j < k
      PROVE  Position(j) + lengths[j] < Position(k)
  <2>1. j \in 1 .. Len(lengths) /\ j + 1 \in 1 .. Len(lengths) + 1 /\ j + 1 <= k
    BY <1>1, <1>5
  <2>2. Position(j + 1) = Position(j) + lengths[j] + 1 /\ Position(j + 1) <= Position(k)
    BY <1>3, <1>4, <2>1
  <2>3. Position(j) \in Nat /\ Position(k) \in Nat /\ Position(j + 1) \in Nat /\ lengths[j] \in Nat
    BY <1>1, <1>2, <2>1
  <2>. QED  BY <2>2, <2>3
<1>. QED  BY <1>2, <1>3, <1>4, <1>5

LEMMA RlInitInv == RlInit => RlInv
<1>. SUFFICES ASSUME RlInit PROVE RlInv
  OBVIOUS
<1>1. RlTypeOK
  <2>1. cells \in [0 .. at + remainingLen - 1 ->
                     ((1 .. Len(lengths)) \X Nat) \cup {Nul, Stale}]
    BY DEF RlInit
  <2>. QED  BY <2>1 DEF RlInit, RlTypeOK
<1>2. Sums /\ Growing
  BY DEF RlInit, Sums, Growing
<1>. QED  BY <1>1, <1>2 DEF RlInit, RlInv, Pointers, Copied, ListInPlace, Begun

(* The call begins; the array is not there yet. *)
LEMMA StartInv ==
  ASSUME RlInv, NIS_ReaderList
  PROVE  RlInv'
<1>1. /\ lengths' \in Seq(Nat) /\ asked' \in Nat /\ totals' = <<0>>
      /\ listing = "idle" /\ listing' = "measuring"
      /\ UNCHANGED <<cells, copied, at, remainingLen>>
  BY ListAssumption DEF NIS_ReaderList
<1>2. copied = 0 /\ at = 0 /\ remainingLen = 0
  BY <1>1 DEF RlInv, Pointers, Begun
<1>3. cells' \in [0 .. at' + remainingLen' - 1 ->
                  ((1 .. Len(lengths')) \X Nat) \cup {Nul, Stale}]
  <2>1. cells \in [0 .. -1 -> ((1 .. Len(lengths)) \X Nat) \cup {Nul, Stale}]
    BY <1>2 DEF RlInv, RlTypeOK
  <2>2. 0 .. -1 = {}
    OBVIOUS
  <2>. QED  BY <1>1, <1>2, <2>1, <2>2
<1>4. RlTypeOK'
  BY <1>1, <1>2, <1>3 DEF RlTypeOK
<1>. QED  BY <1>1, <1>2, <1>4 DEF RlInv, Sums, Growing, Pointers, Begun, Copied, ListInPlace

(* A turn of the first loop adds a sum. *)
LEMMA MeasureInv ==
  ASSUME RlInv, MeasureName
  PROVE  RlInv'
<1>. DEFINE n == Len(totals)
<1>1. /\ totals \in Seq(Nat) /\ lengths \in Seq(Nat)
      /\ n \in 1 .. Len(lengths)
      /\ totals[n] \in Nat /\ lengths[n] \in Nat
      /\ listing = "measuring"
      /\ totals' = Append(totals, totals[n] + lengths[n])
      /\ UNCHANGED <<lengths, asked, cells, copied, at, remainingLen, listing>>
  BY DEF RlInv, RlTypeOK, MeasureName
<1>2. /\ totals' \in Seq(Nat) /\ Len(totals') = n + 1
      /\ \A k \in 1 .. n : totals'[k] = totals[k]
      /\ totals'[n + 1] = totals[n] + lengths[n]
  BY <1>1
<1>3. RlTypeOK'
  BY <1>1, <1>2 DEF RlInv, RlTypeOK
<1>4. Sums'
  BY <1>1, <1>2 DEF RlInv, Sums
<1>5. Growing'
  <2>1. \A j \in 1 .. n : totals[j] <= totals[n] /\ totals[j] \in Nat
    BY <1>1 DEF RlInv, Growing
  <2>. SUFFICES ASSUME NEW j \in 1 .. n + 1, NEW k \in 1 .. n + 1, j <= k
                PROVE  totals'[j] <= totals'[k]
    BY <1>2 DEF Growing
  <2>2. CASE k \in 1 .. n
    BY <1>1, <1>2, <2>2 DEF RlInv, Growing
  <2>3. CASE k = n + 1
    BY <1>1, <1>2, <2>1, <2>3
  <2>. QED  BY <1>1, <2>2, <2>3
<1>. QED  BY <1>1, <1>3, <1>4, <1>5 DEF RlInv, Pointers, Begun, Copied, ListInPlace

(* The array, allocated or not, is empty of names. *)
LEMMA TakeArrayInv ==
  ASSUME RlInv, TakeArray
  PROVE  RlInv'
<1>. DEFINE room == IF asked = 0 THEN TotLen ELSE asked
<1>1. /\ totals \in Seq(Nat) /\ lengths \in Seq(Nat) /\ asked \in Nat
      /\ Len(totals) = Len(lengths) + 1
      /\ totals[Len(totals)] \in Nat /\ totals[1] = 0
      /\ listing' = "copying" /\ copied' = 0 /\ at' = 0 /\ remainingLen' = room
      /\ cells' = [c \in 0 .. room - 1 |-> Stale]
      /\ UNCHANGED <<lengths, totals, asked>>
  BY DEF RlInv, RlTypeOK, Sums, TakeArray
<1>2. room \in Nat /\ (asked = 0 => room = Position(Len(lengths) + 1) + 1)
  BY <1>1 DEF TotLen, Position
<1>. HIDE DEF room
<1>3. RlTypeOK'
  <2>1. cells' \in [0 .. at' + remainingLen' - 1 ->
                    ((1 .. Len(lengths')) \X Nat) \cup {Nul, Stale}]
    BY <1>1, <1>2
  <2>. QED  BY <1>1, <1>2, <2>1 DEF RlInv, RlTypeOK
<1>4. Pointers'
  BY <1>1, <1>2 DEF Pointers, Begun, Position
<1>5. Sums' /\ Growing'
  BY <1>1 DEF RlInv, Sums, Growing
<1>. QED  BY <1>1, <1>3, <1>4, <1>5 DEF RlInv, Copied, ListInPlace

(* A name is copied to where the names before it end. *)
LEMMA CopyNameInv ==
  ASSUME RlInv, CopyName
  PROVE  RlInv'
<1>0. PICK k : k = copied + 1
  OBVIOUS
<1>1. /\ lengths \in Seq(Nat) /\ totals \in Seq(Nat) /\ Len(lengths) \in Nat
      /\ copied \in 0 .. Len(lengths)
      /\ at \in Nat /\ remainingLen \in Int
      /\ cells \in [0 .. at + remainingLen - 1 ->
                     ((1 .. Len(lengths)) \X Nat) \cup {Nul, Stale}]
  BY DEF RlInv, RlTypeOK
<1>2. /\ listing = "copying" /\ copied < Len(lengths)
      /\ UNCHANGED <<lengths, totals, asked>>
  BY DEF CopyName
<1>3. /\ Len(totals) = Len(lengths) + 1 /\ at = Position(k)
      /\ asked = 0 => at + remainingLen = Position(Len(lengths) + 1) + 1
  BY <1>0, <1>2 DEF RlInv, Pointers, Begun
<1>4. /\ copied \in Nat /\ k \in Nat /\ k \in 1 .. Len(lengths)
      /\ 1 .. k = (1 .. copied) \cup {k}
      /\ copied > 0 <=> k # 1
  BY <1>0, <1>1, <1>2
<1>5. lengths[k] \in Nat /\ \A j \in 1 .. copied : lengths[j] \in Nat
  BY <1>1, <1>4
<1>6. /\ Position(k + 1) = Position(k) + lengths[k] + 1
      /\ \A j \in 1 .. copied : Position(j) \in Nat /\ Position(j) + lengths[j] < at
  <2>1. /\ \A j \in 1 .. Len(lengths) + 1 : Position(j) \in Nat
        /\ \A j \in 1 .. Len(lengths) : Position(j + 1) = Position(j) + lengths[j] + 1
        /\ \A i, j \in 1 .. Len(lengths) + 1 : i < j => Position(i) + lengths[i] < Position(j)
    BY <1>3, NamesApart DEF RlInv
  <2>2. k \in 1 .. Len(lengths) + 1
    BY <1>1, <1>4
  <2>3. ASSUME NEW j \in 1 .. copied
        PROVE  j \in 1 .. Len(lengths) + 1 /\ j < k
    BY <1>0, <1>1, <1>4
  <2>. QED  BY <1>3, <1>4, <2>1, <2>2, <2>3
<1>7. Sums' /\ Growing'
  BY <1>2 DEF RlInv, Sums, Growing
<1>8. CASE remainingLen < 0 /\ listing' = "undefined" /\ UNCHANGED <<cells, copied, at, remainingLen>>
  <2>1. RlTypeOK'
    BY <1>2, <1>8 DEF RlInv, RlTypeOK
  <2>2. Pointers'
    BY <1>2, <1>8 DEF RlInv, Pointers, Begun, Position
  <2>. QED  BY <1>7, <1>8, <2>1, <2>2 DEF RlInv, Copied, ListInPlace
<1>9. CASE /\ remainingLen >= 0
           /\ cells' = Strncpy(copied + 1)
           /\ copied' = copied + 1
           /\ at' = at + lengths[copied + 1] + 1
           /\ remainingLen' = remainingLen - (lengths[copied + 1] + 1)
           /\ listing' = listing
  <2>0. /\ cells' = Strncpy(k) /\ copied' = k /\ listing' = listing
        /\ at' = at + lengths[k] + 1
        /\ remainingLen' = remainingLen - (lengths[k] + 1)
    BY <1>0, <1>9
  <2>1. /\ DOMAIN cells = 0 .. at + remainingLen - 1
        /\ DOMAIN cells' = DOMAIN cells
    BY <1>1, <2>0 DEF Strncpy
  <2>2. \A c \in DOMAIN cells : c \in Nat /\ c < at + remainingLen
    BY <1>1, <2>1
  <2>3. \A c \in DOMAIN cells :
          cells'[c] = IF c < at THEN cells[c]
                      ELSE IF c < at + lengths[k] THEN <<k, c - at>> ELSE Nul
    <3>. SUFFICES ASSUME NEW c \in DOMAIN cells
                  PROVE  cells'[c] = IF c < at THEN cells[c]
                                     ELSE IF c < at + lengths[k] THEN <<k, c - at>> ELSE Nul
      OBVIOUS
    <3>1. ~(c >= at + remainingLen)
      BY <1>1, <2>2
    <3>2. cells'[c] = IF c < at \/ c >= at + remainingLen THEN cells[c]
                      ELSE IF c < at + lengths[k] THEN <<k, c - at>> ELSE Nul
      BY <2>0 DEF Strncpy
    <3>. QED  BY <3>1, <3>2
  <2>4. RlTypeOK'
    <3>1. /\ at' \in Nat /\ remainingLen' \in Int
          /\ at' + remainingLen' - 1 = at + remainingLen - 1
      <4>. DEFINE l == lengths[k]
      <4>1. l \in Nat /\ at' = at + l + 1 /\ remainingLen' = remainingLen - (l + 1)
        BY <1>5, <2>0
      <4>. HIDE DEF l
      <4>. QED  BY <1>1, <4>1
    <3>2. ASSUME NEW c \in DOMAIN cells
          PROVE  cells'[c] \in ((1 .. Len(lengths)) \X Nat) \cup {Nul, Stale}
      <4>1. CASE c < at
        BY <1>1, <2>1, <2>3, <4>1
      <4>2. CASE ~(c < at) /\ c < at + lengths[k]
        <5>1. cells'[c] = <<k, c - at>>
          BY <2>3, <4>2
        <5>2. c - at \in Nat
          BY <1>1, <2>2, <4>2
        <5>. QED  BY <1>4, <5>1, <5>2
      <4>3. CASE ~(c < at) /\ ~(c < at + lengths[k])
        BY <2>3, <4>3
      <4>. QED  BY <4>1, <4>2, <4>3
    <3>3. cells' = [c \in DOMAIN cells |-> cells'[c]]
      BY <2>0 DEF Strncpy
    <3>4. cells' \in [DOMAIN cells -> ((1 .. Len(lengths)) \X Nat) \cup {Nul, Stale}]
      BY <3>2, <3>3
    <3>5. cells' \in [0 .. at' + remainingLen' - 1 ->
                       ((1 .. Len(lengths')) \X Nat) \cup {Nul, Stale}]
      <4>1. DOMAIN cells = 0 .. at' + remainingLen' - 1
        BY <2>1, <3>1
      <4>. QED  BY <1>2, <3>4, <4>1
    <3>6. copied' \in 0 .. Len(lengths)
      BY <1>1, <1>4, <2>0
    <3>. QED  BY <1>2, <2>0, <3>1, <3>5, <3>6 DEF RlInv, RlTypeOK
  <2>5. Pointers'
    <3>1. at' = Position(k + 1) /\ at' + remainingLen' = at + remainingLen
      <4>1. at' = Position(k + 1)
        BY <1>3, <1>6, <2>0
      <4>. DEFINE l == lengths[k]
      <4>2. l \in Nat /\ at' = at + l + 1 /\ remainingLen' = remainingLen - (l + 1)
        BY <1>5, <2>0
      <4>. HIDE DEF l
      <4>3. at' + remainingLen' = at + remainingLen
        BY <1>1, <4>2
      <4>. QED  BY <4>1, <4>3
    <3>2. /\ Position(k + 1) = Position(copied + 1)'
          /\ Position(Len(lengths) + 1) = Position(Len(lengths) + 1)'
      BY <1>2, <2>0 DEF Position
    <3>. QED  BY <1>2, <1>3, <2>0, <3>1, <3>2 DEF Pointers, Begun
  <2>6. Copied'
    <3>. SUFFICES ASSUME NEW c \in DOMAIN cells
                  PROVE  \/ \E j \in 1 .. k : InName(c, j) /\ cells'[c] = <<j, c - Position(j)>>
                         \/ InNone(c, k) /\ cells'[c] = Nul
      BY <1>2, <2>0, <2>1 DEF Copied, InName, InNone, Position
    <3>1. c \in Nat
      BY <2>2
    <3>2. CASE c < at
      <4>1. copied > 0
        <5>1. k = 1 => at = 0
          BY <1>3 DEF Position, RlInv, Sums
        <5>. QED  BY <1>4, <3>1, <3>2, <5>1
      <4>2. ~InName(c, k)
        BY <1>1, <1>3, <1>5, <3>1, <3>2 DEF InName
      <4>3. cells'[c] = cells[c]
        BY <2>3, <3>2
      <4>4. \/ \E j \in 1 .. copied : InName(c, j) /\ cells[c] = <<j, c - Position(j)>>
            \/ InNone(c, copied) /\ cells[c] = Nul
        BY <1>2, <4>1 DEF RlInv, Copied
      <4>. QED  BY <1>4, <4>2, <4>3, <4>4 DEF InNone
    <3>3. CASE c >= at /\ c < at + lengths[k]
      <4>1. cells'[c] = <<k, c - Position(k)>>
        <5>1. ~(c < at)
          BY <1>1, <3>1, <3>3
        <5>. QED  BY <1>3, <2>3, <3>3, <5>1
      <4>2. InName(c, k)
        BY <1>1, <1>3, <1>5, <3>1, <3>3 DEF InName
      <4>. QED  BY <1>4, <4>1, <4>2
    <3>4. CASE c >= at + lengths[k]
      <4>1. cells'[c] = Nul
        <5>1. ~(c < at) /\ ~(c < at + lengths[k])
          BY <1>1, <1>5, <3>1, <3>4
        <5>. QED  BY <2>3, <5>1
      <4>2. ~InName(c, k)
        BY <1>1, <1>3, <1>5, <3>1, <3>4 DEF InName
      <4>3. ASSUME NEW j \in 1 .. copied
            PROVE  ~InName(c, j)
        <5>1. Position(j) \in Nat /\ lengths[j] \in Nat /\ Position(j) + lengths[j] < at
          BY <1>5, <1>6
        <5>2. c > Position(j) + lengths[j]
          BY <1>1, <1>5, <3>1, <3>4, <5>1
        <5>. QED  BY <3>1, <5>1, <5>2 DEF InName
      <4>. QED  BY <1>4, <4>1, <4>2, <4>3 DEF InNone
    <3>. QED  BY <1>1, <1>5, <3>1, <3>2, <3>3, <3>4
  <2>. QED  BY <1>2, <1>7, <2>0, <2>4, <2>5, <2>6 DEF RlInv, ListInPlace
<1>. QED  BY <1>8, <1>9 DEF CopyName

(* The end mark is put, if there is room for it. *)
LEMMA EndListInv ==
  ASSUME RlInv, EndList
  PROVE  RlInv'
<1>1. /\ lengths \in Seq(Nat) /\ totals \in Seq(Nat) /\ Len(lengths) \in Nat
      /\ at \in Nat /\ remainingLen \in Int
      /\ cells \in [0 .. at + remainingLen - 1 ->
                     ((1 .. Len(lengths)) \X Nat) \cup {Nul, Stale}]
  BY DEF RlInv, RlTypeOK
<1>2. /\ copied = Len(lengths) /\ listing = "copying" /\ listing' = "listed"
      /\ cells' = IF remainingLen > 0 THEN [cells EXCEPT ![at] = Nul] ELSE cells
      /\ UNCHANGED <<lengths, totals, asked, copied, at, remainingLen>>
  BY DEF EndList
<1>3. Len(totals) = Len(lengths) + 1 /\ at = Position(Len(lengths) + 1)
  BY <1>2 DEF RlInv, Pointers, Begun
<1>4. DOMAIN cells = 0 .. at + remainingLen - 1 /\ DOMAIN cells' = DOMAIN cells
  BY <1>1, <1>2
<1>5. \A c \in DOMAIN cells : c \in Nat /\ c < at + remainingLen
  BY <1>1, <1>4
<1>6. \A c \in DOMAIN cells : cells'[c] = IF c = at THEN Nul ELSE cells[c]
  <2>1. CASE remainingLen > 0
    BY <1>1, <1>2, <2>1
  <2>2. CASE ~(remainingLen > 0)
    <3>1. \A c \in DOMAIN cells : c # at
      BY <1>1, <1>5, <2>2
    <3>. QED  BY <1>2, <2>2, <3>1
  <2>. QED  BY <2>1, <2>2
<1>7. \A j \in 1 .. Len(lengths) : /\ Position(j) \in Nat /\ lengths[j] \in Nat
                                  /\ Position(j) + lengths[j] < at
  <2>1. /\ \A j \in 1 .. Len(lengths) + 1 : Position(j) \in Nat
        /\ \A i, j \in 1 .. Len(lengths) + 1 : i < j => Position(i) + lengths[i] < Position(j)
    BY <1>3, NamesApart DEF RlInv
  <2>2. Len(lengths) + 1 \in 1 .. Len(lengths) + 1
    BY <1>1
  <2>3. ASSUME NEW j \in 1 .. Len(lengths)
        PROVE  j \in 1 .. Len(lengths) + 1 /\ j < Len(lengths) + 1 /\ lengths[j] \in Nat
    BY <1>1
  <2>. QED  BY <1>3, <2>1, <2>2, <2>3
<1>8. RlTypeOK'
  <2>1. cells' \in [0 .. at + remainingLen - 1 ->
                     ((1 .. Len(lengths)) \X Nat) \cup {Nul, Stale}]
    BY <1>1, <1>2
  <2>. QED  BY <1>2, <2>1 DEF RlInv, RlTypeOK
<1>9. Sums' /\ Growing' /\ Pointers'
  BY <1>2 DEF RlInv, Sums, Growing, Pointers, Begun, Position
<1>10. ListInPlace'
  <2>. SUFFICES ASSUME NEW c \in DOMAIN cells
                PROVE  \/ \E j \in 1 .. Len(lengths) :
                            InName(c, j) /\ cells'[c] = <<j, c - Position(j)>>
                       \/ /\ \A j \in 1 .. Len(lengths) : ~InName(c, j)
                          /\ cells'[c] = Nul \/ (lengths = <<>> /\ c > 0)
    <3>1. DOMAIN lengths = 1 .. Len(lengths)
      BY <1>1
    <3>. QED  BY <1>2, <1>4, <3>1 DEF ListInPlace, InName, Position
  <2>1. c \in Nat
    BY <1>5
  <2>2. CASE c = at
    <3>1. cells'[c] = Nul
      BY <1>6, <2>2
    <3>2. ASSUME NEW j \in 1 .. Len(lengths)
          PROVE  ~InName(c, j)
      <4>1. Position(j) \in Nat /\ lengths[j] \in Nat /\ Position(j) + lengths[j] < at
        BY <1>7
      <4>. QED  BY <1>1, <2>2, <4>1 DEF InName
    <3>. QED  BY <3>1, <3>2
  <2>3. CASE c # at /\ Len(lengths) > 0
    <3>1. cells'[c] = cells[c]
      BY <1>6, <2>3
    <3>. QED  BY <1>2, <2>3, <3>1 DEF RlInv, Copied, InNone
  <2>4. CASE c # at /\ Len(lengths) = 0
    <3>1. lengths = <<>> /\ 1 .. Len(lengths) = {}
      BY <1>1, <2>4
    <3>2. at = 0
      BY <1>3, <2>4 DEF RlInv, Sums, Position
    <3>3. c > 0
      BY <2>1, <2>4, <3>2
    <3>. QED  BY <3>1, <3>3
  <2>. QED  BY <1>1, <2>2, <2>3, <2>4
<1>. QED  BY <1>2, <1>8, <1>9, <1>10 DEF RlInv, Copied

LEMMA RlNextInv == RlInv /\ [RlNext]_rlvars => RlInv'
<1>. SUFFICES ASSUME RlInv, [RlNext]_rlvars PROVE RlInv'
  OBVIOUS
<1>1. CASE UNCHANGED rlvars
  BY <1>1 DEF rlvars, RlInv, RlTypeOK, Sums, Growing, Pointers, Begun, Copied, ListInPlace,
              InName, InNone, Position
<1>. QED  BY <1>1, StartInv, MeasureInv, TakeArrayInv, CopyNameInv, EndListInv DEF RlNext

THEOREM RlInvariant == RlSpec => []RlInv
BY RlInitInv, RlNextInv, PTL DEF RlSpec

(* What the client finds in the array is the list, as far as the array     *)
(* goes, and what is left of the array is counted right, for any readers   *)
(* and any size.                                                           *)
THEOREM Listed == RlSpec => [](RlTypeOK /\ ListInPlace)
<1>1. RlInv => RlTypeOK /\ ListInPlace
  BY DEF RlInv
<1>. QED  BY <1>1, RlInvariant, PTL

(* An allocated array takes the whole list: totLen is never too small.     *)
THEOREM AllocationSuffices == RlSpec => []AllocatedListFits
<1>1. ASSUME RlInv, asked = 0, Begun
      PROVE  /\ listing # "undefined"
             /\ listing = "listed" => Position(Len(lengths) + 1) \in DOMAIN cells
  <2>1. /\ Len(totals) = Len(lengths) + 1 /\ lengths \in Seq(Nat)
        /\ at = Position(copied + 1) /\ at \in Nat /\ remainingLen \in Int
        /\ at + remainingLen = Position(Len(lengths) + 1) + 1
        /\ DOMAIN cells = 0 .. at + remainingLen - 1
        /\ copied + 1 \in 1 .. Len(lengths) + 1 /\ Len(lengths) + 1 \in 1 .. Len(lengths) + 1
    BY <1>1 DEF RlInv, RlTypeOK, Pointers
  <2>2. /\ Position(Len(lengths) + 1) \in Nat
        /\ Position(copied + 1) <= Position(Len(lengths) + 1)
    BY <1>1, <2>1, NamesApart DEF RlInv
  <2>3. listing = "undefined" => remainingLen < 0
    BY <1>1 DEF RlInv, Pointers
  <2>. QED  BY <2>1, <2>2, <2>3
<1>2. RlInv => AllocatedListFits
  BY <1>1 DEF AllocatedListFits, Begun
<1>. QED  BY <1>2, RlInvariant, PTL

(* The copies leave an array only if the last name would begin beyond it.  *)
THEOREM OnlyLastNameIsCut == RlSpec => []OnlyLastNameCut
<1>1. ASSUME RlInv, listing = "undefined", NEW c \in DOMAIN cells
      PROVE  c < Position(Len(lengths)) - 1
  <2>1. /\ Len(totals) = Len(lengths) + 1 /\ lengths \in Seq(Nat)
        /\ at = Position(copied + 1) /\ at \in Nat /\ remainingLen \in Int
        /\ remainingLen < 0 /\ c \in 0 .. at + remainingLen - 1
        /\ copied + 1 \in 1 .. Len(lengths) /\ Len(lengths) \in 1 .. Len(lengths) + 1
    BY <1>1 DEF RlInv, RlTypeOK, Pointers, Begun
  <2>2. /\ Position(Len(lengths)) \in Nat
        /\ Position(copied + 1) <= Position(Len(lengths))
    <3>1. copied + 1 \in 1 .. Len(lengths) + 1 /\ copied + 1 <= Len(lengths)
      BY <1>1, <2>1
    <3>. QED  BY <1>1, <2>1, <3>1, NamesApart DEF RlInv
  <2>. QED  BY <2>1, <2>2
<1>2. RlInv => OnlyLastNameCut
  BY <1>1 DEF OnlyLastNameCut
<1>. QED  BY <1>2, RlInvariant, PTL

=============================================================================
