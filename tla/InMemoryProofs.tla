--------------------------- MODULE InMemoryProofs ---------------------------
(***************************************************************************)
(* Proofs about what works on the memory of one thread: ByteArrays, for    *)
(* any arrays, blocks of memory and sizes; Padding, for any messages,      *)
(* arrays and random bytes; HexText, for any dump; and MCInMemory, which   *)
(* runs these and Asn1, ReaderList and SodCheck side by side.              *)
(*                                                                         *)
(* The inductive invariants.  Of arrays: that no block has two owners, and *)
(* that each live block is owned or was lost to a move; that a new block   *)
(* is nobody's follows from the first, that a lost block is never handed   *)
(* out again from the second.  Of paddings: the shape of an array that was *)
(* padded, byte by byte.  Of texts: that the one that is read is a dump,   *)
(* and at which of its bytes the scan is; or that it is of two bytes in    *)
(* the notations, and which form, or rest of one, the scan is at.          *)
(***************************************************************************)
EXTENDS MCInMemory, Asn1Proofs, ReaderListProofs, SodCheckProofs

-----------------------------------------------------------------------------
(* Byte arrays. *)

BaInv == BaTypeOK /\ OwnedOnce /\ OnlyMovesLeak

(* The value of an array is a sequence of bytes. *)
LEMMA ValueType ==
  ASSUME BaTypeOK, NEW x \in Arrays
  PROVE  Value(x) \in Seq(ByteValue)
BY DEF BaTypeOK, Value

(* What new leaves in an array is of bytes. *)
LEMMA JunkType == \A n \in Nat : Junk(n) \in Seq(ByteValue)
<1>1. \A n \in Nat : Junk(n) \in [1 .. n -> ByteValue]
  BY DEF Junk, ByteValue
<1>. QED  BY <1>1

(* What resize leaves in the array is a sequence of bytes. *)
LEMMA ResizedType ==
  ASSUME NEW value \in Seq(ByteValue), NEW size \in Nat, NEW keep \in BOOLEAN
  PROVE  Resized(value, size, keep) \in Seq(ByteValue)
<1>1. CASE ~keep
  BY <1>1, JunkType DEF Resized
<1>2. CASE keep
  <2>1. \A k \in 1 .. size :
          (IF k <= Len(value) THEN value[k] ELSE "junk") \in ByteValue
    BY DEF ByteValue
  <2>2. [k \in 1 .. size |-> IF k <= Len(value) THEN value[k] ELSE "junk"]
          \in [1 .. size -> ByteValue]
    BY <2>1
  <2>. QED  BY <1>2, <2>2 DEF Resized
<1>. QED  BY <1>1, <1>2

(* What is read through a view that may be read is a sequence of bytes. *)
LEMMA ViewType ==
  ASSUME NEW s \in Seq(ByteValue), NEW start \in Nat, NEW size \in Nat,
         start + size <= Len(s)
  PROVE  SubSeq(s, start + 1, start + size) \in Seq(ByteValue)
OBVIOUS

(* The blocks that live, without the union. *)
LEMMA Accounted ==
  OnlyMovesLeak <=>
    /\ \A c : c \in live <=> c \in lost \/ \E x \in Arrays : c = block[x] /\ c # NullBlock
    /\ \A x \in Arrays : block[x] \notin lost
BY DEF OnlyMovesLeak, Owned

(* The same of the blocks that live after a step. *)
LEMMA AccountedNext ==
  OnlyMovesLeak' <=>
    /\ \A c : c \in live' <=>
         c \in lost' \/ \E x \in Arrays : c = block'[x] /\ c # NullBlock
    /\ \A x \in Arrays : block'[x] \notin lost'
BY DEF OnlyMovesLeak, Owned

(* A block that replaces that of an array is nobody's but, perhaps, its    *)
(* own, and was not lost.                                                  *)
LEMMA FreshBlock ==
  ASSUME BaInv, NEW x \in Arrays, NEW b \in FreedBefore(x)
  PROVE  /\ b \in Blocks
         /\ b \notin lost
         /\ \A y \in Arrays \ {x} : block[y] # b
<1>1. b \in Blocks /\ b \notin live \ Owned(x) /\ b # NullBlock
  BY BlocksAssumption DEF FreedBefore
<1>2. b \notin lost
  BY <1>1, Accounted DEF BaInv, Owned
<1>3. \A y \in Arrays \ {x} : block[y] # b
  BY <1>1 DEF BaInv, OwnedOnce, Owned
<1>. QED  BY <1>1, <1>2, <1>3

(* What new may return while a block is held, it may return after it is    *)
(* freed.                                                                  *)
LEMMA FreedAfterIsBefore == \A x \in Arrays : FreedAfter \subseteq FreedBefore(x)
BY DEF FreedAfter, FreedBefore

(* Replacing the block of an array keeps the invariant. *)
LEMMA ReplaceInv ==
  ASSUME BaInv, NEW x \in Arrays, NEW b \in FreedBefore(x),
         NEW value \in Seq(ByteValue),
         Replace(x, b, value), UNCHANGED <<view, lost, broken>>
  PROVE  BaInv'
<1>1. /\ b \in Blocks /\ b \notin lost /\ b # NullBlock
      /\ \A y \in Arrays \ {x} : block[y] # b
  BY FreshBlock, BlocksAssumption
<1>. block \in [Arrays -> Blocks \cup {NullBlock}]
  BY DEF BaInv, BaTypeOK
<1>2. block' = [block EXCEPT ![x] = b] /\ live' = (live \ Owned(x)) \cup {b}
  BY DEF Replace
<1>3. block'[x] = b /\ \A y \in Arrays \ {x} : block'[y] = block[y]
  BY <1>2
<1>4. BaTypeOK'
  <2>1. bytes' \in [Blocks -> Seq(ByteValue)]
    <3>1. \A c \in Blocks :
            (IF c = b THEN value ELSE IF c = block[x] THEN <<>> ELSE bytes[c]) \in Seq(ByteValue)
      BY DEF BaInv, BaTypeOK
    <3>. QED  BY <3>1 DEF Replace
  <2>2. block' \in [Arrays -> Blocks \cup {NullBlock}]
    BY <1>1, <1>2
  <2>3. live' \subseteq Blocks
    BY <1>1, <1>2 DEF BaInv, BaTypeOK
  <2>4. stale' \in BOOLEAN
    BY DEF Replace, Frees
  <2>. QED  BY <2>1, <2>2, <2>3, <2>4 DEF BaInv, BaTypeOK
<1>5. OwnedOnce'
  <2>1. \A y \in Arrays : block'[y] \in live' \cup {NullBlock}
    BY <1>2, <1>3 DEF BaInv, OwnedOnce, Owned
  <2>2. \A y, z \in Arrays : y # z /\ block'[y] # NullBlock => block'[y] # block'[z]
    BY <1>1, <1>3 DEF BaInv, OwnedOnce
  <2>. QED  BY <2>1, <2>2 DEF OwnedOnce
<1>6. OnlyMovesLeak'
  <2>1. lost' = lost
    OBVIOUS
  <2>2. \A c : c \in live' <=>
          c \in lost' \/ \E y \in Arrays : c = block'[y] /\ c # NullBlock
    BY <1>1, <1>2, <1>3, <2>1, Accounted DEF BaInv, OwnedOnce, Owned
  <2>3. \A y \in Arrays : block'[y] \notin lost'
    BY <1>1, <1>3, <2>1, Accounted DEF BaInv
  <2>. QED  BY <2>2, <2>3, AccountedNext
<1>. QED  BY <1>4, <1>5, <1>6 DEF BaInv

(* So does the assignment of bytes from outside of the arrays. *)
LEMMA AssignBytesInv ==
  ASSUME BaInv, NEW x \in Arrays, NEW value \in Seq(ByteValue), AssignBytes(x, value)
  PROVE  BaInv'
<1>1. PICK b \in FreedAfter :
        /\ block' = [block EXCEPT ![x] = b]
        /\ live' = live \cup {b}
        /\ bytes' = [bytes EXCEPT ![b] = value]
  BY DEF AssignBytes
<1>2. /\ b \in Blocks /\ b \notin lost /\ b # NullBlock /\ b \notin live
      /\ \A y \in Arrays \ {x} : block[y] # b
  BY FreshBlock, FreedAfterIsBefore, BlocksAssumption DEF FreedAfter
<1>. block \in [Arrays -> Blocks \cup {NullBlock}]
  BY DEF BaInv, BaTypeOK
<1>3. block'[x] = b /\ \A y \in Arrays \ {x} : block'[y] = block[y]
  BY <1>1
<1>4. lost' = lost \cup Owned(x)
  BY DEF AssignBytes
<1>5. BaTypeOK'
  BY <1>1, <1>2, <1>4 DEF BaInv, BaTypeOK, AssignBytes, Owned
<1>6. OwnedOnce'
  BY <1>1, <1>2, <1>3 DEF BaInv, OwnedOnce
<1>7. OnlyMovesLeak'
  <2>1. \A c : c \in live' <=>
          c \in lost' \/ \E y \in Arrays : c = block'[y] /\ c # NullBlock
    BY <1>1, <1>2, <1>3, <1>4, Accounted DEF BaInv, Owned
  <2>2. \A y \in Arrays : block'[y] \notin lost'
    <3>1. b \notin lost'
      BY <1>2, <1>4 DEF BaInv, OwnedOnce, Owned
    <3>2. \A y \in Arrays \ {x} : block[y] \notin lost'
      BY <1>4, Accounted DEF BaInv, OwnedOnce, Owned
    <3>. QED  BY <1>3, <3>1, <3>2
  <2>. QED  BY <2>1, <2>2, AccountedNext
<1>. QED  BY <1>5, <1>6, <1>7 DEF BaInv

(* So does a move, also of an array to itself. *)
LEMMA MoveInv ==
  ASSUME BaInv, NEW x \in Arrays, NEW y \in Arrays, MoveAssign(x, y)
  PROVE  BaInv'
<1>. block \in [Arrays -> Blocks \cup {NullBlock}]
  BY DEF BaInv, BaTypeOK
<1>1. /\ block' = [block EXCEPT ![x] = block[y], ![y] = NullBlock]
      /\ lost' = lost \cup Owned(x)
      /\ live' = live /\ bytes' = bytes /\ view' = view /\ broken' = broken
      /\ stale' = stale
  BY DEF MoveAssign
<1>2. /\ block'[y] = NullBlock
      /\ x # y => block'[x] = block[y]
      /\ \A z \in Arrays \ {x, y} : block'[z] = block[z]
  BY <1>1
<1>3. BaTypeOK'
  BY <1>1 DEF BaInv, BaTypeOK, Owned
<1>4. OwnedOnce'
  <2>1. \A z \in Arrays : block'[z] \in live' \cup {NullBlock}
    BY <1>1, <1>2 DEF BaInv, OwnedOnce
  <2>2. \A z, w \in Arrays : z # w /\ block'[z] # NullBlock => block'[z] # block'[w]
    BY <1>2 DEF BaInv, OwnedOnce
  <2>. QED  BY <2>1, <2>2 DEF OwnedOnce
<1>5. OnlyMovesLeak'
  <2>1. \A c : c \in live' <=>
          c \in lost' \/ \E z \in Arrays : c = block'[z] /\ c # NullBlock
    <3>. SUFFICES ASSUME NEW c
         PROVE c \in live' <=>
                 c \in lost' \/ \E z \in Arrays : c = block'[z] /\ c # NullBlock
      OBVIOUS
    <3>1. c \in live <=> c \in lost \/ \E z \in Arrays : c = block[z] /\ c # NullBlock
      BY Accounted DEF BaInv
    <3>2. ASSUME NEW z \in Arrays, c = block[z], c # NullBlock
          PROVE  c \in lost' \/ \E w \in Arrays : c = block'[w] /\ c # NullBlock
      BY <1>1, <1>2, <3>2 DEF Owned
    <3>3. ASSUME NEW z \in Arrays, c = block'[z], c # NullBlock
          PROVE  \E w \in Arrays : c = block[w] /\ c # NullBlock
      BY <1>2, <3>3
    <3>4. c \in lost' => c \in live
      BY <1>1, <3>1 DEF Owned
    <3>. QED  BY <1>1, <3>1, <3>2, <3>3, <3>4
  <2>2. \A z \in Arrays : block'[z] \notin lost'
    <3>1. NullBlock \notin lost'
      BY <1>1, BlocksAssumption DEF BaInv, BaTypeOK, Owned
    <3>2. \A z \in Arrays \ {x} : block[z] \notin lost'
      BY <1>1, Accounted DEF BaInv, OwnedOnce, Owned
    <3>. QED  BY <1>2, <3>1, <3>2
  <2>. QED  BY <2>1, <2>2, AccountedNext
<1>. QED  BY <1>3, <1>4, <1>5 DEF BaInv

(* So does clear. *)
LEMMA ClearInv ==
  ASSUME BaInv, NEW x \in Arrays, Clear(x)
  PROVE  BaInv'
<1>. block \in [Arrays -> Blocks \cup {NullBlock}]
  BY DEF BaInv, BaTypeOK
<1>1. /\ block' = [block EXCEPT ![x] = NullBlock]
      /\ live' = live \ Owned(x)
      /\ view' = view /\ lost' = lost /\ broken' = broken
  BY DEF Clear
<1>2. block'[x] = NullBlock /\ \A y \in Arrays \ {x} : block'[y] = block[y]
  BY <1>1
<1>3. BaTypeOK'
  <2>1. bytes' \in [Blocks -> Seq(ByteValue)]
    <3>1. \A c \in Blocks : (IF c = block[x] THEN <<>> ELSE bytes[c]) \in Seq(ByteValue)
      BY DEF BaInv, BaTypeOK
    <3>. QED  BY <3>1 DEF Clear
  <2>2. stale' \in BOOLEAN
    BY DEF Clear, Frees
  <2>. QED  BY <1>1, <2>1, <2>2 DEF BaInv, BaTypeOK
<1>4. OwnedOnce'
  BY <1>1, <1>2 DEF BaInv, OwnedOnce, Owned
<1>5. OnlyMovesLeak'
  <2>1. \A c : c \in live' <=>
          c \in lost' \/ \E y \in Arrays : c = block'[y] /\ c # NullBlock
    BY <1>1, <1>2, Accounted DEF BaInv, OwnedOnce, Owned
  <2>2. \A y \in Arrays : block'[y] \notin lost'
    BY <1>1, <1>2, Accounted, BlocksAssumption DEF BaInv, BaTypeOK
  <2>. QED  BY <2>1, <2>2, AccountedNext
<1>. QED  BY <1>3, <1>4, <1>5 DEF BaInv

(* So does reading what was freed, and making a view: they change neither  *)
(* the arrays nor the blocks.                                              *)
LEMMA StillInv ==
  ASSUME BaInv, UNCHANGED <<block, live, bytes, lost>>,
         view' \in [block : Blocks \cup {NullBlock}, start : Nat, size : Nat],
         broken' \in Arrays \cup {NoArray}, stale' \in BOOLEAN
  PROVE  BaInv'
<1>1. BaTypeOK' /\ OwnedOnce'
  BY DEF BaInv, BaTypeOK, OwnedOnce
<1>2. OnlyMovesLeak'
  BY Accounted, AccountedNext DEF BaInv
<1>. QED  BY <1>1, <1>2 DEF BaInv

(* So does appending bytes. *)
LEMMA ExtendInv ==
  ASSUME BaInv, NEW x \in Arrays, NEW value \in Seq(ByteValue), Extend(x, value)
  PROVE  BaInv'
<1>1. PICK b \in FreedAfter : Replace(x, b, Value(x) \o value)
  BY DEF Extend
<1>2. Value(x) \o value \in Seq(ByteValue)
  BY ValueType DEF BaInv
<1>. QED  BY <1>1, <1>2, FreedAfterIsBefore, ReplaceInv DEF Extend

(* So does appending what a view holds. *)
LEMMA AppendViewInv ==
  ASSUME BaInv, NEW x \in Arrays, AppendView(x)
  PROVE  BaInv'
<1>. DEFINE size == (Len(Value(x)) + view.size) % BaSizeT
            alive(b) == (live \ Owned(x)) \cup {b}
            held(b) == [bytes EXCEPT ![b] = Resized(Value(x), size, TRUE)]
            read(b) == SubSeq(held(b)[view.block], view.start + 1, view.start + view.size)
<1>1. PICK b \in FreedAfter :
        \/ Replace(x, b, Resized(Value(x), size, TRUE)) /\ UNCHANGED <<view, lost, broken>>
        \/ Break(x)
        \/ /\ Readable(alive(b), held(b))
           /\ Replace(x, b, Value(x) \o read(b))
           /\ UNCHANGED <<view, lost, broken>>
  BY Zenon DEF AppendView
<1>2. /\ view.size \in Nat /\ view.size > 0 /\ view.start \in Nat
      /\ b \in Blocks /\ live \subseteq Blocks /\ bytes \in [Blocks -> Seq(ByteValue)]
  BY DEF BaInv, BaTypeOK, AppendView, FreedAfter
<1>3. Value(x) \in Seq(ByteValue)
  BY ValueType DEF BaInv
<1>4. size \in Nat
  <2>1. Len(Value(x)) + view.size \in Nat /\ BaSizeT \in Nat \ {0}
    BY <1>2, <1>3, BlocksAssumption
  <2>. QED  BY <2>1
<1>. HIDE DEF size
<1>5. Resized(Value(x), size, TRUE) \in Seq(ByteValue)
  BY <1>3, <1>4, ResizedType
<1>6. CASE Replace(x, b, Resized(Value(x), size, TRUE)) /\ UNCHANGED <<view, lost, broken>>
  BY <1>5, <1>6, FreedAfterIsBefore, ReplaceInv
<1>7. CASE Break(x)
  BY <1>7, StillInv DEF Break, BaInv, BaTypeOK
<1>8. CASE /\ Readable(alive(b), held(b))
           /\ Replace(x, b, Value(x) \o read(b))
           /\ UNCHANGED <<view, lost, broken>>
  <2>3. held(b) \in [Blocks -> Seq(ByteValue)]
    BY <1>2, <1>5
  <2>. HIDE DEF held, alive
  <2>4. view.block \in Blocks /\ view.start + view.size <= Len(held(b)[view.block])
    BY <1>8, <1>2 DEF Readable, alive
  <2>5. held(b)[view.block] \in Seq(ByteValue)
    BY <2>3, <2>4
  <2>6. read(b) \in Seq(ByteValue)
    BY <1>2, <2>4, <2>5, ViewType
  <2>. HIDE DEF read
  <2>7. Value(x) \o read(b) \in Seq(ByteValue)
    BY <1>3, <2>6
  <2>. QED  BY <1>8, <2>7, FreedAfterIsBefore, ReplaceInv
<1>. QED  BY <1>1, <1>6, <1>7, <1>8

(* Every step keeps the invariant. *)
LEMMA BaNextInv ==
  ASSUME BaInv, [BaNext]_bavars
  PROVE  BaInv'
<1>1. CASE UNCHANGED bavars
  BY <1>1, StillInv DEF bavars, BaInv, BaTypeOK
<1>2. ASSUME NEW x \in Arrays, Call(x)
      PROVE  BaInv'
  <2>1. ASSUME NEW y \in Arrays, CopyAssign(x, y)
        PROVE  BaInv'
    <3>1. (IF x = y THEN <<>> ELSE Value(y)) \in Seq(ByteValue)
      BY ValueType DEF BaInv
    <3>. QED  BY <2>1, <3>1, ReplaceInv DEF CopyAssign
  <2>2. ASSUME NEW y \in Arrays, AppendArray(x, y)
        PROVE  BaInv'
    <3>1. (IF x = y THEN Junk(Len(Value(y))) ELSE Value(y)) \in Seq(ByteValue)
      BY ValueType, JunkType DEF BaInv
    <3>. QED  BY <2>2, <3>1, ExtendInv DEF AppendArray
  <2>3. ASSUME AssignView(x)
        PROVE  BaInv'
    <3>1. CASE Break(x)
      BY <3>1, StillInv DEF Break, BaInv, BaTypeOK
    <3>2. CASE /\ Readable(live, bytes)
               /\ AssignBytes(x, IF view.size = 0 THEN <<>> ELSE ViewBytes)
      <4>1. (IF view.size = 0 THEN <<>> ELSE ViewBytes) \in Seq(ByteValue)
        <5>1. CASE view.size = 0
          BY <5>1
        <5>2. CASE view.size # 0
          <6>1. /\ view.block \in Blocks /\ view.start \in Nat /\ view.size \in Nat
                /\ view.start + view.size <= Len(bytes[view.block])
                /\ bytes[view.block] \in Seq(ByteValue)
            BY <3>2, <5>2 DEF Readable, BaInv, BaTypeOK
          <6>. QED  BY <5>2, <6>1, ViewType DEF ViewBytes
        <5>. QED  BY <5>1, <5>2
      <4>. QED  BY <3>2, <4>1, AssignBytesInv
    <3>. QED  BY <2>3, <3>1, <3>2 DEF AssignView
  <2>4. ASSUME NEW size \in 0 .. MaxSize, NEW keep \in BOOLEAN, Resize(x, size, keep)
        PROVE  BaInv'
    <3>1. Resized(Value(x), size, keep) \in Seq(ByteValue)
      BY ValueType, ResizedType, BlocksAssumption DEF BaInv
    <3>2. PICK b \in FreedBefore(x) : Replace(x, b, Resized(Value(x), size, keep))
      BY <2>4, FreedAfterIsBefore DEF Resize
    <3>. QED  BY <2>4, <3>1, <3>2, ReplaceInv DEF Resize
  <2>5. ASSUME NEW start \in SliceSizes, NEW size \in SliceSizes, Slice(x, start, size)
        PROVE  BaInv'
    <3>1. view' \in [block : Blocks \cup {NullBlock}, start : Nat, size : Nat]
      BY <2>5, BlocksAssumption DEF Slice, View, BaInv, BaTypeOK
    <3>. QED  BY <2>5, <3>1, StillInv DEF Slice, BaInv, BaTypeOK
  <2>. QED  BY <1>2, <2>1, <2>2, <2>3, <2>4, <2>5, MoveInv, ClearInv, AssignBytesInv,
              ExtendInv, AppendViewInv, BlocksAssumption DEF Call
<1>. QED  BY <1>1, <1>2 DEF BaNext

(* No array has a block at first. *)
LEMMA BaInitInv == BaInit => BaInv
<1>. SUFFICES ASSUME BaInit PROVE BaInv
  OBVIOUS
<1>0. stale \in BOOLEAN
  BY Zenon DEF BaInit
<1>1. BaTypeOK /\ OwnedOnce
  BY <1>0 DEF BaInit, BaTypeOK, OwnedOnce, View
<1>2. OnlyMovesLeak
  BY Accounted DEF BaInit
<1>. QED  BY <1>1, <1>2 DEF BaInv

(* The ownership of the blocks is always as BaInv says. *)
LEMMA BaInvariant == BaSpec => []BaInv
<1>1. BaInv /\ [BaNext]_bavars => BaInv'
  BY BaNextInv
<1>. QED  BY <1>1, BaInitInv, PTL DEF BaSpec

(* No two arrays own a block, and none a freed one, for any arrays, blocks,*)
(* bytes and sizes, and any sequence of calls.                             *)
THEOREM Ownership == BaSpec => [](BaTypeOK /\ OwnedOnce)
<1>1. BaInv => BaTypeOK /\ OwnedOnce
  BY DEF BaInv
<1>. QED  BY <1>1, BaInvariant, PTL

(* Each block that lives is owned or was lost to a move assignment: no     *)
(* other sequence of calls leaks.                                          *)
THEOREM LeaksAreMoves == BaSpec => []OnlyMovesLeak
<1>1. BaInv => OnlyMovesLeak
  BY DEF BaInv
<1>. QED  BY <1>1, BaInvariant, PTL

-----------------------------------------------------------------------------
(* A block that replaces that of an array leaves the others as they are.   *)
LEMMA ReplaceOthers ==
  ASSUME BaInv, NEW x \in Arrays, NEW b \in FreedBefore(x), NEW value,
         Replace(x, b, value), NEW y \in Arrays \ {x}
  PROVE  Value(y)' = Value(y)
<1>. block \in [Arrays -> Blocks \cup {NullBlock}]
  BY DEF BaInv, BaTypeOK
<1>1. block'[y] = block[y] /\ block[y] # b
  BY FreshBlock DEF Replace
<1>2. CASE block[y] = NullBlock
  BY <1>1, <1>2 DEF Value
<1>3. CASE block[y] # NullBlock
  <2>1. block[y] # block[x] /\ block[y] \in Blocks
    BY <1>3 DEF BaInv, OwnedOnce
  <2>2. bytes'[block[y]] = bytes[block[y]]
    BY <1>1, <2>1 DEF Replace
  <2>. QED  BY <1>1, <1>3, <2>2 DEF Value
<1>. QED  BY <1>2, <1>3

(* A call of an array leaves the values of the others, but for a move.     *)
LEMMA CallOthers ==
  ASSUME BaInv, NEW x \in Arrays, Call(x)
  PROVE  \/ \A y \in Arrays \ {x} : Value(y)' = Value(y)
         \/ \E y \in Arrays \ {x} : MoveAssign(x, y)
<1>. SUFFICES ASSUME NEW y \in Arrays \ {x},
                     ~\E z \in Arrays \ {x} : MoveAssign(x, z)
              PROVE  Value(y)' = Value(y)
  OBVIOUS
<1>. block \in [Arrays -> Blocks \cup {NullBlock}] /\ bytes \in [Blocks -> Seq(ByteValue)]
  BY DEF BaInv, BaTypeOK
<1>1. CASE \E b \in FreedBefore(x) : \E value : Replace(x, b, value)
  BY <1>1, ReplaceOthers
<1>2. CASE \E value : AssignBytes(x, value)
  <2>0. PICK value : AssignBytes(x, value)
    BY <1>2
  <2>1. PICK b \in FreedAfter :
          /\ block' = [block EXCEPT ![x] = b]
          /\ bytes' = [bytes EXCEPT ![b] = value]
    BY <2>0 DEF AssignBytes
  <2>2. block'[y] = block[y] /\ block[y] # b
    BY <2>1, FreshBlock, FreedAfterIsBefore
  <2>3. block[y] # NullBlock => bytes'[block[y]] = bytes[block[y]]
    BY <2>1, <2>2
  <2>. QED  BY <2>2, <2>3 DEF Value
<1>3. CASE UNCHANGED <<block, bytes>>
  BY <1>3 DEF Value
<1>4. CASE MoveAssign(x, x)
  BY <1>4 DEF MoveAssign, Value
<1>5. CASE Clear(x)
  <2>1. block'[y] = block[y]
    BY <1>5 DEF Clear
  <2>2. block[y] # NullBlock => bytes'[block[y]] = bytes[block[y]]
    BY <1>5 DEF Clear, BaInv, OwnedOnce
  <2>. QED  BY <2>1, <2>2 DEF Value
<1>6. \/ \E b \in FreedBefore(x) : \E value : Replace(x, b, value)
      \/ \E value : AssignBytes(x, value)
      \/ UNCHANGED <<block, bytes>>
      \/ MoveAssign(x, x)
      \/ Clear(x)
  <2>1. ASSUME NEW z \in Arrays, CopyAssign(x, z) \/ AppendArray(x, z)
        PROVE  \E b \in FreedBefore(x) : \E value : Replace(x, b, value)
    BY <2>1, FreedAfterIsBefore DEF CopyAssign, AppendArray, Extend
  <2>2. ASSUME NEW value, Extend(x, value)
        PROVE  \E b \in FreedBefore(x) : \E v : Replace(x, b, v)
    BY <2>2, FreedAfterIsBefore DEF Extend
  <2>3. AssignView(x) => (\E value : AssignBytes(x, value)) \/ UNCHANGED <<block, bytes>>
    BY DEF AssignView, Break
  <2>4. AppendView(x) => \/ \E b \in FreedBefore(x) : \E value : Replace(x, b, value)
                         \/ UNCHANGED <<block, bytes>>
    BY FreedAfterIsBefore DEF AppendView, Break
  <2>5. ASSUME NEW size, NEW keep \in BOOLEAN, Resize(x, size, keep)
        PROVE  \E b \in FreedBefore(x) : \E value : Replace(x, b, value)
    BY <2>5, FreedAfterIsBefore DEF Resize
  <2>6. ASSUME NEW start, NEW size, Slice(x, start, size)
        PROVE  UNCHANGED <<block, bytes>>
    BY <2>6 DEF Slice
  <2>. QED  BY <2>1, <2>2, <2>3, <2>4, <2>5, <2>6 DEF Call
<1>. QED  BY <1>1, <1>2, <1>3, <1>4, <1>5, <1>6

(* A call changes the bytes of one array only, but for a move: arrays do   *)
(* not alias, whatever was copied, moved, cut and appended before.         *)
THEOREM NoAliasing == BaSpec => OthersUnchanged
<1>1. ASSUME BaInv, [BaNext]_bavars
      PROVE  [\A x, y \in Arrays :
                x # y /\ Value(x)' # Value(x) /\ Value(y)' # Value(y) =>
                  \/ Value(x)' = Value(y) /\ Value(y)' = <<>>
                  \/ Value(y)' = Value(x) /\ Value(x)' = <<>>]_bavars
  <2>. SUFFICES ASSUME BaNext, NEW x \in Arrays, NEW y \in Arrays,
                       x # y, Value(x)' # Value(x), Value(y)' # Value(y)
                PROVE  \/ Value(x)' = Value(y) /\ Value(y)' = <<>>
                       \/ Value(y)' = Value(x) /\ Value(x)' = <<>>
    BY <1>1
  <2>1. PICK z \in Arrays : Call(z)
    BY DEF BaNext
  <2>2. PICK w \in Arrays \ {z} : MoveAssign(z, w)
    BY <1>1, <2>1, CallOthers
  <2>. block \in [Arrays -> Blocks \cup {NullBlock}]
    BY <1>1 DEF BaInv, BaTypeOK
  <2>3. /\ Value(z)' = Value(w) /\ Value(w)' = <<>>
        /\ \A v \in Arrays \ {z, w} : Value(v)' = Value(v)
    BY <2>2 DEF MoveAssign, Value
  <2>. QED  BY <2>3
<1>2. BaInv /\ [BaNext]_bavars => BaInv'
  BY BaNextInv
<1>. QED  BY <1>1, <1>2, BaInitInv, PTL DEF BaSpec, OthersUnchanged

-----------------------------------------------------------------------------
(* A view that was cut from its array, and whose block was not freed since,*)
(* lies in that block: the block lives, and is as long as it was.          *)
ViewHolds ==
  ~stale /\ view.size > 0 /\ view.start + view.size < BaSizeT =>
    view.block \in live /\ view.start + view.size <= Len(bytes[view.block])

(* A step that frees no block of the view, and leaves its bytes, keeps it. *)
LEMMA ViewStays ==
  ASSUME ViewHolds, view' = view, stale' \/ ~stale,
         ~stale' => /\ view.block \in live => view.block \in live'
                    /\ view.block \in live => bytes'[view.block] = bytes[view.block]
  PROVE  ViewHolds'
BY DEF ViewHolds

LEMMA ReplaceKeepsView ==
  ASSUME BaInv, ViewHolds, NEW x \in Arrays, NEW b \in FreedBefore(x), NEW value,
         Replace(x, b, value), view' = view
  PROVE  ViewHolds'
<1>1. stale' = (stale \/ view.block \in Owned(x))
  BY DEF Replace, Frees
<1>2. ASSUME view.block \notin Owned(x), view.block \in live
      PROVE  view.block \in live' /\ bytes'[view.block] = bytes[view.block]
  <2>1. view.block \in Blocks /\ view.block # b /\ view.block # NullBlock
    BY <1>2, BlocksAssumption DEF FreedBefore, BaInv, BaTypeOK
  <2>2. view.block # block[x]
    BY <1>2, <2>1 DEF Owned
  <2>. QED  BY <1>2, <2>1, <2>2 DEF Replace
<1>3. ~stale' => ~stale /\ view.block \notin Owned(x)
  BY <1>1
<1>. QED  BY <1>2, <1>3, ViewStays

LEMMA CallKeepsView ==
  ASSUME BaInv, ViewHolds, NEW x \in Arrays, Call(x)
  PROVE  ViewHolds'
<1>1. CASE \E b \in FreedBefore(x) : \E value : Replace(x, b, value) /\ view' = view
  BY <1>1, ReplaceKeepsView
<1>2. CASE \E value : AssignBytes(x, value)
  <2>1. PICK b \in FreedAfter : \E value :
          live' = live \cup {b} /\ bytes' = [bytes EXCEPT ![b] = value]
    BY <1>2 DEF AssignBytes
  <2>2. view' = view /\ stale' = stale /\ bytes \in [Blocks -> Seq(ByteValue)]
    BY <1>2 DEF AssignBytes, BaInv, BaTypeOK
  <2>3. view.block \in live =>
          view.block \in live' /\ bytes'[view.block] = bytes[view.block]
    BY <2>1, <2>2 DEF FreedAfter, BaInv, BaTypeOK
  <2>. QED  BY <2>2, <2>3, ViewStays
<1>3. CASE UNCHANGED <<live, bytes, view, stale>>
  BY <1>3, ViewStays
<1>4. CASE Clear(x)
  <2>1. view' = view /\ stale' = (stale \/ view.block \in Owned(x))
    BY <1>4 DEF Clear, Frees
  <2>2. ASSUME view.block \notin Owned(x), view.block \in live
        PROVE  view.block \in live' /\ bytes'[view.block] = bytes[view.block]
    <3>1. view.block \in Blocks /\ view.block # NullBlock
      BY <2>2, BlocksAssumption DEF BaInv, BaTypeOK
    <3>. QED  BY <1>4, <2>2, <3>1 DEF Clear, Owned
  <2>. QED  BY <2>1, <2>2, ViewStays
<1>5. ASSUME NEW start \in SliceSizes, NEW size \in SliceSizes, Slice(x, start, size)
      PROVE  ViewHolds'
  <2>1. /\ view' = View(block[x], start, size) /\ live' = live /\ bytes' = bytes
        /\ (start + size) % BaSizeT <= Len(Value(x))
    BY <1>5 DEF Slice
  <2>2. start \in Nat /\ size \in Nat /\ BaSizeT \in Nat
    BY BlocksAssumption
  <2>3. /\ view'.block = block[x] /\ view'.start = start /\ view'.size = size
    BY <2>1 DEF View
  <2>4. SUFFICES ASSUME size > 0, start + size < BaSizeT
                 PROVE  block[x] \in live /\ start + size <= Len(bytes[block[x]])
    BY <2>1, <2>3 DEF ViewHolds
  <2>5. start + size <= Len(Value(x))
    <3>1. (start + size) % BaSizeT = start + size
      BY <2>2, <2>4
    <3>. QED  BY <2>1, <3>1
  <2>6. block[x] # NullBlock
    <3>1. block[x] = NullBlock => Len(Value(x)) = 0
      BY DEF Value
    <3>2. start + size > 0
      BY <2>2, <2>4
    <3>3. Len(Value(x)) \in Nat
      BY ValueType DEF BaInv
    <3>4. Len(Value(x)) # 0
      BY <2>2, <2>5, <3>2, <3>3
    <3>. QED  BY <3>1, <3>4
  <2>. QED  BY <2>5, <2>6 DEF BaInv, OwnedOnce, Value
<1>6. \/ \E b \in FreedBefore(x) : \E value : Replace(x, b, value) /\ view' = view
      \/ \E value : AssignBytes(x, value)
      \/ UNCHANGED <<live, bytes, view, stale>>
      \/ Clear(x)
      \/ \E start, size \in SliceSizes : Slice(x, start, size)
  <2>1. ASSUME NEW z \in Arrays, CopyAssign(x, z) \/ AppendArray(x, z)
        PROVE  \E b \in FreedBefore(x) : \E value : Replace(x, b, value) /\ view' = view
    BY <2>1, FreedAfterIsBefore DEF CopyAssign, AppendArray, Extend
  <2>2. ASSUME NEW value, Extend(x, value)
        PROVE  \E b \in FreedBefore(x) : \E v : Replace(x, b, v) /\ view' = view
    BY <2>2, FreedAfterIsBefore DEF Extend
  <2>3. AssignView(x) =>
          (\E value : AssignBytes(x, value)) \/ UNCHANGED <<live, bytes, view, stale>>
    BY DEF AssignView, Break
  <2>4. AppendView(x) =>
          \/ \E b \in FreedBefore(x) : \E value : Replace(x, b, value) /\ view' = view
          \/ UNCHANGED <<live, bytes, view, stale>>
    BY FreedAfterIsBefore DEF AppendView, Break
  <2>5. ASSUME NEW size, NEW keep \in BOOLEAN, Resize(x, size, keep)
        PROVE  \E b \in FreedBefore(x) : \E value : Replace(x, b, value) /\ view' = view
    BY <2>5, FreedAfterIsBefore DEF Resize
  <2>6. ASSUME NEW z, MoveAssign(x, z)
        PROVE  UNCHANGED <<live, bytes, view, stale>>
    BY <2>6 DEF MoveAssign
  <2>. QED  BY <2>1, <2>2, <2>3, <2>4, <2>5, <2>6 DEF Call
<1>. QED  BY <1>1, <1>2, <1>3, <1>4, <1>5, <1>6

(* No call of another array disturbs a view: memory that is not the view's *)
(* is read only through a view of the array that the call resizes, through *)
(* one whose block was freed before, or through one whose end wrapped      *)
(* around when it was cut.                                                 *)
THEOREM ViewsOfOthersHold == BaSpec => []BreaksOnOwnView
<1>. DEFINE Inv == BaInv /\ ViewHolds /\ BreaksOnOwnView
<1>1. ASSUME BaInv, ViewHolds, BreaksOnOwnView, [BaNext]_bavars
      PROVE  ViewHolds' /\ BreaksOnOwnView'
  <2>1. CASE UNCHANGED bavars
    BY <1>1, <2>1, ViewStays DEF bavars, BreaksOnOwnView
  <2>2. ASSUME BaNext PROVE ViewHolds'
    BY <1>1, <2>2, CallKeepsView DEF BaNext
  <2>. SUFFICES ASSUME BaNext, broken' # NoArray
                PROVE  \/ view'.block = block'[broken']
                       \/ stale'
                       \/ view'.start + view'.size >= BaSizeT
    BY <1>1, <2>1, <2>2 DEF BreaksOnOwnView
  <2>3. PICK x \in Arrays : Call(x) /\ broken = NoArray
    BY DEF BaNext
  <2>4. SUFFICES ASSUME ~stale, view.block # block[x], view.start + view.size < BaSizeT,
                        UNCHANGED <<block, live, bytes, view, stale>>, broken' = x
                 PROVE  FALSE
    <3>1. Break(x)
      BY <2>3 DEF Call, CopyAssign, MoveAssign, AppendArray, AssignBytes, Extend, AssignView,
                  AppendView, Resize, Clear, Slice
    <3>2. view.start \in Nat /\ view.size \in Nat /\ BaSizeT \in Nat
      BY <1>1, BlocksAssumption DEF BaInv, BaTypeOK
    <3>3. view.start + view.size < BaSizeT \/ view.start + view.size >= BaSizeT
      BY <3>2
    <3>. QED  BY <2>4, <3>1, <3>3 DEF Break, BaInv, BaTypeOK
  <2>5. view.size > 0 => view.block \in live /\ view.start + view.size <= Len(bytes[view.block])
    BY <1>1, <2>4 DEF ViewHolds
  <2>6. view.size = 0 \/ view.size > 0
    BY <1>1 DEF BaInv, BaTypeOK
  <2>7. Readable(live, bytes)
    BY <2>5, <2>6 DEF Readable
  <2>8. (AssignView(x) /\ ~Readable(live, bytes)) \/ AppendView(x)
    BY <2>3, <2>4 DEF Call, CopyAssign, MoveAssign, AppendArray, AssignBytes, Extend, AssignView,
                      Resize, Clear, Slice
  <2>9. PICK b \in FreedAfter :
          /\ view.size > 0
          /\ ~Readable((live \ Owned(x)) \cup {b},
                       [bytes EXCEPT ![b] = Resized(Value(x), (Len(Value(x)) + view.size) % BaSizeT, TRUE)])
    BY <2>3, <2>4, <2>7, <2>8 DEF AppendView
  <2>10. /\ view.block \in live /\ view.block \in Blocks /\ view.block # b
         /\ view.block \notin Owned(x)
    BY <1>1, <2>4, <2>5, <2>9 DEF FreedAfter, BaInv, BaTypeOK, Owned
  <2>11. [bytes EXCEPT ![b] = Resized(Value(x), (Len(Value(x)) + view.size) % BaSizeT, TRUE)][view.block]
           = bytes[view.block]
    BY <1>1, <2>10 DEF BaInv, BaTypeOK
  <2>. QED  BY <2>5, <2>9, <2>10, <2>11 DEF Readable
<1>2. BaInv /\ [BaNext]_bavars => BaInv'
  BY BaNextInv
<1>3. BaInit => ViewHolds /\ BreaksOnOwnView
  BY DEF BaInit, ViewHolds, BreaksOnOwnView, View
<1>. QED  BY <1>1, <1>2, <1>3, BaInitInv, PTL DEF BaSpec

-----------------------------------------------------------------------------
(* Sequences. *)

(* The elements of a sequence. *)
LEMMA ElementIs ==
  ASSUME NEW X, NEW s \in Seq(X)
  PROVE  Len(s) \in Nat /\ DOMAIN s = 1 .. Len(s) /\ \A k \in 1 .. Len(s) : s[k] \in X
OBVIOUS

(* A sequence and one element more. *)
LEMMA AppendIs ==
  ASSUME NEW X, NEW s \in Seq(X), NEW c \in X
  PROVE  /\ Append(s, c) \in Seq(X) /\ Len(Append(s, c)) = Len(s) + 1 /\ Len(s) \in Nat
         /\ Append(s, c)[Len(s) + 1] = c
         /\ \A j \in 1 .. Len(s) : Append(s, c)[j] = s[j]
OBVIOUS

(* A sequence of one element. *)
LEMMA OneIs ==
  ASSUME NEW X, NEW c \in X
  PROVE  <<c>> \in Seq(X) /\ Len(<<c>>) = 1 /\ <<c>>[1] = c
OBVIOUS

(* The elements of s, then those of t. *)
Joined(a, X, s, t) ==
  /\ a \in Seq(X) /\ Len(a) = Len(s) + Len(t)
  /\ Len(s) \in Nat /\ Len(t) \in Nat
  /\ \A k \in 1 .. Len(s) : a[k] = s[k]
  /\ \A k \in 1 .. Len(t) : a[Len(s) + k] = t[k]

(* That is what their concatenation is. *)
LEMMA JoinedIs ==
  ASSUME NEW X, NEW s \in Seq(X), NEW t \in Seq(X)
  PROVE  Joined(s \o t, X, s, t)
BY DEF Joined

(* The end of a sequence. *)
Ends(s, X, n, M) ==
  /\ s \in Seq(X) /\ M \in Seq(X) /\ n \in Nat /\ Len(s) = n + Len(M)
  /\ \A k \in 1 .. Len(M) : s[n + k] = M[k]

(* What SubSeq cuts is that end. *)
LEMMA AfterIs ==
  ASSUME NEW s, NEW X, NEW n, NEW M, Ends(s, X, n, M)
  PROVE  SubSeq(s, n + 1, Len(s)) = M
<1>1. /\ s \in Seq(X) /\ M \in Seq(X) /\ n \in Nat /\ Len(s) = n + Len(M)
      /\ Len(M) \in Nat /\ Len(s) \in Nat /\ n <= Len(s)
      /\ \A k \in 1 .. Len(M) : s[n + k] = M[k]
  BY DEF Ends
<1>. DEFINE e == SubSeq(s, n + 1, Len(s))
<1>2. e \in Seq(X) /\ Len(e) = Len(s) - n /\ \A k \in 1 .. Len(s) - n : e[k] = s[n + k]
  <2>. DEFINE l == Len(s)
  <2>1. l \in Nat /\ n <= l /\ l <= Len(s)
    BY <1>1
  <2>0. s \in Seq(X) /\ n \in Nat
    BY <1>1
  <2>. HIDE DEF l
  <2>2. /\ SubSeq(s, n + 1, l) \in Seq(X) /\ Len(SubSeq(s, n + 1, l)) = l - n
        /\ \A k \in 1 .. l - n : SubSeq(s, n + 1, l)[k] = s[n + k]
    BY <2>0, <2>1, SubSeqIs
  <2>. QED  BY <2>2 DEF l
<1>. HIDE DEF e
<1>3. Len(e) = Len(M) /\ \A k \in 1 .. Len(M) : e[k] = M[k]
  <2>1. Len(s) - n = Len(M)
    BY <1>1
  <2>2. Len(e) = Len(M) /\ \A k \in 1 .. Len(M) : e[k] = s[n + k]
    BY <1>2, <2>1, Zenon
  <2>. QED  BY <1>1, <2>2, Zenon
<1>4. e = M
  BY <1>1, <1>2, <1>3
<1>. QED  BY <1>4 DEF e

(* What SubSeq cuts from the begin. *)
LEMMA BeforeIs ==
  ASSUME NEW X, NEW s \in Seq(X), NEW M \in Seq(X), Len(M) <= Len(s),
         \A k \in 1 .. Len(M) : s[k] = M[k]
  PROVE  SubSeq(s, 1, Len(M)) = M
<1>. DEFINE n == Len(M)
            e == SubSeq(s, 1, n)
<1>1. n \in Nat /\ n <= Len(s)
  OBVIOUS
<1>2. e \in Seq(X) /\ Len(e) = n /\ \A k \in 1 .. n : e[k] = s[k]
  <2>. HIDE DEF n
  <2>. QED  BY <1>1
<1>. HIDE DEF e
<1>3. e = M
  BY <1>1, <1>2
<1>. QED  BY <1>3 DEF e

(* Its end is a suffix of it. *)
LEMMA SuffixIs ==
  ASSUME NEW s, NEW X, NEW n, NEW M, Ends(s, X, n, M)
  PROVE  IsSuffix(M, s)
<1>. DEFINE m == Len(M)
            l == Len(s)
<1>1. /\ s \in Seq(X) /\ M \in Seq(X) /\ n \in Nat /\ l = n + m
      /\ m \in Nat /\ l \in Nat /\ m <= l
      /\ \A k \in 1 .. m : s[n + k] = M[k]
  BY DEF Ends
<1>. DEFINE rs == Reverse(s)
            rm == Reverse(M)
<1>2. rs = [k \in 1 .. l |-> s[(l - k) + 1]] /\ rm = [k \in 1 .. m |-> M[(m - k) + 1]]
  BY DEF Reverse
<1>3. \A k \in 1 .. l : (l - k) + 1 \in 1 .. l /\ s[(l - k) + 1] \in X
  <2>1. \A k \in 1 .. l : (l - k) + 1 \in 1 .. l
    BY <1>1
  <2>. QED  BY <1>1, <2>1
<1>4. \A k \in 1 .. m : (m - k) + 1 \in 1 .. m /\ M[(m - k) + 1] \in X
  <2>1. \A k \in 1 .. m : (m - k) + 1 \in 1 .. m
    BY <1>1
  <2>. QED  BY <1>1, <2>1
<1>. HIDE DEF rs, rm, m, l
<1>5. rs \in Seq(X) /\ Len(rs) = l
  BY <1>1, <1>2, <1>3
<1>6. rm \in Seq(X) /\ Len(rm) = m
  BY <1>1, <1>2, <1>4
<1>7. ASSUME NEW k \in 1 .. m PROVE rs[k] = rm[k]
  <2>. DEFINE p == (m - k) + 1
  <2>1. p \in 1 .. m /\ (l - k) + 1 = n + p /\ k \in 1 .. l
    BY <1>1
  <2>2. s[n + p] = M[p]
    <3>. HIDE DEF p
    <3>. QED  BY <1>1, <2>1
  <2>. HIDE DEF p
  <2>3. rs[k] = s[n + p]
    BY <1>2, <2>1
  <2>4. rm[k] = M[p]
    BY <1>2 DEF p
  <2>. QED  BY <2>2, <2>3, <2>4
<1>8. SubSeq(rs, 1, m) = rm
  BY <1>1, <1>5, <1>6, <1>7, BeforeIs
<1>9. SubSeq(rm, 1, m) = rm
  BY <1>6, BeforeIs
<1>10. IsPrefix(rm, rs)
  BY <1>1, <1>5, <1>6, <1>8, <1>9 DEF IsPrefix
<1>. QED  BY <1>10 DEF IsSuffix, rs, rm

-----------------------------------------------------------------------------
(* Paddings. *)

(* What PutPaddingBT1 and PutPaddingBT2 leave in the array: a is <<0, b>>, *)
(* the filling F, a zero and the message M.                                *)
PaddedLeft(a, b, F, M) ==
  /\ a \in Seq(PadByte) /\ F \in Seq(PadByte) /\ M \in Seq(PadByte)
  /\ Len(F) \in Nat /\ Len(M) \in Nat /\ Len(a) = Len(F) + 3 + Len(M)
  /\ a[1] = 0 /\ a[2] = b /\ a[Len(F) + 3] = 0
  /\ \A k \in 1 .. Len(F) : a[k + 2] = F[k]
  /\ \A k \in 1 .. Len(M) : a[Len(F) + 3 + k] = M[k]

(* That is what PutPaddingBT puts. *)
LEMMA LeftIs ==
  ASSUME NEW b \in PadByte, NEW F \in Seq(PadByte), NEW M \in Seq(PadByte)
  PROVE  PaddedLeft(<<0, b>> \o F \o <<0>> \o M, b, F, M)
<1>1. 0 \in PadByte
  BY DEF PadByte
<1>. DEFINE p == <<0, b>>
            q == p \o F
            r == q \o <<0>>
            a == r \o M
<1>2. p \in Seq(PadByte) /\ Len(p) = 2 /\ p[1] = 0 /\ p[2] = b
  BY <1>1
<1>3. Len(F) \in Nat /\ Len(M) \in Nat
  OBVIOUS
<1>. HIDE DEF p
<1>4. /\ q \in Seq(PadByte) /\ Len(q) = 2 + Len(F) /\ q[1] = 0 /\ q[2] = b
      /\ \A k \in 1 .. Len(F) : q[k + 2] = F[k]
  <2>1. /\ q \in Seq(PadByte) /\ Len(q) = Len(p) + Len(F)
        /\ \A k \in 1 .. Len(p) : q[k] = p[k]
        /\ \A k \in 1 .. Len(F) : q[Len(p) + k] = F[k]
    <3>1. Joined(q, PadByte, p, F)
      BY <1>2, JoinedIs
    <3>. HIDE DEF q
    <3>. QED  BY <3>1 DEF Joined
  <2>. HIDE DEF q
  <2>2. \A k \in 1 .. Len(F) : k + 2 = 2 + k
    BY <1>3
  <2>3. 1 \in 1 .. Len(p) /\ 2 \in 1 .. Len(p)
    BY <1>2
  <2>. QED  BY <1>2, <2>1, <2>2, <2>3
<1>. HIDE DEF q
<1>5. /\ r \in Seq(PadByte) /\ Len(r) = 3 + Len(F) /\ r[1] = 0 /\ r[2] = b /\ r[Len(F) + 3] = 0
      /\ \A k \in 1 .. Len(F) : r[k + 2] = F[k]
  <2>1. r \in Seq(PadByte) /\ Len(r) = 3 + Len(F)
    BY <1>1, <1>3, <1>4
  <2>2. \A k \in 1 .. 2 + Len(F) : r[k] = q[k]
    BY <1>3, <1>4
  <2>3. r[Len(F) + 3] = 0
    BY <1>3, <1>4
  <2>4. ASSUME NEW k \in 1 .. Len(F) PROVE k + 2 \in 1 .. 2 + Len(F)
    BY <1>3
  <2>. QED  BY <1>3, <1>4, <2>1, <2>2, <2>3, <2>4
<1>. HIDE DEF r
<1>6. /\ a \in Seq(PadByte) /\ Len(a) = Len(F) + 3 + Len(M)
      /\ \A k \in 1 .. 3 + Len(F) : a[k] = r[k]
      /\ \A k \in 1 .. Len(M) : a[Len(F) + 3 + k] = M[k]
  <2>1. /\ a \in Seq(PadByte) /\ Len(a) = Len(r) + Len(M)
        /\ \A k \in 1 .. Len(r) : a[k] = r[k]
        /\ \A k \in 1 .. Len(M) : a[Len(r) + k] = M[k]
    <3>1. Joined(a, PadByte, r, M)
      BY <1>5, JoinedIs
    <3>. HIDE DEF a
    <3>. QED  BY <3>1 DEF Joined
  <2>2. Len(r) = 3 + Len(F) /\ 3 + Len(F) = Len(F) + 3
    BY <1>3, <1>5
  <2>. HIDE DEF a
  <2>. QED  BY <2>1, <2>2
<1>7. \A k \in 1 .. Len(F) : k + 2 \in 1 .. 3 + Len(F)
  BY <1>3
<1>8. 1 \in 1 .. 3 + Len(F) /\ 2 \in 1 .. 3 + Len(F) /\ Len(F) + 3 \in 1 .. 3 + Len(F)
  BY <1>3
<1>. HIDE DEF a
<1>9. PaddedLeft(a, b, F, M)
  BY <1>3, <1>5, <1>6, <1>7, <1>8 DEF PaddedLeft
<1>. QED  BY <1>9 DEF a, r, q, p

(* What ISOPad leaves: the message, a mark, and zeros. *)
PaddedRight(a, M, size) ==
  /\ a \in Seq(PadByte) /\ M \in Seq(PadByte) /\ Len(M) \in Nat
  /\ Len(a) = size /\ size \in Nat /\ Len(M) < size
  /\ \A k \in 1 .. Len(M) : a[k] = M[k]
  /\ a[Len(M) + 1] = 128
  /\ \A k \in Len(M) + 2 .. size : a[k] = 0

(* A byte n times. *)
LEMMA RepeatIs ==
  ASSUME NEW c \in PadByte, NEW n \in Nat
  PROVE  /\ Repeat(c, n) \in Seq(PadByte) /\ Len(Repeat(c, n)) = n
         /\ \A k \in 1 .. n : Repeat(c, n)[k] = c
BY DEF Repeat

(* That is what ISOPad makes. *)
LEMMA RightIs ==
  ASSUME NEW M \in Seq(PadByte), NEW size \in Nat, Len(M) < size
  PROVE  PaddedRight(ISOPad(M, size), M, size)
<1>. DEFINE n == size - Len(M) - 1
            R == Repeat(0, n)
            q == M \o <<128>>
            a == q \o R
<1>1. Len(M) \in Nat /\ n \in Nat
  OBVIOUS
<1>2. 0 \in PadByte /\ 128 \in PadByte
  BY DEF PadByte
<1>3. n + Len(M) + 1 = size
  OBVIOUS
<1>. HIDE DEF n
<1>4. R \in Seq(PadByte) /\ Len(R) = n /\ \A k \in 1 .. n : R[k] = 0
  BY <1>1, <1>2, RepeatIs
<1>. HIDE DEF R
<1>5. /\ q \in Seq(PadByte) /\ Len(q) = Len(M) + 1 /\ q[Len(M) + 1] = 128
      /\ \A k \in 1 .. Len(M) : q[k] = M[k]
  BY <1>1, <1>2
<1>. HIDE DEF q
<1>6. /\ a \in Seq(PadByte) /\ Len(a) = size
      /\ \A k \in 1 .. Len(M) + 1 : a[k] = q[k]
      /\ \A k \in 1 .. n : a[Len(M) + 1 + k] = R[k]
  BY <1>1, <1>3, <1>4, <1>5
<1>. HIDE DEF a
<1>7. ASSUME NEW k \in Len(M) + 2 .. size PROVE a[k] = 0
  <2>. DEFINE j == k - Len(M) - 1
  <2>1. j \in 1 .. n /\ Len(M) + 1 + j = k
    BY <1>1, <1>3
  <2>. HIDE DEF j
  <2>. QED  BY <2>1, <1>4, <1>6
<1>8. PaddedRight(a, M, size)
  BY <1>1, <1>5, <1>6, <1>7 DEF PaddedRight
<1>. QED  BY <1>8 DEF a, q, R, n, ISOPad

-----------------------------------------------------------------------------
(* What can be in the array. *)

(* The padding that was put, byte by byte. *)
PadShape ==
  padding = "padded" =>
    CASE scheme = "BT1" -> \E n \in Nat : PaddedLeft(array, 1, Repeat(255, n), message)
      [] scheme = "BT2" -> \E F \in Seq(PadByte) : PaddedLeft(array, 2, F, message)
      [] scheme \in {"ISO", "ISO16"} -> PaddedRight(array, message, Len(array))
      [] OTHER -> TRUE

(* The inductive invariant. *)
PadInv ==
  /\ PadTypeOK /\ PadShape /\ PadInverse /\ PadLengths
  /\ padding \in {"idle", "padded", "received"} => offset = 0

(* PutPaddingBT0 keeps the invariant. *)
LEMMA PutLeft ==
  ASSUME PadInv, padding = "idle", NEW M \in Messages, NEW n \in PadSizes, PutPaddingBT0(M, n)
  PROVE  PadInv'
<1>1. M \in Seq(PadByte) /\ n \in Nat /\ 0 \in PadByte
  BY PaddingAssumption DEF PadByte
<1>2. /\ scheme' = "BT0" /\ message' = M /\ offset' = 0
      /\ padding' \in {"padded", "notPadded"}
  BY DEF PutPaddingBT0, PadInv
<1>3. array' \in Seq(PadByte)
  <2>1. Repeat(0, n) \in Seq(PadByte)
    BY <1>1, RepeatIs
  <2>2. ASSUME Len(M) <= n PROVE Repeat(0, n - Len(M)) \o M \in Seq(PadByte)
    <3>1. Repeat(0, n - Len(M)) \in Seq(PadByte)
      BY <1>1, <2>2, RepeatIs
    <3>. QED  BY <1>1, <3>1
  <2>. QED  BY <2>1, <2>2 DEF PutPaddingBT0
<1>4. PadTypeOK'
  BY <1>1, <1>2, <1>3 DEF PadTypeOK
<1>. QED  BY <1>2, <1>4 DEF PadInv, PadShape, PadInverse, PadLengths

(* A sum of sizes is right if it is a size. *)
LEMMA SumIs ==
  ASSUME NEW a \in Int, NEW b \in Int
  PROVE  /\ SizeSum(a, b) \in Nat
         /\ a + b \in 0 .. PadSizeT - 1 => SizeSum(a, b) = a + b
<1>1. PadSizeT \in Nat \ {0}
  BY PaddingAssumption
<1>2. ASSUME NEW c \in Int PROVE c % PadSizeT \in Nat /\ (c \in 0 .. PadSizeT - 1 => c % PadSizeT = c)
  BY <1>1
<1>3. a + b \in Int
  OBVIOUS
<1>. QED  BY <1>2, <1>3 DEF SizeSum

(* PutPaddingBT1 and PutPaddingBT2 keep the invariant: only of an array of *)
(* two bytes is the filling longer than the array.                         *)
LEMMA PutFilled ==
  ASSUME PadInv, padding = "idle", NEW M \in Messages, NEW n \in PadSizes, NEW type \in {1, 2},
         PutPaddingBT(type, M, n)
  PROVE  PadInv'
<1>. DEFINE fill == SizeSum(n - Len(M), -3)
            refused == Len(M) > SizeSum(n, -3) \/ n < 2 \/ SizeSum(2, fill) > n
<1>1. /\ M \in Seq(PadByte) /\ Len(M) \in Nat /\ n \in Nat /\ n < PadSizeT
      /\ 0 \in PadByte /\ 255 \in PadByte /\ type \in PadByte
      /\ RandomBytes \subseteq PadByte /\ PadSizeT \in Nat
  BY PaddingAssumption DEF PadByte
<1>2. /\ scheme' = IF type = 1 THEN "BT1" ELSE "BT2"
      /\ message' = M /\ offset' = 0
  BY DEF PutPaddingBT, PadInv
<1>3. fill \in Nat
  <2>1. n - Len(M) \in Int /\ -3 \in Int
    BY <1>1
  <2>. QED  BY <2>1, SumIs
<1>4. ~refused /\ 2 + fill > n => n = 2
  <2>. SUFFICES ASSUME ~refused, 2 + fill > n, n # 2 PROVE FALSE
    OBVIOUS
  <2>1. n >= 3
    BY <1>1
  <2>2. SizeSum(n, -3) = n - 3
    <3>1. n + -3 \in 0 .. PadSizeT - 1 /\ -3 \in Int /\ n + -3 = n - 3
      BY <1>1, <2>1
    <3>. QED  BY <1>1, <3>1, SumIs
  <2>3. Len(M) <= n - 3
    BY <1>1, <2>2
  <2>4. fill = n - Len(M) - 3
    <3>. DEFINE d == n - Len(M)
    <3>1. d \in Int /\ d + -3 \in 0 .. PadSizeT - 1 /\ -3 \in Int /\ d + -3 = n - Len(M) - 3
      BY <1>1, <2>1, <2>3
    <3>. HIDE DEF d
    <3>2. SizeSum(d, -3) = d + -3
      BY <3>1, SumIs
    <3>. QED  BY <3>1, <3>2 DEF d
  <2>. HIDE DEF fill
  <2>. QED  BY <1>1, <2>1, <2>3, <2>4
<1>. HIDE DEF fill, refused
<1>5. CASE array' = Repeat(0, n) /\ (padding' = "notPadded" \/ (padding' = "undefined" /\ n = 2))
  <2>1. array' \in Seq(PadByte) /\ Len(array') = n
    BY <1>1, <1>5, RepeatIs
  <2>2. PadTypeOK'
    BY <1>1, <1>2, <1>5, <2>1 DEF PadTypeOK
  <2>. QED  BY <1>2, <1>5, <2>1, <2>2 DEF PadInv, PadShape, PadInverse, PadLengths
<1>6. ASSUME padding' = "padded", NEW F \in Filled(type, fill), array' = <<0, type>> \o F \o << 0 >> \o M
      PROVE  PadInv'
  <2>1. F \in Seq(PadByte) /\ (type = 1 => F = Repeat(255, fill))
    <3>1. CASE type = 1
      BY <1>1, <1>3, <1>6, <3>1, RepeatIs DEF Filled
    <3>2. CASE type # 1
      <4>1. F \in [1 .. fill -> PadByte]
        BY <1>1, <1>6, <3>2 DEF Filled
      <4>. QED  BY <1>3, <3>2, <4>1
    <3>. QED  BY <3>1, <3>2
  <2>2. PaddedLeft(array', type, F, message')
    BY <1>1, <1>2, <1>6, <2>1, LeftIs
  <2>3. PadTypeOK'
    <3>1. array' \in Seq(PadByte)
      BY <2>2 DEF PaddedLeft
    <3>2. Len(array') \in Nat
      BY <3>1
    <3>. QED  BY <1>1, <1>2, <1>6, <3>1, <3>2 DEF PadTypeOK
  <2>4. PadShape'
    BY <1>2, <1>3, <2>1, <2>2 DEF PadShape
  <2>5. PadLengths' /\ PadInverse' /\ offset' = 0
    BY <1>2, <1>6 DEF PadLengths, PadInverse
  <2>. QED  BY <2>3, <2>4, <2>5 DEF PadInv
<1>7. \/ array' = Repeat(0, n) /\ (padding' = "notPadded" \/ (padding' = "undefined" /\ n = 2))
      \/ padding' = "padded" /\ \E F \in Filled(type, fill) : array' = <<0, type>> \o F \o <<0>> \o M
  BY <1>4 DEF PutPaddingBT, fill, refused
<1>. QED  BY <1>5, <1>6, <1>7

(* The padded lengths are whole blocks, the next ones; also those that the *)
(* mask of ISOPadLen16 computes.                                           *)
LEMMA PadLens ==
  ASSUME NEW n \in Nat
  PROVE  /\ ISOPadLen(n) \in Nat /\ ISOPadLen(n) % 8 = 0 /\ ISOPadLen(n) - n \in 1 .. 8
         /\ ISOPadLen16(n) \in Nat /\ ISOPadLen16(n) % 16 = 0 /\ ISOPadLen16(n) - n \in 1 .. 16
         /\ ANSIPadLen(n) \in Nat /\ ANSIPadLen(n) % 8 = 0 /\ ANSIPadLen(n) - n \in 0 .. 7
BY DEF ISOPadLen, ISOPadLen16, ANSIPadLen

(* The paddings after the message keep the invariant. *)
LEMMA PutRight ==
  ASSUME PadInv, padding = "idle", NEW M \in Messages, NEW s \in {"ISO", "ISO16", "ANSI"},
         PadRight(s, M)
  PROVE  PadInv'
<1>1. M \in Seq(PadByte) /\ Len(M) \in Nat /\ 0 \in PadByte
  BY PaddingAssumption DEF PadByte
<1>2. padding' = "padded" /\ scheme' = s /\ message' = M /\ offset' = 0
  BY DEF PadRight, PadInv
<1>3. CASE s \in {"ISO", "ISO16"}
  <2>. DEFINE size == IF s = "ISO" THEN ISOPadLen(Len(M)) ELSE ISOPadLen16(Len(M))
              more == size - Len(M)
  <2>1. /\ size \in Nat /\ Len(M) < size
        /\ s = "ISO" => size % 8 = 0 /\ more \in 1 .. 8
        /\ s = "ISO16" => size % 16 = 0 /\ more \in 1 .. 16
    <3>. DEFINE c == ISOPadLen(Len(M))
                d == ISOPadLen16(Len(M))
    <3>1. /\ c \in Nat /\ c % 8 = 0 /\ c - Len(M) \in 1 .. 8
          /\ d \in Nat /\ d % 16 = 0 /\ d - Len(M) \in 1 .. 16
      BY <1>1, PadLens
    <3>. HIDE DEF c, d
    <3>2. Len(M) < c /\ Len(M) < d
      <4>1. \A x, y \in Nat : \A b \in Nat : x - y \in 1 .. b => y < x
        OBVIOUS
      <4>2. Len(M) \in Nat /\ c \in Nat /\ d \in Nat /\ 8 \in Nat /\ 16 \in Nat
        BY <1>1, <3>1
      <4>. QED  BY <3>1, <4>1, <4>2, Zenon
    <3>. QED  BY <1>3, <3>1, <3>2 DEF c, d
  <2>2. array' = ISOPad(M, size)
    BY <1>3 DEF PadRight
  <2>. HIDE DEF size
  <2>3. PaddedRight(array', M, size)
    BY <1>1, <2>1, <2>2, RightIs
  <2>4. array' \in Seq(PadByte) /\ Len(array') = size
    BY <2>3 DEF PaddedRight
  <2>5. PadTypeOK'
    BY <1>1, <1>2, <2>1, <2>4 DEF PadTypeOK
  <2>6. PadShape' /\ PadInverse' /\ PadLengths'
    BY <1>2, <1>3, <2>1, <2>3, <2>4 DEF PadShape, PadInverse, PadLengths
  <2>. QED  BY <1>2, <2>5, <2>6 DEF PadInv
<1>4. CASE s = "ANSI"
  <2>. DEFINE size == ANSIPadLen(Len(M))
              n == size - Len(M)
              R == Repeat(0, n)
  <2>1. size \in Nat /\ size % 8 = 0 /\ n \in 0 .. 7
    BY <1>1, PadLens
  <2>2. array' = M \o R
    BY <1>4 DEF PadRight
  <2>. HIDE DEF size
  <2>3. R \in Seq(PadByte) /\ Len(R) = n
    <3>. HIDE DEF n
    <3>. QED  BY <1>1, <2>1, RepeatIs
  <2>. HIDE DEF R
  <2>4. array' \in Seq(PadByte) /\ Len(array') = Len(M) + n
    <3>1. Joined(array', PadByte, M, R)
      BY <1>1, <2>2, <2>3, JoinedIs
    <3>. HIDE DEF n
    <3>. QED  BY <2>3, <3>1 DEF Joined
  <2>5. Len(array') = size
    BY <1>1, <2>1, <2>4
  <2>6. PadTypeOK'
    BY <1>1, <1>2, <1>4, <2>1, <2>4, <2>5 DEF PadTypeOK
  <2>7. PadShape' /\ PadInverse' /\ PadLengths'
    BY <1>2, <1>4, <2>1, <2>5 DEF PadShape, PadInverse, PadLengths
  <2>. QED  BY <1>2, <2>6, <2>7 DEF PadInv
<1>. QED  BY <1>3, <1>4

(* An array of another origin is no padded one. *)
LEMMA ReceiveInv ==
  ASSUME PadInv, padding = "idle", NEW a \in Paddings, NEW s \in {"BT1", "BT2", "ISO"},
         Receive(s, a)
  PROVE  PadInv'
<1>1. a \in Seq(PadByte)
  BY PaddingAssumption
<1>2. padding' = "received" /\ scheme' = s /\ array' = a /\ message' = message /\ offset' = 0
  BY DEF Receive, PadInv
<1>3. PadTypeOK'
  <2>1. Len(a) \in Nat
    BY <1>1
  <2>. QED  BY <1>1, <1>2, <2>1 DEF PadInv, PadTypeOK
<1>. QED  BY <1>2, <1>3 DEF PadInv, PadShape, PadInverse, PadLengths

(* The first zero behind the type. *)
LEMMA ZerosIs ==
  ASSUME PadTypeOK, Zeros # {}
  PROVE  /\ Min(Zeros) \in 3 .. Len(array) /\ array[Min(Zeros)] = 0
         /\ \A k \in 3 .. Min(Zeros) - 1 : array[k] # 0
         /\ \A k \in 3 .. Len(array) : array[k] = 0 => Min(Zeros) <= k
<1>1. Zeros \in SUBSET Nat
  BY DEF Zeros
<1>2. Min(Zeros) \in Zeros /\ \A y \in Zeros : Min(Zeros) <= y
  BY <1>1, MinOf
<1>3. /\ Min(Zeros) \in 3 .. Len(array) /\ array[Min(Zeros)] = 0
      /\ \A k \in 3 .. Len(array) : array[k] = 0 => Min(Zeros) <= k
  BY <1>2 DEF Zeros
<1>4. Len(array) \in Nat
  BY DEF PadTypeOK
<1>5. \A k \in 3 .. Min(Zeros) - 1 : k \in 3 .. Len(array) /\ ~(Min(Zeros) <= k)
  BY <1>3, <1>4
<1>. QED  BY <1>3, <1>5

(* The types, when an offset is returned or not. *)
LEMMA RemovedType ==
  ASSUME PadInv, padding \in {"padded", "received"}, Refuse \/ \E n \in 0 .. Len(array) : Return(n)
  PROVE  PadTypeOK'
BY DEF PadInv, PadTypeOK, Refuse, Return

(* Removing a padding of type 1 or 2 that was put: the first zero is the   *)
(* one after the filling or, of type 2, one that is in it.                 *)
LEMMA RemovePutBT ==
  ASSUME PadInv, padding = "padded", NEW type \in {1, 2},
         scheme = IF type = 1 THEN "BT1" ELSE "BT2",
         RemovePaddingBT(type)
  PROVE  PadInv'
<1>1. PICK F \in Seq(PadByte) : /\ PaddedLeft(array, type, F, message)
                                /\ type = 1 => \A k \in 1 .. Len(F) : F[k] = 255
  <2>1. CASE type = 1
    <3>1. PICK n \in Nat : PaddedLeft(array, 1, Repeat(255, n), message)
      BY <2>1 DEF PadInv, PadShape
    <3>2. 255 \in PadByte
      BY DEF PadByte
    <3>. QED  BY <2>1, <3>1, <3>2, RepeatIs
  <2>2. CASE type = 2
    BY <2>2 DEF PadInv, PadShape
  <2>. QED  BY <2>1, <2>2
<1>. DEFINE n == Len(F) + 3
            z == Min(Zeros)
<1>2. /\ array \in Seq(PadByte) /\ message \in Seq(PadByte) /\ Len(array) = n + Len(message)
      /\ n \in Nat /\ n >= 3 /\ Len(message) \in Nat /\ Len(array) \in Nat
      /\ array[1] = 0 /\ array[2] = type /\ array[n] = 0
      /\ \A k \in 1 .. Len(F) : array[k + 2] = F[k]
      /\ \A k \in 1 .. Len(message) : array[n + k] = message[k]
  BY <1>1 DEF PaddedLeft
<1>3. n \in Zeros
  BY <1>2 DEF Zeros
<1>4. /\ z \in 3 .. Len(array) /\ array[z] = 0
      /\ \A k \in 3 .. z - 1 : array[k] # 0
      /\ z <= n
  <2>1. PadTypeOK /\ Zeros # {} /\ n \in 3 .. Len(array)
    BY <1>2, <1>3 DEF PadInv
  <2>. HIDE DEF n
  <2>. QED  BY <1>2, <2>1, ZerosIs
<1>5. type = 1 => \A k \in 3 .. n - 1 : array[k] = 255
  <2>. SUFFICES ASSUME type = 1, NEW k \in 3 .. n - 1 PROVE array[k] = 255
    OBVIOUS
  <2>. DEFINE j == k - 2
  <2>1. j \in 1 .. Len(F) /\ j + 2 = k
    BY <1>2
  <2>. HIDE DEF j
  <2>2. array[j + 2] = F[j]
    BY <1>2, <2>1
  <2>3. F[j] = 255
    BY <1>1, <2>1
  <2>. QED  BY <2>1, <2>2, <2>3
<1>. HIDE DEF n, z
<1>6. type = 1 => z = n /\ \A k \in 3 .. z - 1 : array[k] = 255
  <2>. SUFFICES ASSUME type = 1, z # n PROVE FALSE
    BY <1>5
  <2>1. z \in 3 .. n - 1
    BY <1>2, <1>4
  <2>. QED  BY <1>4, <1>5, <2>1
<1>7. Return(z)
  BY <1>2, <1>3, <1>6 DEF RemovePaddingBT, z
<1>8. padding' = "removed" /\ offset' = z /\ UNCHANGED <<scheme, message, array>>
  BY <1>7 DEF Return
<1>. DEFINE Rest == SubSeq(array, z + 1, Len(array))
<1>9. z = n => Rest = message
  <2>1. Ends(array, PadByte, n, message)
    BY <1>2 DEF Ends
  <2>. QED  BY <2>1, AfterIs
<1>10. z # n => /\ IsSuffix(message, Rest)
                /\ 0 \in Range(SubSeq(array, 3, Len(array) - Len(message) - 1))
  <2>. SUFFICES ASSUME z < n
                PROVE  /\ IsSuffix(message, Rest)
                       /\ 0 \in Range(SubSeq(array, 3, Len(array) - Len(message) - 1))
    BY <1>2, <1>4
  <2>. DEFINE l == Len(array)
              d == n - z
  <2>1. /\ z \in Nat /\ l \in Nat /\ z <= l /\ l <= Len(array) /\ d \in Nat
        /\ l - z = d + Len(message)
    BY <1>2, <1>4
  <2>2. Rest \in Seq(PadByte) /\ Len(Rest) = l - z /\ \A k \in 1 .. l - z : Rest[k] = array[z + k]
    <3>1. Rest = SubSeq(array, z + 1, l)
      OBVIOUS
    <3>. HIDE DEF l, Rest
    <3>2. array \in Seq(PadByte) /\ z \in Nat /\ l \in Nat /\ z <= l /\ l <= Len(array)
      BY <1>2, <2>1
    <3>3. /\ SubSeq(array, z + 1, l) \in Seq(PadByte) /\ Len(SubSeq(array, z + 1, l)) = l - z
          /\ \A k \in 1 .. l - z : SubSeq(array, z + 1, l)[k] = array[z + k]
      BY <3>2, SubSeqIs
    <3>. QED  BY <3>1, <3>3
  <2>3. ASSUME NEW k \in 1 .. Len(message) PROVE Rest[d + k] = message[k]
    <3>1. d + k \in 1 .. l - z /\ z + (d + k) = n + k
      BY <1>2, <1>4
    <3>. HIDE DEF Rest, d, l
    <3>. QED  BY <1>2, <2>2, <3>1
  <2>4. Ends(Rest, PadByte, d, message)
    <3>. HIDE DEF Rest, d, l
    <3>. QED  BY <1>2, <2>1, <2>2, <2>3 DEF Ends
  <2>5. IsSuffix(message, Rest)
    <3>. HIDE DEF Rest, d
    <3>. QED  BY <2>4, SuffixIs
  <2>6. 0 \in Range(SubSeq(array, 3, Len(array) - Len(message) - 1))
    <3>. DEFINE e == n - 1
                j == z - 2
                S == SubSeq(array, 3, e)
    <3>1. /\ Len(array) - Len(message) - 1 = e /\ 2 \in Nat /\ 2 + 1 = 3
          /\ e \in Nat /\ 2 <= e /\ e <= Len(array)
          /\ j \in 1 .. e - 2 /\ 2 + j = z
      BY <1>2, <1>4
    <3>. HIDE DEF e, j
    <3>2. /\ S \in Seq(PadByte) /\ Len(S) = e - 2 /\ \A k \in 1 .. e - 2 : S[k] = array[2 + k]
      <4>1. /\ SubSeq(array, 2 + 1, e) \in Seq(PadByte) /\ Len(SubSeq(array, 2 + 1, e)) = e - 2
            /\ \A k \in 1 .. e - 2 : SubSeq(array, 2 + 1, e)[k] = array[2 + k]
        BY <1>2, <3>1, SubSeqIs
      <4>. QED  BY <3>1, <4>1
    <3>3. j \in DOMAIN S /\ S[j] = 0
      <4>. HIDE DEF S
      <4>. QED  BY <1>4, <3>1, <3>2
    <3>. QED  BY <3>1, <3>3 DEF Range
  <2>. QED  BY <2>5, <2>6
<1>11. PadInverse'
  <2>1. AfterOffset' = Rest
    BY <1>8 DEF AfterOffset
  <2>. HIDE DEF Rest
  <2>. QED  BY <1>6, <1>8, <1>9, <1>10, <2>1 DEF PadInverse
<1>12. PadTypeOK'
  <2>1. z \in 0 .. Len(array)
    BY <1>2, <1>4
  <2>. QED  BY <1>7, <2>1, RemovedType
<1>. QED  BY <1>8, <1>11, <1>12 DEF PadInv, PadShape, PadLengths

(* Removing a padding after the message that was put: its mark is the last *)
(* byte that is not zero.                                                  *)
LEMMA RemovePutISO ==
  ASSUME PadInv, padding = "padded", scheme \in {"ISO", "ISO16"}, RemoveISOPad
  PROVE  PadInv'
<1>. DEFINE marks == {k \in DOMAIN array : array[k] # 0}
            n == Len(message)
<1>1. /\ array \in Seq(PadByte) /\ message \in Seq(PadByte)
      /\ Len(array) \in Nat /\ n \in Nat /\ n < Len(array)
      /\ \A k \in 1 .. n : array[k] = message[k]
      /\ array[n + 1] = 128
      /\ \A k \in n + 2 .. Len(array) : array[k] = 0
  BY DEF PadInv, PadShape, PaddedRight
<1>2. n + 1 \in marks /\ marks \in SUBSET Int /\ \A k \in marks : k <= n + 1
  <2>1. n + 1 \in DOMAIN array /\ DOMAIN array = 1 .. Len(array)
    BY <1>1
  <2>2. ASSUME NEW k \in 1 .. Len(array), array[k] # 0 PROVE k <= n + 1
    <3>1. k > n + 1 => k \in n + 2 .. Len(array)
      BY <1>1
    <3>. QED  BY <1>1, <2>2, <3>1
  <2>. QED  BY <1>1, <2>1, <2>2
<1>3. Max(marks) = n + 1
  <2>. HIDE DEF marks
  <2>. QED  BY <1>1, <1>2, MaxIs
<1>4. Return(n)
  <2>1. marks # {} /\ array[Max(marks)] = 128
    BY <1>1, <1>2, <1>3
  <2>2. Max(marks) - 1 = n
    BY <1>1, <1>3
  <2>. HIDE DEF n
  <2>. QED  BY <2>1, <2>2 DEF RemoveISOPad
<1>5. padding' = "removed" /\ offset' = n /\ UNCHANGED <<scheme, message, array>>
  BY <1>4 DEF Return
<1>6. SubSeq(array, 1, n) = message
  BY <1>1, BeforeIs
<1>7. PadInverse'
  <2>1. BeforeOffset' = message
    BY <1>5, <1>6 DEF BeforeOffset
  <2>. QED  BY <1>5, <2>1 DEF PadInverse
<1>8. PadTypeOK'
  <2>1. n \in 0 .. Len(array)
    BY <1>1
  <2>. HIDE DEF n
  <2>. QED  BY <1>4, <2>1, RemovedType
<1>. QED  BY <1>5, <1>7, <1>8 DEF PadInv, PadShape, PadLengths

(* A padding that was not put here: what is before the offset is one that  *)
(* PutPaddingBT1 or PutPaddingBT2 could have put.                          *)
LEMMA RemoveReceivedBT ==
  ASSUME PadInv, padding = "received", NEW type \in {1, 2},
         scheme = IF type = 1 THEN "BT1" ELSE "BT2",
         RemovePaddingBT(type)
  PROVE  PadInv'
<1>1. PadTypeOK /\ array \in Seq(PadByte) /\ Len(array) \in Nat
  BY DEF PadInv, PadTypeOK
<1>2. CASE Refuse
  <2>1. padding' = "rejected" /\ offset' = 0
    BY <1>2 DEF Refuse, PadInv
  <2>2. PadTypeOK'
    BY <1>2, RemovedType
  <2>. QED  BY <2>1, <2>2 DEF PadInv, PadShape, PadInverse, PadLengths
<1>3. CASE ~Refuse
  <2>. DEFINE z == Min(Zeros)
  <2>1. /\ Zeros # {} /\ array[1] = 0 /\ array[2] = type
        /\ type = 1 => \A k \in 3 .. z - 1 : array[k] = 255
        /\ Return(z)
    BY <1>3 DEF RemovePaddingBT
  <2>2. /\ z \in 3 .. Len(array) /\ array[z] = 0
        /\ \A k \in 3 .. z - 1 : array[k] # 0
    BY <1>1, <2>1, ZerosIs
  <2>. HIDE DEF z
  <2>3. padding' = "stripped" /\ offset' = z /\ UNCHANGED <<scheme, message, array>>
    BY <2>1 DEF Return
  <2>. DEFINE Rest == SubSeq(array, z + 1, Len(array))
  <2>4. Rest \in Seq(PadByte) /\ Len(Rest) = Len(array) - z
        /\ \A k \in 1 .. Len(array) - z : Rest[k] = array[z + k]
    <3>. DEFINE l == Len(array)
    <3>1. z \in Nat /\ l \in Nat /\ z <= l /\ l <= Len(array)
      BY <1>1, <2>2
    <3>. HIDE DEF l
    <3>2. /\ SubSeq(array, z + 1, l) \in Seq(PadByte) /\ Len(SubSeq(array, z + 1, l)) = l - z
          /\ \A k \in 1 .. l - z : SubSeq(array, z + 1, l)[k] = array[z + k]
      BY <1>1, <3>1, SubSeqIs
    <3>. QED  BY <3>2 DEF l
  <2>. HIDE DEF Rest
  <2>5. type = 1 => array = <<0, 1>> \o Repeat(255, z - 3) \o <<0>> \o Rest
    <3>. SUFFICES ASSUME type = 1
                  PROVE  array = <<0, 1>> \o Repeat(255, z - 3) \o <<0>> \o Rest
      OBVIOUS
    <3>. DEFINE n == z - 3
                F == Repeat(255, n)
                a == <<0, 1>> \o F \o <<0>> \o Rest
    <3>1. n \in Nat /\ n + 3 = z /\ 255 \in PadByte /\ 1 \in PadByte
      BY <2>2 DEF PadByte
    <3>. HIDE DEF n
    <3>2. F \in Seq(PadByte) /\ Len(F) = n /\ \A k \in 1 .. n : F[k] = 255
      BY <3>1, RepeatIs
    <3>. HIDE DEF F
    <3>3. PaddedLeft(a, 1, F, Rest)
      BY <2>4, <3>1, <3>2, LeftIs
    <3>. HIDE DEF a
    <3>4. /\ a \in Seq(PadByte) /\ Len(a) = n + 3 + Len(Rest)
          /\ a[1] = 0 /\ a[2] = 1 /\ a[n + 3] = 0
          /\ \A k \in 1 .. n : a[k + 2] = 255
          /\ \A k \in 1 .. Len(Rest) : a[n + 3 + k] = Rest[k]
      BY <3>2, <3>3 DEF PaddedLeft
    <3>5. Len(a) = Len(array)
      <4>1. Len(Rest) = Len(array) - z
        BY <2>4
      <4>2. Len(a) = n + 3 + Len(Rest)
        BY <3>4
      <4>3. n + 3 = z /\ n \in Nat /\ z \in Nat /\ Len(array) \in Nat
        BY <1>1, <2>2, <3>1
      <4>. DEFINE x == Len(Rest)
                  y == Len(a)
                  l == Len(array)
      <4>. HIDE DEF x, y, l
      <4>4. x = l - z /\ y = n + 3 + x /\ l \in Nat
        BY <4>1, <4>2, <4>3 DEF x, y, l
      <4>5. y = l
        BY <4>3, <4>4
      <4>. QED  BY <4>5 DEF y, l
    <3>6. ASSUME NEW k \in 1 .. Len(array) PROVE a[k] = array[k]
      <4>1. CASE k \in 3 .. z - 1
        <5>. DEFINE j == k - 2
        <5>1. j \in 1 .. n /\ j + 2 = k
          BY <2>2, <3>1, <4>1
        <5>. HIDE DEF j
        <5>2. a[k] = 255
          BY <3>4, <5>1
        <5>. QED  BY <2>1, <4>1, <5>2
      <4>2. CASE k > z
        <5>. DEFINE j == k - z
        <5>1. j \in 1 .. Len(array) - z /\ z + j = k
          BY <1>1, <2>2, <4>2
        <5>. HIDE DEF j
        <5>2. a[z + j] = Rest[j] /\ Rest[j] = array[z + j]
          BY <2>4, <3>1, <3>4, <5>1
        <5>. QED  BY <5>1, <5>2
      <4>3. k = 1 \/ k = 2 \/ k = z \/ k \in 3 .. z - 1 \/ k > z
        BY <1>1, <2>2
      <4>. QED  BY <2>1, <2>2, <3>1, <3>4, <4>1, <4>2, <4>3
    <3>7. a = array
      BY <1>1, <3>4, <3>5, <3>6
    <3>. QED  BY <3>7 DEF a, F, n
  <2>6. type = 2 => /\ SubSeq(array, 1, 2) = <<0, 2>> /\ array[z] = 0
                    /\ 0 \notin Range(SubSeq(array, 3, z - 1))
    <3>. SUFFICES ASSUME type = 2
                  PROVE  /\ SubSeq(array, 1, 2) = <<0, 2>> /\ array[z] = 0
                         /\ 0 \notin Range(SubSeq(array, 3, z - 1))
      OBVIOUS
    <3>1. SubSeq(array, 1, 2) = <<0, 2>>
      <4>. DEFINE p == <<0, 2>>
      <4>1. p \in Seq(PadByte) /\ Len(p) = 2 /\ p[1] = 0 /\ p[2] = 2
        BY DEF PadByte
      <4>. HIDE DEF p
      <4>2. Len(p) <= Len(array) /\ \A k \in 1 .. Len(p) : array[k] = p[k]
        BY <1>1, <2>1, <2>2, <4>1
      <4>3. SubSeq(array, 1, Len(p)) = p
        BY <1>1, <4>1, <4>2, BeforeIs
      <4>. QED  BY <4>1, <4>3 DEF p
    <3>2. 0 \notin Range(SubSeq(array, 3, z - 1))
      <4>. DEFINE e == z - 1
                  S == SubSeq(array, 3, e)
      <4>1. /\ 2 \in Nat /\ 2 + 1 = 3 /\ e \in Nat /\ 2 <= e /\ e <= Len(array)
            /\ \A k \in 1 .. e - 2 : 2 + k \in 3 .. z - 1
        BY <1>1, <2>2
      <4>. HIDE DEF e
      <4>2. S \in Seq(PadByte) /\ Len(S) = e - 2 /\ \A k \in 1 .. e - 2 : S[k] = array[2 + k]
        <5>1. /\ SubSeq(array, 2 + 1, e) \in Seq(PadByte) /\ Len(SubSeq(array, 2 + 1, e)) = e - 2
              /\ \A k \in 1 .. e - 2 : SubSeq(array, 2 + 1, e)[k] = array[2 + k]
          BY <1>1, <4>1, SubSeqIs
        <5>. QED  BY <4>1, <5>1
      <4>3. \A k \in DOMAIN S : S[k] # 0
        <5>. HIDE DEF S
        <5>. SUFFICES ASSUME NEW k \in 1 .. e - 2 PROVE S[k] # 0
          BY <4>2
        <5>1. S[k] = array[2 + k] /\ 2 + k \in 3 .. z - 1
          BY <4>1, <4>2
        <5>. QED  BY <2>2, <5>1
      <4>. QED  BY <4>3 DEF Range, e
    <3>. QED  BY <2>2, <3>1, <3>2
  <2>7. PadInverse'
    <3>1. AfterOffset' = Rest
      BY <2>3 DEF AfterOffset, Rest
    <3>. QED  BY <2>3, <2>5, <2>6, <3>1 DEF PadInverse
  <2>8. PadTypeOK'
    <3>1. z \in 0 .. Len(array)
      BY <1>1, <2>2
    <3>. QED  BY <2>1, <3>1, RemovedType
  <2>. QED  BY <2>3, <2>7, <2>8 DEF PadInv, PadShape, PadLengths
<1>. QED  BY <1>2, <1>3

(* The same after a message: what is before the offset, padded, is the     *)
(* array.                                                                  *)
LEMMA RemoveReceivedISO ==
  ASSUME PadInv, padding = "received", scheme = "ISO", RemoveISOPad
  PROVE  PadInv'
<1>1. PadTypeOK /\ array \in Seq(PadByte) /\ Len(array) \in Nat
  BY DEF PadInv, PadTypeOK
<1>2. CASE Refuse
  <2>1. padding' = "rejected" /\ offset' = 0
    BY <1>2 DEF Refuse, PadInv
  <2>2. PadTypeOK'
    BY <1>2, RemovedType
  <2>. QED  BY <2>1, <2>2 DEF PadInv, PadShape, PadInverse, PadLengths
<1>3. CASE ~Refuse
  <2>. DEFINE marks == {k \in DOMAIN array : array[k] # 0}
              n == Max(marks)
              o == n - 1
  <2>1. marks # {} /\ array[n] = 128 /\ Return(o)
    BY <1>3 DEF RemoveISOPad
  <2>2. n \in 1 .. Len(array) /\ \A k \in marks : k <= n
    <3>1. marks \in SUBSET (0 .. Len(array)) /\ marks \subseteq 1 .. Len(array)
      BY <1>1
    <3>2. n \in marks /\ \A k \in marks : k <= n
      <4>. HIDE DEF marks
      <4>. QED  BY <1>1, <2>1, <3>1, MaxOf
    <3>. QED  BY <3>1, <3>2
  <2>3. \A k \in n + 1 .. Len(array) : array[k] = 0
    <3>. SUFFICES ASSUME NEW k \in n + 1 .. Len(array), array[k] # 0 PROVE FALSE
      OBVIOUS
    <3>1. k \in 1 .. Len(array) /\ ~(k <= n)
      BY <1>1, <2>2
    <3>2. k \in marks
      BY <1>1, <3>1
    <3>. QED  BY <2>2, <3>1, <3>2
  <2>. HIDE DEF marks, n
  <2>4. o \in Nat /\ o + 1 = n /\ o < Len(array) /\ o <= Len(array)
    BY <1>1, <2>2
  <2>. HIDE DEF o
  <2>5. padding' = "stripped" /\ offset' = o /\ UNCHANGED <<scheme, message, array>>
    BY <2>1 DEF Return
  <2>. DEFINE B == SubSeq(array, 1, o)
              a == ISOPad(B, Len(array))
  <2>6. B \in Seq(PadByte) /\ Len(B) = o /\ \A k \in 1 .. o : B[k] = array[k]
    BY <1>1, <2>4
  <2>. HIDE DEF B
  <2>7. PaddedRight(a, B, Len(array))
    BY <1>1, <2>4, <2>6, RightIs
  <2>. HIDE DEF a
  <2>8. /\ a \in Seq(PadByte) /\ Len(a) = Len(array)
        /\ \A k \in 1 .. o : a[k] = B[k]
        /\ a[o + 1] = 128
        /\ \A k \in o + 2 .. Len(array) : a[k] = 0
    BY <2>6, <2>7 DEF PaddedRight
  <2>9. ASSUME NEW k \in 1 .. Len(array) PROVE a[k] = array[k]
    <3>1. k \in 1 .. o \/ k = o + 1 \/ (k \in o + 2 .. Len(array) /\ k \in n + 1 .. Len(array))
      BY <1>1, <2>4
    <3>. QED  BY <2>1, <2>3, <2>4, <2>6, <2>8, <3>1
  <2>10. a = array
    BY <1>1, <2>8, <2>9
  <2>11. PadInverse'
    <3>1. BeforeOffset' = B
      BY <2>5 DEF BeforeOffset, B
    <3>2. array = ISOPad(B, Len(array))
      BY <2>10 DEF a
    <3>. QED  BY <2>5, <3>1, <3>2 DEF PadInverse
  <2>12. PadTypeOK'
    <3>1. o \in 0 .. Len(array)
      BY <1>1, <2>4
    <3>. QED  BY <2>1, <3>1, RemovedType
  <2>. QED  BY <2>5, <2>11, <2>12 DEF PadInv, PadShape, PadLengths
<1>. QED  BY <1>2, <1>3

(* Nothing is padded at first. *)
LEMMA PadInitInv == PadInit => PadInv
BY DEF PadInit, PadInv, PadTypeOK, PadShape, PadInverse, PadLengths

(* Every step keeps the invariant of the paddings. *)
LEMMA PadStep == PadInv /\ [PadNext]_padvars => PadInv'
<1>. SUFFICES ASSUME PadInv, [PadNext]_padvars PROVE PadInv'
  OBVIOUS
<1>1. CASE UNCHANGED padvars
  <2>1. /\ scheme' = scheme /\ message' = message /\ array' = array
        /\ offset' = offset /\ padding' = padding
    BY <1>1 DEF padvars
  <2>2. PadTypeOK'
    BY <2>1 DEF PadInv, PadTypeOK
  <2>3. PadShape'
    BY <2>1 DEF PadInv, PadShape
  <2>4. PadInverse'
    BY <2>1 DEF PadInv, PadInverse, AfterOffset, BeforeOffset
  <2>5. PadLengths'
    BY <2>1 DEF PadInv, PadLengths
  <2>. QED  BY <2>1, <2>2, <2>3, <2>4, <2>5 DEF PadInv
<1>2. ASSUME padding = "idle", NEW m \in Messages, NEW n \in PadSizes,
             PutPaddingBT0(m, n) \/ PutPaddingBT(1, m, n) \/ PutPaddingBT(2, m, n)
      PROVE  PadInv'
  <2>1. CASE PutPaddingBT0(m, n)
    BY <1>2, <2>1, PutLeft
  <2>2. CASE PutPaddingBT(1, m, n)
    BY <1>2, <2>2, PutFilled
  <2>3. CASE PutPaddingBT(2, m, n)
    BY <1>2, <2>3, PutFilled
  <2>. QED  BY <1>2, <2>1, <2>2, <2>3
<1>3. ASSUME padding = "idle", NEW m \in Messages, NEW s \in {"ISO", "ISO16", "ANSI"}, PadRight(s, m)
      PROVE  PadInv'
  BY <1>3, PutRight
<1>4. ASSUME padding = "idle", NEW a \in Paddings, NEW s \in {"BT1", "BT2", "ISO"}, Receive(s, a)
      PROVE  PadInv'
  BY <1>4, ReceiveInv
<1>5. CASE RemovePadded
  <2>1. CASE scheme = "BT1"
    BY <1>5, <2>1, RemovePutBT DEF RemovePadded
  <2>2. CASE scheme = "BT2"
    BY <1>5, <2>2, RemovePutBT DEF RemovePadded
  <2>3. CASE scheme \in {"ISO", "ISO16"}
    BY <1>5, <2>3, RemovePutISO DEF RemovePadded
  <2>. QED  BY <1>5, <2>1, <2>2, <2>3 DEF RemovePadded
<1>6. CASE RemoveReceived
  <2>1. CASE scheme = "BT1"
    BY <1>6, <2>1, RemoveReceivedBT DEF RemoveReceived
  <2>2. CASE scheme = "BT2"
    BY <1>6, <2>2, RemoveReceivedBT DEF RemoveReceived
  <2>3. CASE scheme = "ISO"
    BY <1>6, <2>3, RemoveReceivedISO DEF RemoveReceived
  <2>. QED  BY <1>6, <2>1, <2>2, <2>3 DEF RemoveReceived
<1>. QED  BY <1>1, <1>2, <1>3, <1>4, <1>5, <1>6 DEF PadNext

(* An array that was padded has the shape of its padding, whatever the     *)
(* sizes.                                                                  *)
THEOREM PaddingInvariance == PadSpec => []PadInv
<1>1. PadInit => PadInv
  BY PadInitInv
<1>2. PadInv /\ [PadNext]_padvars => PadInv'
  BY PadStep
<1>. QED  BY <1>1, <1>2, PTL DEF PadSpec

(* Whatever is padded, and whatever the random bytes: removing a padding   *)
(* that was put gives the message back, or of type 2 an end of it that is  *)
(* longer by some filling; and what a removal accepts is the result of     *)
(* putting a padding.                                                      *)
THEOREM PaddingsAreInverse == PadSpec => []PadInverse
<1>1. PadInv => PadInverse
  BY DEF PadInv
<1>. QED  BY <1>1, PaddingInvariance, PTL

(* A padded array is whole blocks for every length of message, and the     *)
(* sums of size_t that wrap around let the filling leave the array only if *)
(* that has two bytes.                                                     *)
THEOREM PaddingsFillBlocks == PadSpec => []PadLengths
<1>1. PadInv => PadLengths
  BY DEF PadInv
<1>. QED  BY <1>1, PaddingInvariance, PTL

-----------------------------------------------------------------------------
(* Texts of bytes. *)

(* The digits, and that no other character is one. *)
LEMMA DigitIs ==
  /\ DOMAIN Digit \subseteq Char
  /\ \A c \in DOMAIN Digit : /\ Digit[c] \in 0 .. 15
                             /\ c \notin {" ", ",", "x", "h", "other", "NUL"}
  /\ Digit["0"] = 0
  /\ \A d \in 0 .. 15 : \E c \in DOMAIN Digit \ {"a"} : Digit[c] = d
<1>1. DOMAIN Digit = {"0", "1", "2", "3", "4", "5", "6", "7", "8", "9", "A", "B", "C",
                      "D", "E", "F", "a"}
  BY DEF Digit
<1>2. /\ Digit["0"] = 0 /\ Digit["1"] = 1 /\ Digit["2"] = 2 /\ Digit["3"] = 3
      /\ Digit["4"] = 4 /\ Digit["5"] = 5 /\ Digit["6"] = 6 /\ Digit["7"] = 7
  BY DEF Digit
<1>3. /\ Digit["8"] = 8 /\ Digit["9"] = 9 /\ Digit["A"] = 10 /\ Digit["a"] = 10
      /\ Digit["B"] = 11 /\ Digit["C"] = 12 /\ Digit["D"] = 13
      /\ Digit["E"] = 14 /\ Digit["F"] = 15
  BY DEF Digit
<1>4. DOMAIN Digit \subseteq Char
  BY DEF Char
<1>5. ASSUME NEW c \in DOMAIN Digit
      PROVE  Digit[c] \in 0 .. 15 /\ c \notin {" ", ",", "x", "h", "other", "NUL"}
  <2>1. CASE c \in {"0", "1", "2", "3", "4", "5", "6", "7"}
    <3>1. Digit[c] \in 0 .. 15
      BY <2>1, <1>2
    <3>2. c \notin {" ", ",", "x", "h", "other", "NUL"}
      BY <2>1
    <3>. QED  BY <3>1, <3>2
  <2>2. CASE c \in {"8", "9", "A", "a", "B", "C", "D", "E", "F"}
    <3>1. Digit[c] \in 0 .. 15
      BY <2>2, <1>3
    <3>2. c \notin {" ", ",", "x", "h", "other", "NUL"}
      BY <2>2
    <3>. QED  BY <3>1, <3>2
  <2>. QED  BY <1>1, <2>1, <2>2
<1>6. ASSUME NEW d \in 0 .. 15 PROVE \E c \in DOMAIN Digit \ {"a"} : Digit[c] = d
  <2>1. CASE d \in 0 .. 7
    BY <2>1, <1>1, <1>2
  <2>2. CASE d \in 8 .. 15
    BY <2>2, <1>1, <1>3
  <2>. QED  BY <2>1, <2>2
<1>. QED  BY <1>2, <1>4, <1>5, <1>6

(* HexOf chooses the digit of a value. *)
LEMMA HexOfIs ==
  ASSUME NEW d \in 0 .. 15
  PROVE  HexOf(d) \in DOMAIN Digit /\ Digit[HexOf(d)] = d
<1>1. \E c \in DOMAIN Digit \ {"a"} : Digit[c] = d
  BY DigitIs
<1>. QED  BY <1>1 DEF HexOf

(* The two characters of a byte. *)
LEMMA PairIs ==
  ASSUME NEW b \in 0 .. 255
  PROVE  /\ HexOf(b \div 16) \in DOMAIN Digit /\ HexOf(b % 16) \in DOMAIN Digit
         /\ Digit[HexOf(b \div 16)] * 16 + Digit[HexOf(b % 16)] = b
         /\ HexOf(b \div 16) = "0" => Digit[HexOf(b % 16)] = b
<1>. DEFINE h == b \div 16
            l == b % 16
<1>1. h \in 0 .. 15 /\ l \in 0 .. 15 /\ h * 16 + l = b
  OBVIOUS
<1>. HIDE DEF h, l
<1>2. /\ HexOf(h) \in DOMAIN Digit /\ HexOf(l) \in DOMAIN Digit
      /\ Digit[HexOf(h)] = h /\ Digit[HexOf(l)] = l
  BY <1>1, HexOfIs
<1>3. HexOf(h) = "0" => Digit[HexOf(l)] = b
  <2>1. HexOf(h) = "0" => h = 0
    BY <1>2, DigitIs
  <2>. QED  BY <1>1, <1>2, <2>1
<1>. QED  BY <1>1, <1>2, <1>3 DEF h, l

(* Where the byte k + 1 begins in a dump, with spaces or without. *)
Begins(withSpace, k) == IF withSpace THEN k + k + k ELSE k + k

(* The text t is the dump of the first m bytes of d. *)
Dump(t, d, m, withSpace) ==
  /\ t \in Seq(Char) /\ Len(t) = Begins(withSpace, m)
  /\ \A k \in 0 .. m - 1 :
       /\ t[Begins(withSpace, k) + 1] = HexOf(d[k + 1] \div 16)
       /\ t[Begins(withSpace, k) + 2] = HexOf(d[k + 1] % 16)
       /\ withSpace => t[Begins(withSpace, k) + 3] = " "

(* One turn of dumpHexData. *)
AddByte(t, b, withSpace) ==
  t \o <<HexOf(b \div 16), HexOf(b % 16)>> \o IF withSpace THEN <<" ">> ELSE <<>>

(* u is t with the characters x and y and, if that is asked, a space. *)
Added(u, t, x, y, withSpace) ==
  /\ u \in Seq(Char) /\ Len(t) \in Nat /\ Len(u) = Len(t) + Begins(withSpace, 1)
  /\ \A k \in 1 .. Len(t) : u[k] = t[k]
  /\ u[Len(t) + 1] = x /\ u[Len(t) + 2] = y
  /\ withSpace => u[Len(t) + 3] = " "

(* What a turn of dumpHexData appends. *)
LEMMA AddByteIs ==
  ASSUME NEW t \in Seq(Char), NEW b \in 0 .. 255, NEW withSpace \in BOOLEAN
  PROVE  Added(AddByte(t, b, withSpace), t, HexOf(b \div 16), HexOf(b % 16), withSpace)
<1>. DEFINE x == HexOf(b \div 16)
            y == HexOf(b % 16)
<1>1. x \in Char /\ y \in Char
  BY PairIs, DigitIs
<1>2. " " \in Char
  BY DEF Char
<1>. HIDE DEF x, y
<1>. DEFINE p == t \o <<x, y>>
            s == <<" ">>
            u == p \o s
<1>3. /\ p \in Seq(Char) /\ Len(p) = Len(t) + 2 /\ Len(t) \in Nat
      /\ \A k \in 1 .. Len(t) : p[k] = t[k]
      /\ p[Len(t) + 1] = x /\ p[Len(t) + 2] = y
  BY <1>1
<1>4. s \in Seq(Char) /\ Len(s) = 1 /\ s[1] = " "
  BY <1>2, OneIs, Zenon
<1>. HIDE DEF p, s
<1>5. Joined(u, Char, p, s)
  BY <1>3, <1>4, JoinedIs
<1>. HIDE DEF u
<1>6. /\ u \in Seq(Char) /\ Len(u) = Len(t) + 3
      /\ \A k \in 1 .. Len(t) + 2 : u[k] = p[k]
      /\ u[Len(t) + 3] = " "
  <2>1. Len(t) + 2 + 1 = Len(t) + 3 /\ 1 \in 1 .. 1
    BY <1>3
  <2>. QED  BY <1>3, <1>4, <1>5, <2>1 DEF Joined
<1>7. CASE withSpace
  <2>1. u = AddByte(t, b, withSpace)
    BY <1>7 DEF AddByte, u, s, p, x, y
  <2>2. \A k \in 1 .. Len(t) : k \in 1 .. Len(t) + 2
    BY <1>3
  <2>3. Len(t) + 1 \in 1 .. Len(t) + 2 /\ Len(t) + 2 \in 1 .. Len(t) + 2
    BY <1>3
  <2>4. Begins(withSpace, 1) = 3
    BY <1>7 DEF Begins
  <2>5. Added(u, t, x, y, withSpace)
    BY <1>3, <1>6, <2>2, <2>3, <2>4 DEF Added
  <2>. QED  BY <2>1, <2>5 DEF x, y
<1>8. CASE ~withSpace
  <2>1. p \o <<>> = p
    BY <1>3
  <2>2. AddByte(t, b, withSpace) = p
    BY <1>8, <2>1 DEF AddByte, p, x, y
  <2>3. Begins(withSpace, 1) = 2
    BY <1>8 DEF Begins
  <2>4. Added(p, t, x, y, withSpace)
    BY <1>3, <1>8, <2>3 DEF Added
  <2>. QED  BY <2>2, <2>4 DEF x, y
<1>. QED  BY <1>7, <1>8

(* The dump goes on byte by byte. *)
LEMMA DumpStep ==
  ASSUME NEW t, NEW d \in Seq(0 .. 255), NEW m \in Nat, m < Len(d), NEW withSpace \in BOOLEAN,
         Dump(t, d, m, withSpace)
  PROVE  Dump(AddByte(t, d[m + 1], withSpace), d, m + 1, withSpace)
<1>. DEFINE b == d[m + 1]
            u == AddByte(t, b, withSpace)
            n == m + 1
<1>1. b \in 0 .. 255 /\ t \in Seq(Char) /\ Len(t) = Begins(withSpace, m)
  <2>1. m + 1 \in 1 .. Len(d)
    OBVIOUS
  <2>2. b \in 0 .. 255
    BY <2>1, ElementIs
  <2>. QED  BY <2>2 DEF Dump
<1>. HIDE DEF b
<1>2. Added(u, t, HexOf(b \div 16), HexOf(b % 16), withSpace)
  BY <1>1, AddByteIs
<1>3. n \in Nat /\ n - 1 = m
  OBVIOUS
<1>. HIDE DEF u
<1>4. u \in Seq(Char) /\ Len(u) = Begins(withSpace, n)
  <2>1. Begins(withSpace, m) + Begins(withSpace, 1) = Begins(withSpace, n)
    BY DEF Begins
  <2>. QED  BY <1>1, <1>2, <2>1 DEF Added
<1>5. ASSUME NEW k \in 0 .. n - 1
      PROVE  /\ u[Begins(withSpace, k) + 1] = HexOf(d[k + 1] \div 16)
             /\ u[Begins(withSpace, k) + 2] = HexOf(d[k + 1] % 16)
             /\ withSpace => u[Begins(withSpace, k) + 3] = " "
  <2>1. CASE k = m
    BY <1>1, <1>2, <2>1 DEF Added, b
  <2>2. CASE k \in 0 .. m - 1
    <3>. DEFINE p == Begins(withSpace, k)
    <3>1. p + 1 \in 1 .. Len(t) /\ p + 2 \in 1 .. Len(t) /\ (withSpace => p + 3 \in 1 .. Len(t))
      BY <1>1, <2>2 DEF Begins
    <3>. HIDE DEF p
    <3>2. u[p + 1] = t[p + 1] /\ u[p + 2] = t[p + 2] /\ (withSpace => u[p + 3] = t[p + 3])
      BY <1>2, <3>1 DEF Added
    <3>. QED  BY <2>2, <3>2 DEF Dump, p
  <2>3. k = m \/ k \in 0 .. m - 1
    BY <1>3
  <2>. QED  BY <2>1, <2>2, <2>3
<1>. HIDE DEF n
<1>6. Dump(u, d, n, withSpace)
  BY <1>4, <1>5 DEF Dump
<1>. QED  BY <1>6 DEF u, n, b

(* dumpHexData writes a dump of all of the bytes: induction over the fold. *)
LEMMA DumpIs ==
  ASSUME NEW d \in Seq(0 .. 255), NEW withSpace \in BOOLEAN
  PROVE  Dump(dumpHexData(d, withSpace), d, Len(d), withSpace)
<1>. DEFINE n == Len(d)
            X == Seq(Char)
            add(a, b) == AddByte(a, b, withSpace)
            op == [a \in X \X (1 .. n) |-> add(a[1], d[a[2]])]
            Iter(it) == it = [s \in SUBSET DOMAIN d |->
                        IF s = {} THEN <<>> ELSE add(it[s \ {Max(s)}], d[Max(s)])]
<1>1. n \in Nat /\ DOMAIN d = 1 .. n /\ n = Len(d) /\ \A j \in 1 .. n : d[j] \in 0 .. 255
  BY ElementIs
<1>2. <<>> \in X
  OBVIOUS
<1>3. ASSUME NEW a \in X, NEW b \in 0 .. 255 PROVE add(a, b) \in X
  BY AddByteIs DEF Added
<1>. HIDE DEF n, X, add
<1>4. op \in [X \X (1 .. n) -> X]
  <2>1. ASSUME NEW a \in X \X (1 .. n) PROVE add(a[1], d[a[2]]) \in X
    <3>1. a[1] \in X /\ a[2] \in 1 .. n
      OBVIOUS
    <3>. QED  BY <3>1, <1>1, <1>3
  <2>. QED  BY <2>1
<1>5. PICK it : FoldOf(it, n, X, <<>>, op)
  <2>. HIDE DEF op
  <2>. QED  BY <1>1, <1>2, <1>4, FoldExists
<1>6. Iter(it)
  <2>1. ASSUME NEW s \in SUBSET (1 .. n), s # {}
        PROVE  it[s] = add(it[s \ {Max(s)}], d[Max(s)])
    <3>. HIDE DEF op
    <3>1. Max(s) \in s /\ s \ {Max(s)} \in SUBSET (1 .. n)
      BY <2>1, <1>1, MaxOf
    <3>2. it[s \ {Max(s)}] \in X /\ Max(s) \in 1 .. n
      BY <3>1, <1>5 DEF FoldOf
    <3>3. op[<<it[s \ {Max(s)}], Max(s)>>] = add(it[s \ {Max(s)}], d[Max(s)])
      BY <3>2 DEF op
    <3>. QED  BY <2>1, <1>5, <3>3 DEF FoldOf
  <2>. HIDE DEF op
  <2>. QED  BY <2>1, <1>1, <1>5 DEF FoldOf
<1>. DEFINE F == CHOOSE f : Iter(f)
<1>7. dumpHexData(d, withSpace) = F[DOMAIN d]
  BY DEF dumpHexData, FoldLeft, MapThenFoldSet, add, AddByte
<1>8. Iter(F)
  <2>. HIDE DEF Iter
  <2>. QED  BY <1>6
<1>. HIDE DEF F
<1>9. F[1 .. 0] = <<>>
  <2>1. 1 .. 0 = {} /\ {} \in SUBSET DOMAIN d
    OBVIOUS
  <2>. QED  BY <2>1, <1>8
<1>10. ASSUME NEW m \in 0 .. n - 1 PROVE F[1 .. m + 1] = add(F[1 .. m], d[m + 1])
  <2>1. m \in Nat /\ 1 .. m + 1 \in SUBSET (1 .. n) /\ m + 1 \in 1 .. n
    BY <1>1
  <2>2. Max(1 .. m + 1) = m + 1 /\ (1 .. m + 1) \ {m + 1} = 1 .. m /\ 1 .. m + 1 # {}
    BY <2>1, MaxUpTo
  <2>. QED  BY <2>1, <2>2, <1>1, <1>8
<1>. HIDE DEF Iter
<1>. DEFINE T == {m \in 0 .. n : Dump(F[1 .. m], d, m, withSpace)}
<1>11. 0 \in T
  <2>1. Dump(<<>>, d, 0, withSpace)
    BY DEF Dump, Begins
  <2>. QED  BY <1>1, <1>9, <2>1
<1>12. ASSUME NEW m \in 0 .. n - 1, m \in T PROVE m + 1 \in T
  <2>1. m \in Nat /\ m < Len(d) /\ m + 1 \in 0 .. n
    BY <1>1
  <2>2. Dump(F[1 .. m], d, m, withSpace)
    BY <1>12
  <2>3. Dump(add(F[1 .. m], d[m + 1]), d, m + 1, withSpace)
    BY <2>1, <2>2, DumpStep DEF add
  <2>. QED  BY <1>10, <2>1, <2>3
<1>. HIDE DEF T
<1>13. n \in T
  <2>1. \A m \in 0 .. n : m \in T
    BY <1>1, <1>11, <1>12, Induction
  <2>. QED  BY <1>1, <2>1
<1>14. Dump(F[DOMAIN d], d, n, withSpace)
  BY <1>1, <1>13 DEF T
<1>. QED  BY <1>7, <1>14 DEF n

(* A byte that is read takes two characters, but for the last one. *)
LEMMA ReadTwoType ==
  ASSUME HexTypeOK, i < Len(text), CharAt(i) \in DOMAIN Digit, Read
  PROVE  HexTypeOK'
<1>. DEFINE c == IF CharAt(i + 1) \in DOMAIN Digit
                 THEN Digit[CharAt(i)] * 16 + Digit[CharAt(i + 1)] ELSE Digit[CharAt(i)]
<1>1. c \in 0 .. 255
  <2>1. \A d \in DOMAIN Digit : Digit[d] \in 0 .. 15
    BY DigitIs
  <2>2. \A x, y \in 0 .. 15 : x * 16 + y \in 0 .. 255 /\ x \in 0 .. 255
    OBVIOUS
  <2>3. CASE CharAt(i + 1) \in DOMAIN Digit
    BY <2>1, <2>2, <2>3
  <2>4. CASE CharAt(i + 1) \notin DOMAIN Digit
    BY <2>1, <2>2, <2>4
  <2>. QED  BY <2>3, <2>4
<1>2. /\ dt' = Append(dt, c) /\ i' \in {i + 2, i + 3} /\ (i' = i + 3 => i + 2 < Len(text))
      /\ UNCHANGED <<source, text, reading>>
  <2>1. dt' = Append(dt, c) /\ UNCHANGED <<source, text, reading>>
    BY DEF Read
  <2>2. i' \in {i + 2, i + 3} /\ (i' # i + 2 => i + 2 < Len(text))
    <3>1. i' = IF i + 2 < Len(text) /\ CharAt(i + 2) = "h" THEN i + 3 ELSE i + 2
      BY DEF Read
    <3>. QED  BY <3>1
  <2>3. i + 2 # i + 3
    BY DEF HexTypeOK
  <2>. QED  BY <2>1, <2>2, <2>3
<1>. HIDE DEF c
<1>3. dt \in Seq(0 .. 255) /\ i \in 0 .. Len(text) + 1 /\ 2 * Len(dt) <= i /\ Len(text) \in Nat
  BY DEF HexTypeOK
<1>4. dt' \in Seq(0 .. 255) /\ Len(dt') = Len(dt) + 1 /\ Len(dt) \in Nat
  BY <1>1, <1>2, <1>3
<1>5. i' \in 0 .. Len(text) + 1 /\ 2 * Len(dt') <= i'
  BY <1>2, <1>3, <1>4
<1>. QED  BY <1>2, <1>4, <1>5 DEF HexTypeOK

(* The index goes on within the text. *)
LEMMA GoType ==
  ASSUME HexTypeOK, i < Len(text), Go(1) \/ Go(2)
  PROVE  HexTypeOK'
<1>1. /\ i' \in {i + 1, i + 2} /\ UNCHANGED <<source, text, dt, reading>>
  BY DEF Go
<1>2. i \in 0 .. Len(text) + 1 /\ 2 * Len(dt) <= i /\ Len(text) \in Nat /\ Len(dt) \in Nat
  BY DEF HexTypeOK
<1>3. i' \in 0 .. Len(text) + 1 /\ 2 * Len(dt) <= i'
  BY <1>1, <1>2
<1>. QED  BY <1>1, <1>3 DEF HexTypeOK

(* A refusal leaves all as it is. *)
LEMMA RefusedType ==
  ASSUME HexTypeOK, Refused
  PROVE  HexTypeOK'
BY DEF HexTypeOK, Refused

(* What a turn does. *)
LEMMA ScanIs ==
  ASSUME Scan
  PROVE  \/ Go(1) \/ Go(2) \/ Refused
         \/ CharAt(i) \in DOMAIN Digit /\ Read
BY DEF Scan, ReadDigits

(* A turn keeps the types. *)
LEMMA ScanType ==
  ASSUME HexTypeOK, Scan
  PROVE  HexTypeOK'
<1>1. i < Len(text)
  BY DEF Scan
<1>. QED  BY <1>1, ScanIs, GoType, RefusedType, ReadTwoType

-----------------------------------------------------------------------------
(* How far the dump has been read. *)
HasRead(k) == Len(dt) = k /\ \A j \in 1 .. k : dt[j] = source[j]

(* At the begin of a byte; at the space after one; or in a text of two     *)
(* characters, where the first zero may be taken for the one before a h.   *)
DumpPlace(withSpace) ==
  \/ \E k \in 0 .. Len(source) : i = Begins(withSpace, k) /\ HasRead(k)
  \/ withSpace /\ \E k \in 1 .. Len(source) : i = Begins(withSpace, k) - 1 /\ HasRead(k)
  \/ /\ ~withSpace /\ Len(source) = 1 /\ text[1] = "0"
     /\ \/ i = 1 /\ dt = <<>>
        \/ i = 2 /\ text[2] = "0" /\ dt = <<>>
        \/ i = 3 /\ dt = source

(* What is read is a dump, so far. *)
ReadsDump ==
  /\ 3 * Len(source) < HexSizeT
  /\ \E withSpace \in BOOLEAN :
       Dump(text, source, Len(source), withSpace) /\ DumpPlace(withSpace)

(* The inductive invariant. *)
HexInv ==
  /\ HexTypeOK /\ HexRoundTrip
  /\ reading \in {"idle", "reading", "textRead", "refused"} => source = <<>>
  /\ reading = "readingDump" => ReadsDump

(* A turn at the begin of the byte k + 1 of a dump. *)
LEMMA TurnAtByte ==
  ASSUME HexInv, reading = "readingDump", Scan, NEW withSpace \in BOOLEAN,
         3 * Len(source) < HexSizeT, Dump(text, source, Len(source), withSpace),
         NEW k \in 0 .. Len(source), i = Begins(withSpace, k), HasRead(k)
  PROVE  /\ DumpPlace(withSpace)'
         /\ UNCHANGED <<source, text, reading>>
<1>. DEFINE n == Len(source)
            b == source[k + 1]
            x == HexOf(b \div 16)
            y == HexOf(b % 16)
<1>1. /\ source \in Seq(0 .. 255) /\ n \in Nat /\ text \in Seq(Char) /\ dt \in Seq(0 .. 255)
      /\ HexSizeT \in Nat /\ Len(text) = Begins(withSpace, n) /\ i \in Nat /\ i < Len(text)
  <2>1. /\ source \in Seq(0 .. 255) /\ text \in Seq(Char) /\ dt \in Seq(0 .. 255)
        /\ i \in 0 .. Len(text) + 1 /\ HexSizeT \in Nat
    BY HexAssumption DEF HexInv, HexTypeOK
  <2>2. i < Len(text)
    BY DEF Scan
  <2>3. Len(source) \in Nat /\ Len(text) \in Nat /\ Len(text) = Begins(withSpace, Len(source))
    <3>1. Len(text) = Begins(withSpace, Len(source))
      BY DEF Dump
    <3>. QED  BY <2>1, <3>1, ElementIs
  <2>4. i \in Nat
    BY <2>1, <2>3
  <2>. QED  BY <2>1, <2>2, <2>3, <2>4
<1>2. k \in 0 .. n - 1 /\ k + 1 \in 1 .. n /\ i + 2 <= Len(text)
      /\ (withSpace => i + 3 <= Len(text))
      /\ (i + 2 < Len(text) => 3 <= Len(text))
  BY <1>1 DEF Begins
<1>3. b \in 0 .. 255
  BY <1>1, <1>2, ElementIs
<1>4. /\ x \in DOMAIN Digit /\ y \in DOMAIN Digit /\ Digit[x] * 16 + Digit[y] = b
      /\ x = "0" => Digit[y] = b
  BY <1>3, PairIs
<1>5. text[i + 1] = x /\ text[i + 2] = y /\ (withSpace => text[i + 3] = " ")
  BY <1>2 DEF Dump
<1>. HIDE DEF n, b, x, y
<1>6. CharAt(i) = x /\ CharAt(i + 1) = y
  <2>1. i < Len(text) /\ i + 1 < Len(text) /\ (i + 1) + 1 = i + 2
    BY <1>1, <1>2
  <2>. QED  BY <1>5, <2>1 DEF CharAt
<1>7. \A p \in 0 .. Len(text) - 1 : text[p + 1] # "h"
  <2>. SUFFICES ASSUME NEW p \in 0 .. Len(text) - 1 PROVE text[p + 1] # "h"
    OBVIOUS
  <2>1. \A d \in 0 .. 255 : HexOf(d \div 16) # "h" /\ HexOf(d % 16) # "h"
    BY PairIs, DigitIs
  <2>2. \E j \in 0 .. n - 1 : \/ p + 1 = Begins(withSpace, j) + 1
                              \/ p + 1 = Begins(withSpace, j) + 2
                              \/ withSpace /\ p + 1 = Begins(withSpace, j) + 3
    <3>1. CASE withSpace
      <4>. DEFINE j == p \div 3
      <4>1. j \in 0 .. n - 1 /\ (p = j + j + j \/ p = j + j + j + 1 \/ p = j + j + j + 2)
        BY <1>1, <3>1 DEF Begins
      <4>. HIDE DEF j
      <4>. QED  BY <3>1, <4>1 DEF Begins
    <3>2. CASE ~withSpace
      <4>. DEFINE j == p \div 2
      <4>1. j \in 0 .. n - 1 /\ (p = j + j \/ p = j + j + 1)
        BY <1>1, <3>2 DEF Begins
      <4>. HIDE DEF j
      <4>. QED  BY <3>2, <4>1 DEF Begins
    <3>. QED  BY <3>1, <3>2
  <2>3. PICK j \in 0 .. n - 1 : \/ p + 1 = Begins(withSpace, j) + 1
                                \/ p + 1 = Begins(withSpace, j) + 2
                                \/ withSpace /\ p + 1 = Begins(withSpace, j) + 3
    BY <2>2
  <2>4. source[j + 1] \in 0 .. 255
    <3>1. j + 1 \in 1 .. Len(source)
      BY <1>1 DEF n
    <3>. QED  BY <3>1, <1>1, ElementIs
  <2>5. /\ text[Begins(withSpace, j) + 1] = HexOf(source[j + 1] \div 16)
        /\ text[Begins(withSpace, j) + 2] = HexOf(source[j + 1] % 16)
        /\ withSpace => text[Begins(withSpace, j) + 3] = " "
    BY <2>3 DEF Dump, n
  <2>6. " " # "h"
    OBVIOUS
  <2>. QED  BY <2>1, <2>3, <2>4, <2>5, <2>6
<1>8. \A p \in Nat : CharAt(p) # "h"
  <2>1. "NUL" # "h"
    OBVIOUS
  <2>2. \A p \in Nat : p < Len(text) => p \in 0 .. Len(text) - 1
    BY <1>1
  <2>. QED  BY <1>7, <2>1, <2>2 DEF CharAt
<1>9. /\ ~IsSeparator /\ ~IsPrefix0x
      /\ ReadDigits => Read
      /\ CharAt(i) \in DOMAIN Digit
  <2>1. x \notin {" ", ","} /\ y # "x"
    BY <1>4, DigitIs
  <2>. QED  BY <1>4, <1>6, <2>1 DEF IsSeparator, IsPrefix0x, ReadDigits
<1>10. TRUE \in ZeroMark => ~withSpace /\ n = 1 /\ k = 0 /\ x = "0"
  <2>. SUFFICES ASSUME TRUE \in ZeroMark PROVE ~withSpace /\ n = 1 /\ k = 0 /\ x = "0"
    OBVIOUS
  <2>1. CharAt(i + 3) # "h"
    BY <1>1, <1>8
  <2>2. Before(3) /\ CharAt(i) = "0" /\ i + 3 > Len(text)
    BY <2>1 DEF ZeroMark, ZeroBefore
  <2>3. ~(Len(text) - 3 \in 0 .. HexSizeT - 1)
    <3>. SUFFICES ASSUME Len(text) - 3 \in 0 .. HexSizeT - 1 PROVE FALSE
      OBVIOUS
    <3>1. (Len(text) - 3) % HexSizeT = Len(text) - 3
      <4>. DEFINE a == Len(text) - 3
      <4>1. a \in 0 .. HexSizeT - 1
        OBVIOUS
      <4>. HIDE DEF a
      <4>2. a % HexSizeT = a
        <5>1. HexSizeT \in Nat \ {0}
          BY HexAssumption
        <5>2. a \in Nat /\ a < HexSizeT
          BY <4>1, <5>1
        <5>. QED  BY <5>1, <5>2, Remainder
      <4>. QED  BY <4>2 DEF a
    <3>2. i < Len(text) - 3
      BY <2>2, <3>1 DEF Before
    <3>. QED  BY <1>1, <2>2, <3>2
  <2>4. Len(text) < 3
    <3>1. Len(text) <= 3 * n /\ 3 * n < HexSizeT
      BY <1>1 DEF Begins, n
    <3>. QED  BY <1>1, <2>3, <3>1
  <2>5. ~withSpace /\ n = 1 /\ k = 0
    BY <1>1, <1>2, <2>4 DEF Begins
  <2>. QED  BY <1>6, <2>2, <2>5
<1>11. \/ TRUE \in ZeroMark /\ Go(1)
       \/ Read
  <2>1. ZeroMark \subseteq BOOLEAN
    BY DEF ZeroMark, ZeroBefore, Before
  <2>2. \E marked \in ZeroMark : (marked /\ Go(1)) \/ (~marked /\ ReadDigits)
    BY <1>9 DEF Scan
  <2>3. PICK marked \in ZeroMark : (marked /\ Go(1)) \/ (~marked /\ ReadDigits)
    BY <2>2
  <2>4. marked \in BOOLEAN
    BY <2>1
  <2>5. CASE marked
    <3>1. marked = TRUE
      BY <2>4, <2>5
    <3>. QED  BY <2>3, <2>5, <3>1
  <2>6. CASE ~marked
    BY <1>9, <2>3, <2>6
  <2>. QED  BY <2>5, <2>6
<1>12. CASE TRUE \in ZeroMark /\ Go(1)
  <2>1. ~withSpace /\ n = 1 /\ k = 0 /\ x = "0" /\ i = 0
    BY <1>10, <1>12 DEF Begins
  <2>2. i' = 1 /\ UNCHANGED <<source, text, dt, reading>>
    BY <1>12, <2>1 DEF Go
  <2>3. dt = <<>>
    BY <1>1, <2>1 DEF HasRead
  <2>4. text'[1] = "0"
    <3>1. i + 1 = 1
      BY <2>1
    <3>2. text[1] = x
      BY <1>5, <3>1
    <3>. QED  BY <2>1, <2>2, <3>2
  <2>. QED  BY <2>1, <2>2, <2>3, <2>4 DEF DumpPlace, n
<1>13. CASE Read
  <2>1. /\ dt' = Append(dt, b) /\ i' = i + 2 /\ UNCHANGED <<source, text, reading>>
    <3>1. i + 2 \in Nat
      BY <1>1
    <3>. QED  BY <1>4, <1>6, <1>8, <1>13, <3>1 DEF Read
  <2>2. Len(dt') = k + 1 /\ dt'[k + 1] = b /\ \A j \in 1 .. k : dt'[j] = dt[j]
    <3>1. Len(dt) = k
      BY DEF HasRead
    <3>2. /\ Len(Append(dt, b)) = Len(dt) + 1 /\ Append(dt, b)[Len(dt) + 1] = b
          /\ \A j \in 1 .. Len(dt) : Append(dt, b)[j] = dt[j]
      BY <1>1, <1>3, AppendIs
    <3>. QED  BY <2>1, <3>1, <3>2
  <2>. DEFINE l == k + 1
  <2>3. l \in 0 .. n /\ l \in 1 .. n /\ \A j \in 1 .. l : j \in 1 .. k \/ j = k + 1
    BY <1>1, <1>2
  <2>4. \A j \in 1 .. l : dt'[j] = source[j]
    BY <2>2, <2>3 DEF HasRead, b
  <2>. HIDE DEF l
  <2>5. Len(dt') = l /\ HasRead(l)'
    BY <2>1, <2>2, <2>4 DEF HasRead, l
  <2>6. CASE withSpace
    <3>1. i' = Begins(withSpace, l) - 1
      BY <2>1, <2>6, <1>1 DEF Begins, l
    <3>. QED  BY <2>1, <2>3, <2>5, <2>6, <3>1 DEF DumpPlace, n
  <2>7. CASE ~withSpace
    <3>1. i' = Begins(withSpace, l)
      BY <2>1, <2>7, <1>1 DEF Begins, l
    <3>. QED  BY <2>1, <2>3, <2>5, <3>1 DEF DumpPlace, n
  <2>. QED  BY <2>6, <2>7
<1>. QED  BY <1>11, <1>12, <1>13

(* A turn at the space after the byte k of a dump. *)
LEMMA TurnAtSpace ==
  ASSUME HexInv, reading = "readingDump", Scan,
         Dump(text, source, Len(source), TRUE),
         NEW k \in 1 .. Len(source), i = Begins(TRUE, k) - 1, HasRead(k)
  PROVE  DumpPlace(TRUE)' /\ UNCHANGED <<source, text, reading>>
<1>. DEFINE n == Len(source)
            m == k - 1
<1>1. n \in Nat /\ i < Len(text) /\ m \in 0 .. n - 1 /\ i \in Nat
      /\ i + 1 = Begins(TRUE, m) + 3 /\ i + 1 = Begins(TRUE, k) /\ k \in 0 .. n
  <2>1. source \in Seq(0 .. 255) /\ i < Len(text)
    BY DEF HexInv, HexTypeOK, Scan
  <2>2. n \in Nat
    BY <2>1, ElementIs
  <2>. QED  BY <2>1, <2>2 DEF Begins
<1>2. text[i + 1] = " "
  <2>. HIDE DEF m
  <2>1. text[Begins(TRUE, m) + 3] = " "
    BY <1>1 DEF Dump
  <2>. QED  BY <1>1, <2>1
<1>3. CharAt(i) = " "
  BY <1>1, <1>2 DEF CharAt
<1>4. Go(1)
  <2>1. CharAt(i) \notin DOMAIN Digit /\ IsSeparator
    BY <1>3, DigitIs DEF IsSeparator
  <2>. QED  BY <2>1 DEF Scan
<1>5. i' = Begins(TRUE, k) /\ UNCHANGED <<source, text, dt, reading>>
  BY <1>1, <1>4 DEF Go
<1>6. HasRead(k)'
  BY <1>5 DEF HasRead
<1>. QED  BY <1>1, <1>5, <1>6 DEF DumpPlace

(* A turn at the second of two characters, the first having been skipped. *)
LEMMA TurnOfOne ==
  ASSUME HexInv, reading = "readingDump", Scan,
         Dump(text, source, Len(source), FALSE),
         Len(source) = 1, text[1] = "0", i = 1, dt = <<>>
  PROVE  DumpPlace(FALSE)' /\ UNCHANGED <<source, text, reading>>
<1>. DEFINE b == source[1]
            x == HexOf(b \div 16)
            y == HexOf(b % 16)
<1>1. source \in Seq(0 .. 255) /\ text \in Seq(Char) /\ Len(text) = 2
  BY DEF HexInv, HexTypeOK, Dump, Begins
<1>2. b \in 0 .. 255
  <2>1. 1 \in 1 .. Len(source)
    OBVIOUS
  <2>. QED  BY <1>1, <2>1, ElementIs
<1>3. text[1] = x /\ text[2] = y
  <2>1. 0 \in 0 .. Len(source) - 1 /\ Begins(FALSE, 0) + 1 = 1 /\ Begins(FALSE, 0) + 2 = 2
        /\ 0 + 1 = 1
    BY DEF Begins
  <2>2. /\ text[Begins(FALSE, 0) + 1] = HexOf(source[0 + 1] \div 16)
        /\ text[Begins(FALSE, 0) + 2] = HexOf(source[0 + 1] % 16)
    BY <2>1 DEF Dump
  <2>. QED  BY <2>1, <2>2
<1>4. y \in DOMAIN Digit /\ Digit[y] = b
  BY <1>2, <1>3, PairIs
<1>. HIDE DEF x, y, b
<1>5. CharAt(i) = y /\ CharAt(i + 1) = "NUL"
  BY <1>1, <1>3 DEF CharAt
<1>6. /\ ~IsSeparator /\ ~IsPrefix0x
      /\ ReadDigits => Read
      /\ CharAt(i) \in DOMAIN Digit
  <2>1. y \notin {" ", ","} /\ "NUL" # "x" /\ "NUL" \notin DOMAIN Digit
    BY <1>4, DigitIs
  <2>. QED  BY <1>4, <1>5, <2>1 DEF IsSeparator, IsPrefix0x, ReadDigits
<1>7. \E marked \in ZeroMark : (marked /\ Go(1)) \/ (~marked /\ ReadDigits)
  BY <1>6 DEF Scan
<1>8. TRUE \in ZeroMark => y = "0"
  BY <1>5 DEF ZeroMark, ZeroBefore
<1>9. (Go(1) /\ y = "0") \/ Read
  <2>1. PICK marked \in ZeroMark : (marked /\ Go(1)) \/ (~marked /\ ReadDigits)
    BY <1>7
  <2>2. marked \in BOOLEAN
    BY DEF ZeroMark, ZeroBefore, Before
  <2>3. CASE marked
    <3>1. marked = TRUE
      BY <2>2, <2>3
    <3>. QED  BY <1>8, <2>1, <2>3, <3>1
  <2>4. CASE ~marked
    BY <1>6, <2>1, <2>4
  <2>. QED  BY <2>3, <2>4
<1>10. CASE Go(1) /\ y = "0"
  <2>1. i' = 2 /\ UNCHANGED <<source, text, dt, reading>>
    BY <1>10 DEF Go
  <2>2. text[2] = "0"
    BY <1>3, <1>10
  <2>. QED  BY <2>1, <2>2 DEF DumpPlace
<1>11. CASE Read
  <2>1. dt' = Append(dt, b) /\ i' = 3 /\ UNCHANGED <<source, text, reading>>
    <3>1. "NUL" \notin DOMAIN Digit
      BY DigitIs
    <3>2. ~(i + 2 < Len(text)) /\ i + 2 = 3
      BY <1>1
    <3>. QED  BY <1>4, <1>5, <1>11, <3>1, <3>2 DEF Read
  <2>2. Append(dt, b) = <<b>>
    OBVIOUS
  <2>3. source = <<b>>
    BY <1>1 DEF b
  <2>. QED  BY <2>1, <2>2, <2>3 DEF DumpPlace
<1>. QED  BY <1>9, <1>10, <1>11

(* A turn on a dump goes on as ReadsDump says, and refuses nothing. *)
LEMMA ScanDump ==
  ASSUME HexInv, reading = "readingDump", Scan
  PROVE  HexInv'
<1>1. 3 * Len(source) < HexSizeT
  BY DEF HexInv, ReadsDump
<1>2. PICK withSpace \in BOOLEAN : Dump(text, source, Len(source), withSpace) /\ DumpPlace(withSpace)
  BY DEF HexInv, ReadsDump
<1>3. DumpPlace(withSpace)' /\ UNCHANGED <<source, text, reading>>
  <2>1. ASSUME NEW k \in 0 .. Len(source), i = Begins(withSpace, k), HasRead(k)
        PROVE  DumpPlace(withSpace)' /\ UNCHANGED <<source, text, reading>>
    BY <1>1, <1>2, <2>1, TurnAtByte
  <2>2. ASSUME withSpace, NEW k \in 1 .. Len(source), i = Begins(withSpace, k) - 1, HasRead(k)
        PROVE  DumpPlace(withSpace)' /\ UNCHANGED <<source, text, reading>>
    <3>1. withSpace = TRUE
      BY <2>2
    <3>. QED  BY <1>2, <2>2, <3>1, TurnAtSpace
  <2>3. ASSUME ~withSpace, Len(source) = 1, text[1] = "0", i = 1, dt = <<>>
        PROVE  DumpPlace(withSpace)' /\ UNCHANGED <<source, text, reading>>
    <3>1. withSpace = FALSE
      BY <2>3
    <3>. QED  BY <1>2, <2>3, <3>1, TurnOfOne
  <2>4. ~withSpace /\ Len(source) = 1 => i < 2
    <3>1. i \in Nat /\ i < Len(text)
      <4>1. text \in Seq(Char) /\ i \in 0 .. Len(text) + 1 /\ i < Len(text)
        BY DEF HexInv, HexTypeOK, Scan
      <4>. QED  BY <4>1, ElementIs
    <3>2. ~withSpace /\ Len(source) = 1 => Len(text) = 2
      <4>1. Len(text) = Begins(withSpace, Len(source))
        BY <1>2 DEF Dump
      <4>2. Begins(FALSE, 1) = 2
        BY DEF Begins
      <4>3. ~withSpace => withSpace = FALSE
        OBVIOUS
      <4>. QED  BY <4>1, <4>2, <4>3
    <3>. QED  BY <3>1, <3>2
  <2>. QED  BY <1>2, <2>1, <2>2, <2>3, <2>4 DEF DumpPlace
<1>4. HexTypeOK'
  BY ScanType DEF HexInv
<1>5. ReadsDump'
  <2>1. Dump(text, source, Len(source), withSpace)'
    BY <1>2, <1>3 DEF Dump
  <2>. QED  BY <1>1, <1>3, <2>1 DEF ReadsDump
<1>6. HexRoundTrip'
  BY <1>3 DEF HexRoundTrip
<1>. QED  BY <1>3, <1>4, <1>5, <1>6 DEF HexInv

(* A turn on any other text. *)
LEMMA ScanText ==
  ASSUME HexInv, reading = "reading", Scan
  PROVE  HexInv'
<1>1. HexTypeOK' /\ source = <<>>
  BY ScanType DEF HexInv
<1>2. source' = <<>> /\ reading' \in {"reading", "refused"}
  BY <1>1, ScanIs DEF Go, Refused, Read
<1>. QED  BY <1>1, <1>2 DEF HexInv, HexRoundTrip

(* At the end of a dump its bytes have been read. *)
LEMMA DoneDump ==
  ASSUME HexInv, HexDone
  PROVE  HexInv'
<1>1. UNCHANGED <<source, text, i, dt>> /\ i >= Len(text)
  BY DEF HexDone
<1>2. HexTypeOK'
  BY DEF HexDone, HexInv, HexTypeOK
<1>3. CASE reading = "reading"
  <2>1. reading' = "textRead"
    BY <1>3 DEF HexDone
  <2>. QED  BY <1>1, <1>2, <1>3, <2>1 DEF HexInv, HexRoundTrip
<1>4. CASE reading = "readingDump"
  <2>1. reading' = "dumpRead"
    BY <1>4 DEF HexDone
  <2>2. PICK withSpace \in BOOLEAN : Dump(text, source, Len(source), withSpace) /\ DumpPlace(withSpace)
    BY <1>4 DEF HexInv, ReadsDump
  <2>3. /\ source \in Seq(0 .. 255) /\ dt \in Seq(0 .. 255) /\ text \in Seq(Char)
        /\ Len(text) = Begins(withSpace, Len(source)) /\ Len(source) \in Nat
    BY <2>2, ElementIs DEF HexInv, HexTypeOK, Dump
  <2>4. ASSUME NEW k \in 0 .. Len(source), i = Begins(withSpace, k), HasRead(k)
        PROVE  dt = source
    <3>1. k = Len(source)
      BY <1>1, <2>3, <2>4 DEF Begins
    <3>. QED  BY <2>3, <2>4, <3>1 DEF HasRead
  <2>5. ASSUME withSpace, NEW k \in 1 .. Len(source), i = Begins(withSpace, k) - 1
        PROVE  FALSE
    BY <1>1, <2>3, <2>5 DEF Begins
  <2>6. ASSUME ~withSpace, Len(source) = 1, text[1] = "0",
               \/ i = 1 /\ dt = <<>>
               \/ i = 2 /\ text[2] = "0" /\ dt = <<>>
               \/ i = 3 /\ dt = source
        PROVE  dt = source \/ (text = <<"0", "0">> /\ dt = <<>>)
    <3>1. Len(text) = 2
      BY <2>3, <2>6 DEF Begins
    <3>2. text[2] = "0" => text = <<"0", "0">>
      <4>1. \A z : text[1] = z /\ text[2] = z => text = <<z, z>>
        BY <2>3, <3>1
      <4>. QED  BY <2>6, <4>1, Zenon
    <3>. QED  BY <1>1, <2>6, <3>1, <3>2
  <2>7. dt = source \/ (text = <<"0", "0">> /\ dt = <<>>)
    BY <2>2, <2>4, <2>5, <2>6 DEF DumpPlace
  <2>. QED  BY <1>1, <1>2, <2>1, <2>7 DEF HexInv, HexRoundTrip
<1>. QED  BY <1>3, <1>4 DEF HexDone, Scanning

(* A dump is read from its begin. *)
LEMMA ReadDumpInv ==
  ASSUME HexInv, ReadDump
  PROVE  HexInv'
<1>1. PICK withSpace \in BOOLEAN : Begin(dumpHexData(source', withSpace))
  BY DEF ReadDump
<1>2. /\ source' \in Dumped /\ source' \in Seq(0 .. 255) /\ 3 * Len(source') < HexSizeT
      /\ text' = dumpHexData(source', withSpace) /\ i' = 0 /\ dt' = <<>>
      /\ reading' = "readingDump"
  BY <1>1, HexAssumption DEF ReadDump, Begin
<1>3. Dump(text', source', Len(source'), withSpace)
  BY <1>2, DumpIs
<1>4. Len(source') \in Nat /\ text' \in Seq(Char) /\ Len(text') \in Nat
  BY <1>2, <1>3, ElementIs DEF Dump
<1>5. DumpPlace(withSpace)'
  <2>1. 0 \in 0 .. Len(source') /\ Begins(withSpace, 0) = 0
    BY <1>4 DEF Begins
  <2>2. HasRead(0)'
    BY <1>2 DEF HasRead
  <2>. QED  BY <1>2, <2>1, <2>2 DEF DumpPlace
<1>6. HexTypeOK'
  BY <1>2, <1>4 DEF HexTypeOK
<1>7. ReadsDump'
  BY <1>2, <1>3, <1>5 DEF ReadsDump
<1>. QED  BY <1>2, <1>6, <1>7 DEF HexInv, HexRoundTrip

(* So is any other text. *)
LEMMA ReadTextInv ==
  ASSUME HexInv, ReadText
  PROVE  HexInv'
<1>1. PICK t \in Texts : Begin(t)
  BY DEF ReadText
<1>2. /\ text' \in Seq(Char) /\ i' = 0 /\ dt' = <<>> /\ reading' = "reading"
      /\ source' = source /\ source = <<>>
  BY <1>1, HexAssumption DEF ReadText, Begin, HexInv
<1>3. Len(text') \in Nat
  BY <1>2, ElementIs
<1>. QED  BY <1>2, <1>3 DEF HexInv, HexTypeOK, HexRoundTrip

(* Every step keeps the invariant of the texts. *)
LEMMA HexStep == HexInv /\ [HexNext]_hexvars => HexInv'
<1>. SUFFICES ASSUME HexInv, [HexNext]_hexvars PROVE HexInv'
  OBVIOUS
<1>1. CASE ReadDump
  BY <1>1, ReadDumpInv
<1>2. CASE ReadText
  BY <1>2, ReadTextInv
<1>3. CASE Scan
  BY <1>3, ScanDump, ScanText DEF Scan, Scanning
<1>4. CASE HexDone
  BY <1>4, DoneDump
<1>5. CASE UNCHANGED hexvars
  <2>1. source' = source /\ text' = text /\ i' = i /\ dt' = dt /\ reading' = reading
    BY <1>5 DEF hexvars
  <2>2. HexTypeOK' /\ HexRoundTrip'
    BY <2>1 DEF HexInv, HexTypeOK, HexRoundTrip
  <2>3. \A w : DumpPlace(w) => DumpPlace(w)'
    BY <2>1 DEF DumpPlace, HasRead
  <2>4. ReadsDump => ReadsDump'
    BY <2>1, <2>3 DEF ReadsDump, Dump
  <2>. QED  BY <2>1, <2>2, <2>4 DEF HexInv
<1>. QED  BY <1>1, <1>2, <1>3, <1>4, <1>5 DEF HexNext

(* No text is read at first. *)
LEMMA HexInitInv == HexInit => HexInv
BY DEF HexInit, HexInv, HexTypeOK, HexRoundTrip

(* The scan of a dump is at the begin of a byte or at the space after one, *)
(* and has read the bytes before; but for the dump of a single byte.       *)
THEOREM DumpsAreScanned == HexSpec => []HexInv
<1>. QED  BY HexInitInv, HexStep, PTL DEF HexSpec

(* readHexData gives the bytes back that dumpHexData wrote, of any length, *)
(* with spaces or without; only "00" may be read as no byte.               *)
THEOREM HexIsReadBack == HexSpec => []HexRoundTrip
<1>1. HexInv => HexRoundTrip
  BY DEF HexInv
<1>. QED  BY <1>1, DumpsAreScanned, PTL

-----------------------------------------------------------------------------
(* Texts in other notations: their characters, and the turns on them. *)

(* The forms, of any characters. *)
FormsOf(b, z, x, h) == {b, <<z, x>> \o b, b \o <<h>>, <<z>> \o b \o <<h>>}

LEMMA TwoOf ==
  ASSUME NEW X, NEW c \in X, NEW d \in X
  PROVE  /\ <<c, d>> \in Seq(X) /\ Len(<<c, d>>) = 2 /\ <<c, d>>[1] = c /\ <<c, d>>[2] = d
OBVIOUS

LEMMA PrefixedOf ==
  ASSUME NEW X, NEW z \in X, NEW x \in X, NEW c \in X, NEW d \in X,
         NEW f, f = <<z, x>> \o <<c, d>>
  PROVE  f \in Seq(X) /\ Len(f) = 4 /\ f[1] = z /\ f[2] = x /\ f[3] = c /\ f[4] = d
OBVIOUS

LEMMA MarkedOf ==
  ASSUME NEW X, NEW h \in X, NEW c \in X, NEW d \in X, NEW f, f = <<c, d>> \o <<h>>
  PROVE  f \in Seq(X) /\ Len(f) = 3 /\ f[1] = c /\ f[2] = d /\ f[3] = h
OBVIOUS

LEMMA BothOf ==
  ASSUME NEW X, NEW z \in X, NEW h \in X, NEW c \in X, NEW d \in X,
         NEW f, f = <<z>> \o <<c, d>> \o <<h>>
  PROVE  f \in Seq(X) /\ Len(f) = 4 /\ f[1] = z /\ f[2] = c /\ f[3] = d /\ f[4] = h
OBVIOUS

(* A form, character by character. *)
FormOf(f, X, c, d, z, x, h) ==
  /\ f \in Seq(X)
  /\ \/ Len(f) = 2 /\ f[1] = c /\ f[2] = d
     \/ Len(f) = 3 /\ f[1] = c /\ f[2] = d /\ f[3] = h
     \/ Len(f) = 4 /\ f[1] = z /\ f[2] = x /\ f[3] = c /\ f[4] = d
     \/ Len(f) = 4 /\ f[1] = z /\ f[2] = c /\ f[3] = d /\ f[4] = h

LEMMA FormIs ==
  ASSUME NEW X, NEW z \in X, NEW x \in X, NEW h \in X, NEW c \in X, NEW d \in X,
         NEW f \in FormsOf(<<c, d>>, z, x, h)
  PROVE  FormOf(f, X, c, d, z, x, h)
<1>1. \/ f = <<c, d>> \/ f = <<z, x>> \o <<c, d>>
      \/ f = <<c, d>> \o <<h>> \/ f = <<z>> \o <<c, d>> \o <<h>>
  BY DEF FormsOf
<1>2. CASE f = <<c, d>>
  BY <1>2, TwoOf DEF FormOf
<1>3. CASE f = <<z, x>> \o <<c, d>>
  BY <1>3, PrefixedOf DEF FormOf
<1>4. CASE f = <<c, d>> \o <<h>>
  BY <1>4, MarkedOf DEF FormOf
<1>5. CASE f = <<z>> \o <<c, d>> \o <<h>>
  BY <1>5, BothOf DEF FormOf
<1>. QED  BY <1>1, <1>2, <1>3, <1>4, <1>5

(* One form, then a character, then another. *)
LEMMA TextJoined ==
  ASSUME NEW X, NEW f \in Seq(X), NEW s \in X, NEW g \in Seq(X),
         NEW t, t = f \o <<s>> \o g, NEW a, a = Len(f), NEW b, b = Len(g)
  PROVE  /\ t \in Seq(X) /\ Len(t) = a + 1 + b /\ a \in Nat /\ b \in Nat
         /\ \A m \in 1 .. a : t[m] = f[m]
         /\ t[a + 1] = s
         /\ \A m \in 1 .. b : t[a + 1 + m] = g[m]
OBVIOUS

(* From the index j to k, there is a form of the digits c and d. *)
FormAt(t, j, k, c, d, z, x, h) ==
  /\ j + 1 < Len(t)
  /\ \/ k = j + 2 /\ t[j + 1] = c /\ t[j + 2] = d
     \/ k = j + 3 /\ j + 2 < Len(t) /\ t[j + 1] = c /\ t[j + 2] = d /\ t[j + 3] = h
     \/ /\ k = j + 4 /\ j + 3 < Len(t)
        /\ \/ t[j + 1] = z /\ t[j + 2] = x /\ t[j + 3] = c /\ t[j + 4] = d
           \/ t[j + 1] = z /\ t[j + 2] = c /\ t[j + 3] = d /\ t[j + 4] = h

(* The characters of one sequence are in another, behind the first j. *)
LEMMA FormWithin ==
  ASSUME NEW X, NEW t \in Seq(X), NEW c, NEW d, NEW z, NEW x, NEW h,
         NEW f, FormOf(f, X, c, d, z, x, h), NEW j \in Nat, NEW k, k = j + Len(f),
         k <= Len(t), \A m \in 1 .. Len(f) : t[j + m] = f[m]
  PROVE  FormAt(t, j, k, c, d, z, x, h) /\ Len(f) \in 2 .. 4
<1>1. Len(t) \in Nat /\ Len(f) \in 2 .. 4
  BY ElementIs DEF FormOf
<1>2. /\ t[j + 1] = f[1] /\ t[j + 2] = f[2] /\ j + 1 < Len(t)
      /\ Len(f) > 2 => j + 2 < Len(t) /\ t[j + 3] = f[3]
      /\ Len(f) > 3 => j + 3 < Len(t) /\ t[j + 4] = f[4]
  <2>1. /\ 1 \in 1 .. Len(f) /\ 2 \in 1 .. Len(f) /\ j + 1 < Len(t)
        /\ Len(f) > 2 => 3 \in 1 .. Len(f) /\ j + 2 < Len(t)
        /\ Len(f) > 3 => 4 \in 1 .. Len(f) /\ j + 3 < Len(t)
    <3>1. j + Len(f) <= Len(t) /\ Len(f) \in Nat /\ Len(f) >= 2
      <4>1. j + Len(f) <= Len(t)
        OBVIOUS
      <4>2. \A l \in 2 .. 4 : l \in Nat /\ l >= 2
        OBVIOUS
      <4>. QED  BY <1>1, <4>1, <4>2
    <3>. DEFINE l == Len(f)
                n == Len(t)
    <3>2. l \in Nat /\ n \in Nat /\ j + l <= n /\ l >= 2
      BY <1>1, <3>1
    <3>. HIDE DEF l, n
    <3>3. /\ 1 \in 1 .. l /\ 2 \in 1 .. l /\ j + 1 < n
          /\ l > 2 => 3 \in 1 .. l /\ j + 2 < n
          /\ l > 3 => 4 \in 1 .. l /\ j + 3 < n
      BY <3>2
    <3>. QED  BY <3>3 DEF l, n
  <2>. QED  BY <2>1
<1>3. CASE Len(f) = 2 /\ f[1] = c /\ f[2] = d
  BY <1>1, <1>2, <1>3 DEF FormAt
<1>4. CASE Len(f) = 3 /\ f[1] = c /\ f[2] = d /\ f[3] = h
  BY <1>1, <1>2, <1>4 DEF FormAt
<1>5. CASE Len(f) = 4 /\ f[1] = z /\ f[2] = x /\ f[3] = c /\ f[4] = d
  BY <1>1, <1>2, <1>5 DEF FormAt
<1>6. CASE Len(f) = 4 /\ f[1] = z /\ f[2] = c /\ f[3] = d /\ f[4] = h
  BY <1>1, <1>2, <1>6 DEF FormAt
<1>. QED  BY <1>1, <1>3, <1>4, <1>5, <1>6 DEF FormOf

(* A form of c and d, then s, then one of p and q. *)
FormsIn(t, c, d, s, p, q, z, x, h) ==
  \E a \in 2 .. 4 : /\ FormAt(t, 0, a, c, d, z, x, h)
                   /\ a + 1 < Len(t) /\ t[a + 1] = s
                   /\ FormAt(t, a + 1, Len(t), p, q, z, x, h)

LEMMA FormsJoined ==
  ASSUME NEW X, NEW z \in X, NEW x \in X, NEW h \in X,
         NEW c \in X, NEW d \in X, NEW p \in X, NEW q \in X,
         NEW f \in FormsOf(<<c, d>>, z, x, h), NEW g \in FormsOf(<<p, q>>, z, x, h), NEW s \in X,
         NEW t, t = f \o <<s>> \o g
  PROVE  FormsIn(t, c, d, s, p, q, z, x, h)
<1>. DEFINE a == Len(f)
            b == Len(g)
<1>1. FormOf(f, X, c, d, z, x, h) /\ FormOf(g, X, p, q, z, x, h)
  BY FormIs
<1>2. f \in Seq(X) /\ g \in Seq(X) /\ a = Len(f) /\ b = Len(g)
  BY <1>1 DEF FormOf
<1>. HIDE DEF a, b
<1>3. /\ t \in Seq(X) /\ Len(t) = a + 1 + b /\ a \in Nat /\ b \in Nat
      /\ \A m \in 1 .. a : t[m] = f[m]
      /\ t[a + 1] = s
      /\ \A m \in 1 .. b : t[a + 1 + m] = g[m]
  BY <1>2, TextJoined
<1>4. FormAt(t, 0, a, c, d, z, x, h) /\ a \in 2 .. 4
  <2>1. a <= Len(t) /\ (\A m \in 1 .. a : t[0 + m] = f[m]) /\ 0 + a = a /\ 0 \in Nat
    BY <1>3
  <2>. QED  BY <1>1, <1>2, <1>3, <2>1, FormWithin
<1>5. FormAt(t, a + 1, Len(t), p, q, z, x, h) /\ b \in 2 .. 4
  <2>1. a + 1 \in Nat /\ Len(t) = (a + 1) + b /\ Len(t) <= Len(t)
    BY <1>3
  <2>2. \A m \in 1 .. b : t[(a + 1) + m] = g[m]
    BY <1>3
  <2>. DEFINE j == a + 1
  <2>. HIDE DEF j
  <2>3. j \in Nat /\ Len(t) = j + Len(g) /\ \A m \in 1 .. Len(g) : t[j + m] = g[m]
    BY <1>2, <2>1, <2>2 DEF j
  <2>4. FormAt(t, j, Len(t), p, q, z, x, h) /\ Len(g) \in 2 .. 4
    BY <1>1, <1>3, <2>1, <2>3, FormWithin
  <2>. QED  BY <1>2, <2>4 DEF j
<1>6. a + 1 < Len(t)
  BY <1>3, <1>5
<1>. QED  BY <1>3, <1>4, <1>5, <1>6 DEF FormsIn

(* A form of the digits c and d, as they are. *)
InForm(t, j, k, c, d) == FormAt(t, j, k, c, d, "0", "x", "h")

(* A text of two bytes of the digits b and c; the first one ends at a. *)
TwoBytes(t, a, b, c) ==
  /\ InForm(t, 0, a, b[1], b[2])
  /\ a + 1 < Len(t) /\ t[a + 1] \in {" ", ","}
  /\ InForm(t, a + 1, Len(t), c[1], c[2])

(* The texts of a form of F, a separator of S and a form of G. *)
WrittenIn(F, S, G) == {w[1] \o <<w[2]>> \o w[3] : w \in F \X S \X G}

Composed(t, F, S, G) == \E f \in F, g \in G, s \in S : t = f \o <<s>> \o g

LEMMA ChosenNotation ==
  ASSUME NEW F, NEW G, NEW S, NEW t \in WrittenIn(F, S, G)
  PROVE  Composed(t, F, S, G)
<1>1. PICK w \in F \X S \X G : t = w[1] \o <<w[2]>> \o w[3]
  BY DEF WrittenIn
<1>2. w[1] \in F /\ w[2] \in S /\ w[3] \in G
  OBVIOUS
<1>. QED  BY <1>1, <1>2 DEF Composed

(* The digits of a byte are two of the characters. *)
LEMMA DigitsOf ==
  ASSUME NEW b \in Noted
  PROVE  /\ b = <<b[1], b[2]>> /\ b[1] \in DOMAIN Digit /\ b[2] \in DOMAIN Digit
         /\ b[1] \in Char /\ b[2] \in Char
<1>. DEFINE D == DOMAIN Digit
<1>1. b \in D \X D
  BY HexAssumption
<1>2. D \subseteq Char
  BY DEF Char
<1>. HIDE DEF D
<1>3. b = <<b[1], b[2]>> /\ b[1] \in D /\ b[2] \in D
  BY <1>1
<1>. QED  BY <1>2, <1>3 DEF D

LEMMA NotationIs ==
  ASSUME NEW b \in Noted, NEW c \in Noted, NEW t \in Notations(b, c)
  PROVE  \E a \in 2 .. 4 : TwoBytes(t, a, b, c)
<1>. DEFINE F == FormsOf(b, "0", "x", "h")
            G == FormsOf(c, "0", "x", "h")
            S == {" ", ","}
<1>1. t \in WrittenIn(F, S, G)
  BY DEF Notations, Forms, FormsOf, WrittenIn
<1>2. PICK f \in F, g \in G, s \in S : t = f \o <<s>> \o g
  <2>. HIDE DEF F, G, S
  <2>1. Composed(t, F, S, G)
    BY <1>1, ChosenNotation, Zenon
  <2>. QED  BY <2>1, Zenon DEF Composed
<1>3. "0" \in Char /\ s \in Char /\ "x" \in Char /\ "h" \in Char
  BY DEF Char, Digit
<1>4. f \in FormsOf(<<b[1], b[2]>>, "0", "x", "h") /\ g \in FormsOf(<<c[1], c[2]>>, "0", "x", "h")
  <2>1. b = <<b[1], b[2]>> /\ c = <<c[1], c[2]>>
    BY DigitsOf, Zenon
  <2>. QED  BY <2>1, Zenon
<1>5. FormsIn(t, b[1], b[2], s, c[1], c[2], "0", "x", "h")
  BY <1>2, <1>3, <1>4, DigitsOf, FormsJoined, Zenon
<1>. QED  BY <1>5, Zenon DEF FormsIn, TwoBytes, InForm

(* In a text that is not too short, i < slen - n says what it seems to. *)
LEMMA TurnBefore ==
  ASSUME HexTypeOK, 3 <= Len(text), Len(text) < HexSizeT
  PROVE  /\ Before(2) <=> i + 2 < Len(text)
         /\ Before(3) <=> i + 3 < Len(text)
<1>1. Len(text) \in Nat /\ HexSizeT \in Nat \ {0} /\ i \in Nat
  BY ElementIs, HexAssumption DEF HexTypeOK
<1>2. ASSUME NEW n \in Nat, n <= 3
      PROVE  (i < (Len(text) - n) % HexSizeT) <=> i + n < Len(text)
  <2>. DEFINE L == Len(text)
              a == L - n
  <2>1. L \in Nat /\ L < HexSizeT /\ 3 <= L
    BY <1>1
  <2>. HIDE DEF L
  <2>2. a \in Nat /\ a < HexSizeT /\ ((i < a) <=> i + n < L)
    BY <1>1, <1>2, <2>1
  <2>3. a % HexSizeT = a
    <3>. HIDE DEF a
    <3>. QED  BY <1>1, <2>2, Remainder
  <2>4. (i < a % HexSizeT) <=> i + n < L
    <3>. HIDE DEF a
    <3>. QED  BY <2>2, <2>3
  <2>. QED  BY <2>4 DEF L
<1>3. /\ (i < (Len(text) - 2) % HexSizeT) <=> i + 2 < Len(text)
      /\ (i < (Len(text) - 3) % HexSizeT) <=> i + 3 < Len(text)
  BY <1>2
<1>. QED  BY <1>3, Zenon DEF Before

(* What is before a digit is decided by the text. *)
LEMMA MarkIs ==
  ASSUME HexTypeOK, 3 <= Len(text), Len(text) < HexSizeT, NEW marked \in ZeroMark
  PROVE  marked <=> i + 3 < Len(text) /\ CharAt(i) = "0" /\ CharAt(i + 3) = "h"
<1>1. Before(3) <=> i + 3 < Len(text)
  BY TurnBefore, Zenon
<1>2. ~(i + 3 < Len(text) /\ i + 3 > Len(text))
  BY ElementIs DEF HexTypeOK
<1>3. ~(ZeroBefore /\ i + 3 > Len(text))
  BY <1>1, <1>2, Zenon DEF ZeroBefore
<1>4. marked \in {ZeroBefore /\ CharAt(i + 3) = "h"}
  BY <1>3, Zenon DEF ZeroMark
<1>5. marked <=> (ZeroBefore /\ CharAt(i + 3) = "h")
  BY <1>4, Zenon
<1>. QED  BY <1>1, <1>5, Zenon DEF ZeroBefore

(* The characters from the index on. *)
LEMMA CharIs ==
  ASSUME NEW j \in Nat, j < Len(text)
  PROVE  CharAt(j) = text[j + 1]
BY DEF CharAt

(* A turn at a digit. *)
LEMMA TurnAtDigit ==
  ASSUME HexTypeOK, Scan, CharAt(i) \in DOMAIN Digit, 3 <= Len(text), Len(text) < HexSizeT
  PROVE  IF i + 3 < Len(text) /\ CharAt(i) = "0" /\ CharAt(i + 3) = "h" THEN Go(1)
         ELSE IF IsPrefix0x THEN Go(2) ELSE ReadDigits
<1>1. ~IsSeparator
  BY DigitIs DEF IsSeparator
<1>2. PICK marked \in ZeroMark :
        \/ marked /\ Go(1)
        \/ ~marked /\ IsPrefix0x /\ Go(2)
        \/ ~marked /\ ~IsPrefix0x /\ ReadDigits
  BY <1>1, Zenon DEF Scan
<1>3. marked <=> i + 3 < Len(text) /\ CharAt(i) = "0" /\ CharAt(i + 3) = "h"
  BY MarkIs
<1>. QED  BY <1>2, <1>3, Zenon

(* Two digits are read, and the mark behind them, if there is one. *)
LEMMA ReadBoth ==
  ASSUME CharAt(i) \in DOMAIN Digit, CharAt(i + 1) \in DOMAIN Digit, ReadDigits
  PROVE  /\ dt' = Append(dt, Digit[CharAt(i)] * 16 + Digit[CharAt(i + 1)])
         /\ i' = IF i + 2 < Len(text) /\ CharAt(i + 2) = "h" THEN i + 3 ELSE i + 2
         /\ UNCHANGED <<source, text, reading>>
BY Zenon DEF ReadDigits, Read

(* The byte of a form is read, or what is before its digits is skipped. *)
FormRead(k, c, d) ==
  /\ UNCHANGED <<source, text, reading>>
  /\ \/ InForm(text, i', k, c, d) /\ i' \in Nat /\ dt' = dt
     \/ i' = k /\ dt' = Append(dt, Digit[c] * 16 + Digit[d])

LEMMA TurnAtForm ==
  ASSUME HexTypeOK, Scan, 3 <= Len(text), Len(text) < HexSizeT,
         NEW c \in DOMAIN Digit, NEW d \in DOMAIN Digit, NEW k, k <= Len(text),
         InForm(text, i, k, c, d), CharAt(k) # "h", CharAt(k + 1) # "h"
  PROVE  FormRead(k, c, d)
<1>1. Len(text) \in Nat /\ i \in Nat
  BY ElementIs DEF HexTypeOK
<1>2. c \notin {"x", "h"} /\ d \notin {"x", "h"} /\ "0" \in DOMAIN Digit
  BY DigitIs DEF Digit
<1>3. ASSUME k = i + 2 \/ k = i + 3, i + 1 < Len(text), CharAt(i) = c, CharAt(i + 1) = d,
             k = i + 3 => i + 2 < Len(text) /\ CharAt(i + 2) = "h"
      PROVE  FormRead(k, c, d)
  <2>1. CharAt(i + 3) # "h"
    BY <1>1, <1>3
  <2>2. ~IsPrefix0x
    BY <1>2, <1>3, Zenon DEF IsPrefix0x
  <2>3. ReadDigits
    BY <1>3, <2>1, <2>2, TurnAtDigit, Zenon
  <2>4. /\ dt' = Append(dt, Digit[c] * 16 + Digit[d])
        /\ i' = IF i + 2 < Len(text) /\ CharAt(i + 2) = "h" THEN i + 3 ELSE i + 2
        /\ UNCHANGED <<source, text, reading>>
    BY <1>3, <2>3, ReadBoth, Zenon
  <2>5. i' = k
    BY <1>1, <1>3, <2>4
  <2>. QED  BY <2>4, <2>5, Zenon DEF FormRead
<1>4. ASSUME k = i + 4, i + 3 < Len(text), CharAt(i) = "0", CharAt(i + 1) = "x",
             CharAt(i + 2) = c, CharAt(i + 3) = d
      PROVE  FormRead(k, c, d)
  <2>1. CharAt(i + 3) # "h"
    BY <1>2, <1>4
  <2>2. IsPrefix0x
    <3>1. i + 2 < Len(text)
      BY <1>1, <1>4
    <3>2. Before(2)
      BY <3>1, TurnBefore, Zenon
    <3>. QED  BY <1>4, <3>2, Zenon DEF IsPrefix0x
  <2>3. Go(2)
    BY <1>2, <1>4, <2>1, <2>2, TurnAtDigit, Zenon
  <2>4. i' = i + 2 /\ dt' = dt /\ UNCHANGED <<source, text, reading>>
    BY <2>3, Zenon DEF Go
  <2>5. text[i + 3] = c /\ text[i + 4] = d
    <3>1. text[(i + 2) + 1] = c /\ text[(i + 3) + 1] = d
      BY <1>1, <1>4, CharIs
    <3>. QED  BY <1>1, <3>1
  <2>6. InForm(text, i', k, c, d)
    BY <1>1, <1>4, <2>4, <2>5 DEF InForm, FormAt
  <2>. QED  BY <1>1, <2>4, <2>6 DEF FormRead
<1>5. ASSUME k = i + 4, i + 3 < Len(text), CharAt(i) = "0", CharAt(i + 1) = c,
             CharAt(i + 2) = d, CharAt(i + 3) = "h"
      PROVE  FormRead(k, c, d)
  <2>1. Go(1)
    BY <1>2, <1>5, TurnAtDigit, Zenon
  <2>2. i' = i + 1 /\ dt' = dt /\ UNCHANGED <<source, text, reading>>
    BY <2>1, Zenon DEF Go
  <2>3. text[i + 2] = c /\ text[i + 3] = d /\ text[i + 4] = "h"
    <3>1. text[(i + 1) + 1] = c /\ text[(i + 2) + 1] = d /\ text[(i + 3) + 1] = "h"
      BY <1>1, <1>5, CharIs
    <3>. QED  BY <1>1, <3>1
  <2>4. InForm(text, i', k, c, d)
    BY <1>1, <1>5, <2>2, <2>3 DEF InForm, FormAt
  <2>. QED  BY <1>1, <2>2, <2>4 DEF FormRead
<1>6. \A m \in 0 .. 3 : i + m < Len(text) => CharAt(i + m) = text[i + m + 1]
  BY <1>1, CharIs
<1>7. /\ i + 1 < Len(text) => CharAt(i) = text[i + 1] /\ CharAt(i + 1) = text[i + 2]
      /\ i + 2 < Len(text) => CharAt(i + 2) = text[i + 3]
      /\ i + 3 < Len(text) => CharAt(i + 3) = text[i + 4] /\ i + 2 < Len(text)
  BY <1>1, <1>6
<1>8. CASE k = i + 2 /\ i + 1 < Len(text) /\ text[i + 1] = c /\ text[i + 2] = d
  <2>1. k # i + 3
    BY <1>1, <1>8
  <2>. QED  BY <1>3, <1>7, <1>8, <2>1, Zenon
<1>9. CASE k = i + 3 /\ i + 2 < Len(text) /\ text[i + 1] = c /\ text[i + 2] = d /\ text[i + 3] = "h"
  <2>1. i + 1 < Len(text)
    BY <1>1, <1>9
  <2>. QED  BY <1>3, <1>7, <1>9, <2>1, Zenon
<1>10. CASE /\ k = i + 4 /\ i + 3 < Len(text) /\ text[i + 1] = "0" /\ text[i + 2] = "x"
            /\ text[i + 3] = c /\ text[i + 4] = d
  <2>1. i + 1 < Len(text)
    BY <1>1, <1>10
  <2>. QED  BY <1>4, <1>7, <1>10, <2>1, Zenon
<1>11. CASE /\ k = i + 4 /\ i + 3 < Len(text) /\ text[i + 1] = "0" /\ text[i + 2] = c
            /\ text[i + 3] = d /\ text[i + 4] = "h"
  <2>1. i + 1 < Len(text)
    BY <1>1, <1>11
  <2>. QED  BY <1>5, <1>7, <1>11, <2>1, Zenon
<1>. QED  BY <1>8, <1>9, <1>10, <1>11, Zenon DEF InForm, FormAt

(* How far a text of two bytes, of which the first ends at a, has been     *)
(* read: up to a form of one of them, or the end of it.                    *)
NotationPlace(a, b, c) ==
  \/ dt = <<>> /\ InForm(text, i, a, b[1], b[2])
  \/ dt = <<ByteOf(b)>> /\ i = a
  \/ dt = <<ByteOf(b)>> /\ InForm(text, i, Len(text), c[1], c[2])
  \/ dt = <<ByteOf(b), ByteOf(c)>> /\ i = Len(text)

(* The inductive invariant. *)
NotationInv ==
  /\ reading \in {"reading", "readingDump"} =>
       /\ Len(text) < HexSizeT
       /\ \A a \in 2 .. 4, b \in Noted, c \in Noted :
            TwoBytes(text, a, b, c) => NotationPlace(a, b, c)
  /\ HexNotations

(* A dump is short enough, too. *)
LEMMA DumpFits ==
  ASSUME NEW d \in Seq(0 .. 255), NEW withSpace \in BOOLEAN, NEW t,
         3 * Len(d) < HexSizeT, Dump(t, d, Len(d), withSpace)
  PROVE  Len(t) < HexSizeT
<1>1. Len(d) \in Nat /\ HexSizeT \in Nat
  BY ElementIs, HexAssumption
<1>2. Len(t) = Begins(withSpace, Len(d))
  BY DEF Dump
<1>. QED  BY <1>1, <1>2 DEF Begins

(* What is read of the digits. *)
LEMMA NotationDigits ==
  ASSUME NEW b \in Noted, NEW c \in Noted
  PROVE  /\ Append(<<>>, Digit[b[1]] * 16 + Digit[b[2]]) = <<ByteOf(b)>>
         /\ Append(<<ByteOf(b)>>, Digit[c[1]] * 16 + Digit[c[2]]) = <<ByteOf(b), ByteOf(c)>>
<1>1. ByteOf(b) \in Nat /\ ByteOf(c) \in Nat
  <2>1. \A x, y \in 0 .. 15 : x * 16 + y \in Nat
    OBVIOUS
  <2>. QED  BY <2>1, DigitsOf, DigitIs, Zenon DEF ByteOf
<1>2. ASSUME NEW x \in Nat, NEW y \in Nat PROVE Append(<<y>>, x) = <<y, x>>
  <2>. DEFINE s == Append(<<y>>, x)
  <2>1. <<y>> \in Seq(Nat) /\ Len(<<y>>) = 1 /\ <<y>>[1] = y
    OBVIOUS
  <2>2. s \in Seq(Nat) /\ Len(s) = 2 /\ s[1] = y /\ s[2] = x
    BY <2>1, AppendIs
  <2>. HIDE DEF s
  <2>3. s = <<y, x>>
    BY <2>2
  <2>. QED  BY <2>3 DEF s
<1>3. \A x \in Nat : Append(<<>>, x) = <<x>>
  OBVIOUS
<1>. QED  BY <1>1, <1>2, <1>3, Zenon DEF ByteOf

(* Neither of the two characters after the first byte is a mark. *)
LEMMA BytesApart ==
  ASSUME HexTypeOK, NEW a \in 2 .. 4, NEW b \in Noted, NEW c \in Noted,
         TwoBytes(text, a, b, c)
  PROVE  /\ a \in Nat /\ Len(text) \in Nat /\ a + 1 < Len(text) /\ 3 <= Len(text)
         /\ CharAt(a) \in {" ", ","} /\ CharAt(a) # "h" /\ CharAt(a + 1) # "h"
         /\ CharAt(Len(text)) # "h" /\ CharAt(Len(text) + 1) # "h"
<1>1. a \in Nat /\ a >= 2 /\ Len(text) \in Nat /\ a + 1 < Len(text)
  <2>1. Len(text) \in Nat
    BY ElementIs DEF HexTypeOK
  <2>2. a + 1 < Len(text)
    BY DEF TwoBytes
  <2>. QED  BY <2>1, <2>2
<1>2. CharAt(a) = text[a + 1] /\ CharAt(a + 1) = text[(a + 1) + 1] /\ a < Len(text)
  BY <1>1, CharIs
<1>3. text[(a + 1) + 1] # "h"
  <2>1. text[(a + 1) + 1] \in {"0", c[1]}
    BY DEF TwoBytes, InForm, FormAt
  <2>2. c[1] # "h"
    BY DigitsOf, DigitIs
  <2>. QED  BY <2>1, <2>2
<1>4. text[a + 1] \in {" ", ","}
  BY DEF TwoBytes
<1>5. CharAt(a) \in {" ", ","} /\ CharAt(a) # "h" /\ CharAt(a + 1) # "h"
  BY <1>2, <1>3, <1>4
<1>6. CharAt(Len(text)) = "NUL" /\ CharAt(Len(text) + 1) = "NUL"
  BY <1>1 DEF CharAt
<1>7. CharAt(Len(text)) # "h" /\ CharAt(Len(text) + 1) # "h"
  BY <1>6
<1>8. 3 <= Len(text)
  BY <1>1
<1>. QED  BY <1>1, <1>5, <1>7, <1>8, Zenon

(* A turn on such a text goes on as it should, and does not refuse it. *)
LEMMA TurnOnNotation ==
  ASSUME HexTypeOK, Scan, Len(text) < HexSizeT, NEW a \in 2 .. 4,
         NEW b \in Noted, NEW c \in Noted, TwoBytes(text, a, b, c), NotationPlace(a, b, c)
  PROVE  NotationPlace(a, b, c)' /\ UNCHANGED <<source, text, reading>>
<1>1. /\ a \in Nat /\ Len(text) \in Nat /\ a + 1 < Len(text) /\ 3 <= Len(text)
      /\ CharAt(a) \in {" ", ","} /\ CharAt(a) # "h" /\ CharAt(a + 1) # "h"
      /\ CharAt(Len(text)) # "h" /\ CharAt(Len(text) + 1) # "h"
  BY BytesApart
<1>2. a <= Len(text) /\ Len(text) <= Len(text) /\ i < Len(text) /\ i \in Nat
  <2>1. i < Len(text) /\ i \in 0 .. Len(text) + 1
    BY DEF Scan, HexTypeOK
  <2>2. Len(text) \in Nat /\ a \in Nat /\ a + 1 < Len(text)
    BY <1>1, Zenon
  <2>3. i \in Nat /\ a <= Len(text) /\ Len(text) <= Len(text)
    BY <2>1, <2>2
  <2>. QED  BY <2>1, <2>3, Zenon
<1>3. CASE dt = <<>> /\ InForm(text, i, a, b[1], b[2])
  <2>1. FormRead(a, b[1], b[2])
    BY <1>1, <1>2, <1>3, DigitsOf, TurnAtForm
  <2>2. UNCHANGED <<source, text, reading>>
    BY <2>1 DEF FormRead
  <2>3. \/ InForm(text, i', a, b[1], b[2]) /\ dt' = <<>>
        \/ i' = a /\ dt' = <<ByteOf(b)>>
    BY <1>3, <2>1, NotationDigits, Zenon DEF FormRead
  <2>4. text' = text
    BY <2>2
  <2>. QED  BY <2>2, <2>3, <2>4, Zenon DEF NotationPlace
<1>4. CASE dt = <<ByteOf(b)>> /\ i = a
  <2>1. CharAt(i) \notin DOMAIN Digit /\ IsSeparator
    BY <1>1, <1>4, DigitIs DEF IsSeparator
  <2>2. Go(1)
    BY <2>1, Zenon DEF Scan
  <2>3. i' = a + 1 /\ dt' = <<ByteOf(b)>> /\ UNCHANGED <<source, text, reading>>
    BY <1>4, <2>2, Zenon DEF Go
  <2>4. InForm(text, a + 1, Len(text), c[1], c[2])
    BY DEF TwoBytes
  <2>5. text' = text
    BY <2>3
  <2>. QED  BY <2>3, <2>4, <2>5, Zenon DEF NotationPlace
<1>5. CASE dt = <<ByteOf(b)>> /\ InForm(text, i, Len(text), c[1], c[2])
  <2>1. FormRead(Len(text), c[1], c[2])
    BY <1>1, <1>2, <1>5, DigitsOf, TurnAtForm
  <2>2. UNCHANGED <<source, text, reading>>
    BY <2>1 DEF FormRead
  <2>3. \/ InForm(text, i', Len(text), c[1], c[2]) /\ dt' = <<ByteOf(b)>>
        \/ i' = Len(text) /\ dt' = <<ByteOf(b), ByteOf(c)>>
    BY <1>5, <2>1, NotationDigits, Zenon DEF FormRead
  <2>4. text' = text
    BY <2>2
  <2>. QED  BY <2>2, <2>3, <2>4, Zenon DEF NotationPlace
<1>6. i # Len(text)
  BY <1>2
<1>. QED  BY <1>3, <1>4, <1>5, <1>6, Zenon DEF NotationPlace

(* No text is refused that is written in these notations. *)
LEMMA NotationScan ==
  ASSUME HexTypeOK, NotationInv, Scan
  PROVE  NotationInv'
<1>1. reading \in {"reading", "readingDump"} /\ text' = text
  BY ScanIs DEF Scan, Scanning, Go, Refused, Read
<1>2. Len(text) < HexSizeT /\ \A a \in 2 .. 4, b \in Noted, c \in Noted : TwoBytes(text, a, b, c) => NotationPlace(a, b, c)
  BY <1>1 DEF NotationInv
<1>3. \A a \in 2 .. 4, b \in Noted, c \in Noted : TwoBytes(text, a, b, c) => NotationPlace(a, b, c)' /\ reading' = reading
  BY <1>2, TurnOnNotation
<1>4. reading' \notin {"textRead", "refused"} \/ \A b, c \in Noted : text' \notin Notations(b, c)
  <2>1. ASSUME NEW b \in Noted, NEW c \in Noted, text' \in Notations(b, c) PROVE reading' = reading
    BY <1>1, <1>3, <2>1, NotationIs
  <2>2. reading \notin {"textRead", "refused"}
    BY <1>1
  <2>. QED  BY <2>1, <2>2
<1>5. HexNotations'
  BY <1>4 DEF HexNotations
<1>6. \A a \in 2 .. 4, b \in Noted, c \in Noted : TwoBytes(text, a, b, c)' => NotationPlace(a, b, c)'
  BY <1>1, <1>3 DEF TwoBytes
<1>. QED  BY <1>1, <1>2, <1>5, <1>6 DEF NotationInv

(* At the end of one its bytes have been read. *)
LEMMA NotationDone ==
  ASSUME HexTypeOK, NotationInv, HexDone
  PROVE  NotationInv'
<1>1. /\ reading \in {"reading", "readingDump"} /\ text' = text /\ dt' = dt /\ i >= Len(text)
      /\ reading' \in {"textRead", "dumpRead"}
  BY DEF HexDone, Scanning
<1>2. ASSUME NEW b \in Noted, NEW c \in Noted, text \in Notations(b, c)
      PROVE  dt = <<ByteOf(b), ByteOf(c)>>
  <2>1. PICK a \in 2 .. 4 : TwoBytes(text, a, b, c)
    BY <1>2, NotationIs
  <2>2. NotationPlace(a, b, c)
    BY <1>1, <2>1 DEF NotationInv
  <2>3. a + 1 < Len(text) /\ a \in Nat /\ Len(text) \in Nat /\ i \in Nat
    <3>1. i \in 0 .. Len(text) + 1
      BY DEF HexTypeOK
    <3>2. a + 1 < Len(text) /\ a \in Nat /\ Len(text) \in Nat
      BY <2>1, BytesApart
    <3>. QED  BY <3>1, <3>2
  <2>4. ~(i = a) /\ ~(i + 1 < Len(text))
    BY <1>1, <2>3
  <2>5. \A k, p, q : ~InForm(text, i, k, p, q)
    BY <2>4 DEF InForm, FormAt
  <2>. QED  BY <2>2, <2>4, <2>5, Zenon DEF NotationPlace
<1>3. HexNotations'
  <2>1. reading' # "refused"
    BY <1>1
  <2>2. reading' = "textRead" \/ reading' = "dumpRead"
    BY <1>1
  <2>3. \A b, c \in Noted : text' \in Notations(b, c) => dt' = <<ByteOf(b), ByteOf(c)>>
    BY <1>1, <1>2
  <2>4. reading' = "dumpRead" => reading' \notin {"textRead", "refused"}
    OBVIOUS
  <2>. QED  BY <2>2, <2>3, <2>4 DEF HexNotations
<1>4. reading' \notin {"reading", "readingDump"}
  BY <1>1
<1>. QED  BY <1>3, <1>4 DEF NotationInv

(* Any text is read from its begin. *)
LEMMA NotationBegin ==
  ASSUME HexInv, HexInv', NotationInv, ReadDump \/ ReadText
  PROVE  NotationInv'
<1>1. reading' \in {"reading", "readingDump"} /\ i' = 0 /\ dt' = <<>>
  BY DEF ReadDump, ReadText, Begin
<1>2. Len(text') < HexSizeT
  <2>1. CASE ReadText
    BY <2>1, HexAssumption DEF ReadText, Begin
  <2>2. CASE ReadDump
    <3>1. HexTypeOK' /\ ReadsDump'
      BY <2>2 DEF ReadDump, HexInv
    <3>2. PICK withSpace \in BOOLEAN : Dump(text', source', Len(source'), withSpace)
      BY <3>1 DEF ReadsDump
    <3>3. source' \in Seq(0 .. 255) /\ 3 * Len(source') < HexSizeT
      BY <3>1 DEF HexTypeOK, ReadsDump
    <3>. QED  BY <3>2, <3>3, DumpFits
  <2>. QED  BY <2>1, <2>2
<1>3. \A a \in 2 .. 4, b \in Noted, c \in Noted : TwoBytes(text, a, b, c)' => NotationPlace(a, b, c)'
  BY <1>1 DEF TwoBytes, NotationPlace
<1>4. HexNotations'
  BY <1>1 DEF HexNotations
<1>. QED  BY <1>2, <1>3, <1>4 DEF NotationInv

LEMMA NotationStep == HexInv /\ NotationInv /\ [HexNext]_hexvars => NotationInv'
<1>. SUFFICES ASSUME HexInv, NotationInv, [HexNext]_hexvars PROVE NotationInv'
  OBVIOUS
<1>1. HexInv' /\ HexTypeOK
  BY HexStep DEF HexInv
<1>2. CASE ReadDump \/ ReadText
  BY <1>1, <1>2, NotationBegin
<1>3. CASE Scan
  BY <1>1, <1>3, NotationScan
<1>4. CASE HexDone
  BY <1>1, <1>4, NotationDone
<1>5. CASE UNCHANGED hexvars
  <2>1. text' = text /\ i' = i /\ dt' = dt /\ reading' = reading
    BY <1>5 DEF hexvars
  <2>. QED  BY <2>1 DEF NotationInv, HexNotations, NotationPlace, TwoBytes
<1>. QED  BY <1>2, <1>3, <1>4, <1>5 DEF HexNext

(* The notations agree: any two bytes, each written as 1A, 0x1A, 1Ah or    *)
(* 01Ah, with a space or a comma between them, are read as those bytes,    *)
(* for any size of a size_t that holds the lengths of the texts.           *)
THEOREM NotationsAgree == HexSpec => []HexNotations
<1>1. HexInit => NotationInv
  BY DEF HexInit, NotationInv, HexNotations
<1>2. NotationInv => HexNotations
  BY DEF NotationInv
<1>. QED  BY <1>1, <1>2, NotationStep, DumpsAreScanned, PTL DEF HexSpec

-----------------------------------------------------------------------------
(* The components side by side. *)

(* A step is of one of them and leaves the others. *)
LEMMA OneAtATime ==
  [Next]_memvars =>
    /\ [AsnNext]_asnvars /\ [BaNext]_bavars /\ [HexNext]_hexvars
    /\ [PadNext]_padvars /\ [RlNext]_rlvars /\ [SodNext]_sodvars
BY DEF Next, memvars, AsnAlone

(* What TLC runs is each of the components: what is proved of one of them  *)
(* holds of it.                                                            *)
THEOREM EachComponent ==
  FairSpec => AsnSpec /\ BaSpec /\ HexSpec /\ PadSpec /\ RlSpec /\ SodSpec
<1>1. Init => AsnInit /\ BaInit /\ HexInit /\ PadInit /\ RlInit /\ SodInit
  BY DEF Init
<1>. QED  BY <1>1, OneAtATime, PTL
          DEF FairSpec, AsnSpec, BaSpec, HexSpec, PadSpec, RlSpec, SodSpec

(* The types of all of the components: the list is counted right, no entry *)
(* is compared that is not there, and a removal returns a place in the     *)
(* array.                                                                  *)
THEOREM MemoryTypes == FairSpec => []MemoryTypeOK
<1>1. (AsnTypeOK /\ Small) /\ (BaTypeOK /\ OwnedOnce)
        /\ HexInv /\ PadInv /\ RlInv /\ (SodTypeOK /\ AcceptedIsSigned)
      => MemoryTypeOK
  BY DEF MemoryTypeOK, HexInv, PadInv, RlInv
<1>. QED  BY <1>1, EachComponent, TypeCorrect, Ownership, DumpsAreScanned, PaddingInvariance,
             RlInvariant, AcceptanceIsSigned, PTL

=============================================================================
