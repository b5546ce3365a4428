------------------------------ MODULE ByteArrays ------------------------------
(***************************************************************************)
(* ByteDynArray and ByteArray: arrays that own the block of memory that    *)
(* holds their bytes, and views, which own nothing.  One step is one call. *)
(***************************************************************************)
EXTENDS Naturals, Sequences

CONSTANTS
  Arrays,      \* the ByteDynArrays of the program
  Blocks,      \* what new may return, never twice before delete[]
  NullBlock,   \* the null pointer
  Data,        \* the bytes that come from outside of the arrays
  MaxSize,     \* the size of the largest array that new allocates
  SliceSizes,  \* what mid is called with
  BaSizeT      \* the number of values of a size_t

ByteValue == {"x", "y", "junk"}  \* junk is what new uint8_t[] leaves

ASSUME BlocksAssumption ==
  /\ NullBlock \notin Blocks
  /\ Data \subseteq Seq(ByteValue)
  /\ MaxSize \in Nat /\ BaSizeT \in Nat /\ MaxSize < BaSizeT
  /\ SliceSizes \subseteq 0 .. BaSizeT - 1

VARIABLES
  block,   \* _data of each array
  live,    \* the blocks that are allocated
  bytes,   \* what each block holds; its length is _size of its owner
  view,    \* a ByteArray
  lost,    \* the blocks that a move wrote over (a history variable)
  broken,  \* the array whose call read what is not the view's, or none
  stale    \* whether the view's block was freed (a history variable)

bavars == <<block, live, bytes, view, lost, broken, stale>>

NoArray == "none"
Value(x) == IF block[x] = NullBlock THEN <<>> ELSE bytes[block[x]]
Junk(n) == [i \in 1 .. n |-> "junk"]
Owned(x) == {block[x]} \ {NullBlock}

View(b, start, size) == [block |-> b, start |-> start, size |-> size]
ViewBytes == SubSeq(bytes[view.block], view.start + 1, view.start + view.size)

(* Whether the view may be read when these are the blocks that live, and   *)
(* these what they hold.                                                   *)
Readable(alive, held) ==
  \/ view.size = 0
  \/ view.block \in alive /\ view.start + view.size <= Len(held[view.block])

Frees(x) == stale' = (stale \/ view.block \in Owned(x))

(* new and delete[]: x has this value, in the block b, and its own block   *)
(* is freed before, so that b may be the same one, or after.               *)
Replace(x, b, value) ==
  /\ block' = [block EXCEPT ![x] = b]
  /\ live' = (live \ Owned(x)) \cup {b}
  /\ bytes' = [c \in Blocks |-> IF c = b THEN value
                                ELSE IF c = block[x] THEN <<>> ELSE bytes[c]]
  /\ Frees(x)

FreedBefore(x) == Blocks \ (live \ Owned(x))
FreedAfter == Blocks \ live

Break(x) == broken' = x /\ UNCHANGED <<block, live, bytes, view, lost, stale>>

-----------------------------------------------------------------------------
(* The copy constructors and operator = (const ByteDynArray &): alloc_copy *)
(* lets go of the block first, so that of an array assigned to itself      *)
(* nothing is left.                                                        *)
CopyAssign(x, y) ==
  /\ \E b \in FreedBefore(x) : Replace(x, b, IF x = y THEN <<>> ELSE Value(y))
  /\ UNCHANGED <<view, lost, broken>>

(* Mutant of MoveAssign: the other array keeps its pointer. *)
MoveAssignKeeping(x, y) ==
  /\ block' = [block EXCEPT ![x] = block[y]]
  /\ lost' = lost \cup Owned(x)
  /\ UNCHANGED <<live, bytes, view, broken, stale>>

(* operator = (ByteDynArray &&): the block that x had is not freed. *)
MoveAssign(x, y) ==
  /\ block' = [block EXCEPT ![x] = block[y], ![y] = NullBlock]
  /\ lost' = lost \cup Owned(x)
  /\ UNCHANGED <<live, bytes, view, broken, stale>>

(* A ByteArray, assigned: a temporary copy of it, moved. *)
AssignBytes(x, value) ==
  /\ \E b \in FreedAfter :
       /\ block' = [block EXCEPT ![x] = b]
       /\ live' = live \cup {b}
       /\ bytes' = [bytes EXCEPT ![b] = value]
  /\ lost' = lost \cup Owned(x)
  /\ UNCHANGED <<view, broken, stale>>

(* For a view that is too large, new throws.                               *)
AssignView(x) ==
  /\ view.size <= MaxSize
  /\ \/ Readable(live, bytes) /\ AssignBytes(x, IF view.size = 0 THEN <<>> ELSE ViewBytes)
     \/ ~Readable(live, bytes) /\ Break(x)

(* resize: as much as fits of what there was is kept, if that is asked. *)
Resized(value, size, keep) ==
  IF ~keep THEN Junk(size)
  ELSE [i \in 1 .. size |-> IF i <= Len(value) THEN value[i] ELSE "junk"]

(* Mutant of Resize: the block that is replaced is not freed. *)
ResizeNotClearing(x, size, keep) ==
  /\ \E b \in FreedAfter :
       /\ block' = [block EXCEPT ![x] = b]
       /\ live' = live \cup {b}
       /\ bytes' = [bytes EXCEPT ![b] = Resized(Value(x), size, keep)]
  /\ UNCHANGED <<view, lost, broken, stale>>

Resize(x, size, keep) ==
  /\ \E b \in IF keep THEN FreedAfter ELSE FreedBefore(x) :
       Replace(x, b, Resized(Value(x), size, keep))
  /\ UNCHANGED <<view, lost, broken>>

(* append and push: the array is resized and the new bytes are copied to   *)
(* its right.                                                              *)
Extend(x, value) ==
  /\ value # <<>>
  /\ Len(Value(x)) + Len(value) <= MaxSize
  /\ \E b \in FreedAfter : Replace(x, b, Value(x) \o value)
  /\ UNCHANGED <<view, lost, broken>>

(* append of an array; of x itself, whose bytes are copied when it has its *)
(* new size, all are copied onto themselves.                               *)
AppendArray(x, y) ==
  Extend(x, IF x = y THEN Junk(Len(Value(y))) ELSE Value(y))

(* Mutant of AppendView: as much as the new size is copied. *)
AppendViewWhole(x) ==
  LET size == Len(Value(x)) + view.size IN
  /\ view.size > 0 /\ view.block \in live
  /\ size <= MaxSize
  /\ view.start + size > Len(bytes[view.block])
  /\ Break(x)

(* append of a view, whose bytes are read when the old block of x is gone. *)
(* The new size is a sum of size_t: where it wrapped around, rightcopy     *)
(* throws, of an array that was cut; for one that is too large, new does.  *)
AppendView(x) ==
  LET size == (Len(Value(x)) + view.size) % BaSizeT IN
  /\ view.size > 0
  /\ size <= MaxSize
  /\ \E b \in FreedAfter :
       LET alive == (live \ Owned(x)) \cup {b}
           held == [bytes EXCEPT ![b] = Resized(Value(x), size, TRUE)]
           read == SubSeq(held[view.block], view.start + 1, view.start + view.size)
       IN \/ /\ view.size > size
             /\ Replace(x, b, Resized(Value(x), size, TRUE))
             /\ UNCHANGED <<view, lost, broken>>
          \/ /\ view.size <= size /\ ~Readable(alive, held)
             /\ Break(x)
          \/ /\ view.size <= size /\ Readable(alive, held)
             /\ Replace(x, b, Value(x) \o read)
             /\ UNCHANGED <<view, lost, broken>>

(* clear, and the destructor. *)
Clear(x) ==
  /\ block' = [block EXCEPT ![x] = NullBlock]
  /\ live' = live \ Owned(x)
  /\ bytes' = [c \in Blocks |-> IF c = block[x] THEN <<>> ELSE bytes[c]]
  /\ Frees(x)
  /\ UNCHANGED <<view, lost, broken>>

(* mid, left, right, revmid and the constructors of a derived array: what  *)
(* does not lie in the array throws, unless the sum of its start and its   *)
(* size, which are size_t, wraps around.                                   *)
Slice(x, start, size) ==
  /\ (start + size) % BaSizeT <= Len(Value(x))
  /\ view' = View(block[x], start, size)
  /\ stale' = FALSE
  /\ UNCHANGED <<block, live, bytes, lost, broken>>

BaInit ==
  /\ block = [x \in Arrays |-> NullBlock]
  /\ live = {}
  /\ bytes = [b \in Blocks |-> <<>>]
  /\ view = View(NullBlock, 0, 0)
  /\ lost = {}
  /\ broken = NoArray
  /\ stale = FALSE

Call(x) ==
  \/ \E y \in Arrays : CopyAssign(x, y) \/ MoveAssign(x, y) \/ AppendArray(x, y)
  \/ \E value \in Data : AssignBytes(x, value) \/ Extend(x, value)
  \/ AssignView(x)
  \/ AppendView(x)
  \/ \E size \in 0 .. MaxSize, keep \in BOOLEAN : Resize(x, size, keep)
  \/ Clear(x)
  \/ \E start, size \in SliceSizes : Slice(x, start, size)

BaNext == broken = NoArray /\ \E x \in Arrays : Call(x)

BaSpec == BaInit /\ [][BaNext]_bavars

-----------------------------------------------------------------------------
(* The state is of these types; no view has a negative size. *)
BaTypeOK ==
  /\ block \in [Arrays -> Blocks \cup {NullBlock}]
  /\ live \subseteq Blocks
  /\ bytes \in [Blocks -> Seq(ByteValue)]
  /\ view \in [block : Blocks \cup {NullBlock}, start : Nat, size : Nat]
  /\ lost \subseteq Blocks
  /\ broken \in Arrays \cup {NoArray}
  /\ stale \in BOOLEAN

(* No sequence of calls lets two arrays own one block, or an array a freed *)
(* one, so that no destructor frees a block twice.                         *)
OwnedOnce ==
  /\ \A x \in Arrays : block[x] \in live \cup {NullBlock}
  /\ \A x, y \in Arrays : x # y /\ block[x] # NullBlock => block[x] # block[y]

(* A block that no array owns was lost to a move assignment, which does    *)
(* not free what it writes over: no other call leaks.                      *)
OnlyMovesLeak ==
  /\ live = lost \cup UNION {Owned(x) : x \in Arrays}
  /\ \A x \in Arrays : block[x] \notin lost

(* A call changes the bytes of one array only, but for a move, which takes *)
(* those of the other one.                                                 *)
OthersUnchanged ==
  [][\A x, y \in Arrays :
       x # y /\ Value(x)' # Value(x) /\ Value(y)' # Value(y) =>
         \/ Value(x)' = Value(y) /\ Value(y)' = <<>>
         \/ Value(y)' = Value(x) /\ Value(x)' = <<>>]_bavars

(* A call reads memory that is not the view's only if the view is of the   *)
(* array that the call resizes, or was left behind when its array let go   *)
(* of the block, or never was in it, for its end wrapped around: no call   *)
(* of another array disturbs a view that was in its array when it was cut. *)
BreaksOnOwnView ==
  broken # NoArray =>
    \/ view.block = block[broken]
    \/ stale
    \/ view.start + view.size >= BaSizeT

=============================================================================
