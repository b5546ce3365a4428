------------------------------ MODULE MCInMemory ------------------------------
(***************************************************************************)
(* The components that work on the memory of one thread, side by side: a   *)
(* behaviour of one of them, while the others have not begun.  They share  *)
(* nothing, so that their interleavings would show nothing.                *)
(***************************************************************************)
EXTENDS Asn1, ByteArrays, HexText, Padding, ReaderList, MCSodCheck

(* Arrays of all the bytes that matter to the parser, and of lengths that  *)
(* wrap around (SizeT is 256^2), or have one byte or two, or a tag of two. *)
AsnInputs ==
  BoundedSeq({0, 2, 3, 31, 48, 128, 129}, 4)
  \cup {<<48>> \o s : s \in BoundedSeq({0, 1, 2, 3, 49, 63, 128}, 4)}
  \cup {<<t, 130, 255, b, 0, 0>> : t \in {0, 2, 48}, b \in 248 .. 255}
  \cup {<<t, 131, 1, 0, b, 9>> : t \in {0, 2, 48}, b \in 0 .. 2}
  \cup {<<48, 6, 49, 2, 4, 0, 3, 0>>, <<3, 5, 0, 48, 3, 4, 1, 7>>,
        <<63, 129, 1, 2, 4, 0>>, <<48, 8, 63, 129, 1, 3, 31, 2, 1, 9>>}
  \cup {<<4, 129, n>> \o Repeat(7, n) \o <<2, 1, 5>> : n \in {127, 128, 255}}
  \cup {<<48, 130, 1, 6, 4, 130, 1, 2>> \o Repeat(7, 258)}

ExternalBytes == {<<"x">>}

HexTexts ==
  BoundedSeq({"0", "1", "a", " ", "x", "h", "other"}, 4)
  \cup UNION {Notations(b, c) : b, c \in Noted} \cup {<<"1", ",">>}
NotedDigits == {<<"0", "0">>, <<"0", "1">>, <<"1", "a">>, <<"F", "0">>}
DumpedBytes == BoundedSeq({0, 1, 16, 171, 255}, 3)

PaddedMessages ==
  BoundedSeq({0, 1, 128, 255}, 3)
  \cup {Repeat(7, n) : n \in {7, 8, 9, 15, 16, 17, 239, 240, 255, 256, 257, 272}}
ReceivedPaddings == BoundedSeq({0, 1, 2, 128, 255}, 5)

Readers == BoundedSeq(0 .. 3, 3)

-----------------------------------------------------------------------------
memvars == <<asnvars, bavars, hexvars, padvars, rlvars, sodvars>>

Init == AsnInit /\ BaInit /\ HexInit /\ PadInit /\ RlInit /\ SodInit

AsnAlone == /\ BaInit /\ HexInit /\ PadInit /\ RlInit /\ SodInit
            /\ UNCHANGED <<bavars, hexvars, padvars, rlvars, sodvars>>

Next ==
  \/ AsnAlone /\ AsnNext
  \/ /\ AsnInit /\ HexInit /\ PadInit /\ RlInit /\ SodInit /\ BaNext
     /\ UNCHANGED <<asnvars, hexvars, padvars, rlvars, sodvars>>
  \/ /\ AsnInit /\ BaInit /\ PadInit /\ RlInit /\ SodInit /\ HexNext
     /\ UNCHANGED <<asnvars, bavars, padvars, rlvars, sodvars>>
  \/ /\ AsnInit /\ BaInit /\ HexInit /\ RlInit /\ SodInit /\ PadNext
     /\ UNCHANGED <<asnvars, bavars, hexvars, rlvars, sodvars>>
  \/ /\ AsnInit /\ BaInit /\ HexInit /\ PadInit /\ SodInit /\ RlNext
     /\ UNCHANGED <<asnvars, bavars, hexvars, padvars, sodvars>>
  \/ /\ AsnInit /\ BaInit /\ HexInit /\ PadInit /\ RlInit /\ SodNext
     /\ UNCHANGED <<asnvars, bavars, hexvars, padvars, rlvars>>

(* The state of each component is of its types.  More than that: what is   *)
(* left of the list's array is always counted right, no entry of a name is *)
(* compared that is not there, and a removal returns a place in the array. *)
MemoryTypeOK ==
  AsnTypeOK /\ BaTypeOK /\ HexTypeOK /\ PadTypeOK /\ RlTypeOK /\ SodTypeOK

(* A call of the parser goes on; nothing else is assumed. *)
FairSpec == Init /\ [][Next]_memvars /\ WF_memvars(AsnAlone /\ (LevelEnds \/ Turn))

=============================================================================
