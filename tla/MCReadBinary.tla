----------------------------- MODULE MCReadBinary -----------------------------
(* A small instance of ReadBinary for TLC: pages of two bytes, four of which  *)
(* have an offset of one byte, and an offset of two bytes that wraps.        *)
EXTENDS ReadBinary

AnyRequest == {All} \cup 0 .. 9

=============================================================================
