------------------------------- MODULE Padding -------------------------------
(***************************************************************************)
(* The paddings of util.cpp: block types 0, 1 and 2 of PKCS #1, which go   *)
(* before a message, and those of ISO and ANSI, which go after it.  One    *)
(* step pads a message, or removes a padding, from an array.               *)
(***************************************************************************)
EXTENDS Integers, Sequences, SequencesExt

CONSTANTS
  Messages,     \* what is padded
  PadSizes,     \* the sizes of the arrays that are padded to the left
  Paddings,     \* arrays of any origin, from which a padding is removed
  RandomBytes,  \* what RAND_bytes may write
  PadSizeT      \* the number of values of a size_t

PadByte == 0 .. 255

ASSUME PaddingAssumption ==
  /\ Messages \cup Paddings \subseteq Seq(PadByte)
  /\ RandomBytes \subseteq PadByte
  /\ PadSizeT \in Nat \ {0} /\ PadSizes \subseteq 0 .. PadSizeT - 1

VARIABLES
  scheme,   \* the padding: "BT0", "BT1", "BT2", "ISO", "ISO16", "ANSI"
  message,  \* what was padded
  array,    \* the array with its padding
  offset,   \* what the removal returns
  padding   \* where the use of the padding is

padvars == <<scheme, message, array, offset, padding>>

Repeat(byte, n) == [i \in 1 .. n |-> byte]
SizeSum(a, b) == (a + b) % PadSizeT

-----------------------------------------------------------------------------
(* Before the message, which is the end of the array. *)

PutPaddingBT0(m, n) ==
  /\ scheme' = "BT0" /\ message' = m /\ UNCHANGED offset
  /\ \/ Len(m) > n /\ padding' = "notPadded" /\ array' = Repeat(0, n)
     \/ /\ Len(m) <= n
        /\ padding' = "padded"
        /\ array' = Repeat(0, n - Len(m)) \o m

Filled(type, n) ==
  IF type = 1 THEN {Repeat(255, n)} ELSE [1 .. n -> RandomBytes]

(* Mutant of PutPaddingBT: the length is not checked. *)
PutPaddingBTUnchecked(type, m, n) ==
  LET fill == SizeSum(n - Len(m), -3)
      refused == n < 2 \/ SizeSum(2, fill) > n
  IN
  /\ scheme' = (IF type = 1 THEN "BT1" ELSE "BT2") /\ message' = m
  /\ UNCHANGED offset
  /\ ~refused /\ 2 + fill > n /\ padding' = "undefined" /\ array' = Repeat(0, n)

(* PutPaddingBT1 and PutPaddingBT2.  The sizes are compared as size_t: of  *)
(* an array of two bytes more than it has is filled.  What is written into *)
(* an array before it is refused is left out.                              *)
PutPaddingBT(type, m, n) ==
  LET fill == SizeSum(n - Len(m), -3)
      refused == Len(m) > SizeSum(n, -3) \/ n < 2 \/ SizeSum(2, fill) > n
  IN
  /\ scheme' = (IF type = 1 THEN "BT1" ELSE "BT2") /\ message' = m
  /\ UNCHANGED offset
  /\ \/ refused /\ padding' = "notPadded" /\ array' = Repeat(0, n)
     \/ ~refused /\ 2 + fill > n /\ padding' = "undefined" /\ array' = Repeat(0, n)
     \/ /\ ~refused /\ 2 + fill <= n
        /\ padding' = "padded"
        /\ \E filling \in Filled(type, fill) :
             array' = <<0, type>> \o filling \o <<0>> \o m

-----------------------------------------------------------------------------
(* After the message. *)

ISOPadLen16(len) ==
  IF len % 16 = 0 /\ (len \div 256) % 2 = 0 THEN len + 16 ELSE (len \div 16) * 16 + 16

ISOPadLen(len) == IF len % 8 = 0 THEN len + 8 ELSE (len \div 8) * 8 + 8

ANSIPadLen(len) == IF len % 8 = 0 THEN len ELSE (len \div 8) * 8 + 8

ISOPad(m, size) == m \o <<128>> \o Repeat(0, size - Len(m) - 1)

PadRight(s, m) ==
  /\ padding' = "padded"
  /\ scheme' = s /\ message' = m
  /\ array' = CASE s = "ISO" -> ISOPad(m, ISOPadLen(Len(m)))
                [] s = "ISO16" -> ISOPad(m, ISOPadLen16(Len(m)))
                [] s = "ANSI" -> m \o Repeat(0, ANSIPadLen(Len(m)) - Len(m))
  /\ UNCHANGED offset

-----------------------------------------------------------------------------
(* Removing: the end of the padding before a message, or of the message. *)

Zeros == {i \in 3 .. Len(array) : array[i] = 0}

Refuse ==
  /\ padding' = IF padding = "padded" THEN "refused" ELSE "rejected"
  /\ UNCHANGED <<scheme, message, array, offset>>

Return(n) ==
  /\ padding' = IF padding = "padded" THEN "removed" ELSE "stripped"
  /\ offset' = n
  /\ UNCHANGED <<scheme, message, array>>

(* Mutant of RemovePaddingBT: what fills the padding is not looked at. *)
RemovePaddingBTAnyFilling(type) ==
  /\ Zeros # {} /\ array[1] = 0 /\ array[2] = type
  /\ Return(Min(Zeros))

(* RemovePaddingBT1 and RemovePaddingBT2: the first zero ends the padding. *)
RemovePaddingBT(type) ==
  LET good == /\ Zeros # {}
              /\ array[1] = 0 /\ array[2] = type
              /\ type = 1 => \A i \in 3 .. Min(Zeros) - 1 : array[i] = 255
  IN (good /\ Return(Min(Zeros))) \/ (~good /\ Refuse)

(* RemoveISOPad: the last byte that is not zero must be the mark. *)
RemoveISOPad ==
  LET marks == {i \in DOMAIN array : array[i] # 0}
      good == marks # {} /\ array[Max(marks)] = 128
  IN (good /\ Return(Max(marks) - 1)) \/ (~good /\ Refuse)

RemovePadded ==
  /\ padding = "padded"
  /\ \/ scheme = "BT1" /\ RemovePaddingBT(1)
     \/ scheme = "BT2" /\ RemovePaddingBT(2)
     \/ scheme \in {"ISO", "ISO16"} /\ RemoveISOPad

(* An array of another origin, whose padding is to be removed. *)
Receive(s, bytes) ==
  /\ padding' = "received"
  /\ scheme' = s
  /\ array' = bytes
  /\ UNCHANGED <<message, offset>>

RemoveReceived ==
  /\ padding = "received"
  /\ \/ scheme = "BT1" /\ RemovePaddingBT(1)
     \/ scheme = "BT2" /\ RemovePaddingBT(2)
     \/ scheme = "ISO" /\ RemoveISOPad

PadInit ==
  /\ scheme = "none"
  /\ message = <<>>
  /\ array = <<>>
  /\ offset = 0
  /\ padding = "idle"

PadNext ==
  \/ /\ padding = "idle"
     /\ \/ \E m \in Messages, n \in PadSizes :
             PutPaddingBT0(m, n) \/ PutPaddingBT(1, m, n) \/ PutPaddingBT(2, m, n)
        \/ \E m \in Messages, s \in {"ISO", "ISO16", "ANSI"} : PadRight(s, m)
        \/ \E bytes \in Paddings, s \in {"BT1", "BT2", "ISO"} : Receive(s, bytes)
  \/ RemovePadded
  \/ RemoveReceived

PadSpec == PadInit /\ [][PadNext]_padvars

-----------------------------------------------------------------------------
BeforeOffset == SubSeq(array, 1, offset)
AfterOffset == SubSeq(array, offset + 1, Len(array))

(* The state is of these types, and what a removal returns is a position   *)
(* in the array.                                                           *)
PadTypeOK ==
  /\ scheme \in {"none", "BT0", "BT1", "BT2", "ISO", "ISO16", "ANSI"}
  /\ message \in Seq(PadByte) /\ array \in Seq(PadByte)
  /\ offset \in 0 .. Len(array)
  /\ padding \in {"idle", "padded", "notPadded", "received", "removed", "refused",
                  "stripped", "rejected", "undefined"}

(* Putting and removing are inverse.  Removing a padding that was put      *)
(* gives the message back; but of type 2 only its end, when a random byte  *)
(* of the filling is a zero.  A padding is removed only from what can be   *)
(* the result of putting one.                                              *)
PadInverse ==
  /\ padding # "refused"
  /\ padding = "removed" =>
       CASE scheme = "BT1" -> AfterOffset = message
         [] scheme = "BT2" -> \/ AfterOffset = message
                              \/ /\ IsSuffix(message, AfterOffset)
                                 /\ 0 \in Range(SubSeq(array, 3, Len(array) - Len(message) - 1))
         [] OTHER -> BeforeOffset = message
  /\ padding = "stripped" =>
       CASE scheme = "BT1" ->
              array = <<0, 1>> \o Repeat(255, offset - 3) \o <<0>> \o AfterOffset
         [] scheme = "BT2" ->
              /\ SubSeq(array, 1, 2) = <<0, 2>> /\ array[offset] = 0
              /\ 0 \notin Range(SubSeq(array, 3, offset - 1))
         [] scheme = "ISO" -> array = ISOPad(BeforeOffset, Len(array))

(* The lengths are right, in spite of a mask with a bit too many and of    *)
(* sizes that wrap around: a padded array is whole blocks, the padding     *)
(* being a block at most, and that of ISO never empty; and the filling     *)
(* leaves the array only if that has exactly two bytes.                    *)
PadLengths ==
  LET more == Len(array) - Len(message) IN
  /\ padding = "padded" =>
       CASE scheme = "ISO" -> Len(array) % 8 = 0 /\ more \in 1 .. 8
         [] scheme = "ISO16" -> Len(array) % 16 = 0 /\ more \in 1 .. 16
         [] scheme = "ANSI" -> Len(array) % 8 = 0 /\ more \in 0 .. 7
         [] OTHER -> TRUE
  /\ padding = "undefined" => Len(array) = 2

=============================================================================
